----------------------------- MODULE SecretVault -----------------------------
(***************************************************************************)
(* EncryptedSqliteSecretStore (src/protoprompt/secrets/store.py): one      *)
(* vault object on one SQLite file and one key provider, used by the       *)
(* threads of one process, which may crash at any step and open the vault  *)
(* again.                                                                  *)
(*                                                                         *)
(* The lock of the object covers single statements and the transaction of  *)
(* rotate_key, so each step between two acquisitions is an action of its   *)
(* own: put encrypts before it takes the lock, get decrypts after it gave  *)
(* the lock back, and rotate_key switches the cipher and the provider      *)
(* after its transaction.  A ciphertext is the key it was made with; its   *)
(* plaintext is left out, and of its timestamp and ttl only whether the    *)
(* time to live has elapsed.                                               *)
(***************************************************************************)
EXTENDS Naturals, FiniteSets

CONSTANTS
  Names,            \* (scope, key) pairs
  Keys,             \* master keys; each rotation takes one never used before
  FirstKey,         \* the key the host installed before the first start
  Threads,
  DurableProvider,  \* FALSE: os.environ, whose changes die with the process
  None

ASSUME VaultConstants ==
  /\ FirstKey \in Keys
  /\ DurableProvider \in BOOLEAN

VARIABLES
  rows,      \* the table secrets: Names -> a token or None
  pending,   \* the pending_rotation row of secret_meta, or None
  provider,  \* the key the provider returns
  used,      \* every key that was ever chosen for a rotation
  boot,      \* how far __init__ has come: "closed" .. "open"
  fernet,    \* self._fernet, as the key it encrypts with
  task       \* what each thread is doing

vars == <<rows, pending, provider, used, boot, fernet, task>>
file == <<rows, pending>>

Token == [key : Keys, expired : BOOLEAN]
Wrapped == [under : Keys, key : Keys]

ASSUME NoneIsNoRecord == None \notin Token \cup Wrapped

Idle == [op |-> "idle"]
Tasks ==
  {Idle, [op |-> "checked"]}
    \cup [op : {"get", "put"}, name : Names, token : Token]
    \cup [op : {"drop"}, name : Names]
    \cup [op : {"wrapped"}, wrap : Wrapped]
    \cup [op : {"committed", "switched"}, key : Keys]
    \cup [op : {"clearing"}]

Stored == {n \in Names : rows[n] # None}
Doing(t, op) == boot = "open" /\ task[t].op = op
Turn(t, next) == task' = [task EXCEPT ![t] = next]

VaultTypeOK ==
  /\ rows \in [Names -> Token \cup {None}]
  /\ pending \in Wrapped \cup {None}
  /\ provider \in Keys
  /\ used \subseteq Keys
  /\ boot \in {"closed", "recovering", "adopting", "clearing", "open"}
  /\ fernet \in Keys
  /\ task \in [Threads -> Tasks]

Init ==
  /\ rows = [n \in Names |-> None]
  /\ pending = None
  /\ provider = FirstKey
  /\ used = {FirstKey}
  /\ boot = "closed"
  /\ fernet = FirstKey
  /\ task = [t \in Threads |-> Idle]

-----------------------------------------------------------------------------
(* get, put and delete.                                                     *)

Decrypts(k, token) == token.key = k

ReadToken(t, n) ==
  /\ Doing(t, "idle")
  /\ n \in Stored
  /\ Turn(t, [op |-> "get", name |-> n, token |-> rows[n]])
  /\ UNCHANGED <<file, provider, used, boot, fernet>>

(* An InvalidToken, whatever it is due to, leads to the DELETE.             *)
Decrypt(t) ==
  /\ Doing(t, "get")
  /\ IF Decrypts(fernet, task[t].token) /\ ~task[t].token.expired
     THEN Turn(t, Idle)
     ELSE Turn(t, [op |-> "drop", name |-> task[t].name])
  /\ UNCHANGED <<file, provider, used, boot, fernet>>

Drop(t) ==
  /\ Doing(t, "drop")
  /\ rows' = [rows EXCEPT ![task[t].name] = None]
  /\ Turn(t, Idle)
  /\ UNCHANGED <<pending, provider, used, boot, fernet>>

Encrypt(t, n) ==
  /\ Doing(t, "idle")
  /\ Turn(t, [op |-> "put", name |-> n, token |-> [key |-> fernet, expired |-> FALSE]])
  /\ UNCHANGED <<file, provider, used, boot, fernet>>

Store(t) ==
  /\ Doing(t, "put")
  /\ rows' = [rows EXCEPT ![task[t].name] = task[t].token]
  /\ Turn(t, Idle)
  /\ UNCHANGED <<pending, provider, used, boot, fernet>>

Delete(t, n) ==
  /\ Doing(t, "idle")
  /\ n \in Stored
  /\ rows' = [rows EXCEPT ![n] = None]
  /\ UNCHANGED <<pending, provider, used, boot, fernet, task>>

(* The time to live of a stored secret runs out.                            *)
Elapse(n) ==
  /\ n \in Stored
  /\ rows' = [rows EXCEPT ![n].expired = TRUE]
  /\ UNCHANGED <<pending, provider, used, boot, fernet, task>>

-----------------------------------------------------------------------------
(* rotate_key.                                                              *)

CheckPending(t) ==
  /\ Doing(t, "idle")
  /\ pending = None
  /\ Turn(t, [op |-> "checked"])
  /\ UNCHANGED <<file, provider, used, boot, fernet>>

(* The new key, encrypted by the key of the moment.                         *)
WrapKey(t, k) ==
  /\ Doing(t, "checked")
  /\ k \in Keys \ used
  /\ used' = used \cup {k}
  /\ Turn(t, [op |-> "wrapped", wrap |-> [under |-> fernet, key |-> k]])
  /\ UNCHANGED <<file, provider, boot, fernet>>

(* encrypt_at_time: the new token keeps the timestamp of the old one.       *)
ReencryptedNow(token, k) == [key |-> k, expired |-> FALSE]
Reencrypted(token, k) == [token EXCEPT !.key = k]

PendingRecord(w) == w

AllDecrypt(k) == \A n \in Stored : Decrypts(k, rows[n])

(* One transaction: all tokens and the pending row, or a rollback.          *)
Reencrypt(t) ==
  /\ Doing(t, "wrapped")
  /\ IF AllDecrypt(fernet)
     THEN /\ rows' = [n \in Names |-> IF n \in Stored
                        THEN Reencrypted(rows[n], task[t].wrap.key) ELSE None]
          /\ pending' = PendingRecord(task[t].wrap)
          /\ Turn(t, [op |-> "committed", key |-> task[t].wrap.key])
     ELSE Turn(t, Idle) /\ UNCHANGED file
  /\ UNCHANGED <<provider, used, boot, fernet>>

SwitchCipher(t) ==
  /\ Doing(t, "committed")
  /\ fernet' = task[t].key
  /\ Turn(t, [op |-> "switched", key |-> task[t].key])
  /\ UNCHANGED <<file, provider, used, boot>>

RotateProvider(t) ==
  /\ Doing(t, "switched")
  /\ provider' = task[t].key
  /\ Turn(t, [op |-> "clearing"])
  /\ UNCHANGED <<file, used, boot, fernet>>

(* The provider raises, before or after it took the key: the pending row    *)
(* stays for the next start.                                                *)
ProviderRaises(t) ==
  /\ Doing(t, "switched")
  /\ provider' \in {provider, task[t].key}
  /\ Turn(t, Idle)
  /\ UNCHANGED <<file, used, boot, fernet>>

ClearPending(t) ==
  /\ Doing(t, "clearing")
  /\ pending' = None
  /\ Turn(t, Idle)
  /\ UNCHANGED <<rows, provider, used, boot, fernet>>

-----------------------------------------------------------------------------
(* Start, recovery and crash.                                               *)

Restarted(k) == IF DurableProvider THEN k ELSE FirstKey

Crash ==
  /\ boot # "closed"
  /\ boot' = "closed"
  /\ provider' = Restarted(provider)
  /\ task' = [t \in Threads |-> Idle]
  /\ UNCHANGED <<file, used, fernet>>

Open ==
  /\ boot = "closed"
  /\ fernet' = provider
  /\ boot' = IF pending = None THEN "open" ELSE "recovering"
  /\ UNCHANGED <<file, provider, used, task>>

AdoptableByOldKey == pending.under = fernet /\ AllDecrypt(fernet)
(* The provider still has the old key, and the pending key opens the vault. *)
Adoptable == pending.under = fernet /\ AllDecrypt(pending.key)

(* The provider has the new key already.                                    *)
Confirmable == pending.under # fernet /\ AllDecrypt(fernet)

(* Neither: SecretKeyError, __init__ raises and there is no vault.          *)
RecoverPending ==
  /\ boot = "recovering"
  /\ fernet' = IF Adoptable THEN pending.key ELSE fernet
  /\ boot' = IF Adoptable THEN "adopting"
             ELSE IF Confirmable THEN "clearing" ELSE "closed"
  /\ UNCHANGED <<file, provider, used, task>>

AdoptProvider ==
  /\ boot = "adopting"
  /\ \/ provider' = fernet /\ boot' = "clearing"
     \/ provider' \in {provider, fernet} /\ boot' = "closed"
  /\ UNCHANGED <<file, used, fernet, task>>

FinishRecovery ==
  /\ boot = "clearing"
  /\ pending' = None
  /\ boot' = "open"
  /\ UNCHANGED <<rows, provider, used, fernet, task>>

-----------------------------------------------------------------------------
Access(t) ==
  \/ Decrypt(t) \/ Drop(t) \/ Store(t)
  \/ \E n \in Names : ReadToken(t, n) \/ Encrypt(t, n) \/ Delete(t, n)

Rotation(t) ==
  \/ CheckPending(t) \/ Reencrypt(t) \/ SwitchCipher(t)
  \/ RotateProvider(t) \/ ProviderRaises(t) \/ ClearPending(t)
  \/ \E k \in Keys : WrapKey(t, k)

Recovery ==
  Open \/ RecoverPending \/ AdoptProvider \/ FinishRecovery

Next ==
  \/ \E t \in Threads : Access(t) \/ Rotation(t)
  \/ \E n \in Names : Elapse(n)
  \/ Recovery
  \/ Crash

Spec == Init /\ [][Next]_vars

-----------------------------------------------------------------------------
(* get drops an entry only if it is expired (or tampered, which nobody does *)
(* here): the comment at the DELETE of get.                                 *)
OnlyExpiredAreDropped ==
  [][\A t \in Threads : Drop(t) =>
       rows[task[t].name] = None \/ rows[task[t].name].expired]_vars

(* However a rotation was interrupted, the key of the provider leads back   *)
(* into the vault: recovery is never refused (the docstring of rotate_key). *)
RecoveryNeverRefuses == boot = "recovering" => Adoptable \/ Confirmable

(* A vault at rest reads every secret it stores.                            *)
OpenVaultReadsAll ==
  boot = "open" /\ (\A t \in Threads : task[t] = Idle) => AllDecrypt(fernet)

(* Without a pending rotation the key of the provider is the key of every   *)
(* token; with one, the provider has the wrapping or the wrapped key.       *)
ProviderOpensTheFile ==
  IF pending = None
  THEN AllDecrypt(provider)
  ELSE AllDecrypt(pending.key) /\ provider \in {pending.under, pending.key}

(* Recovery declares a rotation complete only when the key of the provider  *)
(* opens every stored secret, whatever the threads did before the crash.    *)
RecoveredVaultReadsAll == [][FinishRecovery => AllDecrypt(provider)]_vars

(* A rotation does not prolong the life of a secret: once expired, a stored *)
(* token stays so until put, delete or get replaces or removes it.          *)
ExpiryOutlivesRotation ==
  [][\A n \in Stored : rows[n].expired /\ rows'[n] # None /\ ~rows'[n].expired =>
       \E t \in Threads : Store(t)]_vars

(* A secret lives exactly its time: nothing removes it before it expired    *)
(* but a delete or a put, and no rotation makes it young again.             *)
SecretsLiveTheirTime == OnlyExpiredAreDropped /\ ExpiryOutlivesRotation
=============================================================================
