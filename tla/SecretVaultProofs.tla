-------------------------- MODULE SecretVaultProofs --------------------------
(***************************************************************************)
(* Two results about the vault.  However many threads share it, and        *)
(* whatever the provider forgets, a completed recovery has verified every  *)
(* stored secret.  And if one thread uses it and the provider keeps what   *)
(* it is given, no crash loses a secret: recovery never refuses, get drops *)
(* only expired rows, and a vault at rest reads all of them.               *)
(***************************************************************************)
EXTENDS SecretVault, TLAPS

(* The phases of __init__, for any number of threads.                       *)
Booting ==
  /\ boot = "recovering" => pending # None /\ fernet = provider
  /\ boot = "adopting" => /\ pending # None /\ fernet = pending.key
                          /\ AllDecrypt(fernet)
  /\ boot = "clearing" => pending # None /\ fernet = provider /\ AllDecrypt(fernet)

BootInv == VaultTypeOK /\ Booting

LEMMA BootInvInit == Init => BootInv
BY VaultConstants DEF Init, BootInv, VaultTypeOK, Booting, Tasks

(* Elapse marks one row and leaves every key and every other row alone.     *)
LEMMA ElapseKeepsKeys ==
  ASSUME VaultTypeOK, NEW n \in Names, Elapse(n)
  PROVE  /\ rows' \in [Names -> Token \cup {None}]
         /\ Stored' = Stored
         /\ \A m \in Stored : /\ rows'[m].key = rows[m].key
                              /\ rows[m].expired => rows'[m].expired
<1>1. rows[n] \in Token /\ n \in Stored
  BY DEF VaultTypeOK, Elapse, Stored
<1>2. [rows[n] EXCEPT !.expired = TRUE] \in Token
  BY <1>1 DEF Token
<1>3. rows' = [rows EXCEPT ![n] = [rows[n] EXCEPT !.expired = TRUE]]
  BY DEF Elapse
<1>4. rows'[n].key = rows[n].key /\ rows'[n].expired
  BY <1>1, <1>3 DEF VaultTypeOK, Token
<1>5. \A m \in Names \ {n} : rows'[m] = rows[m]
  BY <1>3 DEF VaultTypeOK
<1>6. rows' \in [Names -> Token \cup {None}]
  BY <1>2, <1>3 DEF VaultTypeOK
<1>7. rows'[n] # None
  BY <1>1, <1>2, <1>3, NoneIsNoRecord DEF VaultTypeOK
<1> QED
  BY <1>1, <1>4, <1>5, <1>6, <1>7 DEF Stored

LEMMA BootInvStep ==
  ASSUME BootInv, [Next]_vars
  PROVE  BootInv'
<1>1. ASSUME NEW t \in Threads, NEW n \in Names, ReadToken(t, n) PROVE BootInv'
  BY <1>1, NoneIsNoRecord DEF ReadToken, BootInv, VaultTypeOK, Booting, Doing, Turn, Tasks,
                              Stored, file
<1>2. ASSUME NEW t \in Threads, Decrypt(t) PROVE BootInv'
  BY <1>2, NoneIsNoRecord DEF Decrypt, BootInv, VaultTypeOK, Booting, Doing, Turn, Tasks,
                              Idle, file
<1>3. ASSUME NEW t \in Threads, Drop(t) PROVE BootInv'
  BY <1>3, NoneIsNoRecord DEF Drop, BootInv, VaultTypeOK, Booting, Doing, Turn, Tasks
<1>4. ASSUME NEW t \in Threads, NEW n \in Names, Encrypt(t, n) PROVE BootInv'
  BY <1>4, NoneIsNoRecord DEF Encrypt, BootInv, VaultTypeOK, Booting, Doing, Turn, Tasks,
                              Token, file
<1>5. ASSUME NEW t \in Threads, Store(t) PROVE BootInv'
  BY <1>5, NoneIsNoRecord DEF Store, BootInv, VaultTypeOK, Booting, Doing, Turn, Tasks, Idle
<1>6. ASSUME NEW t \in Threads, NEW n \in Names, Delete(t, n) PROVE BootInv'
  BY <1>6, NoneIsNoRecord DEF Delete, BootInv, VaultTypeOK, Booting, Doing
<1>7. ASSUME NEW t \in Threads, CheckPending(t) PROVE BootInv'
  BY <1>7, NoneIsNoRecord DEF CheckPending, BootInv, VaultTypeOK, Booting, Turn, Tasks, file
<1>8. ASSUME NEW t \in Threads, NEW k \in Keys, WrapKey(t, k) PROVE BootInv'
  BY <1>8, NoneIsNoRecord DEF WrapKey, BootInv, VaultTypeOK, Booting, Doing, Turn, Tasks,
                              Wrapped, file
<1>9. ASSUME NEW t \in Threads, Reencrypt(t) PROVE BootInv'
  BY <1>9, NoneIsNoRecord DEF Reencrypt, Reencrypted, PendingRecord, BootInv, VaultTypeOK,
                              Booting, Doing, Turn, Tasks, Idle, Token, Wrapped, Stored,
                              file
<1>10. ASSUME NEW t \in Threads, SwitchCipher(t) PROVE BootInv'
  BY <1>10, NoneIsNoRecord DEF SwitchCipher, BootInv, VaultTypeOK, Booting, Doing, Turn,
                               Tasks, Idle, file
<1>11. ASSUME NEW t \in Threads, RotateProvider(t) PROVE BootInv'
  BY <1>11, NoneIsNoRecord DEF RotateProvider, BootInv, VaultTypeOK, Booting, Doing, Turn,
                               Tasks, Idle, file
<1>12. ASSUME NEW t \in Threads, ProviderRaises(t) PROVE BootInv'
  BY <1>12, NoneIsNoRecord DEF ProviderRaises, BootInv, VaultTypeOK, Booting, Doing, Turn,
                               Tasks, Idle, file
<1>13. ASSUME NEW t \in Threads, ClearPending(t) PROVE BootInv'
  BY <1>13, NoneIsNoRecord DEF ClearPending, BootInv, VaultTypeOK, Booting, Doing, Turn,
                               Tasks
<1>14. ASSUME NEW n \in Names, Elapse(n) PROVE BootInv'
  <2>1. \A k : AllDecrypt(k) => AllDecrypt(k)'
    BY <1>14, ElapseKeepsKeys DEF BootInv, AllDecrypt, Decrypts, Stored
  <2> QED
    BY <1>14, <2>1, ElapseKeepsKeys DEF Elapse, BootInv, VaultTypeOK, Booting
<1>15. ASSUME Open PROVE BootInv'
  BY <1>15, VaultConstants, NoneIsNoRecord DEF Open, BootInv, VaultTypeOK, Booting, file
<1>16. ASSUME RecoverPending PROVE BootInv'
  BY <1>16, VaultConstants, NoneIsNoRecord DEF RecoverPending, Adoptable, Confirmable,
                                               BootInv, VaultTypeOK, Booting, Wrapped,
                                               Stored, file, AllDecrypt
<1>17. ASSUME AdoptProvider PROVE BootInv'
  BY <1>17, VaultConstants, NoneIsNoRecord DEF AdoptProvider, BootInv, VaultTypeOK, Booting,
                                               Stored, file, AllDecrypt
<1>18. ASSUME FinishRecovery PROVE BootInv'
  BY <1>18, VaultConstants, NoneIsNoRecord DEF FinishRecovery, BootInv, VaultTypeOK, Booting
<1>19. ASSUME Crash PROVE BootInv'
  BY <1>19, VaultConstants, NoneIsNoRecord DEF Crash, Restarted, BootInv, VaultTypeOK,
                                               Booting, Tasks, file
<1>20. CASE UNCHANGED vars
  BY <1>20 DEF vars, BootInv, VaultTypeOK, Booting, AllDecrypt, Stored
<1> QED
  BY <1>1, <1>2, <1>3, <1>4, <1>5, <1>6, <1>7, <1>8, <1>9, <1>10, <1>11, <1>12, <1>13,
     <1>14, <1>15, <1>16, <1>17, <1>18, <1>19, <1>20
     DEF Next, Access, Rotation, Recovery

(* The vault keeps its types, whoever uses it and wherever it crashes.      *)
THEOREM VaultTyping == Spec => []VaultTypeOK
<1>1. Spec => []BootInv
  BY BootInvInit, BootInvStep, PTL DEF Spec
<1>2. BootInv => VaultTypeOK
  BY DEF BootInv
<1> QED
  BY <1>1, <1>2, PTL

(* Recovery ends only after the key of the provider was seen to open every  *)
(* stored secret, even where threads or a forgetful provider had left rows  *)
(* under another key.                                                       *)
THEOREM RecoveryIsVerified == Spec => RecoveredVaultReadsAll
<1>1. BootInv /\ [Next]_vars => [FinishRecovery => AllDecrypt(provider)]_vars
  BY DEF BootInv, Booting, FinishRecovery
<1>2. Spec => []BootInv
  BY BootInvInit, BootInvStep, PTL DEF Spec
<1> QED
  BY <1>1, <1>2, PTL DEF Spec, RecoveredVaultReadsAll

-----------------------------------------------------------------------------
(* One thread and a durable provider.                                       *)

Alone == Threads # {} /\ \A s, t \in Threads : s = t

(* No thread works before __init__ has returned.                            *)
IdleUnlessOpen == boot # "open" => \A t \in Threads : task[t] = Idle

(* The cipher of an open vault: the provider's key while nothing is         *)
(* pending, else the wrapping key until SwitchCipher and the new one after. *)
CipherOf(t) ==
  IF pending = None THEN fernet = provider
  ELSE fernet = IF task[t].op = "committed" THEN pending.under ELSE pending.key

(* What the only thread may rely on at each point of its operation.         *)
Holding(t) ==
  /\ task[t].op = "get" =>
       /\ task[t].name \in Stored
       /\ rows[task[t].name].key = task[t].token.key
       /\ task[t].token.expired => rows[task[t].name].expired
  /\ task[t].op = "drop" => task[t].name \in Stored /\ rows[task[t].name].expired
  /\ task[t].op = "put" => task[t].token.key = fernet
  /\ task[t].op = "checked" => pending = None
  /\ task[t].op = "wrapped" => pending = None /\ task[t].wrap.under = fernet
  /\ task[t].op \in {"committed", "switched"} => pending # None /\ pending.key = task[t].key
  /\ task[t].op = "clearing" => pending # None /\ provider = pending.key

Opened == boot = "open" => \A t \in Threads : CipherOf(t) /\ Holding(t)

SInv == BootInv /\ IdleUnlessOpen /\ Opened /\ ProviderOpensTheFile

LEMMA SInvInit == Init => SInv
BY BootInvInit DEF Init, SInv, IdleUnlessOpen, Opened, ProviderOpensTheFile, AllDecrypt,
                   Stored

LEMMA SInvStep ==
  ASSUME Alone, DurableProvider, SInv, [Next]_vars
  PROVE  SInv'
<1> SUFFICES IdleUnlessOpen' /\ Opened' /\ ProviderOpensTheFile'
  BY BootInvStep DEF SInv
<1> DEFINE Goal == IdleUnlessOpen' /\ Opened' /\ ProviderOpensTheFile'
<1>1. ASSUME NEW t \in Threads, NEW n \in Names, ReadToken(t, n) PROVE Goal
  BY <1>1, NoneIsNoRecord DEF ReadToken, SInv, IdleUnlessOpen, Opened, ProviderOpensTheFile,
                              CipherOf, Holding, Doing, Turn, Stored, file, AllDecrypt
<1>2. ASSUME NEW t \in Threads, Decrypt(t) PROVE Goal
  BY <1>2, NoneIsNoRecord DEF Decrypt, SInv, BootInv, VaultTypeOK, IdleUnlessOpen, Opened,
                              ProviderOpensTheFile, CipherOf, Holding, Doing, Turn, Tasks,
                              Idle, Token, Stored, file, AllDecrypt
<1>3. ASSUME NEW t \in Threads, Drop(t) PROVE Goal
  BY <1>3, NoneIsNoRecord DEF Alone, Drop, SInv, BootInv, VaultTypeOK, IdleUnlessOpen,
                              Opened, ProviderOpensTheFile, CipherOf, Holding, Doing, Turn,
                              Idle, Stored, AllDecrypt
<1>4. ASSUME NEW t \in Threads, NEW n \in Names, Encrypt(t, n) PROVE Goal
  BY <1>4, NoneIsNoRecord DEF Encrypt, SInv, IdleUnlessOpen, Opened, ProviderOpensTheFile,
                              CipherOf, Holding, Doing, Turn, Stored, file, AllDecrypt
<1>5. ASSUME NEW t \in Threads, Store(t) PROVE Goal
  BY <1>5, NoneIsNoRecord DEF Alone, Store, SInv, IdleUnlessOpen, Opened,
                              ProviderOpensTheFile, CipherOf, Holding, Doing, Turn, Idle,
                              Stored, AllDecrypt, Decrypts
<1>6. ASSUME NEW t \in Threads, NEW n \in Names, Delete(t, n) PROVE Goal
  BY <1>6, NoneIsNoRecord DEF Alone, Delete, SInv, IdleUnlessOpen, Opened,
                              ProviderOpensTheFile, CipherOf, Holding, Doing, Stored,
                              AllDecrypt
<1>7. ASSUME NEW t \in Threads, CheckPending(t) PROVE Goal
  BY <1>7, NoneIsNoRecord DEF CheckPending, SInv, IdleUnlessOpen, Opened,
                              ProviderOpensTheFile, CipherOf, Holding, Doing, Turn, Stored,
                              file, AllDecrypt
<1>8. ASSUME NEW t \in Threads, NEW k \in Keys, WrapKey(t, k) PROVE Goal
  BY <1>8, NoneIsNoRecord DEF WrapKey, SInv, IdleUnlessOpen, Opened, ProviderOpensTheFile,
                              CipherOf, Holding, Doing, Turn, Stored, file, AllDecrypt
<1>9. ASSUME NEW t \in Threads, Reencrypt(t) PROVE Goal
  BY <1>9, NoneIsNoRecord DEF Alone, Reencrypt, Reencrypted, PendingRecord, SInv, BootInv,
                              VaultTypeOK, IdleUnlessOpen, Opened, ProviderOpensTheFile,
                              CipherOf, Holding, Doing, Turn, Tasks, Idle, Token, Stored,
                              AllDecrypt, Decrypts
<1>10. ASSUME NEW t \in Threads, SwitchCipher(t) PROVE Goal
  BY <1>10, NoneIsNoRecord DEF Alone, SwitchCipher, SInv, BootInv, VaultTypeOK,
                               IdleUnlessOpen, Opened, ProviderOpensTheFile, CipherOf,
                               Holding, Doing, Turn, Stored, file, AllDecrypt
<1>11. ASSUME NEW t \in Threads, RotateProvider(t) PROVE Goal
  BY <1>11, NoneIsNoRecord DEF RotateProvider, SInv, IdleUnlessOpen, Opened,
                               ProviderOpensTheFile, CipherOf, Holding, Doing, Turn, Stored,
                               file, AllDecrypt
<1>12. ASSUME NEW t \in Threads, ProviderRaises(t) PROVE Goal
  BY <1>12, NoneIsNoRecord DEF ProviderRaises, SInv, IdleUnlessOpen, Opened,
                               ProviderOpensTheFile, CipherOf, Holding, Doing, Turn, Idle,
                               Stored, file, AllDecrypt
<1>13. ASSUME NEW t \in Threads, ClearPending(t) PROVE Goal
  BY <1>13, NoneIsNoRecord DEF Alone, ClearPending, SInv, BootInv, VaultTypeOK,
                               IdleUnlessOpen, Opened, ProviderOpensTheFile, CipherOf,
                               Holding, Doing, Turn, Idle, Stored, AllDecrypt
<1>14. ASSUME NEW n \in Names, Elapse(n) PROVE Goal
  <2>1. \A k : AllDecrypt(k) => AllDecrypt(k)'
    BY <1>14, ElapseKeepsKeys DEF SInv, BootInv, AllDecrypt, Decrypts
  <2>2. ASSUME NEW t \in Threads, Holding(t) PROVE Holding(t)'
    <3>1. /\ UNCHANGED <<pending, provider, boot, fernet, task>> /\ Stored' = Stored
          /\ \A m \in Stored : /\ rows'[m].key = rows[m].key
                               /\ rows[m].expired => rows'[m].expired
      BY <1>14, ElapseKeepsKeys DEF SInv, BootInv, Elapse
    <3> QED
      BY <2>2, <3>1, SMTT(20) DEF Holding
  <2>3. UNCHANGED <<pending, provider, boot, fernet, task>>
    BY <1>14 DEF Elapse
  <2>4. ProviderOpensTheFile'
    BY <2>1, <2>3 DEF SInv, ProviderOpensTheFile
  <2>5. IdleUnlessOpen'
    BY <2>3 DEF SInv, IdleUnlessOpen
  <2>6. \A t \in Threads : CipherOf(t) => CipherOf(t)'
    BY <2>3 DEF CipherOf
  <2>7. Opened'
    BY <2>2, <2>3, <2>6 DEF SInv, Opened
  <2> QED
    BY <2>4, <2>5, <2>7
<1>15. ASSUME Open PROVE Goal
  BY <1>15, NoneIsNoRecord DEF Open, SInv, IdleUnlessOpen, Opened, ProviderOpensTheFile,
                               CipherOf, Holding, Idle, Stored, file, AllDecrypt
<1>16. ASSUME RecoverPending PROVE Goal
  BY <1>16, NoneIsNoRecord DEF RecoverPending, SInv, IdleUnlessOpen, Opened,
                               ProviderOpensTheFile, Stored, file, AllDecrypt
<1>17. ASSUME AdoptProvider PROVE Goal
  BY <1>17, NoneIsNoRecord DEF AdoptProvider, SInv, BootInv, Booting, IdleUnlessOpen,
                               Opened, ProviderOpensTheFile, Stored, file, AllDecrypt
<1>18. ASSUME FinishRecovery PROVE Goal
  BY <1>18, NoneIsNoRecord DEF FinishRecovery, SInv, BootInv, Booting, IdleUnlessOpen,
                               Opened, ProviderOpensTheFile, CipherOf, Holding, Idle,
                               Stored, AllDecrypt
<1>19. ASSUME Crash PROVE Goal
  BY <1>19, NoneIsNoRecord DEF Crash, Restarted, SInv, IdleUnlessOpen, Opened,
                               ProviderOpensTheFile, Stored, file, AllDecrypt
<1>20. CASE UNCHANGED vars
  BY <1>20 DEF vars, SInv, IdleUnlessOpen, Opened, CipherOf, Holding, ProviderOpensTheFile,
               AllDecrypt, Stored
<1> QED
  BY <1>1, <1>2, <1>3, <1>4, <1>5, <1>6, <1>7, <1>8, <1>9, <1>10, <1>11, <1>12, <1>13,
     <1>14, <1>15, <1>16, <1>17, <1>18, <1>19, <1>20
     DEF Next, Access, Rotation, Recovery

LEMMA Sequential ==
  ASSUME Alone, DurableProvider
  PROVE  Spec => []SInv
BY SInvInit, SInvStep, PTL DEF Spec

(* A rotation interrupted anywhere leaves a vault that the next start can   *)
(* open, whether the provider has the old key or the new one.               *)
THEOREM RotationIsRecoverable ==
  ASSUME Alone, DurableProvider
  PROVE  Spec => []RecoveryNeverRefuses
<1>1. SInv => RecoveryNeverRefuses
  BY DEF SInv, BootInv, Booting, ProviderOpensTheFile, RecoveryNeverRefuses,
         Adoptable, Confirmable
<1> QED
  BY <1>1, Sequential, PTL

(* get deletes a row only because its time to live is over.                 *)
THEOREM GetDropsOnlyExpired ==
  ASSUME Alone, DurableProvider
  PROVE  Spec => OnlyExpiredAreDropped
<1>1. SInv /\ [Next]_vars =>
        [\A t \in Threads : Drop(t) =>
           rows[task[t].name] = None \/ rows[task[t].name].expired]_vars
  BY DEF SInv, Opened, Holding, Drop, Doing
<1> QED
  BY <1>1, Sequential, PTL DEF Spec, OnlyExpiredAreDropped

(* A vault at rest reads every secret it stores.                            *)
THEOREM RestingVaultReads ==
  ASSUME Alone, DurableProvider
  PROVE  Spec => []OpenVaultReadsAll
<1>1. SInv => OpenVaultReadsAll
  <2> SUFFICES ASSUME SInv, boot = "open", \A t \in Threads : task[t] = Idle
               PROVE  AllDecrypt(fernet)
    BY DEF OpenVaultReadsAll
  <2> QED
    BY DEF Alone, SInv, Opened, CipherOf, ProviderOpensTheFile, Idle
<1> QED
  BY <1>1, Sequential, PTL

(* Whatever the threads do and wherever the process dies, a rotation never  *)
(* makes an expired secret young again: a row changes its expiry only by    *)
(* growing old or by being stored anew.                                     *)
THEOREM RotationKeepsTheTime == Spec => ExpiryOutlivesRotation
<1>1. ASSUME BootInv, [Next]_vars, NEW n \in Stored, rows[n].expired, rows'[n] # None,
             ~\E t \in Threads : Store(t)
      PROVE  rows'[n].expired
  <2>1. n \in Names /\ rows[n] \in Token /\ rows \in [Names -> Token \cup {None}]
    BY <1>1 DEF Stored, BootInv, VaultTypeOK
  <2>2. CASE UNCHANGED rows
    BY <1>1, <2>2
  <2>3. ASSUME NEW t \in Threads, Drop(t) \/ \E m \in Names : Delete(t, m)
        PROVE  rows'[n].expired
    BY <1>1, <2>1, <2>3 DEF Drop, Delete
  <2>4. ASSUME NEW t \in Threads, Reencrypt(t) PROVE rows'[n].expired
    <3>1. \A k : Reencrypted(rows[n], k).expired = rows[n].expired
      BY <2>1 DEF Reencrypted, Token
    <3> QED BY <1>1, <2>1, <2>4, <3>1 DEF Reencrypt, file
  <2>5. ASSUME NEW m \in Names, Elapse(m) PROVE rows'[n].expired
    <3>1. [rows[n] EXCEPT !.expired = TRUE].expired
      BY <2>1 DEF Token
    <3> QED BY <1>1, <2>1, <2>5, <3>1 DEF Elapse
  <2> QED
    BY <1>1, <2>2, <2>3, <2>4, <2>5
       DEF Next, Access, Rotation, Recovery, ReadToken, Decrypt, Encrypt, CheckPending, WrapKey,
           SwitchCipher, RotateProvider, ProviderRaises, ClearPending, Open, RecoverPending,
           AdoptProvider, FinishRecovery, Crash, file, vars
<1>2. BootInv /\ [Next]_vars =>
        [\A n \in Stored : rows[n].expired /\ rows'[n] # None /\ ~rows'[n].expired =>
           \E t \in Threads : Store(t)]_vars
  BY <1>1
<1> QED
  BY <1>2, BootInvInit, BootInvStep, PTL DEF Spec, ExpiryOutlivesRotation

(* The two as the run checks them.                                          *)
THEOREM TimeToLiveIsKept ==
  ASSUME Alone, DurableProvider
  PROVE  Spec => SecretsLiveTheirTime
BY GetDropsOnlyExpired, RotationKeepsTheTime DEF SecretsLiveTheirTime
=============================================================================
