----------------------------- MODULE TaskBinding -----------------------------
(***************************************************************************)
(* apps/ollama-chat task_resume_state.py and task_resume_demo.py: the      *)
(* signed mapping of one dialog to one task episode of the Memory Ledger.  *)
(*                                                                         *)
(* The mapping is a row of chat.db, the episode a record of another        *)
(* database, the key that signs rows a file beside both: nothing commits   *)
(* them together.  Each operator below is what one transaction does; the   *)
(* module DialogData puts them in the order of the host and of its caller. *)
(* Reduced: an episode is the state of its record and of its checkpoint,   *)
(* whose own behaviour is that of MemoryLedger and RecallPlanner; a tag is *)
(* the number of the secret it was made with.                              *)
(***************************************************************************)
EXTENDS Naturals, FiniteSets, Functions

CONSTANT MaxTasks       \* bound: episodes ever seeded

Tasks == 1..MaxTasks
Forged == 0             \* the tag of a row edited by hand
NoSecret == 0           \* the file of the secret does not exist

VARIABLES
    binding,    \* the row of the dialog in ollama_chat_task_resume_bindings
    installed,  \* the secret that signed the installation record, or none
    secret,     \* the content of task-resume-demo.secret
    episodes,   \* task -> "candidate", "active", "sealed" or "forgotten"
    composing   \* compose_active between its two looks: the binding it loaded

host == <<binding, installed, secret, episodes, composing>>

NoRow == [state |-> "none", task |-> 0, generation |-> 0, key |-> 0]
Row == [state : {"active", "closing"}, task : Tasks, generation : {1, 2}, key : Nat]

BindingTypeOK ==
    /\ binding \in Row \union {NoRow} /\ composing \in Row \union {NoRow}
    /\ installed \in Nat /\ secret \in Nat
    /\ DOMAIN episodes \subseteq Tasks
    /\ Range(episodes) \subseteq {"candidate", "active", "sealed", "forgotten"}

BindingInit ==
    /\ binding = NoRow /\ composing = NoRow /\ installed = 0 /\ secret = NoSecret
    /\ episodes = <<>>

\* _binding_from_row: every read of a row verifies its tag first.
SignedWith(key) == binding = NoRow \/ binding.key = key
Authentic == SignedWith(secret)

\* A file that exists is read, a missing one created with fresh bytes.
LoadedSecret == IF secret = NoSecret THEN installed + 1 ELSE secret

\* _load_or_create_installation; the tag of another secret is refused.
SecretAccepted(key) == installed \in {0, key}

\* load_active: a closing row is as good as none.
Active == binding.state = "active"

\* INSERT OR REPLACE of one row.
Put(f, key, value) == [k \in DOMAIN f \union {key} |-> IF k = key THEN value ELSE f[k]]

NewTask == 1 + Cardinality(DOMAIN episodes)

\* One episode of a fresh task scope: submit, then confirm.
Submitted == Put(episodes, NewTask, "candidate")
Latest == NewTask - 1
Now(state) == [episodes EXCEPT ![Latest] = state]

\* create: a replacement is never implicit.
Unbound == binding = NoRow

Created == [state |-> "active", task |-> Latest, generation |-> 1, key |-> secret]

\* begin_close; again for a row that is closing already.
Closed == IF Active THEN [binding EXCEPT !.state = "closing", !.generation = @ + 1]
                    ELSE binding

\* forget_by_source erases the record's text and ends its checkpoint.
ForgottenEpisode == [episodes EXCEPT ![binding.task] = "forgotten"]

\* The selected record and the checkpoint of the binding are both usable.
Composable(b) == episodes[b.task] = "sealed"

\* Mutant: no second look at the binding after the await.
UncheckedBinding == composing \in Row

\* The second look of compose_active.
SameBinding == Authentic /\ Active /\ binding = composing
=============================================================================
