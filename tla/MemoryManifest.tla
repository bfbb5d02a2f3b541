---------------------------- MODULE MemoryManifest ----------------------------
(***************************************************************************)
(* The agent-memory manifest (_memory.db): candidates that are recorded,   *)
(* validated and committed into the memories table by the memory_* tools.  *)
(* Every server process opens the same SQLite file, and each SQL statement *)
(* is a transaction of its own: other processes' statements come between   *)
(* the statements of a handler, a statement may be refused because the     *)
(* database is busy, and a process may die between two of them. One        *)
(* project key is modelled; the statements never touch rows of another.    *)
(***************************************************************************)
EXTENDS Naturals, FiniteSets

CONSTANTS Clients,      \* server processes
          Ids,          \* candidate ids
          MaxMishaps    \* statements refused and processes killed

ASSUME ManifestAssumption ==
  /\ MaxMishaps \in Nat
  /\ "all" \notin Ids

VARIABLES status,     \* memory_candidates.status ("none": no such row)
          memories,   \* ids in the memories table
          pc,         \* where each process is in its handler
          sel,        \* memory_commit's id argument ("all": none given)
          mishaps,
          raced       \* history: ids validated while some process was between
                      \* the two statements of its memory_commit

manifest == <<status, memories, pc, sel, mishaps, raced>>

ManifestInit ==
  /\ status = [i \in Ids |-> "none"]
  /\ memories = {}
  /\ pc = [c \in Clients |-> "idle"]
  /\ sel = [c \in Clients |-> "all"]
  /\ mishaps = 0
  /\ raced = {}

With(s) == {i \in Ids : status[i] = s}
Proceed(c, l) == pc' = [pc EXCEPT ![c] = l]

\* memory_candidate: a second row with the same id is refused.
Candidate(c, i) ==
  /\ pc[c] = "idle" /\ status[i] = "none"
  /\ status' = [status EXCEPT ![i] = "pending"]
  /\ UNCHANGED <<memories, pc, sel, mishaps, raced>>

\* memory_validate counts the pending rows; none or a dry run: done.
ValidateCount(c) ==
  /\ pc[c] = "idle" /\ With("pending") # {}
  /\ Proceed(c, "validate")
  /\ UNCHANGED <<status, memories, sel, mishaps, raced>>

ValidateUpdate(c) ==
  /\ pc[c] = "validate"
  /\ status' = [i \in Ids |-> IF status[i] = "pending" THEN "validated" ELSE status[i]]
  /\ raced' = IF \E d \in Clients : pc[d] = "update"
                THEN raced \union With("pending") ELSE raced
  /\ Proceed(c, "idle")
  /\ UNCHANGED <<memories, sel, mishaps>>

\* memory_commit counts the validated rows; none or a dry run: done.
CommitCount(c) ==
  /\ pc[c] = "idle" /\ With("validated") # {}
  /\ \E i \in Ids \union {"all"} : sel' = [sel EXCEPT ![c] = i]
  /\ Proceed(c, "insert")
  /\ UNCHANGED <<status, memories, mishaps, raced>>

\* The WHERE clause of both statements.
Selected(c) == {i \in With("validated") : sel[c] \in {"all", i}}

\* Mutant: the INSERT does not test the status.
BugCommitInsert(c) ==
  /\ pc[c] = "insert"
  /\ LET new == {i \in Ids : status[i] # "none" /\ sel[c] \in {"all", i}} \ memories
     IN  /\ memories' = memories \union new
         /\ Proceed(c, IF new # {} THEN "update" ELSE "idle")
  /\ UNCHANGED <<status, sel, mishaps, raced>>

\* Mutant: the INSERT ignores the id argument.
BugCommitInsertAll(c) ==
  /\ pc[c] = "insert"
  /\ LET new == With("validated") \ memories
     IN  /\ memories' = memories \union new
         /\ Proceed(c, IF new # {} THEN "update" ELSE "idle")
  /\ UNCHANGED <<status, sel, mishaps, raced>>

\* INSERT OR IGNORE; the update follows only if rows were inserted.
CommitInsert(c) ==
  /\ pc[c] = "insert"
  /\ LET new == Selected(c) \ memories
     IN  /\ memories' = memories \union new
         /\ Proceed(c, IF new # {} THEN "update" ELSE "idle")
  /\ UNCHANGED <<status, sel, mishaps, raced>>

\* Mutant: the UPDATE ignores the id argument.
BugCommitUpdate(c) ==
  /\ pc[c] = "update"
  /\ status' = [i \in Ids |-> IF i \in With("validated") THEN "committed" ELSE status[i]]
  /\ Proceed(c, "idle")
  /\ UNCHANGED <<memories, sel, mishaps, raced>>

CommitUpdate(c) ==
  /\ pc[c] = "update"
  /\ status' = [i \in Ids |-> IF i \in Selected(c) THEN "committed" ELSE status[i]]
  /\ Proceed(c, "idle")
  /\ UNCHANGED <<memories, sel, mishaps, raced>>

\* A statement is refused (its result is not looked at, the handler ends), or
\* the process dies between two statements.
Mishap(c) ==
  /\ pc[c] # "idle" /\ mishaps < MaxMishaps
  /\ mishaps' = mishaps + 1
  /\ Proceed(c, "idle")
  /\ UNCHANGED <<status, memories, sel, raced>>

\* Nothing is left to record, validate or commit.
Quiet ==
  /\ \A c \in Clients : pc[c] = "idle"
  /\ With("none") = {} /\ With("pending") = {} /\ With("validated") = {}
  /\ UNCHANGED manifest

ManifestNext ==
  \/ \E c \in Clients :
       \/ \E i \in Ids : Candidate(c, i)
       \/ ValidateCount(c) \/ ValidateUpdate(c)
       \/ CommitCount(c) \/ CommitInsert(c) \/ CommitUpdate(c)
       \/ Mishap(c)
  \/ Quiet

ManifestSpec == ManifestInit /\ [][ManifestNext]_manifest

-----------------------------------------------------------------------------
(* Properties *)

\* The statuses a candidate can have and the statements a handler can be at.
ManifestTypeOK ==
  /\ status \in [Ids -> {"none", "pending", "validated", "committed"}]
  /\ memories \subseteq Ids
  /\ pc \in [Clients -> {"idle", "validate", "insert", "update"}]
  /\ sel \in [Clients -> Ids \union {"all"}]
  /\ mishaps \in 0..MaxMishaps
  /\ raced \subseteq Ids

\* "Promote only through memory_validate followed by memory_commit": however
\* the processes' statements mix and fail, no memory comes from a candidate
\* that was not validated.
OnlyValidated == \A i \in memories : status[i] \in {"validated", "committed"}

\* Design document: a committed candidate is "durable and recallable": it has
\* a row in memories, the only table memory_recall reads. The one exception was
\* validated while some process was between the INSERT and the UPDATE of its
\* memory_commit. Refused statements and dead processes do not lead there.
LostOnlyByRace == With("committed") \ memories \subseteq raced

\* Design document: "Recall returns only committed memory". It holds until a
\* statement is refused or a process dies: a memory whose candidate is not
\* committed has its UPDATE still to come.
RecalledIsCommitted ==
  mishaps = 0 => \A i \in memories \ With("committed") :
                  \E c \in Clients : pc[c] = "update" /\ i \in Selected(c)

=============================================================================
