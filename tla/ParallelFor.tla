----------------------------- MODULE ParallelFor -----------------------------
(***************************************************************************)
(* What cbm_parallel_for promises its caller (src/pipeline/worker_pool.h): *)
(* fn is called exactly once on every index in 0 .. count-1, calls may     *)
(* overlap, and the call returns only when every one of them has returned. *)
(***************************************************************************)
EXTENDS Integers

CONSTANT Counts   \* the values the argument count may take

VARIABLES count,     \* the argument count of this call
          status,    \* what has become of the call fn(i), for each index i
          returned   \* has cbm_parallel_for returned?

vars == <<count, status, returned>>

Index == 0 .. count - 1

Init ==
  /\ count \in Counts
  /\ status = [i \in Index |-> "todo"]
  /\ returned = FALSE

\* fn(i) is called.
Start(i) ==
  /\ status[i] = "todo"
  /\ status' = [status EXCEPT ![i] = "running"]
  /\ UNCHANGED <<count, returned>>

\* fn(i) returns.
Finish(i) ==
  /\ status[i] = "running"
  /\ status' = [status EXCEPT ![i] = "done"]
  /\ UNCHANGED <<count, returned>>

\* cbm_parallel_for returns to its caller.
Return ==
  /\ ~returned
  /\ \A i \in Index : status[i] = "done"
  /\ returned' = TRUE
  /\ UNCHANGED <<count, status>>

Next == (\E i \in Index : Start(i) \/ Finish(i)) \/ Return

Spec == Init /\ [][Next]_vars

=============================================================================
