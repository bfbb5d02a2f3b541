------------------------------ MODULE WorkerPool ------------------------------
(***************************************************************************)
(* One call of cbm_parallel_for (src/pipeline/worker_pool.c): the caller   *)
(* creates worker threads, every thread (the caller included) pulls        *)
(* indices from a shared atomic counter, and the caller joins the threads. *)
(* The serial fallback is taken for one worker, for a trivial count, and   *)
(* when the thread array cannot be allocated; creating a thread may fail.  *)
(***************************************************************************)
EXTENDS Integers

CONSTANTS Counts,       \* the values the argument count may take
          MaxWorkers    \* nworkers after the defaults are applied

ASSUME PoolAssumption == Counts \subseteq Int /\ MaxWorkers \in Nat

VARIABLES count,        \* the argument count of this call
          pc,           \* where each thread is
          idx,          \* the index each thread last fetched (or looped to)
          next_idx,     \* the shared atomic counter
          nworkers,     \* how many threads exist, as the caller counts them
          finished      \* indices whose fn call has returned

vars == <<count, pc, idx, next_idx, nworkers, finished>>

Main == 0
Threads == 1 .. MaxWorkers
All == {Main} \union Threads
Index == 0 .. count - 1

Init ==
  /\ count \in Counts
  /\ pc = [t \in All |-> IF t = Main THEN "enter" ELSE "absent"]
  /\ idx = [t \in All |-> 0]
  /\ next_idx = 0
  /\ nworkers = 0
  /\ finished = {}

Goto(t, l) == pc' = [pc EXCEPT ![t] = l]

-----------------------------------------------------------------------------
(* cbm_parallel_for and run_serial *)

\* count <= 0: nothing to do.
EmptyCall ==
  /\ pc[Main] = "enter"
  /\ count <= 0
  /\ Goto(Main, "returned")
  /\ UNCHANGED <<count, idx, next_idx, nworkers, finished>>

\* One worker, a trivial count, or (in run_pthreads) malloc failing.
EnterSerial ==
  /\ pc[Main] = "enter"
  /\ count > 0
  /\ Goto(Main, "serial")
  /\ UNCHANGED <<count, idx, next_idx, nworkers, finished>>

\* The for loop of run_serial reaches index i = idx[Main] and calls fn(i),
\* or falls out of the loop.
SerialCall ==
  /\ pc[Main] = "serial"
  /\ Goto(Main, IF idx[Main] < count THEN "in_serial" ELSE "returned")
  /\ UNCHANGED <<count, idx, next_idx, nworkers, finished>>

SerialReturn ==
  /\ pc[Main] = "in_serial"
  /\ finished' = finished \union {idx[Main]}
  /\ idx' = [idx EXCEPT ![Main] = @ + 1]
  /\ Goto(Main, "serial")
  /\ UNCHANGED <<count, next_idx, nworkers>>

EnterParallel ==
  /\ pc[Main] = "enter"
  /\ count > 1
  /\ MaxWorkers > 1
  /\ Goto(Main, "spawn")
  /\ UNCHANGED <<count, idx, next_idx, nworkers, finished>>

-----------------------------------------------------------------------------
(* run_pthreads *)

\* cbm_thread_create succeeds for the next thread of the array.
Spawn ==
  /\ pc[Main] = "spawn"
  /\ nworkers < MaxWorkers
  /\ nworkers' = nworkers + 1
  /\ Goto(nworkers + 1, "fetch")
  /\ UNCHANGED <<count, idx, next_idx, finished>>

\* The spawn loop ends, or cbm_thread_create fails (nworkers = i; break):
\* the caller takes part in the work with whatever threads there are.
EndSpawn ==
  /\ pc[Main] = "spawn"
  /\ Goto(Main, "fetch")
  /\ UNCHANGED <<count, idx, next_idx, nworkers, finished>>

\* Bug: the counter is read and written back in two steps that another
\* thread's increment falls between (here: the increment is lost).
BugFetch(t) ==
  /\ pc[t] = "fetch"
  /\ idx' = [idx EXCEPT ![t] = next_idx]
  /\ next_idx' \in {next_idx, next_idx + 1}
  /\ Goto(t, IF next_idx < count THEN "in_fn"
             ELSE IF t = Main THEN "join" ELSE "exited")
  /\ UNCHANGED <<count, nworkers, finished>>

\* idx = atomic_fetch_add(next_idx, 1); leave the loop when idx >= count.
Fetch(t) ==
  /\ pc[t] = "fetch"
  /\ idx' = [idx EXCEPT ![t] = next_idx]
  /\ next_idx' = next_idx + 1
  /\ Goto(t, IF next_idx < count THEN "in_fn"
             ELSE IF t = Main THEN "join" ELSE "exited")
  /\ UNCHANGED <<count, nworkers, finished>>

\* fn(idx, ctx) returns.
FnReturn(t) ==
  /\ pc[t] = "in_fn"
  /\ finished' = finished \union {idx[t]}
  /\ Goto(t, "fetch")
  /\ UNCHANGED <<count, idx, next_idx, nworkers>>

\* Bug: the join loop stops one thread short.
BugJoinShort ==
  /\ pc[Main] = "join"
  /\ \A t \in 1 .. nworkers - 1 : pc[t] = "exited"
  /\ Goto(Main, "returned")
  /\ UNCHANGED <<count, idx, next_idx, nworkers, finished>>

\* Bug: the join loop runs over the threads asked for, not those created.
BugJoinRequested ==
  /\ pc[Main] = "join"
  /\ \A t \in Threads : pc[t] = "exited"
  /\ Goto(Main, "returned")
  /\ UNCHANGED <<count, idx, next_idx, nworkers, finished>>

\* The caller has joined every thread it created, and returns.
JoinAll ==
  /\ pc[Main] = "join"
  /\ \A t \in 1 .. nworkers : pc[t] = "exited"
  /\ Goto(Main, "returned")
  /\ UNCHANGED <<count, idx, next_idx, nworkers, finished>>

\* cbm_parallel_for has returned; the call is over.
Done ==
  /\ pc[Main] = "returned"
  /\ UNCHANGED vars

Next ==
  \/ EmptyCall \/ EnterSerial \/ SerialCall \/ SerialReturn
  \/ EnterParallel \/ Spawn \/ EndSpawn
  \/ \E t \in All : Fetch(t) \/ FnReturn(t)
  \/ JoinAll
  \/ Done

\* Threads are scheduled, and fn returns: every thread that can step does.
Fairness ==
  /\ WF_vars(EmptyCall \/ EnterSerial \/ SerialCall \/ SerialReturn
             \/ EnterParallel \/ EndSpawn \/ JoinAll)
  /\ \A t \in All : WF_vars(Fetch(t) \/ FnReturn(t))

Spec == Init /\ [][Next]_vars /\ Fairness

-----------------------------------------------------------------------------
(* Properties *)

Labels == {"absent", "enter", "serial", "in_serial", "spawn", "fetch",
           "in_fn", "join", "exited", "returned"}

InFn == {"in_fn", "in_serial"}

\* Every variable has its type; an index that has been worked on is one of
\* those the caller asked for.
TypeOK ==
  /\ count \in Counts
  /\ pc \in [All -> Labels]
  /\ idx \in [All -> Nat]
  /\ next_idx \in Nat
  /\ nworkers \in 0 .. MaxWorkers
  /\ finished \subseteq Index

\* "Each index [0..count-1] is visited exactly once": no two threads are in
\* fn with the same index, and no thread is in fn with an index outside the
\* range or with one whose call has already returned.
VisitedOnce ==
  /\ \A t \in All : pc[t] \in InFn => idx[t] \in Index \ finished
  /\ \A t, u \in All : pc[t] \in InFn /\ pc[u] \in InFn /\ idx[t] = idx[u] => t = u

\* The counter and the argument block live in the caller's stack frame: once
\* cbm_parallel_for has returned, no thread is left that can touch them.
FrameOutlivesThreads ==
  pc[Main] = "returned" => \A t \in Threads : pc[t] \in {"absent", "exited"}

\* The promise of worker_pool.h, under the mapping that reads an index's
\* status off the threads.
PF == INSTANCE ParallelFor WITH
        status   <- [i \in Index |->
                       IF i \in finished THEN "done"
                       ELSE IF \E t \in All : pc[t] \in InFn /\ idx[t] = i
                       THEN "running" ELSE "todo"],
        returned <- (pc[Main] = "returned")

\* The pool implements the promise: in particular it returns only when every
\* index has been visited, whichever threads could be created.
ImplementsParallelFor == PF!Spec

\* "Blocks until all iterations complete", and no longer: whatever thread
\* creation fails, the call returns.
Returns == <>(pc[Main] = "returned")

=============================================================================
