--------------------------- MODULE WorkerPoolProofs ---------------------------
(***************************************************************************)
(* The worker pool keeps its promise for every count and every number of   *)
(* threads: type correctness, each index visited once, no thread outliving *)
(* the caller's stack frame, and the step simulation of ParallelFor.       *)
(***************************************************************************)
EXTENDS WorkerPool, TLAPS

\* A leaf that names no prover is tried with Zenon, then with SMT.
USE ZenonT(60), SMTT(60)

\* Nothing has happened yet: no threads, nothing claimed.
Idle ==
  /\ next_idx = 0
  /\ nworkers = 0
  /\ finished = {}
  /\ idx[Main] = 0

\* In the serial loop exactly the indices below the loop variable are done.
SerialInv ==
  pc[Main] \in {"serial", "in_serial"} =>
    /\ nworkers = 0
    /\ finished = 0 .. idx[Main] - 1
    /\ idx[Main] <= count
    /\ pc[Main] = "in_serial" => idx[Main] < count

\* An index below the counter has been claimed by one thread, which is still
\* in fn with it or has finished it; an index above it is untouched.
ClaimInv ==
  /\ \A t \in All : pc[t] = "in_fn" =>
       idx[t] \in Index /\ idx[t] < next_idx /\ idx[t] \notin finished
  /\ \A t, u \in All :
       pc[t] = "in_fn" /\ pc[u] = "in_fn" /\ idx[t] = idx[u] => t = u
  /\ pc[Main] \in {"spawn", "fetch", "in_fn", "join"} =>
       /\ \A i \in finished : i < next_idx
       /\ \A i \in Index : i < next_idx =>
            i \in finished \/ \E t \in All : pc[t] = "in_fn" /\ idx[t] = i

\* The threads that exist are 1 .. nworkers, in the loop or gone from it; one
\* leaves the loop only when the counter has passed the last index.
ThreadInv ==
  /\ \A t \in Threads : pc[t] \in {"absent", "fetch", "in_fn", "exited"}
  /\ \A t \in Threads : pc[t] = "absent" <=> t > nworkers
  /\ \A t \in All : pc[t] \in {"exited", "join"} => count <= next_idx
  /\ pc[Main] \notin {"absent", "exited"}

\* When the call has returned, everything is done and every thread is gone.
ReturnInv ==
  pc[Main] = "returned" =>
    /\ finished = Index
    /\ \A t \in Threads : pc[t] \in {"absent", "exited"}

\* The inductive invariant.
IInv ==
  /\ TypeOK
  /\ pc[Main] = "enter" => Idle
  /\ SerialInv
  /\ ClaimInv
  /\ ThreadInv
  /\ ReturnInv

USE PoolAssumption

LEMMA InitIInv == Init => IInv
  BY SMTT(60) DEF Init, IInv, TypeOK, Idle, SerialInv, ClaimInv, ThreadInv, ReturnInv,
         Labels, All, Main, Threads, Index

LEMMA StepIInv == IInv /\ [Next]_vars => IInv'
<1> SUFFICES ASSUME IInv, [Next]_vars PROVE IInv'
  OBVIOUS
<1> USE DEF IInv, TypeOK, Idle, SerialInv, ClaimInv, ThreadInv, ReturnInv,
            Labels, All, Main, Threads, Index, Goto
<1>1. CASE EmptyCall
  <2>1. TypeOK'
    BY <1>1 DEF EmptyCall
  <2>2. (pc[Main] = "enter" => Idle)' /\ SerialInv'
    BY <1>1 DEF EmptyCall
  <2>3. ClaimInv'
    BY <1>1, SMTT(60) DEF EmptyCall
  <2>4. ThreadInv'
    BY <1>1 DEF EmptyCall
  <2>5. ReturnInv'
    <3>1. count \in Int /\ count <= 0 /\ finished = {} /\ nworkers = 0
      BY <1>1 DEF EmptyCall
    <3>2. 0 .. count - 1 = {}
      BY <3>1, SMTT(60)
    <3> QED
      BY <1>1, <3>1, <3>2, SMTT(60) DEF EmptyCall
  <2> QED
    BY <2>1, <2>2, <2>3, <2>4, <2>5
<1>2. CASE EnterSerial
  <2>1. TypeOK'
    BY <1>2 DEF EnterSerial
  <2>2. (pc[Main] = "enter" => Idle)' /\ SerialInv'
    <3>1. idx[Main] = 0 /\ finished = {} /\ nworkers = 0
      BY <1>2 DEF EnterSerial
    <3>2. 0 .. idx[Main] - 1 = {}
      BY <3>1, SMTT(60)
    <3> QED
      BY <1>2, <3>1, <3>2, SMTT(60) DEF EnterSerial
  <2>3. ClaimInv'
    BY <1>2, SMTT(60) DEF EnterSerial
  <2>4. ThreadInv'
    BY <1>2 DEF EnterSerial
  <2>5. ReturnInv'
    BY <1>2 DEF EnterSerial
  <2> QED
    BY <2>1, <2>2, <2>3, <2>4, <2>5
<1>3. CASE SerialCall
  BY <1>3, SMTT(60) DEF SerialCall
<1>4. CASE SerialReturn
  BY <1>4, SMTT(60) DEF SerialReturn
<1>5. CASE EnterParallel
  BY <1>5, SMTT(60) DEF EnterParallel
<1>6. CASE Spawn
  BY <1>6, SMTT(60) DEF Spawn
<1>7. CASE EndSpawn
  BY <1>7, SMTT(60) DEF EndSpawn
<1>8. ASSUME NEW t \in All, Fetch(t) PROVE IInv'
  BY <1>8, SMTT(60) DEF Fetch
<1>9. ASSUME NEW t \in All, FnReturn(t) PROVE IInv'
  <2>1. TypeOK'
    <3>1. idx[t] \in Index
      BY <1>9 DEF FnReturn
    <3>2. finished' \subseteq Index'
      BY <1>9, <3>1 DEF FnReturn
    <3> QED
      BY <1>9, <3>2 DEF FnReturn
  <2>2. (pc[Main] = "enter" => Idle)' /\ SerialInv'
    BY <1>9, SMTT(60) DEF FnReturn
  <2>3. ClaimInv'
    BY <1>9, SMTT(60) DEF FnReturn
  <2>4. ThreadInv'
    BY <1>9 DEF FnReturn
  <2>5. ReturnInv'
    BY <1>9 DEF FnReturn
  <2> QED
    BY <2>1, <2>2, <2>3, <2>4, <2>5
<1>10. CASE JoinAll
  <2>1. TypeOK'
    BY <1>10 DEF JoinAll
  <2>2. (pc[Main] = "enter" => Idle)' /\ SerialInv'
    BY <1>10 DEF JoinAll
  <2>3. ClaimInv'
    BY <1>10, SMTT(60) DEF JoinAll
  <2>4. ThreadInv'
    BY <1>10 DEF JoinAll
  <2>5. ReturnInv'
    <3>1. \A t \in Threads : pc[t] \in {"absent", "exited"}
      BY <1>10, SMTT(60) DEF JoinAll
    <3>2. ASSUME NEW i \in Index PROVE i \in finished
      <4>1. count \in Int /\ count <= next_idx /\ i < count
        BY <1>10, SMTT(60) DEF JoinAll
      <4>2. \A t \in All : pc[t] # "in_fn"
        BY <1>10, <3>1 DEF JoinAll
      <4> QED
        BY <1>10, <4>1, <4>2, SMTT(60) DEF JoinAll
    <3>3. finished = Index
      BY <3>2
    <3> QED
      BY <1>10, <3>1, <3>3 DEF JoinAll
  <2> QED
    BY <2>1, <2>2, <2>3, <2>4, <2>5
<1>11. CASE Done \/ UNCHANGED vars
  <2>1. TypeOK'
    BY <1>11 DEF Done, vars
  <2>2. (pc[Main] = "enter" => Idle)' /\ SerialInv'
    BY <1>11 DEF Done, vars
  <2>3. ClaimInv'
    <3>1. pc' = pc /\ idx' = idx /\ next_idx' = next_idx /\ count' = count
          /\ finished' = finished /\ Index' = Index
      BY <1>11 DEF Done, vars
    <3> HIDE DEF Index, All
    <3> QED
      BY <3>1, SMTT(60)
  <2>4. ThreadInv'
    BY <1>11, SMTT(60) DEF Done, vars
  <2>5. ReturnInv'
    BY <1>11 DEF Done, vars
  <2> QED
    BY <2>1, <2>2, <2>3, <2>4, <2>5
<1> QED
  BY <1>1, <1>2, <1>3, <1>4, <1>5, <1>6, <1>7, <1>8, <1>9, <1>10, <1>11
  DEF Next

LEMMA PoolIInv == Spec => []IInv
  BY InitIInv, StepIInv, PTL DEF Spec

\* Every thread is in fn with at most one index of the range, and no index is
\* called twice, whatever the count, the number of threads asked for and the
\* number that could be created (pthread_worker, run_pthreads, run_serial).
THEOREM PoolVisitsOnce == Spec => [](TypeOK /\ VisitedOnce)
<1>1. IInv => TypeOK /\ VisitedOnce
  <2> SUFFICES ASSUME IInv PROVE VisitedOnce
    BY DEF IInv
  <2>1. ASSUME NEW t \in All, pc[t] \in InFn
        PROVE  idx[t] \in Index \ finished
    BY <2>1, SMTT(60) DEF IInv, TypeOK, SerialInv, ClaimInv, ThreadInv, InFn, All, Main,
                Threads, Index
  <2>2. ASSUME NEW t \in All, NEW u \in All, pc[t] \in InFn, pc[u] \in InFn,
               idx[t] = idx[u]
        PROVE  t = u
    <3>1. CASE pc[t] = "in_fn" /\ pc[u] = "in_fn"
      BY <2>2, <3>1 DEF IInv, ClaimInv
    <3>2. CASE pc[t] = "in_serial" \/ pc[u] = "in_serial"
      BY <2>2, <3>2, SMTT(60) DEF IInv, TypeOK, SerialInv, ThreadInv, InFn, All, Main,
                        Threads
    <3> QED
      BY <2>2, <3>1, <3>2 DEF InFn
  <2> QED
    BY <2>1, <2>2 DEF VisitedOnce
<1> QED
  BY <1>1, PoolIInv, PTL

\* The join loop of run_pthreads waits for every thread that was created, so
\* none can use the caller's stack frame after it is gone.
THEOREM PoolFrameSafe == Spec => []FrameOutlivesThreads
<1>1. IInv => FrameOutlivesThreads
  BY DEF IInv, ReturnInv, FrameOutlivesThreads
<1> QED
  BY <1>1, PoolIInv, PTL

LEMMA InitRefines == Init => PF!Init
  BY DEF Init, PF!Init, PF!Index, Index, All, Main, Threads, InFn

LEMMA StepRefines == IInv /\ IInv' /\ [Next]_vars => [PF!Next]_(PF!vars)
<1> SUFFICES ASSUME IInv, IInv', [Next]_vars PROVE [PF!Next]_(PF!vars)
  OBVIOUS
<1> DEFINE Running(i) == \E t \in All : pc[t] \in InFn /\ idx[t] = i
<1> DEFINE Status(i) == IF i \in finished THEN "done"
                        ELSE IF Running(i) THEN "running" ELSE "todo"
<1>a. /\ PF!Index = Index
      /\ PF!vars = <<count, [i \in Index |-> Status(i)], pc[Main] = "returned">>
  BY DEF PF!Index, Index, PF!vars
<1> HIDE DEF Running, Status
\* A step that leaves every index's status and the return flag alone.
<1>b. ASSUME count' = count, \A i \in Index : Status(i)' = Status(i),
             (pc[Main] = "returned")' = (pc[Main] = "returned")
      PROVE  UNCHANGED PF!vars
  <2>1. Index' = Index
    BY <1>b DEF Index
  <2> QED
    BY <1>b, <2>1 DEF PF!vars, Running, Status
\* A step that calls, or returns from, fn(i) and touches no other index.
<1>c. ASSUME NEW i \in Index, count' = count,
             \A j \in Index \ {i} : Status(j)' = Status(j),
             (pc[Main] = "returned")' = (pc[Main] = "returned"),
             \/ Status(i) = "todo" /\ Status(i)' = "running"
             \/ Status(i) = "running" /\ Status(i)' = "done"
      PROVE  PF!Next
  <2>1. Index' = Index
    BY <1>c DEF Index
  <2> DEFINE F == [j \in Index |-> Status(j)]
  <2>2. \A j \in Index : F[j] = Status(j) /\ F'[j] = Status(j)'
    BY <2>1
  <2>3. F' = [F EXCEPT ![i] = Status(i)']
    BY <1>c, <2>1, <2>2
  <2>4. CASE Status(i) = "todo" /\ Status(i)' = "running"
    <3>1. F[i] = "todo" /\ F' = [F EXCEPT ![i] = "running"]
      BY <2>2, <2>3, <2>4
    <3>2. PF!Start(i)
      BY <1>c, <3>1 DEF PF!Start, Running, Status
    <3> QED
      BY <3>2, <1>a DEF PF!Next
  <2>5. CASE Status(i) = "running" /\ Status(i)' = "done"
    <3>1. F[i] = "running" /\ F' = [F EXCEPT ![i] = "done"]
      BY <2>2, <2>3, <2>5
    <3>2. PF!Finish(i)
      BY <1>c, <3>1 DEF PF!Finish, Running, Status
    <3> QED
      BY <3>2, <1>a DEF PF!Next
  <2> QED
    BY <2>4, <2>5, <1>c
\* A step that returns to the caller with everything done.
<1>d. ASSUME count' = count, pc[Main] # "returned", pc'[Main] = "returned",
             finished' = finished, finished = Index
      PROVE  PF!Next
  <2>1. Index' = Index
    BY <1>d DEF Index
  <2>2. PF!Return
    BY <1>d, <2>1 DEF PF!Return, PF!Index, Index
  <2> QED
    BY <2>2 DEF PF!Next
<1> USE DEF Goto, All, Main, Threads
<1>t. /\ count \in Int /\ pc \in [All -> Labels] /\ idx \in [All -> Nat]
      /\ next_idx \in Nat /\ nworkers \in 0 .. MaxWorkers
  BY DEF IInv, TypeOK
<1>1. CASE EmptyCall
  <2>1. finished' = Index'
    BY <1>1, <1>t DEF EmptyCall, IInv, ReturnInv
  <2> QED
    BY <1>1, <2>1, <1>d, <1>t DEF EmptyCall, Index
<1>2. CASE EnterSerial \/ EnterParallel \/ EndSpawn
  <2>1. \A i \in Index : Status(i)' = Status(i)
    BY <1>2, <1>t DEF EnterSerial, EnterParallel, EndSpawn, Status, Running, InFn
  <2> QED
    BY <1>2, <2>1, <1>b, <1>t DEF EnterSerial, EnterParallel, EndSpawn
<1>3. CASE SerialCall
  <2>1. CASE idx[Main] < count
    <3>1. idx[Main] \in Index /\ idx[Main] \notin finished
      BY <1>3, <2>1, <1>t, SMTT(60) DEF SerialCall, IInv, SerialInv, Index
    <3>2. \A t \in Threads : pc[t] = "absent" /\ pc'[t] = "absent"
      BY <1>3, <1>t, SMTT(60) DEF SerialCall, IInv, SerialInv, ThreadInv
    <3>3. Status(idx[Main]) = "todo" /\ Status(idx[Main])' = "running"
      BY <1>3, <2>1, <3>1, <3>2, <1>t DEF SerialCall, Status, Running, InFn
    <3>4. \A j \in Index \ {idx[Main]} : Status(j)' = Status(j)
      BY <1>3, <2>1, <3>2, <1>t DEF SerialCall, Status, Running, InFn
    <3> QED
      BY <1>3, <2>1, <3>1, <3>3, <3>4, <1>c, <1>t DEF SerialCall
  <2>2. CASE ~ (idx[Main] < count)
    <3>1. finished' = Index'
      BY <1>3, <2>2, <1>t DEF SerialCall, IInv, ReturnInv
    <3> QED
      BY <1>3, <2>2, <3>1, <1>d, <1>t DEF SerialCall, Index
  <2> QED
    BY <2>1, <2>2
<1>4. CASE SerialReturn
  <2>1. PICK i \in Index : i = idx[Main] /\ i \notin finished
    BY <1>4, <1>t, SMTT(60) DEF SerialReturn, IInv, SerialInv, Index
  <2>2. \A t \in Threads : pc[t] = "absent" /\ pc'[t] = "absent"
    BY <1>4, <1>t, SMTT(60) DEF SerialReturn, IInv, SerialInv, ThreadInv
  <2>3. Status(i) = "running" /\ Status(i)' = "done"
    BY <1>4, <2>1, <2>2, <1>t DEF SerialReturn, Status, Running, InFn
  <2>4. \A j \in Index \ {i} : Status(j)' = Status(j)
    BY <1>4, <2>1, <2>2, <1>t DEF SerialReturn, Status, Running, InFn
  <2> QED
    BY <1>4, <2>3, <2>4, <1>c, <1>t DEF SerialReturn
<1>5. CASE Spawn
  <2>1. \A i \in Index : Status(i)' = Status(i)
    BY <1>5, <1>t, SMTT(60) DEF Spawn, IInv, ThreadInv, Status, Running, InFn
  <2> QED
    BY <1>5, <2>1, <1>b, <1>t DEF Spawn
<1>6. ASSUME NEW t \in All, Fetch(t) PROVE [PF!Next]_(PF!vars)
  <2>1. CASE next_idx < count
    <3>1. pc[Main] \in {"spawn", "fetch", "in_fn", "join"}
      BY <1>6, <2>1, <1>t, SMTT(60) DEF Fetch, IInv, Idle, SerialInv, ThreadInv, ReturnInv,
                              Labels
    <3>2. PICK i \in Index : i = next_idx /\ i \notin finished
      BY <3>1, <2>1, <1>t, SMTT(60) DEF IInv, ClaimInv, Index
    <3>3. \A u \in All : pc[u] \in InFn => idx[u] # i
      BY <3>1, <3>2, <1>t, SMTT(60) DEF IInv, ClaimInv, ThreadInv, InFn
    <3>4. Status(i) = "todo"
      BY <3>2, <3>3 DEF Status, Running
    <3>5. Status(i)' = "running"
      BY <1>6, <2>1, <3>2, <1>t DEF Fetch, Status, Running, InFn
    <3>6. \A j \in Index \ {i} : Status(j)' = Status(j)
      BY <1>6, <2>1, <3>2, <1>t DEF Fetch, Status, Running, InFn
    <3> QED
      BY <1>6, <2>1, <3>4, <3>5, <3>6, <1>c, <1>t DEF Fetch
  <2>2. CASE ~ (next_idx < count)
    <3>1. \A i \in Index : Status(i)' = Status(i)
      BY <1>6, <2>2, <1>t DEF Fetch, Status, Running, InFn
    <3> QED
      BY <1>6, <2>2, <3>1, <1>b, <1>t DEF Fetch
  <2> QED
    BY <2>1, <2>2
<1>7. ASSUME NEW t \in All, FnReturn(t) PROVE [PF!Next]_(PF!vars)
  <2>1. idx[t] \in Index /\ idx[t] \notin finished
    BY <1>7 DEF FnReturn, IInv, ClaimInv
  <2>2. Status(idx[t]) = "running" /\ Status(idx[t])' = "done"
    BY <1>7, <2>1 DEF FnReturn, Status, Running, InFn
  <2>3. \A j \in Index \ {idx[t]} : Status(j)' = Status(j)
    BY <1>7, <1>t DEF FnReturn, Status, Running, InFn
  <2> QED
    BY <1>7, <2>1, <2>2, <2>3, <1>c, <1>t DEF FnReturn
<1>8. CASE JoinAll
  <2>1. finished' = Index'
    BY <1>8, <1>t DEF JoinAll, IInv, ReturnInv
  <2> QED
    BY <1>8, <2>1, <1>d, <1>t DEF JoinAll, Index
<1>9. CASE Done \/ UNCHANGED vars
  <2>1. \A i \in Index : Status(i)' = Status(i)
    BY <1>9 DEF Done, vars, Status, Running
  <2> QED
    BY <1>9, <2>1, <1>b DEF Done, vars
<1> QED
  BY <1>1, <1>2, <1>3, <1>4, <1>5, <1>6, <1>7, <1>8, <1>9
  DEF Next

\* The pool implements the promise of worker_pool.h (safety part): the threads
\* together behave as one parallel-for that calls fn once per index and
\* returns when all calls have returned.
THEOREM PoolImplementsParallelFor == Spec => ImplementsParallelFor
  BY InitRefines, StepRefines, PoolIInv, PTL
  DEF Spec, ImplementsParallelFor, PF!Spec

=============================================================================
