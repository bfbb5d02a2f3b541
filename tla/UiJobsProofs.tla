---------------------------- MODULE UiJobsProofs ----------------------------
(***************************************************************************)
(* For any number of slots, jobs, process numbers and lines, and any size  *)
(* of the ring: a slot has one thread, a thread that is over has reaped    *)
(* its child, process-kill misses only in the window between a slot's      *)
(* claim and the fork (from IInv); every line of a child that was alone is *)
(* shown, and the ring returns the last lines (from LInv).                 *)
(***************************************************************************)
EXTENDS UiJobs, TLAPS

\* A leaf that names no prover is tried with Zenon, then with SMT.
USE ZenonT(60), SMTT(60)

Places == {"none", "fork", "poll", "read", "copy", "end", "over"}

IsThread(r) ==
  /\ DOMAIN r = {"pc", "slot", "done", "tail", "lf", "buf"}
  /\ r.pc \in Places /\ r.slot \in Slots /\ r.done \in BOOLEAN

IsProc(r) ==
  /\ DOMAIN r = {"is", "job"}
  /\ r.is \in {"free", "child", "zombie", "other"}
  /\ r.is \in {"child", "zombie"} => r.job \in Jobs
  /\ r.is \in {"free", "other"} => r.job = 0

IsChild(r) == DOMAIN r = {"pc", "lines", "fd"}

TInv ==
  /\ status \in [Slots -> {Idle, Running, Done, Error}]
  /\ child_pid \in [Slots -> Pids \union {0}]
  /\ njobs \in 0..MaxJobs
  /\ DOMAIN th = Jobs /\ \A j \in Jobs : IsThread(th[j])
  /\ th = [j \in Jobs |-> th[j]]
  /\ DOMAIN proc = Pids /\ proc = [p \in Pids |-> proc[p]] /\ \A p \in Pids : IsProc(proc[p])
  /\ DOMAIN child = Jobs /\ child = [j \in Jobs |-> child[j]] /\ \A j \in Jobs : IsChild(child[j])
  /\ \A j \in Jobs : j > njobs => th[j].pc = "none"

\* No process number is the job's.
NoProc(j) == \A p \in Pids : proc[p].job # j

\* Where the job's child is, for each place of its thread
JobInv(j) ==
  /\ th[j].pc \in {"none", "fork"} => child[j].pc = "none" /\ NoProc(j) /\ ~th[j].done
  /\ th[j].pc \in {"poll", "read", "copy"} /\ ~th[j].done =>
       LET p == child_pid[th[j].slot]
       IN /\ p \in Pids /\ proc[p].job = j
          /\ \A q \in Pids : proc[q].job = j => q = p
          /\ proc[p].is = "zombie" => child[j].pc = "exited"
  /\ th[j].pc = "poll" => ~th[j].done
  /\ th[j].pc = "end" => th[j].done
  /\ th[j].pc \in {"read", "copy", "end"} /\ th[j].done =>
       /\ child_pid[th[j].slot] \in Pids /\ proc[child_pid[th[j].slot]].is = "free"
       /\ child[j].pc = "exited" /\ NoProc(j)
  /\ th[j].pc = "over" => child[j].pc \in {"none", "exited"} /\ NoProc(j)

IInv ==
  /\ TInv
  /\ SlotOwned
  /\ \A j \in Jobs : JobInv(j)
  /\ KillAstrayOnlyBy
-----------------------------------------------------------------------------
\* What is unchanged for a job keeps what is known of it.
LEMMA JobFrame ==
  ASSUME NEW k \in Jobs, JobInv(k), th'[k] = th[k], child'[k].pc = child[k].pc,
         Active(k) => child_pid'[th[k].slot] = child_pid[th[k].slot],
         \A q \in Pids : (proc'[q].job = k <=> proc[q].job = k) /\ (proc[q].job = k => proc'[q] = proc[q]),
         th[k].pc \in {"read", "copy", "end"} /\ th[k].done => proc'[child_pid[th[k].slot]].is = "free"
  PROVE  JobInv(k)'
  BY DEF JobInv, NoProc, Active

\* A step inside a thread's life keeps the slots as they are.
LEMMA OwnedFrame ==
  ASSUME SlotOwned, status' = status,
         \A k \in Jobs : th'[k].slot = th[k].slot /\ (Active(k)' <=> Active(k))
  PROVE  SlotOwned'
  BY DEF SlotOwned

LEMMA Spaces ==
  /\ Jobs = 1..MaxJobs /\ MaxJobs \in Nat /\ 0 \notin Jobs /\ 0 \notin Pids
  /\ \A j \in Jobs : j \in Nat
  BY UiJobsAssumption, SMTT(60) DEF Jobs, Pids

LEMMA InitInv == Init => IInv
  <1> SUFFICES ASSUME Init PROVE IInv
    OBVIOUS
  <1>1. /\ th = [j \in Jobs |-> NoThread] /\ child = [j \in Jobs |-> NoChild]
        /\ proc = [p \in Pids |-> Free] /\ njobs = 0 /\ astray = {}
        /\ status = [s \in Slots |-> Idle] /\ child_pid = [s \in Slots |-> 0]
    BY DEF Init
  <1>2. 1 \in Slots
    BY UiJobsAssumption, SMTT(60) DEF Slots
  <1>3. IsThread(NoThread)
    BY <1>2 DEF IsThread, NoThread, Places
  <1>4. IsProc(Free)
    BY DEF IsProc, Free
  <1>5. IsChild(NoChild)
    BY DEF IsChild, NoChild
  <1>6. TInv
    BY <1>1, <1>3, <1>4, <1>5, Spaces, SMTT(60) DEF TInv, NoThread
  <1>7. SlotOwned
    BY <1>1, SMTT(60) DEF SlotOwned, Active, NoThread, Idle, Running
  <1>8. \A j \in Jobs : JobInv(j)
    BY <1>1, Spaces DEF JobInv, NoThread, NoChild, NoProc, Free
  <1>9. KillAstrayOnlyBy
    BY <1>1 DEF KillAstrayOnlyBy
  <1> QED
    BY <1>6, <1>7, <1>8, <1>9 DEF IInv

\* One thread's record is replaced by a well-formed one.
LEMMA ThreadTyped ==
  ASSUME TInv, NEW j \in Jobs, NEW r, IsThread(r), j <= njobs, th' = [th EXCEPT ![j] = r]
  PROVE  /\ DOMAIN th' = Jobs /\ \A k \in Jobs : IsThread(th'[k])
         /\ th' = [k \in Jobs |-> th'[k]]
         /\ th'[j] = r /\ \A k \in Jobs \ {j} : th'[k] = th[k]
         /\ \A k \in Jobs : k > njobs => th'[k].pc = "none"
  <1>1. /\ DOMAIN th = Jobs /\ th = [k \in Jobs |-> th[k]] /\ \A k \in Jobs : IsThread(th[k])
        /\ \A k \in Jobs : k > njobs => th[k].pc = "none"
    BY DEF TInv
  <1>2. th'[j] = r /\ \A k \in Jobs \ {j} : th'[k] = th[k]
    BY <1>1
  <1>3. DOMAIN th' = Jobs /\ th' = [k \in Jobs |-> th'[k]]
    BY <1>1
  <1>4. \A k \in Jobs : IsThread(th'[k])
    BY <1>1, <1>2
  <1>5. njobs \in Nat
    BY Spaces, SMTT(60) DEF TInv
  <1>6. \A k \in Jobs : k > njobs => th'[k].pc = "none"
    BY <1>1, <1>2, <1>5, Spaces, SMTT(60)
  <1> QED
    BY <1>2, <1>3, <1>4, <1>6

\* A job that has a thread is one that was started.
LEMMA Started ==
  ASSUME TInv, NEW j \in Jobs, th[j].pc # "none"
  PROVE  j <= njobs
  <1>1. njobs \in Nat /\ j \in Nat
    BY Spaces, SMTT(60) DEF TInv
  <1> QED
    BY <1>1, SMTT(60) DEF TInv

LEMMA IndexStartStep ==
  ASSUME IInv, IndexStart
  PROVE  IInv'
  <1>a. TInv /\ SlotOwned /\ (\A k \in Jobs : JobInv(k)) /\ KillAstrayOnlyBy
    BY DEF IInv
  <1>0. PICK j : j = njobs + 1
    OBVIOUS
  <1>b. PICK s \in Slots :
          /\ FreeSlot(s)
          /\ njobs' = j
          /\ \/ /\ status' = [status EXCEPT ![s] = Running]
                /\ th' = [th EXCEPT ![j] = [NoThread EXCEPT !.pc = "fork", !.slot = s]]
             \/ /\ status' = [status EXCEPT ![s] = Error]
                /\ th' = [th EXCEPT ![j] = [NoThread EXCEPT !.pc = "over", !.slot = s]]
    BY <1>0 DEF IndexStart
  <1>c. j \in Jobs /\ j \in 0..MaxJobs /\ njobs \in Nat
    BY <1>0, <1>a, Spaces, SMTT(60) DEF IndexStart, TInv
  <1>d. UNCHANGED <<child_pid, proc, child, astray>>
    BY DEF IndexStart
  <1>e. th[j].pc = "none"
    BY <1>0, <1>a, <1>c, SMTT(60) DEF TInv
  <1>f. status[s] # Running /\ status \in [Slots -> {Idle, Running, Done, Error}]
    BY <1>a, <1>b, SMTT(60) DEF FreeSlot, TInv, Idle, Running, Done, Error
  <1>g. PICK l \in {"fork", "over"} :
          /\ th' = [th EXCEPT ![j] = [NoThread EXCEPT !.pc = l, !.slot = s]]
          /\ status' = [status EXCEPT ![s] = IF l = "fork" THEN Running ELSE Error]
    BY <1>b
  <1> DEFINE r == [NoThread EXCEPT !.pc = l, !.slot = s]
  <1>h. IsThread(r) /\ r.pc = l /\ r.slot = s /\ r.done = FALSE
    BY DEF IsThread, Places, NoThread
  <1>i. /\ DOMAIN th = Jobs /\ th = [k \in Jobs |-> th[k]] /\ \A k \in Jobs : IsThread(th[k])
        /\ \A k \in Jobs : k > njobs => th[k].pc = "none"
    BY <1>a DEF TInv
  <1> HIDE DEF r
  <1>1. /\ th'[j] = r /\ \A k \in Jobs \ {j} : th'[k] = th[k]
        /\ DOMAIN th' = Jobs /\ th' = [k \in Jobs |-> th'[k]]
    BY <1>c, <1>g, <1>i DEF r
  <1>2. \A k \in Jobs : k > njobs' => th'[k].pc = "none"
    BY <1>0, <1>b, <1>c, <1>i, <1>1, Spaces, SMTT(60)
  <1>3. TInv'
    <2>1. status' \in [Slots -> {Idle, Running, Done, Error}]
      BY <1>f, <1>g
    <2>2. \A k \in Jobs : IsThread(th[k])'
      BY <1>h, <1>i, <1>1 DEF IsThread
    <2>3. \A p \in Pids : IsProc(proc[p])'
      BY <1>a, <1>d DEF TInv, IsProc
    <2>4. \A k \in Jobs : IsChild(child[k])'
      BY <1>a, <1>d DEF TInv, IsChild
    <2> QED
      BY <1>a, <1>b, <1>c, <1>d, <1>1, <1>2, <2>1, <2>2, <2>3, <2>4 DEF TInv
  <1>4. SlotOwned'
    <2>1. \A k \in Jobs \ {j} : (Active(k)' <=> Active(k)) /\ th'[k].slot = th[k].slot
      BY <1>1 DEF Active
    <2>2. ~Active(j)
      BY <1>e DEF Active
    <2>3. Active(j)' <=> l = "fork"
      BY <1>h, <1>1 DEF Active
    <2>4. status'[s] = Running <=> l = "fork"
      BY <1>f, <1>g, SMTT(60) DEF Running, Error
    <2>5. \A t \in Slots \ {s} : status'[t] = status[t]
      BY <1>f, <1>g
    <2>6. \A k \in Jobs : Active(k) => th[k].slot # s
      BY <1>a, <1>b, <1>f DEF SlotOwned
    <2>7. th'[j].slot = s
      BY <1>h, <1>1
    <2> QED
      BY <1>a, <1>b, <1>c, <2>1, <2>2, <2>3, <2>4, <2>5, <2>6, <2>7, SMTT(60) DEF SlotOwned
  <1>5. \A k \in Jobs : JobInv(k)'
    <2> SUFFICES ASSUME NEW k \in Jobs PROVE JobInv(k)'
      OBVIOUS
    <2>1. CASE k = j
      <3>1. child[j].pc = "none" /\ NoProc(j)
        BY <1>a, <1>c, <1>e DEF JobInv
      <3>2. child'[j].pc = "none" /\ NoProc(j)'
        BY <1>d, <3>1 DEF NoProc
      <3> QED
        BY <1>h, <1>1, <2>1, <3>2 DEF JobInv
    <2>2. CASE k # j
      <3>1. th[k].slot \in Slots
        BY <1>i DEF IsThread
      <3>2. th[k].pc \in {"read", "copy", "end"} /\ th[k].done => proc[child_pid[th[k].slot]].is = "free"
        BY <1>a DEF JobInv
      <3> QED
        BY <1>a, <1>d, <1>1, <2>2, <3>2, JobFrame
    <2> QED
      BY <2>1, <2>2
  <1>6. KillAstrayOnlyBy'
    BY <1>a, <1>d DEF KillAstrayOnlyBy
  <1> QED
    BY <1>3, <1>4, <1>5, <1>6 DEF IInv

\* One process number changes hands.
LEMMA ProcTyped ==
  ASSUME TInv, NEW p \in Pids, NEW r, IsProc(r), proc' = [proc EXCEPT ![p] = r]
  PROVE  /\ DOMAIN proc' = Pids /\ proc' = [q \in Pids |-> proc'[q]]
         /\ \A q \in Pids : IsProc(proc'[q])
         /\ proc'[p] = r /\ \A q \in Pids \ {p} : proc'[q] = proc[q]
  <1>1. DOMAIN proc = Pids /\ proc = [q \in Pids |-> proc[q]] /\ \A q \in Pids : IsProc(proc[q])
    BY DEF TInv
  <1>2. proc'[p] = r /\ \A q \in Pids \ {p} : proc'[q] = proc[q]
    BY <1>1
  <1>3. DOMAIN proc' = Pids /\ proc' = [q \in Pids |-> proc'[q]]
    BY <1>1
  <1> QED
    BY <1>1, <1>2, <1>3

\* One child's record changes.
LEMMA ChildTyped ==
  ASSUME TInv, NEW j \in Jobs, NEW r, IsChild(r), child' = [child EXCEPT ![j] = r]
  PROVE  /\ DOMAIN child' = Jobs /\ child' = [k \in Jobs |-> child'[k]]
         /\ \A k \in Jobs : IsChild(child'[k])
         /\ child'[j] = r /\ \A k \in Jobs \ {j} : child'[k] = child[k]
  <1>1. DOMAIN child = Jobs /\ child = [q \in Jobs |-> child[q]] /\ \A q \in Jobs : IsChild(child[q])
    BY DEF TInv
  <1>2. child'[j] = r /\ \A q \in Jobs \ {j} : child'[q] = child[q]
    BY <1>1
  <1>3. DOMAIN child' = Jobs /\ child' = [q \in Jobs |-> child'[q]]
    BY <1>1
  <1> QED
    BY <1>1, <1>2, <1>3

\* A number that is free or another's passes between the two.
LEMMA OtherStep ==
  ASSUME IInv, NEW p \in Pids, NEW r, IsProc(r), r.job = 0,
         proc[p].is \in {"free", "other"}, r.is = "free" \/ ~Fresh(p),
         proc' = [proc EXCEPT ![p] = r], UNCHANGED <<status, child_pid, njobs, th, child>>,
         KillAstrayOnlyBy'
  PROVE  IInv'
  <1>a. TInv /\ SlotOwned /\ (\A k \in Jobs : JobInv(k)) /\ KillAstrayOnlyBy
    BY DEF IInv
  <1>1. /\ DOMAIN proc' = Pids /\ proc' = [q \in Pids |-> proc'[q]]
        /\ \A q \in Pids : IsProc(proc'[q])
        /\ proc'[p] = r /\ \A q \in Pids \ {p} : proc'[q] = proc[q]
    BY <1>a, ProcTyped
  <1>2. TInv'
    BY <1>a, <1>1 DEF TInv, IsThread, IsProc, IsChild
  <1>3. SlotOwned'
    BY <1>a DEF SlotOwned, Active
  <1>4. proc[p].job = 0
    BY <1>a DEF TInv, IsProc
  <1>5. \A k \in Jobs : JobInv(k)'
    <2> SUFFICES ASSUME NEW k \in Jobs PROVE JobInv(k)'
      OBVIOUS
    <2>1. k # 0
      BY Spaces
    <2>2. \A q \in Pids : (proc'[q].job = k <=> proc[q].job = k) /\ (proc[q].job = k => proc'[q] = proc[q])
      BY <1>1, <1>4, <2>1
    <2>3. th[k].pc \in {"read", "copy", "end"} /\ th[k].done => proc'[child_pid[th[k].slot]].is = "free"
      BY <1>a, <1>1 DEF JobInv, Fresh
    <2> QED
      BY <1>a, <2>2, <2>3, JobFrame
  <1> QED
    BY <1>2, <1>3, <1>5 DEF IInv

LEMMA OtherStartsStep ==
  ASSUME IInv, NEW p \in Pids, OtherStarts(p)
  PROVE  IInv'
  <1> DEFINE r == [proc[p] EXCEPT !.is = "other"]
  <1>1. IsProc(proc[p]) /\ proc[p].is = "free" /\ KillAstrayOnlyBy
    BY DEF IInv, TInv, OtherStarts
  <1>2. IsProc(r) /\ r.job = 0
    BY <1>1 DEF IsProc
  <1>3. proc' = [proc EXCEPT ![p] = r] /\ ~Fresh(p)
    BY DEF OtherStarts
  <1>4. UNCHANGED <<status, child_pid, njobs, th, child>> /\ KillAstrayOnlyBy'
    BY <1>1 DEF OtherStarts, threads, KillAstrayOnlyBy
  <1> HIDE DEF r
  <1> QED
    BY <1>1, <1>2, <1>3, <1>4, OtherStep

LEMMA OtherEndsStep ==
  ASSUME IInv, NEW p \in Pids, OtherEnds(p)
  PROVE  IInv'
  <1>1. IsProc(Free) /\ Free.job = 0 /\ Free.is = "free"
    BY DEF IsProc, Free
  <1>2. proc' = [proc EXCEPT ![p] = Free] /\ proc[p].is = "other"
    BY DEF OtherEnds
  <1>3. UNCHANGED <<status, child_pid, njobs, th, child>> /\ KillAstrayOnlyBy'
    BY DEF OtherEnds, threads, KillAstrayOnlyBy, IInv
  <1> QED
    BY <1>1, <1>2, <1>3, OtherStep

\* The child of job j ends and becomes a zombie.
LEMMA EndStep ==
  ASSUME IInv, NEW p \in Pids, NEW j \in Jobs, proc[p].job = j, NEW c, IsChild(c), c.pc = "exited",
         proc[p].is = "child",
         child' = [child EXCEPT ![j] = c], proc' = [proc EXCEPT ![p].is = "zombie"],
         UNCHANGED <<status, child_pid, njobs, th, astray>>
  PROVE  IInv'
  <1> DEFINE r == [proc[p] EXCEPT !.is = "zombie"]
  <1>a. TInv /\ SlotOwned /\ (\A k \in Jobs : JobInv(k)) /\ KillAstrayOnlyBy
    BY DEF IInv
  <1>b. IsProc(r) /\ r.job = j /\ r.is = "zombie"
    BY <1>a DEF TInv, IsProc
  <1>c. proc' = [proc EXCEPT ![p] = r]
    OBVIOUS
  <1> HIDE DEF r
  <1>1. /\ DOMAIN proc' = Pids /\ proc' = [q \in Pids |-> proc'[q]]
        /\ \A q \in Pids : IsProc(proc'[q])
        /\ proc'[p] = r /\ \A q \in Pids \ {p} : proc'[q] = proc[q]
    BY <1>a, <1>b, <1>c, ProcTyped
  <1>2. /\ DOMAIN child' = Jobs /\ child' = [k \in Jobs |-> child'[k]]
        /\ \A k \in Jobs : IsChild(child'[k])
        /\ child'[j] = c /\ \A k \in Jobs \ {j} : child'[k] = child[k]
    BY <1>a, ChildTyped
  <1>3. TInv'
    BY <1>a, <1>1, <1>2, SMTT(60) DEF TInv, IsThread, IsProc, IsChild
  <1>4. SlotOwned'
    BY <1>a DEF SlotOwned, Active
  <1>5. \A k \in Jobs : JobInv(k)'
    <2> SUFFICES ASSUME NEW k \in Jobs PROVE JobInv(k)'
      OBVIOUS
    <2>1. CASE k = j
      <3>1. th[j].pc \in Places /\ th[j].done \in BOOLEAN
        BY <1>a DEF TInv, IsThread
      <3>2. th[j].pc \in {"poll", "read", "copy"} /\ ~th[j].done
        BY <1>a, <3>1 DEF JobInv, NoProc, Places
      <3>3. /\ child_pid[th[j].slot] = p
            /\ \A q \in Pids : proc[q].job = j => q = p
        BY <1>a, <3>2 DEF JobInv
      <3>4. \A q \in Pids : proc'[q].job = j => q = p
        BY <1>1, <1>b, <3>3
      <3> QED
        BY <1>1, <1>2, <1>b, <2>1, <3>2, <3>3, <3>4 DEF JobInv
    <2>2. CASE k # j
      <3>1. \A q \in Pids : (proc'[q].job = k <=> proc[q].job = k) /\ (proc[q].job = k => proc'[q] = proc[q])
        BY <1>1, <1>b, <2>2
      <3>2. th[k].pc \in {"read", "copy", "end"} /\ th[k].done => proc'[child_pid[th[k].slot]].is = "free"
        BY <1>a, <1>1 DEF JobInv
      <3> QED
        BY <1>a, <1>2, <2>2, <3>1, <3>2, JobFrame
    <2> QED
      BY <2>1, <2>2
  <1>6. KillAstrayOnlyBy'
    BY <1>a DEF KillAstrayOnlyBy
  <1> QED
    BY <1>3, <1>4, <1>5, <1>6 DEF IInv

LEMMA ChildExitStep ==
  ASSUME IInv, NEW j \in Jobs, ChildExit(j)
  PROVE  IInv'
  <1>2. PICK p \in Pids : proc[p] = [is |-> "child", job |-> j] /\ proc' = [proc EXCEPT ![p].is = "zombie"]
    BY DEF ChildExit
  <1> DEFINE c == [child[j] EXCEPT !.pc = "exited"]
  <1>1. child' = [child EXCEPT ![j] = c]
    BY DEF ChildExit
  <1>3. IsChild(c) /\ c.pc = "exited"
    BY DEF IInv, TInv, IsChild
  <1>4. UNCHANGED <<status, child_pid, njobs, th, astray>>
    BY DEF ChildExit, threads
  <1>5. proc[p].job = j /\ proc[p].is = "child"
    BY <1>2, SMTT(60)
  <1> HIDE DEF c
  <1> QED
    BY <1>1, <1>2, <1>3, <1>4, <1>5, EndStep

\* A kill that reaches none of the children happens only before a fork.
LEMMA MissesBeforeFork ==
  ASSUME IInv, NEW p \in Pids, proc[p].is = "other", NEW s \in Slots, Killable(s, p)
  PROVE  PlaceOf(s) = "fork"
  <1>1. \E j \in Jobs : th[j].slot = s /\ th[j].pc \notin {"none", "over"}
    BY DEF IInv, SlotOwned, Active, Killable
  <1> DEFINE j == CHOOSE k \in Jobs : th[k].slot = s /\ th[k].pc \notin {"none", "over"}
  <1>2. j \in Jobs /\ th[j].slot = s /\ th[j].pc \notin {"none", "over"}
    BY <1>1
  <1>3. PlaceOf(s) = th[j].pc
    BY <1>1 DEF PlaceOf
  <1> HIDE DEF j
  <1>4. JobInv(j) /\ IsThread(th[j]) /\ IsProc(proc[p])
    BY <1>2 DEF IInv, TInv
  <1>5. proc[p].job = 0 /\ j # 0
    BY <1>2, <1>4, Spaces DEF IsProc
  <1>6. th[j].pc \in {"fork", "poll", "read", "copy", "end"} /\ th[j].done \in BOOLEAN
    BY <1>2, <1>4 DEF IsThread, Places
  <1>7. child_pid[th[j].slot] = p
    BY <1>2 DEF Killable
  <1> QED
    BY <1>3, <1>4, <1>5, <1>6, <1>7 DEF JobInv

LEMMA ProcessKillStep ==
  ASSUME IInv, NEW p \in Pids, ProcessKill(p)
  PROVE  IInv'
  <1>a. UNCHANGED <<status, child_pid, njobs, th>>
    BY DEF ProcessKill, threads
  <1>1. CASE /\ proc[p].is = "child"
             /\ child' = [child EXCEPT ![proc[p].job].pc = "exited"]
             /\ proc' = [proc EXCEPT ![p].is = "zombie"]
             /\ UNCHANGED astray
    <2>1. PICK j : j = proc[p].job
      OBVIOUS
    <2>2. j \in Jobs
      BY <1>1, <2>1 DEF IInv, TInv, IsProc
    <2> DEFINE c == [child[j] EXCEPT !.pc = "exited"]
    <2>3. IsChild(c) /\ c.pc = "exited"
      BY <2>2 DEF IInv, TInv, IsChild
    <2>4. child' = [child EXCEPT ![j] = c]
      BY <1>1, <2>1
    <2> HIDE DEF c
    <2> QED
      BY <1>a, <1>1, <2>1, <2>2, <2>3, <2>4, EndStep
  <1>2. CASE /\ proc[p].is = "other"
             /\ proc' = [proc EXCEPT ![p] = Free]
             /\ astray' = astray \union {PlaceOf(s) : s \in {x \in Slots : Killable(x, p)}}
             /\ UNCHANGED child
    <2>1. IsProc(Free) /\ Free.job = 0 /\ Free.is = "free"
      BY DEF IsProc, Free
    <2>2. \A s \in {x \in Slots : Killable(x, p)} : PlaceOf(s) = "fork"
      BY <1>2, MissesBeforeFork
    <2>3. KillAstrayOnlyBy'
      BY <1>2, <2>2 DEF KillAstrayOnlyBy, IInv
    <2> QED
      BY <1>a, <1>2, <2>1, <2>3, OtherStep
  <1> QED
    BY <1>1, <1>2 DEF ProcessKill

\* Steps of a thread, or of its child, that leave the process numbers alone.
LEMMA ThreadOnly ==
  ASSUME IInv, NEW j \in Jobs, NEW r, IsThread(r), th[j].pc # "none", th' = [th EXCEPT ![j] = r],
         UNCHANGED <<child_pid, njobs, proc, child, astray>>,
         status' \in [Slots -> {Idle, Running, Done, Error}], SlotOwned', JobInv(j)'
  PROVE  IInv'
  <1>a. TInv /\ (\A k \in Jobs : JobInv(k)) /\ KillAstrayOnlyBy
    BY DEF IInv
  <1>b. j <= njobs
    BY <1>a, Started
  <1>1. /\ DOMAIN th' = Jobs /\ \A k \in Jobs : IsThread(th'[k])
        /\ th' = [k \in Jobs |-> th'[k]]
        /\ \A k \in Jobs \ {j} : th'[k] = th[k]
        /\ \A k \in Jobs : k > njobs => th'[k].pc = "none"
    BY <1>a, <1>b, ThreadTyped
  <1>2. TInv'
    BY <1>a, <1>1, SMTT(60) DEF TInv, IsThread, IsProc, IsChild
  <1>3. \A k \in Jobs : JobInv(k)'
    <2> SUFFICES ASSUME NEW k \in Jobs, k # j PROVE JobInv(k)'
      OBVIOUS
    <2>1. th[k].pc \in {"read", "copy", "end"} /\ th[k].done => proc'[child_pid[th[k].slot]].is = "free"
      BY <1>a DEF JobInv
    <2> QED
      BY <1>a, <1>1, <2>1, JobFrame
  <1>4. KillAstrayOnlyBy'
    BY <1>a DEF KillAstrayOnlyBy
  <1> QED
    BY <1>2, <1>3, <1>4 DEF IInv

\* A thread that leaves its slot frees it.
LEMMA LeaveSlot ==
  ASSUME IInv, NEW j \in Jobs, Active(j), NEW v \in {Done, Error},
         status' = [status EXCEPT ![th[j].slot] = v],
         \A k \in Jobs \ {j} : th'[k] = th[k], th'[j].pc = "over"
  PROVE  SlotOwned' /\ status' \in [Slots -> {Idle, Running, Done, Error}]
  <1>1. status \in [Slots -> {Idle, Running, Done, Error}] /\ th[j].slot \in Slots /\ v # Running
    BY SMTT(60) DEF IInv, TInv, IsThread, Running, Done, Error
  <1>2. /\ status'[th[j].slot] # Running
        /\ \A s \in Slots : s # th[j].slot => status'[s] = status[s]
    BY <1>1
  <1>3. ~Active(j)' /\ \A k \in Jobs \ {j} : (Active(k)' <=> Active(k)) /\ th'[k].slot = th[k].slot
    BY DEF Active
  <1>4. SlotOwned
    BY DEF IInv
  <1>5. \A s \in Slots : status'[s] = Running <=> \E k \in Jobs : Active(k)' /\ th'[k].slot = s
    BY <1>1, <1>2, <1>3, <1>4, SMTT(60) DEF SlotOwned
  <1>6. \A k, i \in Jobs : Active(k)' /\ Active(i)' /\ th'[k].slot = th'[i].slot => k = i
    BY <1>3, <1>4 DEF SlotOwned
  <1>7. status' \in [Slots -> {Idle, Running, Done, Error}]
    BY <1>1
  <1> QED
    BY <1>5, <1>6, <1>7 DEF SlotOwned

LEMMA FinishStep ==
  ASSUME IInv, NEW j \in Jobs, Finish(j)
  PROVE  IInv'
  <1> DEFINE r == [th[j] EXCEPT !.pc = "over"]
  <1>a. IsThread(th[j]) /\ JobInv(j) /\ th[j].pc = "end" /\ TInv
    BY DEF IInv, TInv, Finish
  <1>b. IsThread(r) /\ r.pc = "over"
    BY <1>a DEF IsThread, Places
  <1>c. /\ th' = [th EXCEPT ![j] = r] /\ status' = [status EXCEPT ![th[j].slot] = Done]
        /\ UNCHANGED <<child_pid, njobs, proc, child, astray>>
    BY DEF Finish
  <1> HIDE DEF r
  <1>1. th'[j] = r /\ \A k \in Jobs \ {j} : th'[k] = th[k]
    BY <1>a, <1>c DEF TInv
  <1>2. SlotOwned' /\ status' \in [Slots -> {Idle, Running, Done, Error}]
    BY <1>a, <1>b, <1>c, <1>1, LeaveSlot DEF Active
  <1>3. child[j].pc = "exited" /\ NoProc(j)
    BY <1>a DEF JobInv
  <1>4. JobInv(j)'
    BY <1>1, <1>b, <1>c, <1>3 DEF JobInv, NoProc
  <1> QED
    BY <1>a, <1>b, <1>c, <1>2, <1>4, ThreadOnly

\* A thread that reads its child's log moves within the loop.
LEMMA ReadStep ==
  ASSUME IInv, NEW j \in Jobs, th[j].pc \in {"read", "copy"}, NEW r, IsThread(r),
         r.slot = th[j].slot, r.done = th[j].done, r.pc \in {"copy", AfterRead(j)},
         th' = [th EXCEPT ![j] = r], UNCHANGED <<status, child_pid, njobs, proc, child, astray>>
  PROVE  IInv'
  <1>a. JobInv(j) /\ TInv /\ SlotOwned
    BY DEF IInv
  <1>b. r.pc \in {"copy", "poll", "end"} /\ (r.pc = "poll" => ~th[j].done) /\ (r.pc = "end" => th[j].done)
    BY DEF AfterRead
  <1>2. th'[j] = r /\ (\A k \in Jobs \ {j} : th'[k] = th[k])
    BY <1>a DEF TInv
  <1>3. \A k \in Jobs : th'[k].slot = th[k].slot /\ (Active(k)' <=> Active(k))
    BY <1>b, <1>2 DEF Active
  <1>4. SlotOwned'
    BY <1>a, <1>3, OwnedFrame
  <1>5. JobInv(j)'
    <2>1. CASE th[j].done
      BY <1>a, <1>b, <1>2, <2>1 DEF JobInv, NoProc
    <2>2. CASE ~th[j].done
      BY <1>a, <1>b, <1>2, <2>2 DEF JobInv, NoProc
    <2> QED
      BY <2>1, <2>2
  <1>6. status' \in [Slots -> {Idle, Running, Done, Error}]
    BY <1>a DEF TInv
  <1> QED
    BY <1>4, <1>5, <1>6, ThreadOnly

LEMMA OpenLogStep ==
  ASSUME IInv, NEW j \in Jobs, OpenLog(j)
  PROVE  IInv'
  <1> DEFINE r == [th[j] EXCEPT !.lf = name, !.pc = IF name = 0 THEN AfterRead(j) ELSE "copy"]
  <1>1. IsThread(th[j]) /\ th[j].pc = "read"
    BY DEF IInv, TInv, OpenLog
  <1>2. th' = [th EXCEPT ![j] = r] /\ UNCHANGED <<status, child_pid, njobs, proc, child, astray>>
    BY DEF OpenLog
  <1>3. IsThread(r) /\ r.slot = th[j].slot /\ r.done = th[j].done /\ r.pc \in {"copy", AfterRead(j)}
    BY <1>1 DEF IsThread, Places, AfterRead
  <1> HIDE DEF r
  <1> QED
    BY <1>1, <1>2, <1>3, ReadStep

LEMMA FillStep ==
  ASSUME IInv, NEW j \in Jobs, Fill(j)
  PROVE  IInv'
  <1> DEFINE news == News(j, file[th[j].lf])
             r == IF news = <<>> THEN [th[j] EXCEPT !.lf = 0, !.pc = AfterRead(j)]
                  ELSE [th[j] EXCEPT !.tail = th[j].tail + Len(news), !.buf = news]
  <1>1. IsThread(th[j]) /\ th[j].pc = "copy"
    BY DEF IInv, TInv, Fill
  <1>2. th' = [th EXCEPT ![j] = r] /\ UNCHANGED <<status, child_pid, njobs, proc, child, astray>>
    BY DEF Fill
  <1> HIDE DEF news
  <1>3. IsThread(r) /\ r.slot = th[j].slot /\ r.done = th[j].done /\ r.pc \in {"copy", AfterRead(j)}
    <2>1. CASE news = <<>>
      BY <1>1, <2>1 DEF IsThread, Places, AfterRead
    <2>2. CASE news # <<>>
      BY <1>1, <2>2 DEF IsThread
    <2> QED
      BY <2>1, <2>2
  <1> HIDE DEF r
  <1> QED
    BY <1>1, <1>2, <1>3, ReadStep

LEMMA CopyLineStep ==
  ASSUME IInv, NEW j \in Jobs, CopyLine(j)
  PROVE  IInv'
  <1> DEFINE r == [th[j] EXCEPT !.buf = Tail(th[j].buf)]
  <1>1. IsThread(th[j]) /\ th[j].pc = "copy"
    BY DEF IInv, TInv, CopyLine
  <1>2. th' = [th EXCEPT ![j] = r] /\ UNCHANGED <<status, child_pid, njobs, proc, child, astray>>
    BY DEF CopyLine
  <1>3. IsThread(r) /\ r.slot = th[j].slot /\ r.done = th[j].done /\ r.pc = "copy"
    BY <1>1 DEF IsThread
  <1> HIDE DEF r
  <1> QED
    BY <1>1, <1>2, <1>3, ReadStep

LEMMA PollStep ==
  ASSUME IInv, NEW j \in Jobs, Poll(j)
  PROVE  IInv'
  <1>p. PICK p : p = child_pid[th[j].slot]
    OBVIOUS
  <1>a. IsThread(th[j]) /\ JobInv(j) /\ th[j].pc = "poll" /\ TInv /\ SlotOwned
    BY DEF IInv, TInv, Poll
  <1>b. /\ ~th[j].done /\ p \in Pids /\ proc[p].job = j
        /\ \A q \in Pids : proc[q].job = j => q = p
        /\ proc[p].is = "zombie" => child[j].pc = "exited"
    BY <1>a, <1>p DEF JobInv
  <1>c. UNCHANGED <<status, child_pid, njobs, child, astray>>
    BY DEF Poll
  <1>d. status' \in [Slots -> {Idle, Running, Done, Error}]
    BY <1>a, <1>c DEF TInv
  <1>1. CASE ~Reaped(p)
    <2> DEFINE r == [th[j] EXCEPT !.pc = "read"]
    <2>1. th' = [th EXCEPT ![j] = r] /\ proc' = proc
      BY <1>p, <1>1 DEF Poll
    <2>2. IsThread(r) /\ r.slot = th[j].slot /\ r.done = th[j].done /\ r.pc = "read"
      BY <1>a DEF IsThread, Places
    <2> HIDE DEF r
    <2>3. th'[j] = r /\ \A k \in Jobs \ {j} : th'[k] = th[k]
      BY <1>a, <2>1 DEF TInv
    <2>4. \A k \in Jobs : th'[k].slot = th[k].slot /\ (Active(k)' <=> Active(k))
      BY <1>a, <2>2, <2>3 DEF Active
    <2>5. SlotOwned'
      BY <1>a, <1>c, <2>4, OwnedFrame
    <2>6. JobInv(j)'
      BY <1>p, <1>b, <1>c, <2>1, <2>2, <2>3 DEF JobInv
    <2> QED
      BY <1>a, <1>c, <1>d, <2>1, <2>2, <2>5, <2>6, ThreadOnly
  <1>2. CASE Reaped(p)
    <2> DEFINE r == [th[j] EXCEPT !.pc = "read", !.done = TRUE]
    <2>1. th' = [th EXCEPT ![j] = r] /\ proc' = [proc EXCEPT ![p] = Free]
      BY <1>p, <1>2 DEF Poll
    <2>2. IsThread(r) /\ r.slot = th[j].slot /\ r.done /\ r.pc = "read"
      BY <1>a DEF IsThread, Places
    <2>3. IsProc(Free) /\ Free.is = "free" /\ Free.job = 0
      BY DEF IsProc, Free
    <2>4. j <= njobs
      BY <1>a, Started
    <2> HIDE DEF r
    <2>5. /\ DOMAIN th' = Jobs /\ \A k \in Jobs : IsThread(th'[k])
          /\ th' = [k \in Jobs |-> th'[k]]
          /\ th'[j] = r /\ \A k \in Jobs \ {j} : th'[k] = th[k]
          /\ \A k \in Jobs : k > njobs => th'[k].pc = "none"
      BY <1>a, <2>1, <2>2, <2>4, ThreadTyped
    <2>6. /\ DOMAIN proc' = Pids /\ proc' = [q \in Pids |-> proc'[q]]
          /\ \A q \in Pids : IsProc(proc'[q])
          /\ proc'[p] = Free /\ \A q \in Pids \ {p} : proc'[q] = proc[q]
      BY <1>a, <1>b, <2>1, <2>3, ProcTyped
    <2>7. TInv'
      BY <1>a, <1>c, <2>5, <2>6 DEF TInv, IsThread, IsProc, IsChild
    <2>8. \A k \in Jobs : th'[k].slot = th[k].slot /\ (Active(k)' <=> Active(k))
      BY <1>a, <2>2, <2>5 DEF Active
    <2>9. SlotOwned'
      BY <1>a, <1>c, <2>8, OwnedFrame
    <2>10. \A k \in Jobs : JobInv(k)'
      <3> SUFFICES ASSUME NEW k \in Jobs PROVE JobInv(k)'
        OBVIOUS
      <3>0. k # 0
        BY Spaces
      <3>1. CASE k = j
        <4>1. NoProc(j)'
          BY <1>b, <2>3, <2>6, <3>0, <3>1 DEF NoProc
        <4>2. child'[j].pc = "exited"
          BY <1>b, <1>c, <1>2 DEF Reaped
        <4>3. child_pid'[th'[j].slot] = p
          BY <1>p, <1>c, <2>2, <2>5
        <4> QED
          BY <1>b, <2>2, <2>3, <2>5, <2>6, <3>1, <4>1, <4>2, <4>3 DEF JobInv
      <3>2. CASE k # j
        <4>1. \A q \in Pids : (proc'[q].job = k <=> proc[q].job = k) /\ (proc[q].job = k => proc'[q] = proc[q])
          BY <1>b, <2>3, <2>6, <3>0, <3>2
        <4>2. JobInv(k)
          BY DEF IInv
        <4>3. th[k].pc \in {"read", "copy", "end"} /\ th[k].done => proc'[child_pid[th[k].slot]].is = "free"
          BY <2>3, <2>6, <4>2 DEF JobInv
        <4> QED
          BY <1>c, <2>5, <3>2, <4>1, <4>2, <4>3, JobFrame
      <3> QED
        BY <3>1, <3>2
    <2>11. KillAstrayOnlyBy'
      BY <1>c DEF KillAstrayOnlyBy, IInv
    <2> QED
      BY <2>7, <2>9, <2>10, <2>11 DEF IInv
  <1> QED
    BY <1>1, <1>2

LEMMA ChildRunStep ==
  ASSUME IInv, NEW j \in Jobs, NEW c, IsChild(c), child[j].pc \in {"start", "run"}, c.pc \in {"start", "run"},
         child' = [child EXCEPT ![j] = c], UNCHANGED <<status, child_pid, njobs, th, proc, astray>>
  PROVE  IInv'
  <1>a. TInv /\ SlotOwned /\ (\A k \in Jobs : JobInv(k)) /\ KillAstrayOnlyBy
    BY DEF IInv
  <1>1. /\ DOMAIN child' = Jobs /\ child' = [k \in Jobs |-> child'[k]]
        /\ \A k \in Jobs : IsChild(child'[k])
        /\ child'[j] = c /\ \A k \in Jobs \ {j} : child'[k] = child[k]
    BY <1>a, ChildTyped
  <1>2. TInv'
    BY <1>a, <1>1, SMTT(60) DEF TInv, IsThread, IsProc, IsChild
  <1>3. SlotOwned' /\ KillAstrayOnlyBy'
    BY <1>a DEF SlotOwned, Active, KillAstrayOnlyBy
  <1>4. ASSUME NEW k \in Jobs PROVE JobInv(k)'
    <2>1. JobInv(k) /\ UNCHANGED <<th, child_pid, proc>>
      BY <1>a
    <2>2. CASE k # j
      <3>1. child'[k] = child[k]
        BY <1>1, <2>2
      <3> QED
        BY <2>1, <3>1 DEF JobInv, NoProc
    <2>3. CASE k = j
      BY <1>1, <2>1, <2>3, SMTT(60) DEF JobInv, NoProc
    <2> QED
      BY <2>2, <2>3
  <1> QED
    BY <1>2, <1>3, <1>4 DEF IInv

LEMMA ChildOpenStep ==
  ASSUME IInv, NEW j \in Jobs, ChildOpen(j)
  PROVE  IInv'
  <1>1. PICK f : child' = [child EXCEPT ![j] = [child[j] EXCEPT !.pc = "run", !.fd = f]]
    BY DEF ChildOpen
  <1> DEFINE c == [child[j] EXCEPT !.pc = "run", !.fd = f]
  <1>2. IsChild(c) /\ c.pc = "run" /\ child[j].pc = "start"
    BY DEF IInv, TInv, IsChild, ChildOpen
  <1>3. UNCHANGED <<status, child_pid, njobs, th, proc, astray>>
    BY DEF ChildOpen, threads
  <1> HIDE DEF c
  <1> QED
    BY <1>1, <1>2, <1>3, ChildRunStep DEF c

LEMMA ChildWriteStep ==
  ASSUME IInv, NEW j \in Jobs, ChildWrite(j)
  PROVE  IInv'
  <1> DEFINE c == [child[j] EXCEPT !.lines = child[j].lines + 1]
  <1>1. child' = [child EXCEPT ![j] = c]
    BY DEF ChildWrite
  <1>2. IsChild(c) /\ c.pc = "run" /\ child[j].pc = "run"
    BY DEF IInv, TInv, IsChild, ChildWrite
  <1>3. UNCHANGED <<status, child_pid, njobs, th, proc, astray>>
    BY DEF ChildWrite, threads
  <1> HIDE DEF c
  <1> QED
    BY <1>1, <1>2, <1>3, ChildRunStep

LEMMA ForkStep ==
  ASSUME IInv, NEW j \in Jobs, Fork(j)
  PROVE  IInv'
  <1>a. IsThread(th[j]) /\ JobInv(j) /\ th[j].pc = "fork" /\ TInv /\ SlotOwned /\ Active(j)
    BY DEF IInv, TInv, Fork, Active
  <1>b. child[j].pc = "none" /\ NoProc(j) /\ ~th[j].done /\ th[j].slot \in Slots
    BY <1>a DEF JobInv, IsThread
  <1>c. UNCHANGED <<njobs, astray>>
    BY DEF Fork
  <1>1. CASE /\ status' = [status EXCEPT ![th[j].slot] = Error]
             /\ th' = [th EXCEPT ![j].pc = "over"]
             /\ UNCHANGED <<proc, child_pid, child, alone>>
    <2> DEFINE r == [th[j] EXCEPT !.pc = "over"]
    <2>1. IsThread(r) /\ r.pc = "over" /\ th' = [th EXCEPT ![j] = r]
      BY <1>a, <1>1 DEF IsThread, Places
    <2> HIDE DEF r
    <2>2. th'[j] = r /\ \A k \in Jobs \ {j} : th'[k] = th[k]
      BY <1>a, <2>1 DEF TInv
    <2>3. SlotOwned' /\ status' \in [Slots -> {Idle, Running, Done, Error}]
      BY <1>a, <1>1, <2>1, <2>2, LeaveSlot
    <2>4. JobInv(j)'
      BY <1>b, <1>1, <2>1, <2>2 DEF JobInv, NoProc
    <2> QED
      BY <1>a, <1>c, <1>1, <2>1, <2>3, <2>4, ThreadOnly
  <1>2. ASSUME NEW p \in Pids, proc[p].is = "free", ~Fresh(p),
               proc' = [proc EXCEPT ![p] = [is |-> "child", job |-> j]],
               child_pid' = [child_pid EXCEPT ![th[j].slot] = p],
               child' = [child EXCEPT ![j].pc = "start"],
               th' = [th EXCEPT ![j].pc = "poll"], status' = status
        PROVE  IInv'
    <2> DEFINE r == [th[j] EXCEPT !.pc = "poll"]
               c == [child[j] EXCEPT !.pc = "start"]
               o == [is |-> "child", job |-> j]
    <2>1. IsThread(r) /\ r.pc = "poll" /\ r.slot = th[j].slot /\ r.done = th[j].done
      BY <1>a DEF IsThread, Places
    <2>2. IsChild(c) /\ c.pc = "start"
      BY <1>a DEF TInv, IsChild
    <2>3. IsProc(o) /\ o.is = "child" /\ o.job = j
      BY DEF IsProc
    <2>4. j <= njobs
      BY <1>a, Started
    <2>5. th' = [th EXCEPT ![j] = r] /\ child' = [child EXCEPT ![j] = c] /\ proc' = [proc EXCEPT ![p] = o]
      BY <1>2
    <2> HIDE DEF r, c, o
    <2>6. /\ DOMAIN th' = Jobs /\ \A k \in Jobs : IsThread(th'[k])
          /\ th' = [k \in Jobs |-> th'[k]]
          /\ th'[j] = r /\ \A k \in Jobs \ {j} : th'[k] = th[k]
          /\ \A k \in Jobs : k > njobs => th'[k].pc = "none"
      BY <1>a, <2>1, <2>4, <2>5, ThreadTyped
    <2>7. /\ DOMAIN proc' = Pids /\ proc' = [q \in Pids |-> proc'[q]]
          /\ \A q \in Pids : IsProc(proc'[q])
          /\ proc'[p] = o /\ \A q \in Pids \ {p} : proc'[q] = proc[q]
      BY <1>a, <2>3, <2>5, ProcTyped
    <2>8. /\ DOMAIN child' = Jobs /\ child' = [k \in Jobs |-> child'[k]]
          /\ \A k \in Jobs : IsChild(child'[k])
          /\ child'[j] = c /\ \A k \in Jobs \ {j} : child'[k] = child[k]
      BY <1>a, <2>2, <2>5, ChildTyped
    <2>9. /\ child_pid' \in [Slots -> Pids \union {0}] /\ child_pid'[th[j].slot] = p
          /\ \A s \in Slots : s # th[j].slot => child_pid'[s] = child_pid[s]
      BY <1>a, <1>b, <1>2 DEF TInv
    <2>10. TInv'
      BY <1>a, <1>c, <1>2, <2>6, <2>7, <2>8, <2>9 DEF TInv, IsThread, IsProc, IsChild
    <2>11. \A k \in Jobs : th'[k].slot = th[k].slot /\ (Active(k)' <=> Active(k))
      BY <1>a, <2>1, <2>6 DEF Active
    <2>12. SlotOwned'
      BY <1>a, <1>2, <2>11, OwnedFrame
    <2>13. \A k \in Jobs : JobInv(k)'
      <3> SUFFICES ASSUME NEW k \in Jobs PROVE JobInv(k)'
        OBVIOUS
      <3>1. CASE k = j
        <4>1. \A q \in Pids : proc'[q].job = j => q = p
          BY <1>b, <2>7 DEF NoProc
        <4> QED
          BY <1>b, <2>1, <2>3, <2>6, <2>7, <2>9, <3>1, <4>1, SMTT(60) DEF JobInv
      <3>2. CASE k # j
        <4>1. JobInv(k) /\ th[k].slot \in Slots /\ proc[p].job # k
          BY <1>a, <1>2, Spaces DEF IInv, TInv, IsThread, IsProc
        <4>2. Active(k) => child_pid'[th[k].slot] = child_pid[th[k].slot]
          BY <1>a, <2>9, <3>2, <4>1 DEF SlotOwned
        <4>3. \A q \in Pids : (proc'[q].job = k <=> proc[q].job = k) /\ (proc[q].job = k => proc'[q] = proc[q])
          BY <2>3, <2>7, <3>2, <4>1
        <4>4. th[k].pc \in {"read", "copy", "end"} /\ th[k].done => proc'[child_pid[th[k].slot]].is = "free"
          BY <1>2, <2>7, <4>1 DEF JobInv, Fresh
        <4> QED
          BY <2>6, <2>8, <3>2, <4>1, <4>2, <4>3, <4>4, JobFrame
      <3> QED
        BY <3>1, <3>2
    <2>14. KillAstrayOnlyBy'
      BY <1>c DEF KillAstrayOnlyBy, IInv
    <2> QED
      BY <2>10, <2>12, <2>13, <2>14 DEF IInv
  <1> QED
    BY <1>1, <1>2 DEF Fork

LEMMA StutterStep ==
  ASSUME IInv, UNCHANGED vars
  PROVE  IInv'
  <1>1. UNCHANGED <<status, child_pid, njobs, th, proc, child, astray>>
    BY DEF vars, threads
  <1>2. TInv'
    BY <1>1 DEF IInv, TInv, IsThread, IsProc, IsChild
  <1>3. SlotOwned' /\ KillAstrayOnlyBy'
    BY <1>1 DEF IInv, SlotOwned, Active, KillAstrayOnlyBy
  <1>4. \A k \in Jobs : JobInv(k)'
    BY <1>1, SMTT(60) DEF IInv, JobInv, NoProc
  <1> QED
    BY <1>2, <1>3, <1>4 DEF IInv

LEMMA Invariance == Spec => []IInv
  <1>1. IInv /\ [Next]_vars => IInv'
    <2> SUFFICES ASSUME IInv, [Next]_vars PROVE IInv'
      OBVIOUS
    <2>1. CASE IndexStart
      BY <2>1, IndexStartStep
    <2>2. CASE \E p \in Pids : ProcessKill(p) \/ OtherStarts(p) \/ OtherEnds(p)
      BY <2>2, ProcessKillStep, OtherStartsStep, OtherEndsStep
    <2>3. CASE \E j \in Jobs : ThreadStep(j)
      BY <2>3, ForkStep, PollStep, OpenLogStep, FillStep, CopyLineStep, FinishStep DEF ThreadStep
    <2>4. CASE \E j \in Jobs : ChildStep(j)
      BY <2>4, ChildOpenStep, ChildWriteStep, ChildExitStep DEF ChildStep
    <2>5. CASE UNCHANGED vars
      BY <2>5, StutterStep
    <2> QED
      BY <2>1, <2>2, <2>3, <2>4, <2>5 DEF Next
  <1> QED
    BY <1>1, InitInv, PTL DEF Spec

-----------------------------------------------------------------------------
(* The log ring and the child's log *)

\* Where the line is that was appended d lines before the last
Back(d) == IF head - 1 - d >= 0 THEN head - 1 - d ELSE head - 1 - d + RingSize

\* The ring has the last `count` lines that were appended, behind g_log_head.
RingInv ==
  /\ head \in 0..(RingSize - 1) /\ shown \in Seq(Nat \X Nat)
  /\ count = IF Len(shown) < RingSize THEN Len(shown) ELSE RingSize
  /\ DOMAIN ring = 0..(RingSize - 1)
  /\ \A d \in 0..(count - 1) : ring[Back(d)] = shown[Len(shown) - d]

\* The thread has a child, or is about to leave its slot.
Busy(k) == th[k].pc \in {"poll", "read", "copy", "end"}

NoLineOf(j, s) == \A i \in DOMAIN s : s[i][1] # j

IsLog(s) == s \in Seq(Nat \X Nat)

\* The range of a child's and a thread's places in the logs
ChildPlace(k) ==
  /\ child[k].lines \in Nat /\ child[k].fd \in Jobs \union {0}
  /\ child[k].pc = "run" => child[k].fd # 0
  /\ child[k].pc \in {"none", "start"} => child[k].fd = 0
  /\ child[k].fd = 0 => child[k].lines = 0

ThreadPlace(k) ==
  /\ th[k].tail \in Nat /\ th[k].lf \in Jobs \union {0} /\ IsLog(th[k].buf)
  /\ th[k].pc = "copy" => th[k].lf # 0
  /\ th[k].pc \in {"none", "fork"} => th[k].tail = 0 /\ th[k].buf = <<>> /\ th[k].lf = 0

LTypes ==
  /\ name \in Jobs \union {0} /\ alone \subseteq Jobs
  /\ DOMAIN file = Jobs /\ \A f \in Jobs : IsLog(file[f])
  /\ \A k \in Jobs : ChildPlace(k) /\ ThreadPlace(k)

\* A file that somebody has open, or that has the name, was made by its job's child.
Made ==
  /\ name # 0 => child[name].fd = name
  /\ \A k \in Jobs : /\ child[k].fd # 0 => child[child[k].fd].fd = child[k].fd
                     /\ th[k].lf # 0 => child[th[k].lf].fd = th[k].lf

\* The name is gone when no thread is in its loop.
NameKept == name # 0 => \E k \in Jobs : Busy(k)

\* A child that has written nothing has no line anywhere.
Unseen(j) ==
  child[j].lines = 0 => /\ NoLineOf(j, shown)
                        /\ \A k \in Jobs : NoLineOf(j, file[k]) /\ NoLineOf(j, th[k].buf)

\* Nobody but job j has to do with its file.
Apart(j) ==
  /\ \A k \in Jobs \ {j} : /\ NoLineOf(j, file[k]) /\ NoLineOf(j, th[k].buf)
                           /\ child[k].fd # j /\ th[k].lf # j
  /\ ~Busy(j) => name # j
  /\ Busy(j) => name = child[j].fd /\ \A k \in Jobs \ {j} : ~Busy(k)

\* How far the lines of a job that shares the server with no other have come
Progress(j) ==
  /\ th[j].pc \notin {"none", "fork"} /\ child[j].fd \in {0, j}
  /\ child[j].fd = j => Len(file[j]) = child[j].lines /\ \A i \in 1..child[j].lines : file[j][i] = <<j, i>>
  /\ th[j].tail <= child[j].lines /\ Len(th[j].buf) <= th[j].tail
  /\ \A i \in 1..Len(th[j].buf) : th[j].buf[i] = <<j, th[j].tail - Len(th[j].buf) + i>>
  /\ th[j].buf # <<>> => th[j].pc = "copy"
  /\ th[j].lf \in {0, j}
  /\ th[j].pc \in {"end", "over"} => th[j].tail = child[j].lines
  /\ ShownUpTo(j, th[j].tail - Len(th[j].buf))

LInv ==
  /\ LTypes /\ Made /\ NameKept /\ RingInv
  /\ \A j \in Jobs : Unseen(j)
  /\ \A j \in alone : Apart(j) /\ Progress(j)
-----------------------------------------------------------------------------
\* The remainder within two rounds of the ring
LEMMA Round ==
  ASSUME NEW a \in Nat, NEW n \in Nat \ {0}
  PROVE  /\ a < n => a % n = a
         /\ n <= a /\ a < n + n => a % n = a - n
  BY SMTT(60)

\* cbm_ui_log_append keeps the ring what it is for the lines appended before.
LEMMA RingAppend ==
  ASSUME RingInv, NEW line \in Nat \X Nat, LogAppend(line)
  PROVE  RingInv'
  <1>a. RingSize \in Nat /\ RingSize > 0
    BY UiJobsAssumption, SMTT(60)
  <1>b. head \in 0..(RingSize - 1) /\ shown \in Seq(Nat \X Nat) /\ Len(shown) \in Nat
    BY SMTT(60) DEF RingInv
  <1>1. head' = IF head + 1 = RingSize THEN 0 ELSE head + 1
    <2>1. head + 1 \in Nat /\ head + 1 < RingSize + RingSize /\ head + 1 <= RingSize /\ RingSize \in Nat \ {0}
      BY <1>a, <1>b, SMTT(60)
    <2>2. CASE head + 1 = RingSize
      <3>1. RingSize % RingSize = RingSize - RingSize
        BY <1>a, Round, SMTT(60)
      <3> QED
        BY <1>a, <2>2, <3>1, SMTT(60) DEF LogAppend
    <2>3. CASE head + 1 # RingSize
      <3>1. head + 1 < RingSize
        BY <1>a, <1>b, <2>3, SMTT(60)
      <3>2. (head + 1) % RingSize = head + 1
        BY <2>1, <3>1, Round, SMTT(60)
      <3> QED
        BY <2>3, <3>2 DEF LogAppend
    <2> QED
      BY <2>2, <2>3
  <1>2. /\ shown' \in Seq(Nat \X Nat) /\ Len(shown') = Len(shown) + 1
        /\ shown'[Len(shown')] = line /\ \A i \in 1..Len(shown) : shown'[i] = shown[i]
    BY <1>b, SMTT(60) DEF LogAppend
  <1>3. count' = IF Len(shown') < RingSize THEN Len(shown') ELSE RingSize
    BY <1>a, <1>b, <1>2, SMTT(60) DEF RingInv, LogAppend, Counted
  <1>4. DOMAIN ring' = 0..(RingSize - 1) /\ ring'[head] = line /\ \A i \in 0..(RingSize - 1) : i # head => ring'[i] = ring[i]
    BY <1>b DEF RingInv, LogAppend
  <1>5. ASSUME NEW d \in 0..(count' - 1)
        PROVE  ring'[Back(d)'] = shown'[Len(shown') - d]
    <2>1. CASE d = 0
      <3>1. Back(d)' = head
        BY <1>a, <1>b, <1>1, <2>1, SMTT(60) DEF Back
      <3> QED
        BY <1>2, <1>4, <2>1, <3>1, SMTT(60)
    <2>2. CASE d > 0
      <3>1. /\ d - 1 \in 0..(count - 1) /\ d < RingSize /\ d \in Nat
            /\ Len(shown) - (d - 1) \in 1..Len(shown)
        BY <1>a, <1>b, <1>2, <1>3, <2>2, SMTT(60) DEF RingInv
      <3>2. Back(d)' = Back(d - 1) /\ Back(d - 1) # head /\ Back(d - 1) \in 0..(RingSize - 1)
        BY <1>a, <1>b, <1>1, <2>2, <3>1, SMTT(60) DEF Back
      <3>3. ring[Back(d - 1)] = shown[Len(shown) - (d - 1)]
        BY <3>1 DEF RingInv
      <3>4. Len(shown') - d = Len(shown) - (d - 1)
        BY <1>b, <1>2, <3>1, SMTT(60)
      <3> QED
        BY <1>2, <1>4, <3>1, <3>2, <3>3, <3>4
    <2> QED
      BY <1>a, <1>3, <1>b, <1>2, <2>1, <2>2, SMTT(60)
  <1>6. head' \in 0..(RingSize - 1)
    BY <1>a, <1>b, <1>1, SMTT(60)
  <1> QED
    BY <1>2, <1>3, <1>4, <1>5, <1>6 DEF RingInv

\* handle_logs reads the ring back in the order of the appends.
LEMMA RingRead ==
  ASSUME RingInv
  PROVE  RingIsLast
  <1>a. RingSize \in Nat /\ RingSize > 0
    BY UiJobsAssumption, SMTT(60)
  <1>b. head \in 0..(RingSize - 1) /\ shown \in Seq(Nat \X Nat) /\ Len(shown) \in Nat
    BY SMTT(60) DEF RingInv
  <1> SUFFICES ASSUME NEW n \in 1..RingSize
               PROVE  LogLines(n) = SubSeq(shown, Len(shown) - (IF Len(shown) < n THEN Len(shown) ELSE n) + 1, Len(shown))
    BY DEF RingIsLast
  <1> DEFINE c == IF count < n THEN count ELSE n
             start == (head - c + RingSize) % RingSize
  <1>1. c = (IF Len(shown) < n THEN Len(shown) ELSE n)
    BY <1>a, <1>b, SMTT(60) DEF RingInv
  <1>c. c \in Nat /\ c <= RingSize /\ c <= Len(shown) /\ count \in Nat /\ c <= count
    BY <1>a, <1>b, SMTT(60) DEF RingInv
  <1>d. head \in Nat /\ head < RingSize /\ RingSize \in Nat \ {0}
    BY <1>a, <1>b, SMTT(60)
  <1> HIDE DEF c
  <1>2. start = (IF head - c >= 0 THEN head - c ELSE head - c + RingSize)
    <2> DEFINE x == head - c + RingSize
    <2>1. x \in Nat /\ x < RingSize + RingSize /\ x - RingSize = head - c /\ head - c \in Int
      BY <1>c, <1>d, SMTT(60)
    <2>2. CASE head - c >= 0
      <3>1. RingSize <= x
        BY <1>c, <1>d, <2>2, SMTT(60)
      <3> HIDE DEF x
      <3>2. x % RingSize = x - RingSize
        BY <1>d, <2>1, <3>1, Round
      <3> QED
        BY <2>1, <2>2, <3>2 DEF x
    <2>3. CASE ~(head - c >= 0)
      <3>1. x < RingSize
        BY <1>c, <1>d, <2>3, SMTT(60)
      <3> HIDE DEF x
      <3>2. x % RingSize = x
        BY <1>d, <2>1, <3>1, Round
      <3> QED
        BY <2>3, <3>2 DEF x
    <2> QED
      BY <2>2, <2>3
  <1>e. start \in Nat /\ start < RingSize
    BY <1>c, <1>d, <1>2, SMTT(60)
  <1> HIDE DEF start
  <1>3. ASSUME NEW i \in 1..c
        PROVE  ring[(start + i - 1) % RingSize] = shown[i + (Len(shown) - c + 1) - 1]
    <2>0. c - i \in 0..(count - 1) /\ c - i \in Nat /\ i \in Nat /\ i <= c /\ 1 <= i
      BY <1>c, SMTT(60)
    <2>1. (start + i - 1) % RingSize = Back(c - i)
      <3> DEFINE x == start + i - 1
      <3>1. x \in Nat /\ x < RingSize + RingSize
        BY <1>c, <1>d, <1>e, <2>0, SMTT(60)
      <3>2. CASE x < RingSize
        <4>1. Back(c - i) = x
          <5>1. CASE head - c >= 0
            BY <1>c, <1>d, <1>2, <2>0, <3>2, <5>1, SMTT(60) DEF Back
          <5>2. CASE ~(head - c >= 0)
            BY <1>c, <1>d, <1>2, <2>0, <3>2, <5>2, SMTT(60) DEF Back
          <5> QED
            BY <5>1, <5>2
        <4> HIDE DEF x
        <4>2. x % RingSize = x
          BY <1>d, <3>1, <3>2, Round
        <4> QED
          BY <4>1, <4>2 DEF x
      <3>3. CASE ~(x < RingSize)
        <4>1. Back(c - i) = x - RingSize
          <5>1. CASE head - c >= 0
            BY <1>c, <1>d, <1>2, <2>0, <3>3, <5>1, SMTT(60) DEF Back
          <5>2. CASE ~(head - c >= 0)
            BY <1>c, <1>d, <1>2, <2>0, <3>3, <5>2, SMTT(60) DEF Back
          <5> QED
            BY <5>1, <5>2
        <4>3. RingSize <= x
          BY <1>d, <3>1, <3>3, SMTT(60)
        <4> HIDE DEF x
        <4>2. x % RingSize = x - RingSize
          BY <1>d, <3>1, <4>3, Round
        <4> QED
          BY <4>1, <4>2 DEF x
      <3> QED
        BY <3>2, <3>3
    <2>2. ring[Back(c - i)] = shown[Len(shown) - (c - i)]
      BY <2>0 DEF RingInv
    <2>3. Len(shown) - (c - i) = i + (Len(shown) - c + 1) - 1
      BY <1>b, <1>c, <2>0, SMTT(60)
    <2> QED
      BY <2>1, <2>2, <2>3
  <1>4. SubSeq(shown, Len(shown) - c + 1, Len(shown)) = [i \in 1..c |-> shown[i + (Len(shown) - c + 1) - 1]]
    <2>1. Len(shown) - (Len(shown) - c + 1) + 1 = c
      BY <1>b, <1>c, SMTT(60)
    <2>2. SubSeq(shown, Len(shown) - c + 1, Len(shown))
            = [i \in 1..(Len(shown) - (Len(shown) - c + 1) + 1) |-> shown[i + (Len(shown) - c + 1) - 1]]
      BY <1>b, <1>c, SMTT(60)
    <2> QED
      BY <2>1, <2>2
  <1>5. LogLines(n) = [i \in 1..c |-> ring[(start + i - 1) % RingSize]]
    BY DEF LogLines, c, start
  <1>6. [i \in 1..c |-> ring[(start + i - 1) % RingSize]] = [i \in 1..c |-> shown[i + (Len(shown) - c + 1) - 1]]
    BY <1>3
  <1>7. LogLines(n) = SubSeq(shown, Len(shown) - c + 1, Len(shown))
    BY <1>4, <1>5, <1>6
  <1> QED
    BY <1>1, <1>7
-----------------------------------------------------------------------------
\* A child that runs has a thread in its loop.
LEMMA Alive ==
  ASSUME IInv, NEW k \in Jobs, child[k].pc \in {"start", "run"}
  PROVE  th[k].pc \in {"poll", "read", "copy"} /\ Busy(k)
  <1>1. JobInv(k) /\ th[k].pc \in Places /\ th[k].done \in BOOLEAN
    BY DEF IInv, TInv, IsThread
  <1>2. th[k].pc \in {"poll", "read", "copy"}
    BY <1>1 DEF JobInv, Places
  <1> QED
    BY <1>2 DEF Busy

LEMMA InitLog == Init => LInv
  <1> SUFFICES ASSUME Init PROVE LInv
    OBVIOUS
  <1>1. /\ th = [j \in Jobs |-> NoThread] /\ child = [j \in Jobs |-> NoChild]
        /\ name = 0 /\ file = [j \in Jobs |-> <<>>] /\ alone = {} /\ shown = <<>>
        /\ ring = [i \in 0..(RingSize - 1) |-> Hole] /\ head = 0 /\ count = 0
    BY DEF Init
  <1>2. /\ \A k \in Jobs : /\ th[k].pc = "none" /\ th[k].tail = 0 /\ th[k].lf = 0 /\ th[k].buf = <<>>
                           /\ child[k].pc = "none" /\ child[k].lines = 0 /\ child[k].fd = 0 /\ file[k] = <<>>
        /\ DOMAIN file = Jobs
    BY <1>1 DEF NoThread, NoChild
  <1>3. IsLog(<<>>) /\ \A j : NoLineOf(j, <<>>)
    BY SMTT(60) DEF IsLog, NoLineOf
  <1>4. RingInv
    BY <1>1, UiJobsAssumption, SMTT(60) DEF RingInv
  <1>5. LTypes
    <2>1. 0 \in Nat
      BY SMTT(60)
    <2> QED
      BY <1>1, <1>2, <1>3, <2>1 DEF LTypes, ChildPlace, ThreadPlace
  <1> QED
    BY <1>1, <1>2, <1>3, <1>4, <1>5 DEF LInv, Made, NameKept, Unseen

\* What leaves the logs, and the places of threads and children in them, alone
LEMMA Quiet ==
  ASSUME LInv, UNCHANGED <<name, file, alone, ring, head, count, shown>>,
         \A k \in Jobs :
           /\ th'[k].tail = th[k].tail /\ th'[k].lf = th[k].lf /\ th'[k].buf = th[k].buf
           /\ Busy(k)' <=> Busy(k)
           /\ th'[k].pc \in {"none", "fork"} => th[k].pc \in {"none", "fork"}
           /\ th'[k].pc = "copy" <=> th[k].pc = "copy"
           /\ child'[k].lines = child[k].lines /\ child'[k].fd = child[k].fd
           /\ child'[k].pc = "run" => child[k].pc = "run"
           /\ child'[k].pc \in {"none", "start"} => child[k].pc \in {"none", "start"},
         \A k \in alone : th'[k].pc \in {"end", "over"} => th[k].pc \in {"end", "over"}
  PROVE  LInv'
  <1>1. LTypes'
    <2>1. \A k \in Jobs : ChildPlace(k)'
      BY SMTT(60) DEF LInv, LTypes, ChildPlace
    <2>2. \A k \in Jobs : ThreadPlace(k)'
      BY SMTT(60) DEF LInv, LTypes, ThreadPlace
    <2> QED
      BY <2>1, <2>2 DEF LInv, LTypes
  <1>0. alone \subseteq Jobs /\ name \in Jobs \union {0} /\ \A k \in Jobs : th[k].lf \in Jobs \union {0} /\ child[k].fd \in Jobs \union {0}
    BY DEF LInv, LTypes, ChildPlace, ThreadPlace
  <1>2. Made'
    BY <1>0, SMTT(60) DEF LInv, Made
  <1>3. NameKept' /\ RingInv'
    BY DEF LInv, NameKept, RingInv, Back
  <1>4. \A j \in Jobs : Unseen(j)'
    BY SMTT(60) DEF LInv, Unseen, NoLineOf
  <1>5. \A j \in alone : Apart(j)'
    BY <1>0, SMTT(60) DEF LInv, Apart, NoLineOf
  <1>6. \A j \in alone : Progress(j)'
    <2> SUFFICES ASSUME NEW j \in alone PROVE Progress(j)'
      OBVIOUS
    <2>1. Progress(j) /\ j \in Jobs
      BY <1>0 DEF LInv
    <2>2. ShownUpTo(j, th[j].tail - Len(th[j].buf))'
      BY <2>1 DEF Progress, ShownUpTo
    <2> QED
      BY <2>1, <2>2, SMTT(60) DEF Progress
  <1> QED
    BY <1>1, <1>2, <1>3, <1>4, <1>5, <1>6 DEF LInv

LEMMA IndexStartLog ==
  ASSUME IInv, LInv, IndexStart
  PROVE  LInv'
  <1>0. PICK j : j = njobs + 1
    OBVIOUS
  <1>1. PICK s \in Slots, l \in {"fork", "over"} : th' = [th EXCEPT ![j] = [NoThread EXCEPT !.pc = l, !.slot = s]]
    BY <1>0 DEF IndexStart
  <1>2. j \in Jobs /\ th[j].pc = "none"
    BY <1>0, Spaces, SMTT(60) DEF IInv, TInv, IndexStart
  <1>3. DOMAIN th = Jobs /\ th[j].tail = 0 /\ th[j].buf = <<>> /\ th[j].lf = 0
    BY <1>2 DEF IInv, TInv, LInv, LTypes, ChildPlace, ThreadPlace
  <1>4. /\ th'[j].pc = l /\ th'[j].tail = 0 /\ th'[j].buf = <<>> /\ th'[j].lf = 0
        /\ \A k \in Jobs \ {j} : th'[k] = th[k]
    BY <1>1, <1>2, <1>3 DEF NoThread
  <1>5. j \notin alone
    BY <1>2 DEF LInv, Progress
  <1>6. UNCHANGED <<name, file, alone, ring, head, count, shown, child>>
    BY DEF IndexStart, logs
  <1>7. \A k \in Jobs : /\ th'[k].tail = th[k].tail /\ th'[k].lf = th[k].lf /\ th'[k].buf = th[k].buf
                        /\ th'[k].pc \in {"none", "fork"} => th[k].pc \in {"none", "fork"}
    BY <1>2, <1>3, <1>4
  <1>8. \A k \in Jobs : (Busy(k)' <=> Busy(k)) /\ (th'[k].pc = "copy" <=> th[k].pc = "copy")
    BY <1>2, <1>4 DEF Busy
  <1>9. \A k \in alone : th'[k].pc = th[k].pc
    BY <1>4, <1>5 DEF LInv, LTypes, ChildPlace, ThreadPlace
  <1> QED
    BY <1>6, <1>7, <1>8, <1>9, Quiet

\* Steps that change a child's place only
LEMMA ChildPlaceLog ==
  ASSUME IInv, LInv, NEW j \in Jobs, child' = [child EXCEPT ![j].pc = "exited"],
         UNCHANGED <<th, name, file, alone, ring, head, count, shown>>
  PROVE  LInv'
  <1>1. IsChild(child[j]) /\ DOMAIN child = Jobs
    BY DEF IInv, TInv
  <1>2. /\ child'[j].pc = "exited" /\ child'[j].lines = child[j].lines /\ child'[j].fd = child[j].fd
        /\ \A k \in Jobs \ {j} : child'[k] = child[k]
    BY <1>1 DEF IsChild
  <1>3. \A k \in Jobs : /\ child'[k].lines = child[k].lines /\ child'[k].fd = child[k].fd
                        /\ child'[k].pc = "run" => child[k].pc = "run"
                        /\ child'[k].pc \in {"none", "start"} => child[k].pc \in {"none", "start"}
    BY <1>2
  <1>4. \A k \in Jobs : Busy(k)' <=> Busy(k)
    BY DEF Busy
  <1> QED
    BY <1>3, <1>4, Quiet

\* Steps that change process numbers only
LEMMA ProcLog ==
  ASSUME LInv, UNCHANGED <<th, child, name, file, alone, ring, head, count, shown>>
  PROVE  LInv'
  <1>4. \A k \in Jobs : Busy(k)' <=> Busy(k)
    BY DEF Busy
  <1> QED
    BY <1>4, Quiet

LEMMA PidLog ==
  ASSUME IInv, LInv, NEW p \in Pids, ProcessKill(p) \/ OtherStarts(p) \/ OtherEnds(p)
  PROVE  LInv'
  <1>1. UNCHANGED <<th, name, file, alone, ring, head, count, shown>>
    BY DEF ProcessKill, OtherStarts, OtherEnds, threads, logs
  <1>2. CASE child' = child
    BY <1>1, <1>2, ProcLog
  <1>3. CASE proc[p].is = "child" /\ child' = [child EXCEPT ![proc[p].job].pc = "exited"]
    <2>1. proc[p].job \in Jobs
      BY <1>3 DEF IInv, TInv, IsProc
    <2> QED
      BY <1>1, <1>3, <2>1, ChildPlaceLog
  <1> QED
    BY <1>2, <1>3 DEF ProcessKill, OtherStarts, OtherEnds

LEMMA ChildExitLog ==
  ASSUME IInv, LInv, NEW j \in Jobs, ChildExit(j)
  PROVE  LInv'
  <1>1. UNCHANGED <<th, name, file, alone, ring, head, count, shown>> /\ child' = [child EXCEPT ![j].pc = "exited"]
    BY DEF ChildExit, threads, logs
  <1> QED
    BY <1>1, ChildPlaceLog

LEMMA PollLog ==
  ASSUME IInv, LInv, NEW j \in Jobs, Poll(j)
  PROVE  LInv'
  <1>1. UNCHANGED <<child, name, file, alone, ring, head, count, shown>> /\ th[j].pc = "poll"
    BY DEF Poll, logs
  <1>2. \/ th' = [th EXCEPT ![j] = [th[j] EXCEPT !.pc = "read", !.done = TRUE]]
        \/ th' = [th EXCEPT ![j] = [th[j] EXCEPT !.pc = "read"]]
    BY DEF Poll
  <1>3. IsThread(th[j]) /\ DOMAIN th = Jobs
    BY DEF IInv, TInv
  <1>4. /\ th'[j].pc = "read" /\ th'[j].tail = th[j].tail /\ th'[j].lf = th[j].lf /\ th'[j].buf = th[j].buf
        /\ \A k \in Jobs \ {j} : th'[k] = th[k]
    BY <1>2, <1>3 DEF IsThread
  <1>5. \A k \in Jobs : /\ th'[k].tail = th[k].tail /\ th'[k].lf = th[k].lf /\ th'[k].buf = th[k].buf
                        /\ th'[k].pc \in {"none", "fork"} => th[k].pc \in {"none", "fork"}
                        /\ th'[k].pc \in {"end", "over"} => th[k].pc \in {"end", "over"}
    BY <1>4
  <1>6. \A k \in Jobs : (Busy(k)' <=> Busy(k)) /\ (th'[k].pc = "copy" <=> th[k].pc = "copy")
    BY <1>1, <1>4 DEF Busy
  <1>7. alone \subseteq Jobs
    BY DEF LInv, LTypes, ChildPlace, ThreadPlace
  <1> QED
    BY <1>1, <1>5, <1>6, <1>7, Quiet

LEMMA ForkLog ==
  ASSUME IInv, LInv, NEW j \in Jobs, Fork(j)
  PROVE  LInv'
  <1>1. UNCHANGED <<name, file, ring, head, count, shown>> /\ th[j].pc = "fork"
    BY DEF Fork, logs
  <1>2. IsThread(th[j]) /\ IsChild(child[j]) /\ DOMAIN th = Jobs /\ DOMAIN child = Jobs /\ child[j].pc = "none"
    BY <1>1 DEF IInv, TInv, JobInv
  <1>3. child[j].fd = 0 /\ child[j].lines = 0 /\ th[j].tail = 0 /\ th[j].buf = <<>> /\ th[j].lf = 0 /\ j # 0
    BY <1>1, <1>2, Spaces DEF LInv, LTypes, ChildPlace, ThreadPlace
  <1>4. j \notin alone /\ ~Busy(j)
    BY <1>1 DEF LInv, Progress, Busy
  <1>5. CASE th' = [th EXCEPT ![j].pc = "over"] /\ UNCHANGED <<child, alone>>
    <2>1. /\ th'[j].pc = "over" /\ th'[j].tail = th[j].tail /\ th'[j].lf = th[j].lf /\ th'[j].buf = th[j].buf
          /\ \A k \in Jobs \ {j} : th'[k] = th[k]
      BY <1>2, <1>5 DEF IsThread
    <2>2. \A k \in Jobs : /\ th'[k].tail = th[k].tail /\ th'[k].lf = th[k].lf /\ th'[k].buf = th[k].buf
                          /\ th'[k].pc \in {"none", "fork"} => th[k].pc \in {"none", "fork"}
      BY <2>1
    <2>3. \A k \in Jobs : (Busy(k)' <=> Busy(k)) /\ (th'[k].pc = "copy" <=> th[k].pc = "copy")
      BY <1>1, <2>1 DEF Busy
    <2>4. \A k \in alone : th'[k].pc = th[k].pc
      BY <1>4, <2>1 DEF LInv, LTypes, ChildPlace, ThreadPlace
    <2> QED
      BY <1>1, <1>5, <2>2, <2>3, <2>4, Quiet
  <1>6. CASE /\ child' = [child EXCEPT ![j].pc = "start"]
             /\ th' = [th EXCEPT ![j].pc = "poll"]
             /\ alone' = LET busy == {k \in Jobs \ {j} : th[k].pc \in {"poll", "read", "copy", "end"}}
                         IN IF busy = {} THEN alone \union {j} ELSE alone \ busy
    <2>1. /\ th'[j].pc = "poll" /\ \A k \in Jobs \ {j} : th'[k] = th[k]
          /\ child'[j].pc = "start" /\ \A k \in Jobs \ {j} : child'[k] = child[k]
      BY <1>2, <1>6 DEF IsThread, IsChild
    <2>2. \A k \in Jobs : /\ th'[k].tail = th[k].tail /\ th'[k].lf = th[k].lf /\ th'[k].buf = th[k].buf
                          /\ child'[k].lines = child[k].lines /\ child'[k].fd = child[k].fd
      BY <1>2, <1>6 DEF IsThread, IsChild
    <2>3. Busy(j)' /\ \A k \in Jobs \ {j} : Busy(k)' <=> Busy(k)
      BY <2>1 DEF Busy
    <2>4. \A k \in alone' : k \in alone \/ (k = j /\ \A i \in Jobs \ {j} : ~Busy(i))
      BY <1>6 DEF Busy
    <2>5. \A k \in alone' : k # j => k \in alone /\ ~Busy(k) /\ k \in Jobs
      BY <1>6, <2>4 DEF Busy, LInv, LTypes, ChildPlace, ThreadPlace
    <2>6. LTypes'
      <3>1. alone' \subseteq Jobs
        BY <2>5
      <3>2. \A k \in Jobs : child'[k].pc \in {"none", "start"} => child[k].pc \in {"none", "start"}
        BY <1>2, <2>1
      <3>3. \A k \in Jobs : /\ child'[k].pc = "run" => child[k].pc = "run"
                            /\ th'[k].pc = "copy" => th[k].pc = "copy"
                            /\ th'[k].pc \in {"none", "fork"} => th[k].pc \in {"none", "fork"}
        BY <2>1
      <3> QED
        <4>1. \A k \in Jobs : ChildPlace(k)'
          BY <2>2, <3>2, <3>3, SMTT(60) DEF LInv, LTypes, ChildPlace
        <4>2. \A k \in Jobs : ThreadPlace(k)'
          BY <2>2, <3>3, SMTT(60) DEF LInv, LTypes, ThreadPlace
        <4> QED
          BY <1>1, <3>1, <4>1, <4>2 DEF LInv, LTypes
    <2>7. name \in Jobs \union {0} /\ \A k \in Jobs : th[k].lf \in Jobs \union {0} /\ child[k].fd \in Jobs \union {0}
      BY DEF LInv, LTypes, ChildPlace, ThreadPlace
    <2>8. Made'
      BY <1>1, <2>2, <2>7, SMTT(60) DEF LInv, Made
    <2>9. NameKept' /\ RingInv'
      BY <1>1, <2>3 DEF LInv, NameKept, RingInv, Back
    <2>10. \A k \in Jobs : Unseen(k)'
      BY <1>1, <2>2 DEF LInv, Unseen, NoLineOf
    <2>11. ASSUME NEW k \in alone', k # j PROVE Apart(k)' /\ Progress(k)'
      <3>1. Apart(k) /\ Progress(k) /\ k \in Jobs /\ ~Busy(k) /\ ~Busy(k)'
        BY <2>3, <2>5, <2>11 DEF LInv
      <3>2. Apart(k)'
        BY <1>1, <2>2, <3>1, SMTT(60) DEF Apart, NoLineOf
      <3>3. ShownUpTo(k, th[k].tail - Len(th[k].buf))'
        BY <1>1, <2>2, <3>1 DEF Progress, ShownUpTo
      <3>4. th'[k].pc = th[k].pc
        BY <2>1, <2>11, <3>1
      <3>5. Progress(k)'
        BY <1>1, <2>2, <3>1, <3>3, <3>4, SMTT(60) DEF Progress
      <3> QED
        BY <3>2, <3>5
    <2>12. ASSUME j \in alone' PROVE Apart(j)' /\ Progress(j)'
      <3>1. \A i \in Jobs \ {j} : ~Busy(i)
        BY <1>4, <2>4, <2>12
      <3>2. name = 0
        BY <1>4, <3>1 DEF LInv, NameKept
      <3>3. /\ NoLineOf(j, shown)
            /\ \A k \in Jobs : NoLineOf(j, file[k]) /\ NoLineOf(j, th[k].buf)
        BY <1>3 DEF LInv, Unseen
      <3>4. \A k \in Jobs : child[k].fd # j /\ th[k].lf # j
        BY <1>3 DEF LInv, Made
      <3>5. Apart(j)'
        BY <1>1, <1>3, <2>2, <2>3, <3>1, <3>2, <3>3, <3>4, SMTT(60) DEF Apart, NoLineOf
      <3>6. th'[j].tail = 0 /\ th'[j].buf = <<>> /\ th'[j].lf = 0 /\ child'[j].fd = 0 /\ child'[j].lines = 0
        BY <1>3, <2>2
      <3>7. ShownUpTo(j, 0)'
        BY <1>1, <3>3, SMTT(60) DEF ShownUpTo, NoLineOf
      <3>8. Len(th'[j].buf) = 0 /\ th'[j].tail - Len(th'[j].buf) = 0
        <4>1. Len(<<>>) = 0 /\ 0 - 0 = 0
          BY SMTT(60)
        <4> QED
          BY <3>6, <4>1
      <3>9. Progress(j)'
        BY <1>3, <2>1, <3>6, <3>7, <3>8, SMTT(60) DEF Progress
      <3> QED
        BY <3>5, <3>9
    <2> QED
      BY <2>6, <2>8, <2>9, <2>10, <2>11, <2>12 DEF LInv
  <1> QED
    BY <1>5, <1>6 DEF Fork
-----------------------------------------------------------------------------
\* A thread of the loop moves: what is to be shown of it, and of the others.
LEMMA LoopLog ==
  ASSUME IInv, LInv, NEW j \in Jobs, Busy(j), Busy(j)',
         \A k \in Jobs \ {j} : th'[k] = th[k],
         UNCHANGED <<child, name, file, alone>>,
         RingInv', ThreadPlace(j)', th'[j].lf # 0 => th'[j].lf \in {name, th[j].lf},
         \A k \in Jobs : Unseen(k)',
         \A k \in alone \ {j} : NoLineOf(k, th'[j].buf) /\ ShownUpTo(k, th[k].tail - Len(th[k].buf))',
         j \in alone => Progress(j)'
  PROVE  LInv'
  <1>0. /\ alone \subseteq Jobs /\ name \in Jobs \union {0} /\ 0 \notin Jobs
        /\ \A k \in Jobs : th[k].lf \in Jobs \union {0} /\ child[k].fd \in Jobs \union {0}
    BY Spaces DEF LInv, LTypes, ThreadPlace, ChildPlace
  <1>1. \A k \in Jobs : Busy(k)' <=> Busy(k)
    BY DEF Busy
  <1>2. LTypes'
    <2>1. \A k \in Jobs : ChildPlace(k)'
      BY DEF LInv, LTypes, ChildPlace
    <2>2. \A k \in Jobs : ThreadPlace(k)'
      BY DEF LInv, LTypes, ThreadPlace
    <2> QED
      BY <2>1, <2>2 DEF LInv, LTypes
  <1>3. Made'
    <2>1. th'[j].lf # 0 => child[th'[j].lf].fd = th'[j].lf
      BY DEF LInv, Made
    <2>2. \A k \in Jobs : th'[k].lf # 0 => child[th'[k].lf].fd = th'[k].lf
      BY <2>1 DEF LInv, Made
    <2> QED
      BY <2>2 DEF LInv, Made
  <1>4. NameKept'
    BY <1>1 DEF LInv, NameKept
  <1>5. ASSUME NEW k \in alone, k # j PROVE Apart(k)' /\ Progress(k)'
    <2>1. Apart(k) /\ Progress(k) /\ k \in Jobs /\ th'[k] = th[k]
      BY <1>0, <1>5 DEF LInv
    <2>2. ~Busy(k)
      BY <1>5, <2>1 DEF Apart
    <2>3. name # k /\ th[j].lf # k /\ k # 0
      BY <1>0, <1>5, <2>1, <2>2 DEF Apart
    <2>4. th'[j].lf # k
      BY <2>3
    <2>5. \A i \in Jobs \ {k} : NoLineOf(k, th'[i].buf) /\ th'[i].lf # k
      BY <1>5, <2>1, <2>4 DEF Apart
    <2>6. Apart(k)'
      BY <1>1, <2>1, <2>2, <2>3, <2>5 DEF Apart
    <2>7. Progress(k)'
      BY <1>5, <2>1 DEF Progress
    <2> QED
      BY <2>6, <2>7
  <1>6. ASSUME j \in alone PROVE Apart(j)'
    <2>1. Apart(j)
      BY <1>6 DEF LInv
    <2> QED
      BY <1>1, <2>1 DEF Apart
  <1> QED
    BY <1>2, <1>3, <1>4, <1>5, <1>6 DEF LInv

\* The job's own facts, when it reads without appending
LEMMA SameShown ==
  ASSUME LInv, UNCHANGED <<ring, head, count, shown>>
  PROVE  /\ RingInv'
         /\ \A k, m : ShownUpTo(k, m) => ShownUpTo(k, m)'
  BY DEF LInv, RingInv, Back, ShownUpTo

LEMMA OpenLogLog ==
  ASSUME IInv, LInv, NEW j \in Jobs, OpenLog(j)
  PROVE  LInv'
  <1>1. UNCHANGED <<child, name, file, alone, ring, head, count, shown>> /\ th[j].pc = "read"
    BY DEF OpenLog, logs
  <1>2. IsThread(th[j]) /\ DOMAIN th = Jobs /\ JobInv(j)
    BY DEF IInv, TInv
  <1>3. /\ th'[j].lf = name /\ th'[j].pc = (IF name = 0 THEN AfterRead(j) ELSE "copy")
        /\ th'[j].tail = th[j].tail /\ th'[j].buf = th[j].buf
        /\ \A k \in Jobs \ {j} : th'[k] = th[k]
    BY <1>2 DEF OpenLog, IsThread
  <1>4. th'[j].pc \in {"poll", "end", "copy"} /\ (th'[j].pc # "copy" => name = 0)
    BY <1>3 DEF AfterRead
  <1>5. Busy(j) /\ Busy(j)'
    BY <1>1, <1>4 DEF Busy
  <1>6. \A k \in Jobs : th'[k].buf = th[k].buf
    BY <1>3
  <1>7. \A k \in Jobs : Unseen(k)'
    BY <1>1, <1>6 DEF LInv, Unseen, NoLineOf
  <1>8. ThreadPlace(j)'
    <2>1. name = 0 => th'[j].pc # "copy"
      BY <1>3 DEF AfterRead
    <2> QED
      BY <1>1, <1>3, <1>4, <2>1 DEF LInv, LTypes, ThreadPlace
  <1>9. \A k \in alone \ {j} : NoLineOf(k, th'[j].buf) /\ ShownUpTo(k, th[k].tail - Len(th[k].buf))'
    <2> SUFFICES ASSUME NEW k \in alone, k # j
                 PROVE  NoLineOf(k, th'[j].buf) /\ ShownUpTo(k, th[k].tail - Len(th[k].buf))'
      OBVIOUS
    <2>1. Apart(k) /\ Progress(k) /\ k \in Jobs
      BY DEF LInv, LTypes
    <2>2. NoLineOf(k, th'[j].buf)
      BY <1>6, <2>1 DEF Apart
    <2>3. ShownUpTo(k, th[k].tail - Len(th[k].buf))'
      BY <1>1, <1>3, <2>1 DEF Progress, ShownUpTo
    <2> QED
      BY <2>2, <2>3
  <1>10. ASSUME j \in alone PROVE Progress(j)'
    <2>1. Apart(j) /\ Progress(j)
      BY <1>10 DEF LInv
    <2>2. name = child[j].fd
      BY <1>5, <2>1 DEF Apart
    <2>3. th[j].buf = <<>> /\ Len(th[j].buf) \in Nat
      <3>1. th[j].buf = <<>>
        BY <1>1, <2>1 DEF Progress
      <3> QED
        BY <3>1, SMTT(60)
    <2>4. name = 0 => th[j].tail = child[j].lines
      <3>1. name = 0 => child[j].lines = 0
        BY <2>2 DEF LInv, LTypes, ChildPlace
      <3>2. th[j].tail \in Nat /\ th[j].tail <= child[j].lines
        BY <2>1 DEF LInv, LTypes, ThreadPlace, Progress
      <3> QED
        BY <3>1, <3>2, SMTT(60)
    <2>5. ShownUpTo(j, th[j].tail - Len(th[j].buf))'
      BY <1>1, <1>3, <2>1 DEF Progress, ShownUpTo
    <2> QED
      BY <1>1, <1>3, <1>4, <2>1, <2>2, <2>3, <2>4, <2>5 DEF Progress
  <1>11. RingInv'
    BY <1>1, SameShown
  <1> QED
    BY <1>1, <1>3, <1>5, <1>7, <1>8, <1>9, <1>10, <1>11, LoopLog

\* What fgets finds in a file beyond a place
LEMMA NewsLemma ==
  ASSUME NEW j \in Jobs, NEW text, IsLog(text), th[j].tail \in Nat
  PROVE  /\ IsLog(News(j, text))
         /\ Len(News(j, text)) = IF th[j].tail < Len(text) THEN Len(text) - th[j].tail ELSE 0
         /\ \A i \in 1..Len(News(j, text)) : News(j, text)[i] = text[th[j].tail + i] /\ th[j].tail + i \in DOMAIN text
         /\ DOMAIN News(j, text) = 1..Len(News(j, text))
         /\ (News(j, text) = <<>> <=> Len(News(j, text)) = 0)
  <1> DEFINE t == th[j].tail
             s == SubSeq(text, t + 1, Len(text))
  <1>0. text \in Seq(Nat \X Nat) /\ t \in Nat /\ Len(text) \in Nat /\ DOMAIN text = 1..Len(text)
    BY SMTT(60) DEF IsLog
  <1> HIDE DEF t
  <1>1. s \in Seq(Nat \X Nat)
    BY <1>0, SMTT(60)
  <1>2. Len(s) = IF t < Len(text) THEN Len(text) - t ELSE 0
    BY <1>0, SMTT(60)
  <1>3. \A i \in 1..Len(s) : s[i] = text[t + i] /\ t + i \in 1..Len(text)
    BY <1>0, <1>2, SMTT(60)
  <1>5. News(j, text) = s
    BY DEF News, t
  <1> HIDE DEF s
  <1>4. DOMAIN s = 1..Len(s) /\ (s = <<>> <=> Len(s) = 0)
    BY <1>1, SMTT(60)
  <1> QED
    BY <1>0, <1>1, <1>2, <1>3, <1>4, <1>5 DEF IsLog, t

\* A part of a log has no line that the log has not.
LEMMA NewsOf ==
  ASSUME NEW j \in Jobs, NEW text, IsLog(text), th[j].tail \in Nat, NEW k, NoLineOf(k, text)
  PROVE  NoLineOf(k, News(j, text))
  BY NewsLemma, SMTT(60) DEF NoLineOf

LEMMA FillLog ==
  ASSUME IInv, LInv, NEW j \in Jobs, Fill(j)
  PROVE  LInv'
  <1> DEFINE text == file[th[j].lf]
             news == News(j, text)
  <1>1. UNCHANGED <<child, name, file, alone, ring, head, count, shown>> /\ th[j].pc = "copy" /\ th[j].buf = <<>>
    BY DEF Fill, logs
  <1>2. IsThread(th[j]) /\ DOMAIN th = Jobs
    BY DEF IInv, TInv
  <1>3. th[j].lf \in Jobs /\ th[j].tail \in Nat /\ IsLog(text) /\ alone \subseteq Jobs
    BY <1>1 DEF LInv, LTypes, ThreadPlace
  <1>4. /\ IsLog(news)
        /\ Len(news) = IF th[j].tail < Len(text) THEN Len(text) - th[j].tail ELSE 0
        /\ \A i \in 1..Len(news) : news[i] = text[th[j].tail + i] /\ th[j].tail + i \in DOMAIN text
        /\ (news = <<>> <=> Len(news) = 0)
        /\ \A k : NoLineOf(k, text) => NoLineOf(k, news)
    BY <1>3, NewsLemma, NewsOf
  <1>5. th' = [th EXCEPT ![j] = IF news = <<>> THEN [th[j] EXCEPT !.lf = 0, !.pc = AfterRead(j)]
                                ELSE [th[j] EXCEPT !.tail = th[j].tail + Len(news), !.buf = news]]
    BY DEF Fill
  <1> HIDE DEF news
  <1>6. \A k \in Jobs \ {j} : th'[k] = th[k]
    BY <1>2, <1>5
  <1>7. CASE news = <<>>
    <2>1. th'[j].lf = 0 /\ th'[j].pc = AfterRead(j) /\ th'[j].tail = th[j].tail /\ th'[j].buf = <<>>
      BY <1>1, <1>2, <1>5, <1>7 DEF IsThread
    <2>2. th'[j].pc \in {"poll", "end"}
      BY <2>1 DEF AfterRead
    <2>3. Busy(j) /\ Busy(j)'
      BY <1>1, <2>2 DEF Busy
    <2>4. \A k \in Jobs : th'[k].buf = th[k].buf
      BY <1>1, <1>6, <2>1
    <2>5. \A k \in Jobs : Unseen(k)'
      BY <1>1, <2>4 DEF LInv, Unseen, NoLineOf
    <2>6. ThreadPlace(j)'
      <3>1. IsLog(th'[j].buf)
        BY <1>4, <1>7, <2>1
      <3> QED
        BY <1>3, <2>1, <2>2, <3>1 DEF ThreadPlace
    <2>7. \A k \in alone \ {j} : NoLineOf(k, th'[j].buf) /\ ShownUpTo(k, th[k].tail - Len(th[k].buf))'
      <3> SUFFICES ASSUME NEW k \in alone, k # j
                   PROVE  NoLineOf(k, th'[j].buf) /\ ShownUpTo(k, th[k].tail - Len(th[k].buf))'
        OBVIOUS
      <3>1. Apart(k) /\ Progress(k) /\ k \in Jobs
        BY <1>3 DEF LInv
      <3>2. NoLineOf(k, th'[j].buf)
        BY <2>4, <3>1 DEF Apart
      <3>3. ShownUpTo(k, th[k].tail - Len(th[k].buf))'
        BY <1>1, <1>6, <3>1 DEF Progress, ShownUpTo
      <3> QED
        BY <3>2, <3>3
    <2>8. ASSUME j \in alone PROVE Progress(j)'
      <3>1. Progress(j) /\ th[j].lf = j /\ child[j].fd = j
        BY <1>1, <1>3, <2>8, Spaces DEF LInv, Progress, Made
      <3>2. Len(text) = child[j].lines /\ child[j].lines \in Nat /\ th[j].tail <= child[j].lines
        BY <3>1 DEF Progress, LInv, LTypes, ChildPlace
      <3>3. th[j].tail = child[j].lines
        BY <1>3, <1>4, <1>7, <3>2, SMTT(60)
      <3>4. ShownUpTo(j, th[j].tail - Len(th[j].buf))'
        BY <1>1, <2>1, <3>1 DEF Progress, ShownUpTo
      <3> QED
        BY <1>1, <2>1, <2>2, <3>1, <3>3, <3>4, SMTT(60) DEF Progress
    <2>9. RingInv'
      BY <1>1, SameShown
    <2> QED
      BY <1>1, <1>6, <2>1, <2>3, <2>5, <2>6, <2>7, <2>8, <2>9, LoopLog
  <1>8. CASE news # <<>>
    <2>1. /\ th'[j].lf = th[j].lf /\ th'[j].pc = "copy" /\ th'[j].tail = th[j].tail + Len(news)
          /\ th'[j].buf = news
      BY <1>1, <1>2, <1>5, <1>8 DEF IsThread
    <2>2. Busy(j) /\ Busy(j)'
      BY <1>1, <2>1 DEF Busy
    <2>3. \A k \in Jobs : NoLineOf(k, text) => NoLineOf(k, th'[j].buf)
      BY <1>4, <2>1
    <2>4. \A k \in Jobs : Unseen(k)'
      <3> SUFFICES ASSUME NEW k \in Jobs, child[k].lines = 0
                   PROVE  /\ NoLineOf(k, shown)
                          /\ \A i \in Jobs : NoLineOf(k, file[i]) /\ NoLineOf(k, th'[i].buf)
        BY <1>1 DEF Unseen, NoLineOf
      <3>1. /\ NoLineOf(k, shown)
            /\ \A i \in Jobs : NoLineOf(k, file[i]) /\ NoLineOf(k, th[i].buf)
        BY DEF LInv, Unseen
      <3> QED
        BY <1>3, <1>6, <2>3, <3>1
    <2>5. ThreadPlace(j)'
      <3>1. th'[j].tail \in Nat
        BY <1>3, <1>4, <2>1, SMTT(60) DEF IsLog
      <3> QED
        BY <1>3, <1>4, <2>1, <3>1, Spaces DEF ThreadPlace
    <2>6. \A k \in alone \ {j} : NoLineOf(k, th'[j].buf) /\ ShownUpTo(k, th[k].tail - Len(th[k].buf))'
      <3> SUFFICES ASSUME NEW k \in alone, k # j
                   PROVE  NoLineOf(k, th'[j].buf) /\ ShownUpTo(k, th[k].tail - Len(th[k].buf))'
        OBVIOUS
      <3>1. Apart(k) /\ Progress(k) /\ k \in Jobs
        BY <1>3 DEF LInv
      <3>2. NoLineOf(k, th'[j].buf)
        BY <1>3, <2>3, <3>1 DEF Apart
      <3>3. ShownUpTo(k, th[k].tail - Len(th[k].buf))'
        BY <1>1, <1>6, <3>1 DEF Progress, ShownUpTo
      <3> QED
        BY <3>2, <3>3
    <2>7. ASSUME j \in alone PROVE Progress(j)'
      <3>1. Progress(j) /\ th[j].lf = j /\ child[j].fd = j
        BY <1>1, <1>3, <2>7, Spaces DEF LInv, Progress, Made
      <3>2. /\ Len(text) = child[j].lines /\ child[j].lines \in Nat /\ th[j].tail <= child[j].lines
            /\ \A i \in 1..child[j].lines : text[i] = <<j, i>>
        BY <3>1 DEF Progress, LInv, LTypes, ChildPlace
      <3>3. Len(news) = child[j].lines - th[j].tail /\ Len(news) \in Nat /\ th'[j].tail = child[j].lines
        BY <1>3, <1>4, <2>1, <3>2, SMTT(60)
      <3>4. Len(th[j].buf) = 0 /\ th[j].tail - Len(th[j].buf) = th[j].tail /\ th'[j].tail - Len(news) = th[j].tail
        BY <1>1, <1>3, <2>1, <3>2, <3>3, SMTT(60)
      <3>5. \A i \in 1..Len(news) : news[i] = <<j, th[j].tail + i>>
        <4> SUFFICES ASSUME NEW i \in 1..Len(news) PROVE news[i] = <<j, th[j].tail + i>>
          OBVIOUS
        <4>1. th[j].tail + i \in 1..child[j].lines
          BY <1>3, <3>2, <3>3, SMTT(60)
        <4> QED
          BY <1>4, <3>2, <4>1
      <3>6. ShownUpTo(j, th[j].tail - Len(th[j].buf))'
        BY <1>1, <2>1, <3>1, <3>4 DEF Progress, ShownUpTo
      <3>7. Len(th'[j].buf) <= th'[j].tail /\ th'[j].tail <= child[j].lines
        BY <1>3, <2>1, <3>2, <3>3, SMTT(60)
      <3>8. \A i \in 1..Len(th'[j].buf) : th'[j].buf[i] = <<j, th'[j].tail - Len(th'[j].buf) + i>>
        BY <2>1, <3>4, <3>5
      <3> QED
        BY <1>1, <2>1, <3>1, <3>6, <3>7, <3>8 DEF Progress
    <2>8. RingInv'
      BY <1>1, SameShown
    <2> QED
      BY <1>1, <1>6, <2>1, <2>2, <2>4, <2>5, <2>6, <2>7, <2>8, LoopLog
  <1> QED
    BY <1>7, <1>8

\* A line of another job, or the next one of job j, is appended.
LEMMA ShownMore ==
  ASSUME shown \in Seq(Nat \X Nat), NEW line \in Nat \X Nat, shown' = Append(shown, line),
         NEW j \in Jobs, NEW m \in Nat, ShownUpTo(j, m)
  PROVE  /\ line[1] # j => ShownUpTo(j, m)'
         /\ line = <<j, m + 1>> => ShownUpTo(j, m + 1)'
  <1> DEFINE n == Len(shown)
  <1>0. n \in Nat /\ DOMAIN shown = 1..n
    BY SMTT(60)
  <1>1. /\ DOMAIN shown' = 1..(n + 1) /\ shown'[n + 1] = line /\ \A i \in 1..n : shown'[i] = shown[i]
    BY SMTT(60)
  <1> HIDE DEF n
  <1>2. /\ \A i \in DOMAIN shown' : i \in DOMAIN shown \/ i = n + 1
        /\ \A i \in DOMAIN shown : i \in DOMAIN shown' /\ shown'[i] = shown[i] /\ ~(n + 1 < i)
        /\ n + 1 \in DOMAIN shown' /\ ~(n + 1 < n + 1)
    BY <1>0, <1>1, SMTT(60)
  <1>3. ASSUME line[1] # j PROVE ShownUpTo(j, m)'
    <2>1. \A k \in 1..m : \E i \in DOMAIN shown' : shown'[i] = <<j, k>>
      BY <1>2 DEF ShownUpTo
    <2>2. \A i \in DOMAIN shown' : shown'[i][1] = j => i \in DOMAIN shown /\ shown'[i] = shown[i]
      BY <1>1, <1>2, <1>3
    <2>3. \A i \in DOMAIN shown' : shown'[i][1] = j => shown'[i][2] \in 1..m
      BY <2>2 DEF ShownUpTo
    <2>4. \A i, k \in DOMAIN shown' : i < k /\ shown'[i][1] = j /\ shown'[k][1] = j => shown'[i][2] < shown'[k][2]
      BY <2>2, SMTT(60) DEF ShownUpTo
    <2> QED
      BY <2>1, <2>3, <2>4 DEF ShownUpTo
  <1>4. ASSUME line = <<j, m + 1>> PROVE ShownUpTo(j, m + 1)'
    <2>0. j \in Nat /\ line[1] = j /\ line[2] = m + 1
      BY <1>4, Spaces
    <2>1. \A k \in 1..(m + 1) : k \in 1..m \/ k = m + 1
      BY SMTT(60)
    <2>2. \A k \in 1..m : k \in 1..(m + 1) /\ k < m + 1
      BY SMTT(60)
    <2>3. m + 1 \in 1..(m + 1)
      BY SMTT(60)
    <2>4. \A k \in 1..(m + 1) : \E i \in DOMAIN shown' : shown'[i] = <<j, k>>
      BY <1>1, <1>2, <1>4, <2>1 DEF ShownUpTo
    <2>5. \A i \in DOMAIN shown' : shown'[i][1] = j => shown'[i][2] \in 1..(m + 1)
      BY <1>1, <1>2, <2>0, <2>2, <2>3 DEF ShownUpTo
    <2>6. \A i, k \in DOMAIN shown' : i < k /\ shown'[i][1] = j /\ shown'[k][1] = j => shown'[i][2] < shown'[k][2]
      <3> SUFFICES ASSUME NEW i \in DOMAIN shown', NEW k \in DOMAIN shown', i < k, shown'[i][1] = j, shown'[k][1] = j
                   PROVE  shown'[i][2] < shown'[k][2]
        OBVIOUS
      <3>1. i \in DOMAIN shown
        <4>1. CASE i = n + 1
          BY <1>2, <4>1
        <4> QED
          BY <1>2, <4>1
      <3>2. CASE k = n + 1
        <4>1. shown[i][1] = j => shown[i][2] \in 1..m
          BY <3>1 DEF ShownUpTo
        <4> QED
          BY <1>1, <1>2, <2>0, <2>2, <3>1, <3>2, <4>1
      <3>3. CASE k \in DOMAIN shown
        BY <1>2, <3>1, <3>3 DEF ShownUpTo
      <3> QED
        BY <1>2, <3>2, <3>3
    <2> QED
      BY <2>4, <2>5, <2>6 DEF ShownUpTo
  <1> QED
    BY <1>3, <1>4

\* What is left in the buffer when its first line is taken
LEMMA TailLemma ==
  ASSUME NEW s, IsLog(s), s # <<>>
  PROVE  /\ Len(s) \in Nat /\ Len(s) >= 1 /\ s[1] \in Nat \X Nat /\ Head(s) = s[1] /\ 1 \in DOMAIN s
         /\ IsLog(Tail(s)) /\ Len(Tail(s)) = Len(s) - 1
         /\ \A i \in 1..(Len(s) - 1) : Tail(s)[i] = s[i + 1] /\ i + 1 \in DOMAIN s
         /\ DOMAIN Tail(s) = 1..(Len(s) - 1)
         /\ \A k : NoLineOf(k, s) => NoLineOf(k, Tail(s))
  <1>0. s \in Seq(Nat \X Nat) /\ s # <<>>
    BY DEF IsLog
  <1>1. Len(s) \in Nat /\ Len(s) >= 1 /\ Head(s) = s[1] /\ DOMAIN s = 1..Len(s)
    BY <1>0, SMTT(60)
  <1>2. s[1] \in Nat \X Nat
    BY <1>0, <1>1, SMTT(60)
  <1>3. Tail(s) \in Seq(Nat \X Nat) /\ Len(Tail(s)) = Len(s) - 1
    BY <1>0, SMTT(60)
  <1>4. \A i \in 1..(Len(s) - 1) : Tail(s)[i] = s[i + 1] /\ i + 1 \in DOMAIN s
    BY <1>0, <1>1, SMTT(60)
  <1>5. DOMAIN Tail(s) = 1..(Len(s) - 1) /\ 1 \in DOMAIN s
    BY <1>0, <1>1, <1>3, SMTT(60)
  <1>6. \A k : NoLineOf(k, s) => NoLineOf(k, Tail(s))
    BY <1>4, <1>5 DEF NoLineOf
  <1> QED
    BY <1>1, <1>2, <1>3, <1>4, <1>5, <1>6 DEF IsLog

LEMMA CopyLineLog ==
  ASSUME IInv, LInv, NEW j \in Jobs, CopyLine(j)
  PROVE  LInv'
  <1> DEFINE buf == th[j].buf
             line == Head(buf)
  <1>1. UNCHANGED <<child, name, file, alone>> /\ th[j].pc = "copy" /\ buf # <<>>
    BY DEF CopyLine
  <1>2. IsThread(th[j]) /\ DOMAIN th = Jobs
    BY DEF IInv, TInv
  <1>3. /\ th[j].lf \in Jobs \union {0} /\ th[j].lf # 0 /\ th[j].tail \in Nat /\ IsLog(buf)
        /\ alone \subseteq Jobs /\ shown \in Seq(Nat \X Nat)
    BY <1>1 DEF LInv, LTypes, ThreadPlace, RingInv
  <1>4. /\ th'[j].lf = th[j].lf /\ th'[j].pc = "copy" /\ th'[j].tail = th[j].tail /\ th'[j].buf = Tail(buf)
        /\ \A k \in Jobs \ {j} : th'[k] = th[k]
    BY <1>1, <1>2 DEF CopyLine, IsThread
  <1>5. (UNCHANGED logs /\ line = Hole) \/ LogAppend(line)
    BY DEF CopyLine
  <1> HIDE DEF buf
  <1>6. /\ Len(buf) \in Nat /\ Len(buf) >= 1 /\ buf[1] \in Nat \X Nat /\ line = buf[1] /\ 1 \in DOMAIN buf
        /\ IsLog(Tail(buf)) /\ Len(Tail(buf)) = Len(buf) - 1
        /\ \A i \in 1..(Len(buf) - 1) : Tail(buf)[i] = buf[i + 1] /\ i + 1 \in DOMAIN buf
        /\ \A k : NoLineOf(k, buf) => NoLineOf(k, Tail(buf))
    BY <1>1, <1>3, TailLemma
  <1> HIDE DEF line
  <1>7. RingInv' /\ \A k : NoLineOf(k, shown) /\ line[1] # k => NoLineOf(k, shown')
    <2>1. CASE UNCHANGED logs
      BY <2>1, SameShown DEF logs, NoLineOf
    <2>2. CASE LogAppend(line)
      <3>1. DOMAIN shown' = 1..(Len(shown) + 1) /\ Len(shown) \in Nat /\ DOMAIN shown = 1..Len(shown)
        BY <1>3, <2>2, SMTT(60) DEF LogAppend
      <3>2. shown'[Len(shown) + 1] = line /\ \A i \in 1..Len(shown) : shown'[i] = shown[i]
        BY <1>3, <1>6, <2>2, SMTT(60) DEF LogAppend
      <3>3. \A i \in DOMAIN shown' : i \in DOMAIN shown \/ i = Len(shown) + 1
        BY <3>1, SMTT(60)
      <3>4. RingInv'
        BY <1>6, <2>2, RingAppend DEF LInv
      <3> QED
        BY <3>1, <3>2, <3>3, <3>4 DEF NoLineOf
    <2> QED
      BY <1>5, <2>1, <2>2
  <1>8. ASSUME NEW k \in Jobs, NoLineOf(k, buf), NEW m \in Nat, ShownUpTo(k, m)
        PROVE  ShownUpTo(k, m)'
    <2>1. line[1] # k
      BY <1>6, <1>8 DEF NoLineOf
    <2>2. CASE UNCHANGED logs
      BY <1>8, <2>2, SameShown DEF logs
    <2>3. CASE LogAppend(line)
      BY <1>3, <1>6, <1>8, <2>1, <2>3, ShownMore DEF LogAppend
    <2> QED
      BY <1>5, <2>2, <2>3
  <1>9. Busy(j) /\ Busy(j)'
    BY <1>1, <1>4 DEF Busy
  <1>10. \A k \in Jobs : Unseen(k)'
    <2> SUFFICES ASSUME NEW k \in Jobs, child[k].lines = 0
                 PROVE  /\ NoLineOf(k, shown')
                        /\ \A i \in Jobs : NoLineOf(k, file[i]) /\ NoLineOf(k, th'[i].buf)
      BY <1>1 DEF Unseen, NoLineOf
    <2>1. /\ NoLineOf(k, shown)
          /\ \A i \in Jobs : NoLineOf(k, file[i]) /\ NoLineOf(k, th[i].buf)
      BY DEF LInv, Unseen
    <2>2. NoLineOf(k, buf)
      BY <2>1 DEF buf
    <2>3. line[1] # k
      BY <1>6, <2>2 DEF NoLineOf
    <2> QED
      BY <1>4, <1>6, <1>7, <2>1, <2>2, <2>3
  <1>11. ThreadPlace(j)'
    BY <1>3, <1>4, <1>6 DEF ThreadPlace
  <1>12. \A k \in alone \ {j} : NoLineOf(k, th'[j].buf) /\ ShownUpTo(k, th[k].tail - Len(th[k].buf))'
    <2> SUFFICES ASSUME NEW k \in alone, k # j
                 PROVE  NoLineOf(k, th'[j].buf) /\ ShownUpTo(k, th[k].tail - Len(th[k].buf))'
      OBVIOUS
    <2>1. Apart(k) /\ Progress(k) /\ k \in Jobs /\ th'[k] = th[k] /\ IsLog(th[k].buf) /\ th[k].tail \in Nat
      BY <1>3, <1>4 DEF LInv, LTypes, ThreadPlace
    <2>2. NoLineOf(k, buf)
      BY <2>1 DEF Apart, buf
    <2>3. th[k].tail - Len(th[k].buf) \in Nat
      BY <2>1, SMTT(60) DEF Progress, IsLog
    <2>4. ShownUpTo(k, th[k].tail - Len(th[k].buf))
      BY <2>1 DEF Progress
    <2> DEFINE m == th[k].tail - Len(th[k].buf)
    <2>5. m' = m
      BY <2>1
    <2> HIDE DEF m
    <2>6. ShownUpTo(k, m)'
      <3>1. PICK x : x = m
        OBVIOUS
      <3>2. ShownUpTo(k, x)'
        BY <1>8, <2>1, <2>2, <2>3, <2>4, <3>1 DEF m
      <3> QED
        BY <2>5, <3>1, <3>2 DEF ShownUpTo
    <2> QED
      BY <1>4, <1>6, <2>2, <2>6 DEF m
  <1>13. ASSUME j \in alone PROVE Progress(j)'
    <2>1. Progress(j)
      BY <1>13 DEF LInv
    <2>2. /\ Len(buf) <= th[j].tail /\ th[j].tail <= child[j].lines /\ child[j].lines \in Nat
          /\ \A i \in 1..Len(buf) : buf[i] = <<j, th[j].tail - Len(buf) + i>>
      BY <2>1 DEF Progress, buf, LInv, LTypes, ChildPlace
    <2>3. PICK m \in Nat : m = th[j].tail - Len(buf)
      BY <1>3, <1>6, <2>2, SMTT(60)
    <2>4. line = <<j, m + 1>>
      <3>1. 1 \in 1..Len(buf)
        BY <1>6, SMTT(60)
      <3> QED
        BY <1>6, <2>2, <2>3, <3>1
    <2>5. LogAppend(line)
      <3>1. j # 0 /\ line[1] = j /\ Hole[1] = 0
        BY <2>4, Spaces DEF Hole
      <3> QED
        BY <1>5, <3>1
    <2>6. ShownUpTo(j, m + 1)'
      BY <1>3, <1>6, <2>1, <2>3, <2>4, <2>5, ShownMore DEF Progress, LogAppend, buf
    <2>7. th[j].tail - Len(Tail(buf)) = m + 1 /\ Len(Tail(buf)) <= th[j].tail
      BY <1>3, <1>6, <2>2, <2>3, SMTT(60)
    <2>8. ASSUME NEW i \in 1..Len(Tail(buf)) PROVE Tail(buf)[i] = <<j, m + 1 + i>>
      <3>1. i \in 1..(Len(buf) - 1) /\ i + 1 \in 1..Len(buf) /\ m + (i + 1) = m + 1 + i
        BY <1>6, <2>3, SMTT(60)
      <3>2. buf[i + 1] = <<j, m + (i + 1)>>
        BY <2>2, <2>3, <3>1
      <3> QED
        BY <1>6, <3>1, <3>2
    <2>9. ShownUpTo(j, th[j].tail - Len(th[j].buf))'
      BY <1>4, <2>6, <2>7 DEF ShownUpTo
    <2>10. \A i \in 1..Len(th'[j].buf) : th'[j].buf[i] = <<j, th'[j].tail - Len(th'[j].buf) + i>>
      BY <1>4, <2>7, <2>8
    <2> QED
      BY <1>1, <1>4, <2>1, <2>2, <2>7, <2>9, <2>10 DEF Progress
  <1> QED
    BY <1>1, <1>4, <1>7, <1>9, <1>10, <1>11, <1>12, <1>13, LoopLog

LEMMA FinishLog ==
  ASSUME IInv, LInv, NEW j \in Jobs, Finish(j)
  PROVE  LInv'
  <1>1. UNCHANGED <<child, file, alone, ring, head, count, shown>> /\ th[j].pc = "end" /\ name' = 0
    BY DEF Finish, logs
  <1>2. IsThread(th[j]) /\ DOMAIN th = Jobs /\ alone \subseteq Jobs /\ 0 \notin Jobs
    BY Spaces DEF IInv, TInv, LInv, LTypes
  <1>3. /\ th'[j].pc = "over" /\ \A k \in Jobs \ {j} : th'[k] = th[k]
        /\ \A k \in Jobs : th'[k].tail = th[k].tail /\ th'[k].lf = th[k].lf /\ th'[k].buf = th[k].buf
    BY <1>2 DEF Finish, IsThread
  <1>4. Busy(j) /\ ~Busy(j)' /\ \A k \in Jobs \ {j} : Busy(k)' <=> Busy(k)
    BY <1>1, <1>3 DEF Busy
  <1>5. LTypes'
    <2>1. \A k \in Jobs : ChildPlace(k)'
      BY <1>1 DEF LInv, LTypes, ChildPlace
    <2>2. \A k \in Jobs : /\ th'[k].pc = "copy" => th[k].pc = "copy"
                          /\ th'[k].pc \in {"none", "fork"} => th[k].pc \in {"none", "fork"}
      BY <1>3
    <2>3. \A k \in Jobs : ThreadPlace(k)'
      BY <1>3, <2>2, SMTT(60) DEF LInv, LTypes, ThreadPlace
    <2> QED
      BY <1>1, <2>1, <2>3 DEF LInv, LTypes
  <1>6. Made' /\ NameKept' /\ RingInv'
    BY <1>1, <1>3, SameShown DEF LInv, Made, NameKept
  <1>7. \A k \in Jobs : Unseen(k)'
    BY <1>1, <1>3, SMTT(60) DEF LInv, Unseen, NoLineOf
  <1>8. ASSUME NEW k \in alone PROVE Apart(k)' /\ Progress(k)'
    <2>1. Apart(k) /\ Progress(k) /\ k \in Jobs
      BY <1>2 DEF LInv
    <2>2. ~Busy(k)'
      BY <1>4, <2>1 DEF Apart
    <2>3. Apart(k)'
      BY <1>1, <1>2, <1>3, <2>1, <2>2, SMTT(60) DEF Apart, NoLineOf
    <2>4. ShownUpTo(k, th[k].tail - Len(th[k].buf))'
      BY <1>1, <1>3, <2>1 DEF Progress, ShownUpTo
    <2>5. /\ th'[k].pc \notin {"none", "fork"}
          /\ th'[k].pc \in {"end", "over"} => th[k].pc \in {"end", "over"}
          /\ th[k].pc = "copy" => th'[k].pc = "copy"
      BY <1>1, <1>3, <2>1 DEF Progress
    <2>6. Progress(k)'
      BY <1>1, <1>3, <2>1, <2>4, <2>5 DEF Progress
    <2> QED
      BY <2>3, <2>6
  <1> QED
    BY <1>1, <1>5, <1>6, <1>7, <1>8 DEF LInv

LEMMA ChildOpenLog ==
  ASSUME IInv, LInv, NEW j \in Jobs, ChildOpen(j)
  PROVE  LInv'
  <1> DEFINE f == IF name = 0 THEN j ELSE name
  <1>1. UNCHANGED <<th, alone, ring, head, count, shown>> /\ child[j].pc = "start" /\ name' = f
    BY DEF ChildOpen, logs, threads
  <1>2. /\ IsChild(child[j]) /\ DOMAIN child = Jobs /\ DOMAIN file = Jobs /\ alone \subseteq Jobs
        /\ 0 \notin Jobs /\ name \in Jobs \union {0} /\ child[j].fd = 0 /\ child[j].lines = 0
    BY <1>1, Spaces DEF IInv, TInv, LInv, LTypes, ChildPlace
  <1>3. f \in Jobs /\ (name = 0 => f = j) /\ (name # 0 => f = name)
    BY <1>2
  <1>4. child' = [child EXCEPT ![j] = [child[j] EXCEPT !.pc = "run", !.fd = f]] /\ file' = [file EXCEPT ![f] = <<>>]
    BY DEF ChildOpen
  <1> HIDE DEF f
  <1>5. /\ child'[j].pc = "run" /\ child'[j].fd = f /\ child'[j].lines = 0
        /\ \A k \in Jobs \ {j} : child'[k] = child[k]
        /\ DOMAIN file' = Jobs /\ file'[f] = <<>> /\ \A k \in Jobs \ {f} : file'[k] = file[k]
    BY <1>2, <1>3, <1>4 DEF IsChild
  <1>6. Busy(j) /\ \A k \in Jobs : Busy(k)' <=> Busy(k)
    BY <1>1, Alive DEF Busy
  <1>7. IsLog(<<>>) /\ \A k : NoLineOf(k, <<>>)
    BY SMTT(60) DEF IsLog, NoLineOf
  <1>8. 0 \in Nat
    BY SMTT(60)
  <1>9. LTypes'
    <2>1. \A k \in Jobs : ChildPlace(k)'
      BY <1>2, <1>3, <1>5, <1>8 DEF LInv, LTypes, ChildPlace
    <2>2. \A k \in Jobs : ThreadPlace(k)'
      BY <1>1 DEF LInv, LTypes, ThreadPlace
    <2>3. \A k \in Jobs : IsLog(file'[k])
      BY <1>5, <1>7 DEF LInv, LTypes
    <2> QED
      BY <1>1, <1>2, <1>3, <1>5, <2>1, <2>2, <2>3 DEF LTypes
  <1>10. \A g \in Jobs : child[g].fd = g => child'[g].fd = g
    BY <1>2, <1>5
  <1>11. child'[f].fd = f
    BY <1>2, <1>3, <1>5, <1>10 DEF LInv, Made
  <1>12. Made'
    <2>1. \A k \in Jobs : /\ child[k].fd \in Jobs \union {0} /\ th[k].lf \in Jobs \union {0}
                          /\ child[k].fd # 0 => child[child[k].fd].fd = child[k].fd
                          /\ th[k].lf # 0 => child[th[k].lf].fd = th[k].lf
      BY DEF LInv, Made, LTypes, ChildPlace, ThreadPlace
    <2>2. \A k \in Jobs : th[k].lf # 0 => child'[th[k].lf].fd = th[k].lf
      BY <1>10, <2>1
    <2>3. \A k \in Jobs : child'[k].fd # 0 => child'[child'[k].fd].fd = child'[k].fd
      BY <1>5, <1>10, <1>11, <2>1, SMTT(60)
    <2> QED
      BY <1>1, <1>11, <2>2, <2>3 DEF Made
  <1>13. NameKept' /\ RingInv'
    BY <1>1, <1>6, SameShown DEF NameKept
  <1>14. \A k \in Jobs : Unseen(k)'
    <2> SUFFICES ASSUME NEW k \in Jobs, child'[k].lines = 0
                 PROVE  /\ NoLineOf(k, shown)
                        /\ \A i \in Jobs : NoLineOf(k, file'[i]) /\ NoLineOf(k, th[i].buf)
      BY <1>1 DEF Unseen, NoLineOf
    <2>1. child[k].lines = 0
      BY <1>2, <1>5
    <2>2. /\ NoLineOf(k, shown)
          /\ \A i \in Jobs : NoLineOf(k, file[i]) /\ NoLineOf(k, th[i].buf)
      BY <2>1 DEF LInv, Unseen
    <2> QED
      BY <1>5, <1>7, <2>2
  <1>15. ASSUME NEW k \in alone, k # j PROVE Apart(k)' /\ Progress(k)'
    <2>1. Apart(k) /\ Progress(k) /\ k \in Jobs
      BY <1>2 DEF LInv
    <2>2. ~Busy(k) /\ name # k
      BY <1>6, <1>15, <2>1 DEF Apart
    <2>3. f # k
      BY <1>3, <1>15, <2>2
    <2>4. \A i \in Jobs \ {k} : NoLineOf(k, file'[i]) /\ NoLineOf(k, th[i].buf) /\ child'[i].fd # k /\ th[i].lf # k
      BY <1>5, <1>7, <2>1, <2>3 DEF Apart
    <2>5. Apart(k)'
      BY <1>1, <1>6, <2>1, <2>2, <2>3, <2>4 DEF Apart
    <2>6. file'[k] = file[k] /\ child'[k] = child[k]
      BY <1>5, <1>15, <2>1, <2>3
    <2>7. ShownUpTo(k, th[k].tail - Len(th[k].buf))'
      BY <1>1, <2>1 DEF Progress, ShownUpTo
    <2>8. Progress(k)'
      BY <1>1, <2>1, <2>6, <2>7 DEF Progress
    <2> QED
      BY <2>5, <2>8
  <1>16. ASSUME j \in alone PROVE Apart(j)' /\ Progress(j)'
    <2>1. Apart(j) /\ Progress(j)
      BY <1>16 DEF LInv
    <2>2. f = j
      BY <1>2, <1>3, <1>6, <2>1 DEF Apart
    <2>3. \A i \in Jobs \ {j} : NoLineOf(j, file'[i]) /\ NoLineOf(j, th[i].buf) /\ child'[i].fd # j /\ th[i].lf # j
      BY <1>5, <2>1, <2>2 DEF Apart
    <2>4. Apart(j)'
      BY <1>1, <1>5, <1>6, <2>1, <2>2, <2>3 DEF Apart
    <2>5. Len(file'[j]) = child'[j].lines /\ \A i \in 1..child'[j].lines : FALSE
      BY <1>5, <2>2, SMTT(60)
    <2>6. ShownUpTo(j, th[j].tail - Len(th[j].buf))'
      BY <1>1, <2>1 DEF Progress, ShownUpTo
    <2>7. Progress(j)'
      BY <1>1, <1>2, <1>5, <2>1, <2>2, <2>5, <2>6 DEF Progress
    <2> QED
      BY <2>4, <2>7
  <1> QED
    BY <1>1, <1>9, <1>12, <1>13, <1>14, <1>15, <1>16 DEF LInv

\* A function on the first numbers is a log.
LEMMA LogOf ==
  ASSUME NEW m \in Nat, NEW g, g = [i \in 1..m |-> g[i]], \A i \in 1..m : g[i] \in Nat \X Nat
  PROVE  IsLog(g) /\ Len(g) = m
  <1>1. g \in [1..m -> Nat \X Nat]
    OBVIOUS
  <1> QED
    BY <1>1, SMTT(60) DEF IsLog

LEMMA PairOf == \A i, k \in Nat : <<i, k>> \in Nat \X Nat
  BY SMTT(60)

LEMMA InRange == \A m, l \in Nat : \A i \in 1..m : i <= l => i \in 1..l
  BY SMTT(60)

\* What ChildWrite makes of the file
WithLine(old, j, n) ==
  [i \in 1..(IF Len(old) > n THEN Len(old) ELSE n) |->
     IF i = n THEN <<j, n>> ELSE IF i <= Len(old) THEN old[i] ELSE Hole]

\* A line at a place of a file, behind a gap where the file is shorter
LEMMA LineAt ==
  ASSUME NEW old, IsLog(old), NEW n \in Nat \ {0}, NEW j \in Jobs, NEW g, g = WithLine(old, j, n)
  PROVE  /\ IsLog(g)
         /\ \A k \in Jobs \ {j} : NoLineOf(k, old) => NoLineOf(k, g)
         /\ Len(old) = n - 1 => Len(g) = n /\ \A i \in 1..n : g[i] = IF i = n THEN <<j, n>> ELSE old[i]
  <1>0. old \in Seq(Nat \X Nat) /\ Len(old) \in Nat /\ DOMAIN old = 1..Len(old) /\ j \in Nat /\ Hole \in Nat \X Nat
    BY Spaces, SMTT(60) DEF IsLog, Hole
  <1>a. PICK m \in Nat : m = IF Len(old) > n THEN Len(old) ELSE n
    BY <1>0
  <1>1. /\ DOMAIN g = 1..m
        /\ \A i \in 1..m : g[i] = IF i = n THEN <<j, n>> ELSE IF i <= Len(old) THEN old[i] ELSE Hole
    BY <1>a DEF WithLine
  <1>2. \A i \in 1..m : i <= Len(old) => i \in DOMAIN old
    BY <1>0, <1>a, InRange
  <1>3. \A i \in 1..m : g[i] \in Nat \X Nat
    <2> SUFFICES ASSUME NEW i \in 1..m PROVE g[i] \in Nat \X Nat
      OBVIOUS
    <2>1. CASE i = n
      BY <1>0, <1>1, <2>1, PairOf, SMTT(60)
    <2>2. CASE i # n /\ i <= Len(old)
      <3>1. old[i] \in Nat \X Nat
        BY <1>0, <1>2, <2>2, SMTT(60)
      <3> QED
        BY <1>1, <2>2, <3>1
    <2>3. CASE i # n /\ ~(i <= Len(old))
      BY <1>0, <1>1, <2>3
    <2> QED
      BY <2>1, <2>2, <2>3
  <1>4. g = [i \in 1..m |-> g[i]]
    BY <1>1, <1>a DEF WithLine
  <1>5. IsLog(g) /\ Len(g) = m
    BY <1>3, <1>4, LogOf
  <1>6. ASSUME NEW k \in Jobs \ {j}, NoLineOf(k, old) PROVE NoLineOf(k, g)
    <2>1. k # j /\ k # 0 /\ Hole[1] = 0 /\ <<j, n>>[1] = j
      BY Spaces DEF Hole
    <2> QED
      BY <1>1, <1>2, <1>6, <2>1 DEF NoLineOf
  <1>7. ASSUME Len(old) = n - 1 PROVE Len(g) = n /\ \A i \in 1..n : g[i] = IF i = n THEN <<j, n>> ELSE old[i]
    <2>1. m = n /\ \A i \in 1..n : i # n => i <= Len(old)
      BY <1>a, <1>7, SMTT(60)
    <2> QED
      BY <1>1, <1>5, <2>1
  <1> QED
    BY <1>5, <1>6, <1>7

LEMMA ChildWriteLog ==
  ASSUME IInv, LInv, NEW j \in Jobs, ChildWrite(j)
  PROVE  LInv'
  <1> DEFINE n == child[j].lines + 1
             f == child[j].fd
             old == file[f]
             g == WithLine(old, j, n)
  <1>1. UNCHANGED <<th, name, alone, ring, head, count, shown>> /\ child[j].pc = "run"
    BY DEF ChildWrite, logs, threads
  <1>2. /\ IsChild(child[j]) /\ DOMAIN child = Jobs /\ DOMAIN file = Jobs /\ alone \subseteq Jobs
        /\ 0 \notin Jobs /\ f \in Jobs /\ child[j].lines \in Nat /\ IsLog(old)
    BY <1>1, Spaces DEF IInv, TInv, LInv, LTypes, ChildPlace
  <1>3. n \in Nat \ {0} /\ n - 1 = child[j].lines /\ n \in Nat /\ n # 0
    BY <1>2, SMTT(60)
  <1>4. child' = [child EXCEPT ![j].lines = n] /\ file' = [file EXCEPT ![f] = g]
    BY DEF ChildWrite, WithLine
  <1>g. g = WithLine(old, j, n)
    OBVIOUS
  <1> HIDE DEF n, g
  <1>5. /\ IsLog(g)
        /\ \A k \in Jobs \ {j} : NoLineOf(k, old) => NoLineOf(k, g)
        /\ Len(old) = n - 1 => Len(g) = n /\ \A i \in 1..n : g[i] = IF i = n THEN <<j, n>> ELSE old[i]
    BY <1>2, <1>3, <1>g, LineAt, SMTT(60)
  <1>6. /\ child'[j].pc = "run" /\ child'[j].fd = f /\ child'[j].lines = n
        /\ \A k \in Jobs \ {j} : child'[k] = child[k]
        /\ DOMAIN file' = Jobs /\ file'[f] = g /\ \A k \in Jobs \ {f} : file'[k] = file[k]
    BY <1>1, <1>2, <1>4 DEF IsChild
  <1>7. th[j].pc \in {"poll", "read", "copy"} /\ Busy(j) /\ \A k \in Jobs : Busy(k)' <=> Busy(k)
    BY <1>1, Alive DEF Busy
  <1>8. \A k \in Jobs : child'[k].fd = child[k].fd
    BY <1>6
  <1>9. LTypes'
    <2>1. \A k \in Jobs : ChildPlace(k)'
      BY <1>2, <1>3, <1>6 DEF LInv, LTypes, ChildPlace
    <2>2. \A k \in Jobs : ThreadPlace(k)'
      BY <1>1 DEF LInv, LTypes, ThreadPlace
    <2>3. \A k \in Jobs : IsLog(file'[k])
      BY <1>5, <1>6 DEF LInv, LTypes
    <2> QED
      BY <1>1, <1>2, <1>6, <2>1, <2>2, <2>3 DEF LInv, LTypes
  <1>10. Made'
    <2>1. /\ name \in Jobs \union {0}
          /\ \A k \in Jobs : child[k].fd \in Jobs \union {0} /\ th[k].lf \in Jobs \union {0}
      BY DEF LInv, LTypes, ChildPlace, ThreadPlace
    <2> QED
      BY <1>1, <1>8, <2>1 DEF LInv, Made
  <1>11. NameKept' /\ RingInv'
    BY <1>1, <1>7, SameShown DEF NameKept
  <1>12. \A k \in Jobs : Unseen(k)'
    <2> SUFFICES ASSUME NEW k \in Jobs, child'[k].lines = 0
                 PROVE  /\ NoLineOf(k, shown)
                        /\ \A i \in Jobs : NoLineOf(k, file'[i]) /\ NoLineOf(k, th[i].buf)
      BY <1>1 DEF Unseen, NoLineOf
    <2>1. k # j /\ child[k].lines = 0
      BY <1>3, <1>6
    <2>2. /\ NoLineOf(k, shown)
          /\ \A i \in Jobs : NoLineOf(k, file[i]) /\ NoLineOf(k, th[i].buf)
      BY <2>1 DEF LInv, Unseen
    <2> QED
      BY <1>2, <1>5, <1>6, <2>1, <2>2
  <1>13. ASSUME NEW k \in alone, k # j PROVE Apart(k)' /\ Progress(k)'
    <2>1. Apart(k) /\ Progress(k) /\ k \in Jobs
      BY <1>2 DEF LInv
    <2>2. f # k
      BY <1>13, <2>1 DEF Apart
    <2>3. NoLineOf(k, g)
      BY <1>2, <1>5, <1>13, <2>1, <2>2 DEF Apart
    <2>4. \A i \in Jobs \ {k} : NoLineOf(k, file'[i]) /\ NoLineOf(k, th[i].buf) /\ child'[i].fd # k /\ th[i].lf # k
      BY <1>6, <1>8, <2>1, <2>3 DEF Apart
    <2>5. Apart(k)'
      BY <1>1, <1>7, <1>8, <2>1, <2>4 DEF Apart
    <2>6. file'[k] = file[k] /\ child'[k] = child[k]
      BY <1>6, <1>13, <2>1, <2>2
    <2>7. ShownUpTo(k, th[k].tail - Len(th[k].buf))'
      BY <1>1, <2>1 DEF Progress, ShownUpTo
    <2>8. Progress(k)'
      BY <1>1, <2>1, <2>6, <2>7 DEF Progress
    <2> QED
      BY <2>5, <2>8
  <1>14. ASSUME j \in alone PROVE Apart(j)' /\ Progress(j)'
    <2>1. Apart(j) /\ Progress(j)
      BY <1>14 DEF LInv
    <2>2. f = j
      BY <1>2, <2>1 DEF Progress
    <2>3. \A i \in Jobs \ {j} : NoLineOf(j, file'[i]) /\ NoLineOf(j, th[i].buf) /\ child'[i].fd # j /\ th[i].lf # j
      BY <1>6, <1>8, <2>1, <2>2 DEF Apart
    <2>4. Apart(j)'
      BY <1>1, <1>7, <1>8, <2>1, <2>3 DEF Apart
    <2>5. Len(old) = n - 1 /\ \A i \in 1..(n - 1) : old[i] = <<j, i>>
      BY <1>3, <2>1, <2>2 DEF Progress
    <2>6. \A i \in 1..n : i # n => i \in 1..(n - 1)
      BY <1>3, SMTT(60)
    <2>7. Len(file'[j]) = child'[j].lines /\ \A i \in 1..child'[j].lines : file'[j][i] = <<j, i>>
      BY <1>5, <1>6, <2>2, <2>5, <2>6
    <2>8. ShownUpTo(j, th[j].tail - Len(th[j].buf))'
      BY <1>1, <2>1 DEF Progress, ShownUpTo
    <2>9. th[j].tail <= n
      <3>1. th[j].tail \in Nat /\ th[j].tail <= child[j].lines
        BY <2>1 DEF Progress, LInv, LTypes, ThreadPlace
      <3> QED
        BY <1>3, <3>1, SMTT(60)
    <2>10. Progress(j)'
      BY <1>1, <1>6, <1>7, <2>1, <2>2, <2>7, <2>8, <2>9 DEF Progress
    <2> QED
      BY <2>4, <2>10
  <1> QED
    BY <1>1, <1>9, <1>10, <1>11, <1>12, <1>13, <1>14 DEF LInv

LEMMA LogInvariance == Spec => []LInv
  <1>1. IInv /\ LInv /\ [Next]_vars => LInv'
    <2> SUFFICES ASSUME IInv, LInv, [Next]_vars PROVE LInv'
      OBVIOUS
    <2>1. CASE IndexStart
      BY <2>1, IndexStartLog
    <2>2. CASE \E p \in Pids : ProcessKill(p) \/ OtherStarts(p) \/ OtherEnds(p)
      BY <2>2, PidLog
    <2>3. CASE \E j \in Jobs : ThreadStep(j)
      BY <2>3, ForkLog, PollLog, OpenLogLog, FillLog, CopyLineLog, FinishLog DEF ThreadStep
    <2>4. CASE \E j \in Jobs : ChildStep(j)
      BY <2>4, ChildOpenLog, ChildWriteLog, ChildExitLog DEF ChildStep
    <2>5. CASE UNCHANGED vars
      BY <2>5, ProcLog DEF vars, threads, logs
    <2> QED
      BY <2>1, <2>2, <2>3, <2>4, <2>5 DEF Next
  <1> QED
    BY <1>1, InitLog, Invariance, PTL DEF Spec

-----------------------------------------------------------------------------
\* handle_index_start gives a slot to one thread at a time, and a slot is
\* marked running exactly while a thread has it.
THEOREM SlotsOwned == Spec => []SlotOwned
  <1>1. IInv => SlotOwned
    BY DEF IInv
  <1> QED
    BY <1>1, Invariance, PTL

\* index_thread_fn ends only after waitpid gave the child's number back.
THEOREM ChildrenReaped == Spec => []ChildReaped
  <1>1. IInv => ChildReaped
    BY DEF IInv, JobInv, NoProc, ChildReaped
  <1> QED
    BY <1>1, Invariance, PTL

\* handle_process_kill signals a process that is not the slot's child only
\* before the slot's new thread has forked.
THEOREM KillMissesOnlyBeforeFork == Spec => []KillAstrayOnlyBy
  <1>1. IInv => KillAstrayOnlyBy
    BY DEF IInv
  <1> QED
    BY <1>1, Invariance, PTL

\* index_thread_fn reads the log once more after waitpid, so every line of a
\* child that shared the server with no other reaches the ring, once and in
\* order, before the job is over.
THEOREM LogsComplete == Spec => []LogComplete
  <1>1. LInv => LogComplete
    <2> SUFFICES ASSUME LInv, NEW j \in alone, th[j].pc = "over" PROVE ShownUpTo(j, child[j].lines)
      BY DEF LogComplete
    <2>1. Progress(j) /\ j \in Jobs
      BY DEF LInv, LTypes
    <2>2. th[j].tail \in Nat /\ th[j].tail = child[j].lines /\ th[j].buf = <<>>
      BY <2>1 DEF Progress, LInv, LTypes, ThreadPlace
    <2>3. th[j].tail - Len(th[j].buf) = child[j].lines
      BY <2>2, SMTT(60)
    <2> QED
      BY <2>1, <2>3 DEF Progress
  <1> QED
    BY <1>1, LogInvariance, PTL

\* handle_logs returns the last lines that cbm_ui_log_append got, in order, for
\* any size of the ring and however often it has wrapped.
THEOREM RingHasLast == Spec => []RingIsLast
  <1>1. LInv => RingIsLast
    BY RingRead DEF LInv
  <1> QED
    BY <1>1, LogInvariance, PTL
=============================================================================
