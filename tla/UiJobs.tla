------------------------------- MODULE UiJobs -------------------------------
(***************************************************************************)
(* The UI's indexing jobs (src/ui/http_server.c): POST /api/index takes a  *)
(* slot and starts a detached thread; the thread forks a child that        *)
(* indexes, waits for it, and copies the child's log file into the log     *)
(* ring; POST /api/process-kill ends a child; GET /api/logs reads the      *)
(* ring. The HTTP loop is one thread, so its handlers do not overlap.      *)
(*                                                                         *)
(* Around it is POSIX: a child that ended stays a zombie until waitpid     *)
(* gives its number back, and other processes then get the number. It is   *)
(* assumed that this takes longer than a thread needs from waitpid to its  *)
(* end. The log file has one name for all children of the server; a child  *)
(* writes at its own place in the file it opened. Lines have length 1.     *)
(***************************************************************************)
EXTENDS Integers, Sequences, FiniteSets

CONSTANTS NumSlots,  \* MAX_INDEX_JOBS
          RingSize,  \* LOG_RING_SIZE
          NumPids,   \* process numbers that come around,
          MaxJobs,   \* and bounds on jobs
          MaxLines   \* and the lines of a child

ASSUME UiJobsAssumption ==
  /\ NumSlots \in Nat \ {0} /\ RingSize \in Nat \ {0} /\ NumPids \in Nat \ {0}
  /\ MaxJobs \in Nat /\ MaxLines \in Nat

Slots == 1..NumSlots
Jobs == 1..MaxJobs
Pids == 1..NumPids

\* index_job_t.status
Idle == 0
Running == 1
Done == 2
Error == 3

VARIABLES status, child_pid,  \* g_index_jobs
          njobs,              \* jobs started
          th,                 \* the thread of a job: place, slot, child_done, tail_pos, lf
                              \* (0: not open) and the lines lf has in its buffer
          proc,               \* what has a process number
          child,              \* the child of a job: place, lines written, its log file
          name, file,         \* the log file's name (0: none), contents of log files
          ring, head, count,  \* g_log_ring, g_log_head, g_log_count
          shown,              \* history: all lines appended to the ring
          alone,              \* history: jobs whose child shared the server with no other
          astray              \* history: where the slot's thread was when a kill missed

threads == <<status, child_pid, njobs, th>>
logs == <<ring, head, count, shown>>
vars == <<threads, proc, child, name, file, logs, alone, astray>>

NoThread == [pc |-> "none", slot |-> 1, done |-> FALSE, tail |-> 0, lf |-> 0, buf |-> <<>>]
NoChild == [pc |-> "none", lines |-> 0, fd |-> 0]
Free == [is |-> "free", job |-> 0]
Hole == <<0, 0>>

Init ==
  /\ status = [s \in Slots |-> Idle] /\ child_pid = [s \in Slots |-> 0]
  /\ njobs = 0 /\ th = [j \in Jobs |-> NoThread]
  /\ proc = [p \in Pids |-> Free] /\ child = [j \in Jobs |-> NoChild]
  /\ name = 0 /\ file = [j \in Jobs |-> <<>>]
  /\ ring = [i \in 0..(RingSize - 1) |-> Hole] /\ head = 0 /\ count = 0 /\ shown = <<>>
  /\ alone = {} /\ astray = {}

-----------------------------------------------------------------------------
(* The HTTP loop *)

\* Mutant: a slot whose child was reaped counts as free.
FreeSlotEarly(s) ==
  status[s] # Running \/ \E j \in Jobs : th[j].slot = s /\ th[j].pc = "end" /\ th[j].done

\* The test of handle_index_start
FreeSlot(s) ==
  status[s] \in {Idle, Done, Error}

\* handle_index_start: the first free slot; the thread may fail to start.
IndexStart ==
  /\ njobs < MaxJobs
  /\ \E s \in Slots :
       /\ FreeSlot(s) /\ \A t \in Slots : t < s => ~FreeSlot(t)
       /\ njobs' = njobs + 1
       /\ \/ /\ status' = [status EXCEPT ![s] = Running]
             /\ th' = [th EXCEPT ![njobs'] = [NoThread EXCEPT !.pc = "fork", !.slot = s]]
          \/ /\ status' = [status EXCEPT ![s] = Error]
             /\ th' = [th EXCEPT ![njobs'] = [NoThread EXCEPT !.pc = "over", !.slot = s]]
  /\ UNCHANGED <<child_pid, proc, child, name, file, logs, alone, astray>>

\* Mutant: any slot's number will do.
KillableEver(s, p) == child_pid[s] = p

\* The test of handle_process_kill
Killable(s, p) ==
  status[s] = Running /\ child_pid[s] = p

PlaceOf(s) == IF \E j \in Jobs : th[j].slot = s /\ th[j].pc \notin {"none", "over"}
              THEN th[CHOOSE j \in Jobs : th[j].slot = s /\ th[j].pc \notin {"none", "over"}].pc
              ELSE "none"

\* handle_process_kill with a number that is taken
ProcessKill(p) ==
  /\ \E s \in Slots : Killable(s, p)
  /\ \/ /\ proc[p].is = "child"
        /\ child' = [child EXCEPT ![proc[p].job].pc = "exited"]
        /\ proc' = [proc EXCEPT ![p].is = "zombie"]
        /\ UNCHANGED astray
     \/ /\ proc[p].is = "other"
        /\ proc' = [proc EXCEPT ![p] = Free]
        /\ astray' = astray \union {PlaceOf(s) : s \in {x \in Slots : Killable(x, p)}}
        /\ UNCHANGED child
  /\ UNCHANGED <<threads, name, file, logs, alone>>

-----------------------------------------------------------------------------
(* The job's thread, index_thread_fn *)

\* Numbers that a thread has given back just now
Fresh(p) == \E j \in Jobs : th[j].pc \in {"read", "copy", "end"} /\ th[j].done /\ child_pid[th[j].slot] = p

Fork(j) ==
  /\ th[j].pc = "fork"
  /\ \/ \E p \in Pids :
          /\ proc[p].is = "free" /\ ~Fresh(p)
          /\ proc' = [proc EXCEPT ![p] = [is |-> "child", job |-> j]]
          /\ child_pid' = [child_pid EXCEPT ![th[j].slot] = p]
          /\ child' = [child EXCEPT ![j].pc = "start"]
          /\ th' = [th EXCEPT ![j].pc = "poll"]
          /\ alone' = LET busy == {k \in Jobs \ {j} : th[k].pc \in {"poll", "read", "copy", "end"}}
                      IN IF busy = {} THEN alone \union {j} ELSE alone \ busy
          /\ UNCHANGED status
     \/ /\ status' = [status EXCEPT ![th[j].slot] = Error]
        /\ th' = [th EXCEPT ![j].pc = "over"]
        /\ UNCHANGED <<proc, child_pid, child, alone>>
  /\ UNCHANGED <<njobs, name, file, logs, astray>>

\* Mutant: any answer but 0 ends the loop.
ReapedOrNot(p) == p \in Pids

\* Mutant: kill(child_pid, 0) is asked instead, which finds a zombie.
ReapedIfGone(p) == proc[p].is \notin {"child", "zombie"}

\* waitpid with WNOHANG gives the number back.
Reaped(p) ==
  proc[p].is = "zombie"

\* The head of the loop: waitpid comes before the log is read.
Poll(j) ==
  /\ th[j].pc = "poll"
  /\ LET p == child_pid[th[j].slot]
     IN IF Reaped(p)
        THEN proc' = [proc EXCEPT ![p] = Free] /\ th' = [th EXCEPT ![j] = [@ EXCEPT !.pc = "read", !.done = TRUE]]
        ELSE th' = [th EXCEPT ![j].pc = "read"] /\ UNCHANGED proc
  /\ UNCHANGED <<status, child_pid, njobs, child, name, file, logs, alone, astray>>

\* child_done is asked once the log was read.
AfterRead(j) == IF th[j].done THEN "end" ELSE "poll"

\* fopen: the file at the name, if there is one
OpenLog(j) ==
  /\ th[j].pc = "read"
  /\ th' = [th EXCEPT ![j] = [@ EXCEPT !.lf = name, !.pc = IF name = 0 THEN AfterRead(j) ELSE "copy"]]
  /\ UNCHANGED <<status, child_pid, njobs, proc, child, name, file, logs, alone, astray>>

\* Mutant: the loop is left before the last read.
NewsUnlessDone(j, text) == IF th[j].done THEN <<>> ELSE SubSeq(text, th[j].tail + 1, Len(text))

\* What the file has beyond tail_pos
News(j, text) ==
  SubSeq(text, th[j].tail + 1, Len(text))

\* fgets with an empty buffer reads what the file has more, or finds its end.
Fill(j) ==
  /\ th[j].pc = "copy" /\ th[j].buf = <<>>
  /\ LET news == News(j, file[th[j].lf])
     IN th' = [th EXCEPT ![j] = IF news = <<>> THEN [@ EXCEPT !.lf = 0, !.pc = AfterRead(j)]
                                ELSE [@ EXCEPT !.tail = th[j].tail + Len(news), !.buf = news]]
  /\ UNCHANGED <<status, child_pid, njobs, proc, child, name, file, logs, alone, astray>>

\* cbm_ui_log_append: g_log_count stops at the size of the ring.
Counted(n) ==
  IF n < RingSize THEN n + 1 ELSE n

\* cbm_ui_log_append, under g_log_mutex
LogAppend(line) ==
  /\ ring' = [ring EXCEPT ![head] = line]
  /\ head' = (head + 1) % RingSize
  /\ count' = Counted(count)
  /\ shown' = Append(shown, line)

\* fgets with a line in the buffer: it goes to the ring unless it is empty.
CopyLine(j) ==
  /\ th[j].pc = "copy" /\ th[j].buf # <<>>
  /\ th' = [th EXCEPT ![j].buf = Tail(@)]
  /\ IF Head(th[j].buf) = Hole THEN UNCHANGED logs ELSE LogAppend(Head(th[j].buf))
  /\ UNCHANGED <<status, child_pid, njobs, proc, child, name, file, alone, astray>>

\* Mutant: the start is one too early.
LogLinesEarly(n) ==
  LET c == IF count < n THEN count ELSE n
      start == (head - c + RingSize - 1) % RingSize
  IN [i \in 1..c |-> ring[(start + i - 1) % RingSize]]

\* handle_logs: the last n lines of the ring
LogLines(n) ==
  LET c == IF count < n THEN count ELSE n
      start == (head - c + RingSize) % RingSize
  IN [i \in 1..c |-> ring[(start + i - 1) % RingSize]]

\* The second waitpid finds no child and leaves the status it was given, 0: the
\* job is done however the child ended.
Finish(j) ==
  /\ th[j].pc = "end"
  /\ name' = 0
  /\ status' = [status EXCEPT ![th[j].slot] = Done]
  /\ th' = [th EXCEPT ![j].pc = "over"]
  /\ UNCHANGED <<child_pid, njobs, proc, child, file, logs, alone, astray>>

-----------------------------------------------------------------------------
(* The child *)

\* freopen with "w": the file at the name is emptied, or a new one is made. The
\* file of job j is the one its child made.
ChildOpen(j) ==
  /\ child[j].pc = "start"
  /\ LET f == IF name = 0 THEN j ELSE name
     IN /\ name' = f
        /\ file' = [file EXCEPT ![f] = <<>>]
        /\ child' = [child EXCEPT ![j] = [@ EXCEPT !.pc = "run", !.fd = f]]
  /\ UNCHANGED <<threads, proc, logs, alone, astray>>

\* A line at the child's own place in its file
ChildWrite(j) ==
  /\ child[j].pc = "run" /\ child[j].lines < MaxLines
  /\ LET n == child[j].lines + 1
         f == child[j].fd
         old == file[f]
     IN /\ child' = [child EXCEPT ![j].lines = n]
        /\ file' = [file EXCEPT ![f] =
             [i \in 1..(IF Len(old) > n THEN Len(old) ELSE n) |->
                IF i = n THEN <<j, n>> ELSE IF i <= Len(old) THEN old[i] ELSE Hole]]
  /\ UNCHANGED <<threads, proc, name, logs, alone, astray>>

\* The child ends, well or not, also where exec fails: the exit code is what
\* Finish does not get to see.
ChildExit(j) ==
  /\ child[j].pc = "run"
  /\ child' = [child EXCEPT ![j].pc = "exited"]
  /\ \E p \in Pids :
       /\ proc[p] = [is |-> "child", job |-> j]
       /\ proc' = [proc EXCEPT ![p].is = "zombie"]
  /\ UNCHANGED <<threads, name, file, logs, alone, astray>>

\* A process that is none of the server's children gets a number, and ends.
OtherStarts(p) ==
  /\ proc[p].is = "free" /\ ~Fresh(p)
  /\ proc' = [proc EXCEPT ![p].is = "other"]
  /\ UNCHANGED <<threads, child, name, file, logs, alone, astray>>

OtherEnds(p) ==
  /\ proc[p].is = "other"
  /\ proc' = [proc EXCEPT ![p] = Free]
  /\ UNCHANGED <<threads, child, name, file, logs, alone, astray>>

-----------------------------------------------------------------------------

ThreadStep(j) == Fork(j) \/ Poll(j) \/ OpenLog(j) \/ Fill(j) \/ CopyLine(j) \/ Finish(j)
ChildStep(j) == ChildOpen(j) \/ ChildWrite(j) \/ ChildExit(j)

Next ==
  \/ IndexStart
  \/ \E p \in Pids : ProcessKill(p) \/ OtherStarts(p) \/ OtherEnds(p)
  \/ \E j \in Jobs : ThreadStep(j) \/ ChildStep(j)

\* Threads and children run, and a child's work ends.
Fairness == \A j \in Jobs : WF_vars(ThreadStep(j)) /\ WF_vars(ChildOpen(j)) /\ WF_vars(ChildExit(j))

Spec == Init /\ [][Next]_vars /\ Fairness

-----------------------------------------------------------------------------
(* Properties *)

Active(j) == th[j].pc \notin {"none", "over"}

\* A slot belongs to one thread from handle_index_start to the thread's last
\* store: two jobs never write the same status, and a running slot has a thread.
SlotOwned ==
  /\ \A s \in Slots : status[s] = Running <=> \E j \in Jobs : Active(j) /\ th[j].slot = s
  /\ \A j, k \in Jobs : Active(j) /\ Active(k) /\ th[j].slot = th[k].slot => j = k

\* A thread that is over has waited for its child: the child has ended, and its
\* process number was given back.
ChildReaped ==
  \A j \in Jobs : th[j].pc = "over" => child[j].pc \in {"none", "exited"} /\ \A p \in Pids : proc[p].job # j

\* process-kill ends only children of running jobs, except where the slot still
\* has the number of its last child because its new thread has not forked yet.
KillAstrayOnlyBy == astray \subseteq {"fork"}

\* Of job j's lines the first m are shown, once each and in order, and no more.
ShownUpTo(j, m) ==
  /\ \A n \in 1..m : \E i \in DOMAIN shown : shown[i] = <<j, n>>
  /\ \A i \in DOMAIN shown : shown[i][1] = j => shown[i][2] \in 1..m
  /\ \A i, k \in DOMAIN shown : i < k /\ shown[i][1] = j /\ shown[k][1] = j => shown[i][2] < shown[k][2]

\* Every line of a child whose job overlapped no other is shown, once and in
\* order, by the time the job is over: no line written before the exit is lost.
LogComplete == \A j \in alone : th[j].pc = "over" => ShownUpTo(j, child[j].lines)

\* /api/logs returns the last lines that were appended, in order, also after
\* the ring has wrapped.
RingIsLast ==
  \A n \in 1..RingSize :
    LogLines(n) = SubSeq(shown, Len(shown) - (IF Len(shown) < n THEN Len(shown) ELSE n) + 1, Len(shown))

\* Every job comes to an end: its slot does not stay busy.
JobEnds == \A j \in Jobs : th[j].pc = "fork" ~> th[j].pc = "over"
=============================================================================
