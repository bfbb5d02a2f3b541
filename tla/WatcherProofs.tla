---------------------------- MODULE WatcherProofs ----------------------------
(***************************************************************************)
(* HiddenOnlyBy for every number of contents, runs and failures. It rests  *)
(* on what git guarantees: a commit is new, so HEAD never moves onto the   *)
(* commit the watcher has recorded unless the user checks it out.          *)
(***************************************************************************)
EXTENDS Watcher, TLAPS

\* A leaf that names no prover is tried with Zenon, then with SMT.
USE ZenonT(60), SMTT(60)

RepoInv ==
  /\ head \in commits /\ last_head \in commits \union {NoHead}
  /\ \A c \in commits : c <= top
  /\ tree <= top
  /\ Dirty => tree \notin commits

IInv == TypeOK /\ RepoInv

USE WatcherAssumption

LEMMA InitIInv == Init => IInv
<1> SUFFICES ASSUME Init PROVE IInv
  OBVIOUS
<1>1. waiting \in BOOLEAN /\ shutdown \in BOOLEAN
  BY DEF Init
<1> QED
  BY <1>1, SMTT(60) DEF Init, IInv, TypeOK, RepoInv, Versions, NoHead, Dirty

LEMMA StepIInv == ASSUME IInv, [Next]_vars PROVE IInv'
<1> USE DEF IInv, TypeOK, RepoInv, Versions, Dirty, NoHead, repo, lock, project
<1>1. CASE Edit
  BY <1>1, SMTT(60) DEF Edit
<1>2. CASE Commit
  BY <1>2 DEF Commit
<1>3. CASE Discard
  BY <1>3 DEF Discard
<1>4. CASE OtherReads
  BY <1>4, SMTT(60) DEF OtherReads
<1>5. CASE OtherIndexes
  BY <1>5 DEF OtherIndexes
<1>6. CASE Watch
  BY <1>6 DEF Watch
<1>7. CASE IntervalElapses
  <2>1. waiting' \in BOOLEAN
    BY <1>7 DEF IntervalElapses
  <2> QED
    BY <1>7, <2>1 DEF IntervalElapses
<1>8. CASE InitBaseline
  <2>1. waiting' \in BOOLEAN
    BY <1>8 DEF InitBaseline
  <2>2. gitfails' \in 0..MaxGitFails
    BY <1>8, SMTT(60) DEF InitBaseline, GitFails
  <2>3. last_head' \in {head, last_head} /\ state' \in {"git", "skip"}
    BY <1>8 DEF InitBaseline
  <2> QED
    BY <1>8, <2>1, <2>2, <2>3 DEF InitBaseline
<1>9. CASE CheckHead
  BY <1>9, SMTT(60) DEF CheckHead, GitFails
<1>10. CASE CheckStatus
  <2>1. waiting' \in BOOLEAN
    BY <1>10 DEF CheckStatus
  <2>2. gitfails' \in 0..MaxGitFails
    BY <1>10, SMTT(60) DEF CheckStatus, GitFails
  <2>3. pc' \in {"changed", "sleep"}
    BY <1>10 DEF CheckStatus
  <2> QED
    BY <1>10, <2>1, <2>2, <2>3 DEF CheckStatus
<1>11. CASE SkipRun
  BY <1>11 DEF SkipRun
<1>12. CASE StartRun
  BY <1>12 DEF StartRun
<1>13. CASE EndRun
  BY <1>13 DEF EndRun
<1>14. CASE FailRun
  BY <1>14, SMTT(60) DEF FailRun
<1>15. CASE UpdateHead
  BY <1>15, SMTT(60) DEF UpdateHead, GitFails
<1>16. CASE WatcherExit
  BY <1>16 DEF WatcherExit
<1>17. CASE Shutdown
  BY <1>17 DEF Shutdown
<1>18. ASSUME NEW c \in commits, Checkout(c) PROVE IInv'
  BY <1>18 DEF Checkout
<1>19. CASE UNCHANGED vars
  BY <1>19, SMTT(60) DEF vars
<1> HIDE DEF IInv
<1> QED
  BY <1>1, <1>2, <1>3, <1>4, <1>5, <1>6, <1>7, <1>8, <1>9, <1>10, <1>11, <1>12, <1>13,
       <1>14, <1>15, <1>16, <1>17, <1>18, <1>19
     DEF Next, WatcherStep, Exited

LEMMA StepHidden ==
  ASSUME IInv, [Next]_vars, ~Hidden, Hidden'
  PROVE  \/ InitBaseline \/ Discard \/ \E c \in commits : Checkout(c)
         \/ OtherIndexes \/ FailRun \/ UpdateHead
         \/ Commit /\ last_head = NoHead
<1> SUFFICES ASSUME ~InitBaseline, ~Discard, ~\E c \in commits : Checkout(c),
                    ~OtherIndexes, ~FailRun, ~UpdateHead,
                    ~(Commit /\ last_head = NoHead)
             PROVE  FALSE
  OBVIOUS
<1> USE DEF IInv, TypeOK, RepoInv, Versions, Dirty, NoHead, repo, lock, project, Hidden
<1>1. CASE Edit
  BY <1>1, SMTT(60) DEF Edit
<1>2. CASE Commit
  BY <1>2 DEF Commit
<1>3. CASE OtherReads
  BY <1>3 DEF OtherReads
<1>4. CASE Watch
  BY <1>4 DEF Watch
<1>5. CASE IntervalElapses
  BY <1>5 DEF IntervalElapses
<1>6. CASE CheckHead
  BY <1>6 DEF CheckHead, GitFails
<1>7. CASE CheckStatus
  BY <1>7 DEF CheckStatus, GitFails
<1>8. CASE SkipRun
  BY <1>8 DEF SkipRun
<1>9. CASE StartRun
  BY <1>9 DEF StartRun
<1>10. CASE EndRun
  BY <1>10 DEF EndRun
<1>11. CASE WatcherExit
  BY <1>11 DEF WatcherExit
<1>12. CASE Shutdown
  BY <1>12 DEF Shutdown
<1>13. CASE UNCHANGED vars
  BY <1>13 DEF vars
<1> QED
  BY <1>1, <1>2, <1>3, <1>4, <1>5, <1>6, <1>7, <1>8, <1>9, <1>10, <1>11, <1>12, <1>13
     DEF Next, WatcherStep, Exited

\* The types, and git's part of the argument, hold in every reachable state.
THEOREM WatcherIInv == Spec => []IInv
<1> QED
  BY InitIInv, StepIInv, PTL DEF Spec

\* A change the watcher can see stays visible to it through every edit,
\* commit and step of check_changes; only the named steps hide it.
THEOREM ChangeStaysVisible == Spec => HiddenOnlyBy
<1>1. IInv /\ [Next]_vars =>
        [~Hidden /\ Hidden' =>
           \/ InitBaseline \/ Discard \/ \E c \in commits : Checkout(c)
           \/ OtherIndexes \/ FailRun \/ UpdateHead
           \/ Commit /\ last_head = NoHead]_vars
  BY StepHidden
<1> QED
  BY <1>1, WatcherIInv, PTL DEF Spec, HiddenOnlyBy

=============================================================================
