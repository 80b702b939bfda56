------------------------- MODULE TestManager_proofs -------------------------
(***************************************************************************)
(* What holds of the tabs and their tests for any number of tabs, tests    *)
(* and iterations.                                                         *)
(***************************************************************************)
EXTENDS TestManager, TLAPS

\* A manager nobody started is as it was created.
Unborn ==
  \A m \in Managers : At(m, "unborn") =>
    /\ ~mgr[m].stopped /\ ~mgr[m].cancelled /\ mgr[m].job = "none"
    /\ mgr[m].iter = 0 /\ mgr[m].finalized = 0 /\ ~Pending(m)

\* Where the loop is, and what job it may have.
Jobs ==
  \A m \in Managers :
    /\ mgr[m].pc \in {"launched", "begun"} => mgr[m].job = "none"
    /\ mgr[m].pc = "estimate" => mgr[m].job \in {"none", "estimating"}
    /\ mgr[m].job = "estimating" => mgr[m].pc = "estimate"
    /\ mgr[m].pc \in {"top", "preparing", "after", "backoff", "pause"} => ~Unfinished(m)
    /\ \/ mgr[m].pc \in {"preparing", "waiting", "joining", "after"}
       \/ Unfinished(m) /\ mgr[m].job # "estimating"
       => mgr[m].iter < Count(m)

\* A test that has no iteration behind it is finalized by its stop alone.
Early == {"launched", "begun", "estimate"}
Fresh ==
  \A m \in Managers :
    mgr[m].pc \in Early /\ ~mgr[m].stopped => mgr[m].finalized = 0

\* A tab and its manager know each other.
Owners ==
  /\ \A f \in Tabs : tab[f].mgr # None =>
       ~At(tab[f].mgr, "unborn") /\ mgr[tab[f].mgr].owner = f
  /\ \A f \in Tabs : tab[f].stop => tab[f].mgr # None
  /\ \A m \in Managers : ~At(m, "unborn") => mgr[m].owner \in Tabs

\* A manager is stopped once, and cancelled by its stop.
Stops ==
  /\ \A f \in Tabs : tab[f].stop => ~mgr[tab[f].mgr].stopped
  /\ \A m \in Managers : mgr[m].cancelled => mgr[m].stopped
  /\ ~MainFree => mgr[main.stopping].stopped /\ ~mgr[main.stopping].cancelled

\* The last iteration has nothing left to finalize: its job is over, or will never be
\* launched.
Final(m) ==
  \/ mgr[m].iter >= Count(m)
  \/ /\ mgr[m].iter = Count(m) - 1 /\ ~Unfinished(m)
     /\ mgr[m].pc \in {"waiting", "joining", "after", "over"}

\* A test is finalized by its stop, by its last iteration, or by both: once each.
Finalized ==
  \A m \in Managers :
    /\ mgr[m].finalized \in 0 .. 2
    /\ mgr[m].finalized = 1 => mgr[m].cancelled \/ Final(m)
    /\ mgr[m].finalized = 2 => mgr[m].cancelled /\ Final(m)
    /\ Pending(m) => mgr[m].finalized # 0

\* While nobody stops a test, the tests that have begun and whose finalization has not
\* run hold the buttons of their tab, and no finalization is posted twice.
Open(m) == ~At(m, "unborn") /\ (mgr[m].finalized = 0 \/ Pending(m))
Holds(m) ==
  LET f == mgr[m].owner IN tab[f].mgr = m /\ ~tab[f].start /\ tab[f].stop
Buttons ==
  NobodyStopped =>
    /\ \A m \in Managers : Open(m) => Holds(m)
    /\ \A i, j \in 1 .. Len(main.queue) : main.queue[i] = main.queue[j] => i = j

Inv == TypeOK /\ Unborn /\ Jobs /\ Fresh /\ Owners /\ Stops /\ Finalized /\ Buttons

-----------------------------------------------------------------------------
(* Lemmas about a step *)

LEMMA Appending ==
  ASSUME NEW q \in Seq(Managers), NEW x \in Managers
  PROVE  /\ Append(q, x) \in Seq(Managers)
         /\ Len(Append(q, x)) = Len(q) + 1 /\ Len(q) \in Nat
         /\ \A i \in 1 .. Len(q) : Append(q, x)[i] = q[i]
         /\ Append(q, x)[Len(q) + 1] = x
  OBVIOUS

LEMMA Taking ==
  ASSUME NEW q \in Seq(Managers), q # <<>>
  PROVE  /\ Tail(q) \in Seq(Managers)
         /\ Head(q) = q[1] /\ Head(q) \in Managers
         /\ Len(q) \in Nat /\ Len(q) >= 1 /\ Len(Tail(q)) = Len(q) - 1
         /\ \A i \in 1 .. Len(q) - 1 : Tail(q)[i] = q[i + 1]
  OBVIOUS

\* The fields of a tab and of the main thread.
LEMMA Fields ==
  ASSUME TypeOK
  PROVE  /\ \A f \in Tabs : /\ tab[f].mgr \in Managers \cup {None}
                            /\ tab[f].start \in BOOLEAN /\ tab[f].stop \in BOOLEAN
         /\ main.queue \in Seq(Managers) /\ main.stopping \in Managers \cup {None}
         /\ None \notin Managers /\ None \notin Tabs
  BY ManagerAssumption DEF TypeOK, TabType

\* What a step leaves alone that neither starts, stops nor finalizes a test.
Keeps ==
  /\ main'.queue = main.queue /\ main'.stopping = main.stopping
  /\ \A f \in Tabs : /\ tab'[f].mgr = tab[f].mgr
                     /\ tab'[f].start = tab[f].start /\ tab'[f].stop = tab[f].stop
  /\ \A m \in Managers :
       /\ At(m, "unborn") => mgr'[m] = mgr[m]
       /\ ~At(m, "unborn") => ~At(m, "unborn")'
       /\ mgr'[m].pc \in Early => mgr[m].pc \in Early
       /\ mgr'[m].owner = mgr[m].owner
       /\ mgr'[m].stopped = mgr[m].stopped
       /\ mgr'[m].cancelled = mgr[m].cancelled
       /\ mgr'[m].finalized = mgr[m].finalized

\* Such a step has only to look after the types, the jobs and the end of the test.
LEMMA Kept ==
  ASSUME Inv, Keeps, TypeOK', Jobs', \A m \in Managers : Final(m) => Final(m)'
  PROVE  Inv'
<1>1. Unborn'
  BY DEF Inv, Keeps, Unborn, At, Pending
<1>2. Owners'
  BY Fields DEF Inv, Keeps, Owners, At
<1>3. Stops'
  BY Fields DEF Inv, Keeps, Stops, Owners, MainFree, At
<1>4. Finalized'
  BY DEF Inv, Keeps, Finalized, Pending
<1>5. Buttons'
  <2>1. NobodyStopped' => NobodyStopped
    BY DEF Keeps, NobodyStopped
  <2>2. \A m \in Managers : ~At(m, "unborn") /\ Holds(m) => Holds(m)'
    BY DEF Inv, Keeps, Holds, Owners
  <2>3. \A m \in Managers : Open(m)' => Open(m) /\ ~At(m, "unborn")
    BY DEF Keeps, Pending, At, Open
  <2>4. NobodyStopped' => \A m \in Managers : Open(m)' => Holds(m)'
    BY <2>1, <2>2, <2>3 DEF Inv, Buttons
  <2>5. NobodyStopped' =>
          (\A i, j \in 1 .. Len(main.queue) : main.queue[i] = main.queue[j] => i = j)'
    BY <2>1 DEF Inv, Keeps, Buttons
  <2> QED BY <2>4, <2>5 DEF Buttons
<1>6. Fresh'
  BY DEF Inv, Keeps, Fresh
<1> QED BY <1>1, <1>2, <1>3, <1>4, <1>5, <1>6 DEF Inv

-----------------------------------------------------------------------------
(* The coroutines *)

LEMMA BeginInv ==
  ASSUME Inv, NEW m \in Managers, Begin(m)
  PROVE  Inv'
<1>1. TypeOK'
  <2>1. mgr[m] \in ManagerType
    BY DEF Inv, TypeOK
  <2>2. [mgr[m] EXCEPT !.pc = IF mgr[m].cancelled THEN "over" ELSE "begun"]
          \in ManagerType
    BY <2>1 DEF ManagerType
  <2> QED BY <2>2 DEF Inv, TypeOK, Begin, Step
<1>2. Keeps
  BY DEF Inv, TypeOK, ManagerType, Keeps, Early, Begin, Step, At, Unborn, Jobs
<1>3. Jobs'
  BY ManagerAssumption
  DEF Inv, TypeOK, ManagerType, Jobs, Unfinished, Count, Begin, Step, At
<1>4. \A n \in Managers : Final(n) => Final(n)'
  BY ManagerAssumption
  DEF Inv, TypeOK, ManagerType, Jobs, Unfinished, Count, Final, Begin, Step, At
<1> QED BY <1>1, <1>2, <1>3, <1>4, Kept

LEMMA StartTimerInv ==
  ASSUME Inv, NEW m \in Managers, StartTimer(m)
  PROVE  Inv'
<1>1. TypeOK'
  <2>1. mgr[m] \in ManagerType
    BY DEF Inv, TypeOK
  <2>2. [mgr[m] EXCEPT !.pc = IF mgr[m].hybrid THEN "estimate" ELSE "top",
                       !.lateTimer = mgr[m].stopped] \in ManagerType
    BY <2>1 DEF ManagerType
  <2>3. mgr[m].owner \in Tabs
    BY DEF Inv, Owners, StartTimer, At
  <2>4. tab[mgr[m].owner] \in TabType
    BY <2>3 DEF Inv, TypeOK
  <2>5. [tab[mgr[m].owner] EXCEPT !.timer = m] \in TabType
    BY <2>4 DEF TabType
  <2> QED BY <2>2, <2>5 DEF Inv, TypeOK, StartTimer
<1>2. Keeps
  BY DEF Inv, TypeOK, ManagerType, Keeps, Early, StartTimer, At, Unborn, Jobs
<1>3. Jobs'
  BY ManagerAssumption
  DEF Inv, TypeOK, ManagerType, Jobs, Unfinished, Count, StartTimer, At
<1>4. \A n \in Managers : Final(n) => Final(n)'
  BY ManagerAssumption
  DEF Inv, TypeOK, ManagerType, Jobs, Unfinished, Count, Final, StartTimer, At
<1> QED BY <1>1, <1>2, <1>3, <1>4, Kept

LEMMA EstimateInv ==
  ASSUME Inv, NEW m \in Managers, Estimate(m)
  PROVE  Inv'
<1>1. TypeOK'
  <2>1. mgr[m] \in ManagerType
    BY DEF Inv, TypeOK
  <2>2. [mgr[m] EXCEPT !.job = "estimating", !.late = Late(m)] \in ManagerType
    <3>1. Late(m) \in Nat
      BY <2>1 DEF ManagerType, Late
    <3> QED BY <2>1, <3>1 DEF ManagerType
  <2> QED BY <2>2 DEF Inv, TypeOK, Estimate, Late
<1>2. Keeps
  BY DEF Inv, TypeOK, ManagerType, Keeps, Early, Estimate, Late, At, Job, Unborn, Jobs
<1>3. Jobs'
  BY ManagerAssumption
  DEF Inv, TypeOK, ManagerType, Jobs, Unfinished, Count, Estimate, Late, At, Job
<1>4. \A n \in Managers : Final(n) => Final(n)'
  BY ManagerAssumption
  DEF Inv, TypeOK, ManagerType, Jobs, Unfinished, Count, Final, Estimate, Late, At, Job
<1> QED BY <1>1, <1>2, <1>3, <1>4, Kept

LEMMA EstimateReturnsInv ==
  ASSUME Inv, NEW m \in Managers, EstimateReturns(m)
  PROVE  Inv'
<1>1. TypeOK'
  <2>1. mgr[m] \in ManagerType
    BY DEF Inv, TypeOK
  <2>2. [mgr[m] EXCEPT !.job = "none", !.pc = "top"] \in ManagerType
    BY <2>1 DEF ManagerType
  <2> QED BY <2>2 DEF Inv, TypeOK, EstimateReturns
<1>2. Keeps
  BY DEF Inv, TypeOK, ManagerType, Keeps, Early, EstimateReturns, At, Job, Unborn, Jobs
<1>3. Jobs'
  BY ManagerAssumption
  DEF Inv, TypeOK, ManagerType, Jobs, Unfinished, Count, EstimateReturns, At, Job
<1>4. \A n \in Managers : Final(n) => Final(n)'
  BY ManagerAssumption
  DEF Inv, TypeOK, ManagerType, Jobs, Unfinished, Count, Final, EstimateReturns, At, Job
<1> QED BY <1>1, <1>2, <1>3, <1>4, Kept

LEMMA TopInv ==
  ASSUME Inv, NEW m \in Managers, Top(m)
  PROVE  Inv'
<1>1. TypeOK'
  <2>1. mgr[m] \in ManagerType
    BY DEF Inv, TypeOK
  <2>2. \A l \in {"over", "preparing"} : [mgr[m] EXCEPT !.pc = l] \in ManagerType
    BY <2>1 DEF ManagerType
  <2> QED BY <2>2 DEF Inv, TypeOK, Top, Step
<1>2. Keeps
  BY DEF Inv, TypeOK, ManagerType, Keeps, Early, Top, Step, At, Job, Unborn, Jobs
<1>3. Jobs'
  BY ManagerAssumption
  DEF Inv, TypeOK, ManagerType, Jobs, Unfinished, Count, Top, Step, At, Job
<1>4. \A n \in Managers : Final(n) => Final(n)'
  BY ManagerAssumption
  DEF Inv, TypeOK, ManagerType, Jobs, Unfinished, Count, Final, Top, Step, At, Job
<1> QED BY <1>1, <1>2, <1>3, <1>4, Kept

LEMMA LaunchInv ==
  ASSUME Inv, NEW m \in Managers, Launch(m)
  PROVE  Inv'
<1>1. TypeOK'
  <2>1. mgr[m] \in ManagerType
    BY DEF Inv, TypeOK
  <2>2. [mgr[m] EXCEPT !.completed = FALSE, !.pc = "waiting",
                       !.job = IF mgr[m].cancelled THEN "done" ELSE "launched"]
          \in ManagerType
    BY <2>1 DEF ManagerType
  <2> QED BY <2>2 DEF Inv, TypeOK, Launch
<1>2. Keeps
  BY DEF Inv, TypeOK, ManagerType, Keeps, Early, Launch, At, Job, Unborn, Jobs
<1>3. Jobs'
  BY ManagerAssumption
  DEF Inv, TypeOK, ManagerType, Jobs, Unfinished, Count, Launch, At, Job
<1>4. \A n \in Managers : Final(n) => Final(n)'
  BY ManagerAssumption
  DEF Inv, TypeOK, ManagerType, Jobs, Unfinished, Count, Final, Launch, At, Job
<1> QED BY <1>1, <1>2, <1>3, <1>4, Kept

LEMMA WaitEndsInv ==
  ASSUME Inv, NEW m \in Managers, WaitEnds(m)
  PROVE  Inv'
<1>1. TypeOK'
  <2>1. mgr[m] \in ManagerType
    BY DEF Inv, TypeOK
  <2>2. [mgr[m] EXCEPT !.pc = "joining", !.job = IF @ = "launched" THEN "done" ELSE @]
          \in ManagerType
    BY <2>1 DEF ManagerType
  <2> QED BY <2>2 DEF Inv, TypeOK, WaitEnds
<1>2. Keeps
  BY DEF Inv, TypeOK, ManagerType, Keeps, Early, WaitEnds, At, Unborn, Jobs
<1>3. Jobs'
  BY ManagerAssumption
  DEF Inv, TypeOK, ManagerType, Jobs, Unfinished, Count, WaitEnds, At
<1>4. \A n \in Managers : Final(n) => Final(n)'
  BY ManagerAssumption
  DEF Inv, TypeOK, ManagerType, Jobs, Unfinished, Count, Final, WaitEnds, At
<1> QED BY <1>1, <1>2, <1>3, <1>4, Kept

LEMMA JoinInv ==
  ASSUME Inv, NEW m \in Managers, Join(m)
  PROVE  Inv'
<1>1. TypeOK'
  <2>1. mgr[m] \in ManagerType
    BY DEF Inv, TypeOK
  <2>2. [mgr[m] EXCEPT !.pc = "after"] \in ManagerType
    BY <2>1 DEF ManagerType
  <2> QED BY <2>2 DEF Inv, TypeOK, Join, Step
<1>2. Keeps
  BY DEF Inv, TypeOK, ManagerType, Keeps, Early, Join, Step, At, Unborn, Jobs
<1>3. Jobs'
  BY ManagerAssumption
  DEF Inv, TypeOK, ManagerType, Jobs, Unfinished, Count, Join, Step, At
<1>4. \A n \in Managers : Final(n) => Final(n)'
  BY ManagerAssumption
  DEF Inv, TypeOK, ManagerType, Jobs, Unfinished, Count, Final, Join, Step, At
<1> QED BY <1>1, <1>2, <1>3, <1>4, Kept

LEMMA AfterInv ==
  ASSUME Inv, NEW m \in Managers, After(m)
  PROVE  Inv'
<1>1. TypeOK'
  <2>1. mgr[m] \in ManagerType /\ At(m, "after")
    BY DEF Inv, TypeOK, After
  <2>2. mgr[m].iter \in Nat /\ mgr[m].iter < Count(m)
    BY <2>1 DEF ManagerType, Inv, Jobs, At
  <2>3. mgr[m].iter + 1 \in 0 .. Iterations + 1
    BY <2>2, ManagerAssumption DEF Count
  <2>4. \A l \in {"top", "backoff", "pause"} :
          [mgr[m] EXCEPT !.iter = @ + 1, !.pc = l] \in ManagerType
    BY <2>1, <2>3 DEF ManagerType
  <2>5. CASE mgr[m].iter + 1 >= Count(m) \/ mgr[m].stopped
    BY <2>4, <2>5 DEF Inv, TypeOK, After
  <2>6. CASE ~(mgr[m].iter + 1 >= Count(m) \/ mgr[m].stopped) /\ mgr[m].error
    BY <2>4, <2>6 DEF Inv, TypeOK, After
  <2>7. CASE ~(mgr[m].iter + 1 >= Count(m) \/ mgr[m].stopped) /\ ~mgr[m].error
    BY <2>4, <2>7 DEF Inv, TypeOK, After
  <2> QED BY <2>5, <2>6, <2>7
<1>2. Keeps
  BY DEF Inv, TypeOK, ManagerType, Keeps, Early, After, At, Unborn, Jobs
<1>3. Jobs'
  BY ManagerAssumption DEF Inv, TypeOK, ManagerType, Jobs, Unfinished, Count, After, At
<1>4. \A n \in Managers : Final(n) => Final(n)'
  BY ManagerAssumption
  DEF Inv, TypeOK, ManagerType, Jobs, Unfinished, Count, Final, After, At
<1> QED BY <1>1, <1>2, <1>3, <1>4, Kept

LEMMA BackoffInv ==
  ASSUME Inv, NEW m \in Managers, Backoff(m)
  PROVE  Inv'
<1>1. TypeOK'
  <2>1. mgr[m] \in ManagerType
    BY DEF Inv, TypeOK
  <2>2. [mgr[m] EXCEPT !.pc = IF mgr[m].stopped THEN "over" ELSE "pause", !.error = mgr[m].stopped]
          \in ManagerType
    BY <2>1 DEF ManagerType
  <2> QED BY <2>2 DEF Inv, TypeOK, Backoff
<1>2. Keeps
  BY DEF Inv, TypeOK, ManagerType, Keeps, Early, Backoff, At, Unborn, Jobs
<1>3. Jobs'
  BY ManagerAssumption
  DEF Inv, TypeOK, ManagerType, Jobs, Unfinished, Count, Backoff, At
<1>4. \A n \in Managers : Final(n) => Final(n)'
  BY ManagerAssumption
  DEF Inv, TypeOK, ManagerType, Jobs, Unfinished, Count, Final, Backoff, At
<1> QED BY <1>1, <1>2, <1>3, <1>4, Kept

LEMMA PauseInv ==
  ASSUME Inv, NEW m \in Managers, Pause(m)
  PROVE  Inv'
<1>1. TypeOK'
  <2>1. mgr[m] \in ManagerType
    BY DEF Inv, TypeOK
  <2>2. [mgr[m] EXCEPT !.pc = IF mgr[m].stopped THEN "over" ELSE "top"] \in ManagerType
    BY <2>1 DEF ManagerType
  <2> QED BY <2>2 DEF Inv, TypeOK, Pause, Step
<1>2. Keeps
  BY DEF Inv, TypeOK, ManagerType, Keeps, Early, Pause, Step, At, Unborn, Jobs
<1>3. Jobs'
  BY ManagerAssumption
  DEF Inv, TypeOK, ManagerType, Jobs, Unfinished, Count, Pause, Step, At
<1>4. \A n \in Managers : Final(n) => Final(n)'
  BY ManagerAssumption
  DEF Inv, TypeOK, ManagerType, Jobs, Unfinished, Count, Final, Pause, Step, At
<1> QED BY <1>1, <1>2, <1>3, <1>4, Kept

LEMMA LoopCancelledInv ==
  ASSUME Inv, NEW m \in Managers, LoopCancelled(m)
  PROVE  Inv'
<1>1. TypeOK'
  <2>1. mgr[m] \in ManagerType
    BY DEF Inv, TypeOK
  <2>2. [mgr[m] EXCEPT !.pc = "over"] \in ManagerType
    BY <2>1 DEF ManagerType
  <2> QED BY <2>2 DEF Inv, TypeOK, LoopCancelled, Step
<1>2. Keeps
  BY DEF Inv, TypeOK, ManagerType, Keeps, Early, LoopCancelled, Step, At, Unborn, Jobs
<1>3. Jobs'
  BY ManagerAssumption
  DEF Inv, TypeOK, ManagerType, Jobs, Unfinished, Count, LoopCancelled, Step, At
<1>4. \A n \in Managers : Final(n) => Final(n)'
  BY ManagerAssumption
  DEF Inv, TypeOK, ManagerType, Jobs, Unfinished, Count, Final, LoopCancelled, Step, At
<1> QED BY <1>1, <1>2, <1>3, <1>4, Kept

LEMMA EnterInv ==
  ASSUME Inv, NEW m \in Managers, Enter(m)
  PROVE  Inv'
<1>1. TypeOK'
  <2>1. mgr[m] \in ManagerType
    BY DEF Inv, TypeOK
  <2>2. [mgr[m] EXCEPT !.job = IF mgr[m].cancelled THEN "done" ELSE "entered",
                       !.late = IF mgr[m].cancelled THEN @ ELSE Late(m)]
          \in ManagerType
    <3>1. Late(m) \in Nat
      BY <2>1 DEF ManagerType, Late
    <3> QED BY <2>1, <3>1 DEF ManagerType
  <2> QED BY <2>2 DEF Inv, TypeOK, Enter
<1>2. Keeps
  BY DEF Inv, TypeOK, ManagerType, Keeps, Early, Enter, Job, At, Unborn, Jobs
<1>3. Jobs'
  BY ManagerAssumption
  DEF Inv, TypeOK, ManagerType, Jobs, Unfinished, Count, Enter, Job, At
<1>4. \A n \in Managers : Final(n) => Final(n)'
  BY ManagerAssumption
  DEF Inv, TypeOK, ManagerType, Jobs, Unfinished, Count, Final, Enter, Job, At
<1> QED BY <1>1, <1>2, <1>3, <1>4, Kept

LEMMA SetupFailsInv ==
  ASSUME Inv, NEW m \in Managers, SetupFails(m)
  PROVE  Inv'
<1>1. TypeOK'
  <2>1. mgr[m] \in ManagerType
    BY DEF Inv, TypeOK
  <2>2. [mgr[m] EXCEPT !.job = "done", !.error = TRUE, !.completed = TRUE, !.refused = TRUE]
          \in ManagerType
    BY <2>1 DEF ManagerType
  <2> QED BY <2>2 DEF Inv, TypeOK, SetupFails
<1>2. Keeps
  BY DEF Inv, TypeOK, ManagerType, Keeps, Early, SetupFails, Job, At, Unborn, Jobs
<1>3. Jobs'
  BY ManagerAssumption
  DEF Inv, TypeOK, ManagerType, Jobs, Unfinished, Count, SetupFails, Job, At
<1>4. \A n \in Managers : Final(n) => Final(n)'
  BY ManagerAssumption
  DEF Inv, TypeOK, ManagerType, Jobs, Unfinished, Count, Final, SetupFails, Job, At
<1> QED BY <1>1, <1>2, <1>3, <1>4, Kept

LEMMA SetupWorksInv ==
  ASSUME Inv, NEW m \in Managers, SetupWorks(m)
  PROVE  Inv'
<1>1. TypeOK'
  <2>1. mgr[m] \in ManagerType
    BY DEF Inv, TypeOK
  <2>2. [mgr[m] EXCEPT !.job = "live"] \in ManagerType
    BY <2>1 DEF ManagerType
  <2> QED BY <2>2 DEF Inv, TypeOK, SetupWorks
<1>2. Keeps
  BY DEF Inv, TypeOK, ManagerType, Keeps, Early, SetupWorks, Job, At, Unborn, Jobs
<1>3. Jobs'
  BY ManagerAssumption
  DEF Inv, TypeOK, ManagerType, Jobs, Unfinished, Count, SetupWorks, Job, At
<1>4. \A n \in Managers : Final(n) => Final(n)'
  BY ManagerAssumption
  DEF Inv, TypeOK, ManagerType, Jobs, Unfinished, Count, Final, SetupWorks, Job, At
<1> QED BY <1>1, <1>2, <1>3, <1>4, Kept

LEMMA OnErrorInv ==
  ASSUME Inv, NEW m \in Managers, OnError(m)
  PROVE  Inv'
<1>1. TypeOK'
  <2>1. mgr[m] \in ManagerType
    BY DEF Inv, TypeOK
  <2>2. [mgr[m] EXCEPT !.job = "failed", !.error = TRUE, !.completed = TRUE]
          \in ManagerType
    BY <2>1 DEF ManagerType
  <2> QED BY <2>2 DEF Inv, TypeOK, OnError
<1>2. Keeps
  BY DEF Inv, TypeOK, ManagerType, Keeps, Early, OnError, Job, At, Unborn, Jobs
<1>3. Jobs'
  BY ManagerAssumption
  DEF Inv, TypeOK, ManagerType, Jobs, Unfinished, Count, OnError, Job, At
<1>4. \A n \in Managers : Final(n) => Final(n)'
  BY ManagerAssumption
  DEF Inv, TypeOK, ManagerType, Jobs, Unfinished, Count, Final, OnError, Job, At
<1> QED BY <1>1, <1>2, <1>3, <1>4, Kept

LEMMA OnCompleteInv ==
  ASSUME Inv, NEW m \in Managers, OnComplete(m)
  PROVE  Inv'
<1>1. mgr[m] \in ManagerType /\ Unfinished(m) /\ mgr[m].iter < Count(m) /\ Count(m) \in Nat
  BY ManagerAssumption DEF Inv, TypeOK, Jobs, OnComplete, Job, Unfinished, Count
<1>2. mgr[m].pc \in {"waiting", "joining", "over"}
  BY <1>1 DEF OnComplete, Job, Inv, Jobs, Unborn, At, Unfinished, ManagerType
<1>3. ~Final(m)
  BY <1>1 DEF Final, ManagerType
<1>4. CASE mgr[m].iter # Count(m) - 1
  <2>1. mgr' = [mgr EXCEPT ![m].job = "done", ![m].completed = TRUE,
                           ![m].finalized = mgr[m].finalized] /\ UNCHANGED <<tab, main>>
    BY <1>4 DEF OnComplete
  <2>2. TypeOK'
    <3>1. [mgr[m] EXCEPT !.job = "done", !.completed = TRUE,
                         !.finalized = mgr[m].finalized] \in ManagerType
      BY <1>1 DEF ManagerType
    <3> QED BY <2>1, <3>1 DEF Inv, TypeOK
  <2>3. Keeps
    BY <1>2, <2>1 DEF Inv, TypeOK, ManagerType, Keeps, Early, At
  <2>4. Jobs'
    BY <1>2, <2>1, ManagerAssumption
    DEF Inv, TypeOK, ManagerType, Jobs, Unfinished, Count
  <2>5. \A n \in Managers : Final(n) => Final(n)'
    BY <1>3, <2>1, ManagerAssumption
    DEF Inv, TypeOK, ManagerType, Unfinished, Count, Final
  <2> QED BY <2>2, <2>3, <2>4, <2>5, Kept
<1>5. CASE mgr[m].iter = Count(m) - 1
  <2>1. /\ mgr' = [mgr EXCEPT ![m].job = "done", ![m].completed = TRUE,
                              ![m].finalized = mgr[m].finalized + 1]
        /\ main' = [main EXCEPT !.queue = Append(main.queue, m)] /\ UNCHANGED tab
    BY <1>5 DEF OnComplete, Post
  <2>2. /\ main.queue \in Seq(Managers) /\ main'.queue = Append(main.queue, m)
        /\ main'.stopping = main.stopping
    BY <2>1 DEF Inv, TypeOK
  <2>3. \A n \in Managers : Pending(n)' <=> Pending(n) \/ n = m
    BY <2>2, Appending DEF Pending
  <2>4. TypeOK'
    <3>1. [mgr[m] EXCEPT !.job = "done", !.completed = TRUE,
                         !.finalized = mgr[m].finalized + 1] \in ManagerType
      <4>1. mgr[m].finalized + 1 \in Nat
        BY <1>1 DEF ManagerType
      <4> QED BY <1>1, <4>1 DEF ManagerType
    <3>2. Append(main.queue, m) \in Seq(Managers)
      BY <2>2, Appending
    <3>3. mgr' \in [Managers -> ManagerType]
      BY <2>1, <3>1 DEF Inv, TypeOK
    <3>4. main' \in [stopping : Managers \cup {None}, step : {"native", "cancel"},
                     queue : Seq(Managers)]
      BY <2>1, <3>2 DEF Inv, TypeOK
    <3> QED BY <2>1, <3>3, <3>4 DEF Inv, TypeOK
  <2>5. Unborn'
    <3>1. \A n \in Managers : n # m => mgr'[n] = mgr[n]
      BY <2>1 DEF Inv, TypeOK
    <3>2. mgr'[m].pc # "unborn"
      BY <1>1, <1>2, <2>1 DEF Inv, TypeOK, ManagerType
    <3> QED BY <2>3, <3>1, <3>2 DEF Inv, Unborn, At
  <2>6. Jobs'
    <3>1. \A n \in Managers : n # m => mgr'[n] = mgr[n]
      BY <2>1 DEF Inv, TypeOK
    <3>2. /\ mgr'[m].pc = mgr[m].pc /\ mgr'[m].job = "done" /\ mgr'[m].iter = mgr[m].iter
          /\ mgr'[m].owner = mgr[m].owner
      BY <1>1, <2>1 DEF Inv, TypeOK, ManagerType
    <3> QED BY <1>1, <1>2, <3>1, <3>2 DEF Inv, Jobs, Unfinished, Count
  <2>7. Owners'
    BY Fields, <2>1 DEF Inv, TypeOK, ManagerType, Owners, At
  <2>8. Stops'
    BY Fields, <2>1, <2>2 DEF Inv, TypeOK, ManagerType, Stops, Owners, MainFree
  <2>9. Finalized'
    <3>1. \A n \in Managers : Final(n) => Final(n)'
      BY <1>3, <2>1, ManagerAssumption
      DEF Inv, TypeOK, ManagerType, Unfinished, Count, Final
    <3>2. Final(m)'
      BY <1>2, <1>5, <2>1, ManagerAssumption
      DEF Inv, TypeOK, ManagerType, Unfinished, Count, Final
    <3>3. \A n \in Managers : n # m => mgr'[n] = mgr[n]
      BY <2>1 DEF Inv, TypeOK
    <3>4. mgr'[m].finalized = mgr[m].finalized + 1 /\ mgr'[m].cancelled = mgr[m].cancelled
      BY <1>1, <2>1 DEF Inv, TypeOK, ManagerType
    <3>5. mgr[m].finalized = 0 \/ (mgr[m].finalized = 1 /\ mgr[m].cancelled)
      BY <1>3 DEF Inv, Finalized
    <3> SUFFICES ASSUME NEW n \in Managers
                 PROVE  /\ mgr'[n].finalized \in 0 .. 2
                        /\ mgr'[n].finalized = 1 => mgr'[n].cancelled \/ Final(n)'
                        /\ mgr'[n].finalized = 2 => mgr'[n].cancelled /\ Final(n)'
                        /\ Pending(n)' => mgr'[n].finalized # 0
      BY DEF Finalized
    <3>6. CASE n = m
      BY <3>2, <3>4, <3>5, <3>6
    <3>7. CASE n # m
      BY <2>3, <3>1, <3>3, <3>7 DEF Inv, Finalized
    <3> QED BY <3>6, <3>7
  <2>10. Buttons'
    <3> SUFFICES ASSUME NobodyStopped'
                 PROVE  /\ \A n \in Managers : Open(n)' => Holds(n)'
                        /\ (\A i, j \in 1 .. Len(main.queue) :
                              main.queue[i] = main.queue[j] => i = j)'
      BY DEF Buttons
    <3>1. NobodyStopped
      BY <2>1 DEF Inv, TypeOK, ManagerType, NobodyStopped
    <3>2. Open(m) /\ ~Pending(m)
      <4>1. mgr[m].finalized = 0
        BY <1>3, <3>1 DEF Inv, Finalized, Stops, NobodyStopped
      <4> QED BY <1>2, <4>1 DEF Inv, Finalized, Open, At
    <3>3. \A n \in Managers : Open(n)' => Open(n)
      <4>1. \A n \in Managers : n # m => mgr'[n] = mgr[n]
        BY <2>1 DEF Inv, TypeOK
      <4> QED BY <2>3, <3>2, <4>1 DEF Open, At
    <3>4. \A n \in Managers : Holds(n) => Holds(n)'
      BY <2>1 DEF Inv, TypeOK, ManagerType, Holds
    <3>5. (\A i, j \in 1 .. Len(main.queue) : main.queue[i] = main.queue[j] => i = j)'
      BY <2>2, <3>1, <3>2, Appending DEF Inv, Buttons, Pending
    <3> QED BY <3>1, <3>3, <3>4, <3>5 DEF Inv, Buttons
  <2>11. Fresh'
    BY <1>2, <2>1 DEF Inv, TypeOK, ManagerType, Fresh, Early
  <2> QED BY <2>4, <2>5, <2>6, <2>7, <2>8, <2>9, <2>10, <2>11 DEF Inv
<1> QED BY <1>4, <1>5

-----------------------------------------------------------------------------
(* The main thread *)

LEMMA ClickNewTestInv ==
  ASSUME Inv, NEW f \in Tabs, ClickNewTest(f)
  PROVE  Inv'
<1>1. tab' = [tab EXCEPT ![f].text = "START"] /\ UNCHANGED <<mgr, main>>
  BY DEF ClickNewTest
<1>2. tab[f] \in TabType
  BY DEF Inv, TypeOK
<1>3. [tab[f] EXCEPT !.text = "START"] \in TabType
  BY <1>2 DEF TabType
<1>4. TypeOK'
  BY <1>1, <1>3 DEF Inv, TypeOK
<1>5. Keeps
  BY <1>1 DEF Inv, TypeOK, TabType, Keeps, Early, At
<1>6. Jobs' /\ \A n \in Managers : Final(n) => Final(n)'
  BY <1>1 DEF Inv, Jobs, Final, Unfinished, Count
<1> QED BY <1>4, <1>5, <1>6, Kept

LEMMA ClickStartInv ==
  ASSUME Inv, NEW f \in Tabs, ClickStart(f)
  PROVE  Inv'
<1>1. PICK m \in Managers, h \in BOOLEAN :
        /\ At(m, "unborn") /\ tab[f].start /\ UNCHANGED main
        /\ mgr' = [mgr EXCEPT ![m].pc = "launched", ![m].owner = f, ![m].hybrid = h]
        /\ tab' = [tab EXCEPT ![f].start = FALSE, ![f].stop = TRUE, ![f].mgr = m]
  BY DEF ClickStart
<1>2. tab[f] \in TabType /\ mgr[m] \in ManagerType
  BY DEF Inv, TypeOK
<1>3. TypeOK'
  <2>1. [tab[f] EXCEPT !.start = FALSE, !.stop = TRUE, !.mgr = m] \in TabType
    BY <1>2 DEF TabType
  <2>2. [mgr[m] EXCEPT !.pc = "launched", !.owner = f, !.hybrid = h] \in ManagerType
    BY <1>2 DEF ManagerType
  <2> QED BY <1>1, <2>1, <2>2 DEF Inv, TypeOK
<1>4. /\ \A n \in Managers : n # m => mgr'[n] = mgr[n]
      /\ \A g \in Tabs : g # f => tab'[g] = tab[g]
  BY <1>1 DEF Inv, TypeOK
<1>5. /\ mgr'[m].pc = "launched" /\ mgr'[m].owner = f
      /\ mgr'[m].iter = mgr[m].iter /\ mgr'[m].job = mgr[m].job
      /\ mgr'[m].stopped = mgr[m].stopped /\ mgr'[m].cancelled = mgr[m].cancelled
      /\ mgr'[m].finalized = mgr[m].finalized
  BY <1>1, <1>2 DEF Inv, TypeOK, ManagerType
<1>6. ~tab'[f].start /\ tab'[f].stop /\ tab'[f].mgr = m
  BY <1>1, <1>2 DEF Inv, TypeOK, TabType
<1>7. /\ mgr[m].job = "none" /\ mgr[m].iter = 0 /\ mgr[m].finalized = 0
      /\ ~mgr[m].stopped /\ ~mgr[m].cancelled /\ ~Pending(m)
  BY <1>1 DEF Inv, Unborn
<1>8. \A n \in Managers : Pending(n)' <=> Pending(n)
  BY <1>1 DEF Pending
<1>9. Unborn'
  BY <1>4, <1>5, <1>8 DEF Inv, Unborn, At
<1>10. Jobs'
  BY <1>4, <1>5, <1>7 DEF Inv, Jobs, Unfinished, Count
<1>11. \A g \in Tabs : g # f /\ tab[g].mgr # None => tab[g].mgr \in Managers \ {m}
  BY <1>1, Fields DEF Inv, Owners
<1>12. Owners'
  <2>1. ASSUME NEW g \in Tabs, tab'[g].mgr # None
        PROVE  ~At(tab[g].mgr, "unborn")' /\ (mgr[tab[g].mgr].owner = g)'
    <3>1. CASE g = f
      BY <1>5, <1>6, <3>1 DEF At
    <3>2. CASE g # f
      BY <1>4, <1>11, <2>1, <3>2 DEF Inv, Owners, At
    <3> QED BY <3>1, <3>2
  <2>2. \A g \in Tabs : tab'[g].stop => tab'[g].mgr # None
    BY <1>4, <1>6, Fields DEF Inv, Owners
  <2>3. \A n \in Managers : ~At(n, "unborn")' => mgr'[n].owner \in Tabs
    BY <1>4, <1>5 DEF Inv, Owners, At
  <2> QED BY <2>1, <2>2, <2>3 DEF Owners
<1>13. Stops'
  <2>1. \A g \in Tabs : tab'[g].stop => ~mgr'[tab'[g].mgr].stopped
    BY <1>4, <1>5, <1>6, <1>7, <1>11 DEF Inv, Stops, Owners
  <2>2. \A n \in Managers : mgr'[n].cancelled => mgr'[n].stopped
    BY <1>4, <1>5, <1>7 DEF Inv, Stops
  <2>3. ~MainFree' => mgr'[main'.stopping].stopped /\ ~mgr'[main'.stopping].cancelled
    <3>1. main.stopping # None => main.stopping \in Managers \ {m}
      BY <1>7, Fields DEF Inv, Stops, MainFree
    <3> QED BY <1>1, <1>4, <3>1 DEF Inv, Stops, MainFree
  <2> QED BY <2>1, <2>2, <2>3 DEF Stops
<1>14. Finalized'
  BY <1>4, <1>5, <1>7, <1>8 DEF Inv, Finalized, Final, Unfinished, Count
<1>15. Buttons'
  <2>1. NobodyStopped' => NobodyStopped
    BY <1>4, <1>7 DEF NobodyStopped
  <2>2. NobodyStopped' => \A n \in Managers : Open(n)' => Holds(n)'
    <3> SUFFICES ASSUME NobodyStopped', NEW n \in Managers, Open(n)', n # m
                 PROVE  Holds(n)'
      BY <1>5, <1>6 DEF Holds
    <3>1. Open(n)
      BY <1>4, <1>8 DEF Open, At
    <3>2. Holds(n) /\ mgr[n].owner \in Tabs
      BY <2>1, <3>1 DEF Inv, Buttons, Owners, Open
    <3>3. mgr[n].owner # f
      BY <1>1, <3>2 DEF Holds
    <3> QED BY <1>4, <3>2, <3>3 DEF Holds
  <2> QED BY <1>1, <2>1, <2>2 DEF Inv, Buttons
<1>16. Fresh'
  BY <1>4, <1>5, <1>7 DEF Inv, Fresh
<1> QED BY <1>3, <1>9, <1>10, <1>12, <1>13, <1>14, <1>15, <1>16 DEF Inv

LEMMA ClickStopInv ==
  ASSUME Inv, NEW f \in Tabs, ClickStop(f)
  PROVE  Inv'
<1>1. PICK m \in Managers :
        /\ m = tab[f].mgr /\ mgr[m].owner = f /\ ~At(m, "unborn")
        /\ ~mgr[m].stopped /\ ~mgr[m].cancelled /\ MainFree
  BY Fields DEF Inv, Owners, Stops, ClickStop
<1>2. /\ tab[f].mgr = m /\ tab' = [tab EXCEPT ![f].stop = FALSE]
      /\ mgr' = [mgr EXCEPT ![m].stopped = TRUE, ![m].reset = TRUE]
      /\ main' = [main EXCEPT !.stopping = m, !.step = "native"]
  BY <1>1 DEF ClickStop
<1>3. tab[f] \in TabType /\ mgr[m] \in ManagerType
  BY <1>1 DEF Inv, TypeOK
<1>4. TypeOK'
  <2>1. [tab[f] EXCEPT !.stop = FALSE] \in TabType
    BY <1>3 DEF TabType
  <2>2. [mgr[m] EXCEPT !.stopped = TRUE, !.reset = TRUE] \in ManagerType
    BY <1>3 DEF ManagerType
  <2>3. main' \in [stopping : Managers \cup {None}, step : {"native", "cancel"},
                   queue : Seq(Managers)]
    BY <1>1, <1>2 DEF Inv, TypeOK
  <2> QED BY <1>2, <2>1, <2>2, <2>3 DEF Inv, TypeOK
<1>5. /\ \A n \in Managers : n # m => mgr'[n] = mgr[n]
      /\ \A g \in Tabs : g # f => tab'[g] = tab[g]
  BY <1>2 DEF Inv, TypeOK
<1>6. /\ mgr'[m].pc = mgr[m].pc /\ mgr'[m].owner = mgr[m].owner
      /\ mgr'[m].iter = mgr[m].iter /\ mgr'[m].job = mgr[m].job
      /\ mgr'[m].stopped /\ mgr'[m].cancelled = mgr[m].cancelled
      /\ mgr'[m].finalized = mgr[m].finalized
  BY <1>1, <1>2, <1>3 DEF Inv, TypeOK, ManagerType
<1>7. ~tab'[f].stop /\ tab'[f].mgr = m
  BY <1>2, <1>3 DEF Inv, TypeOK, TabType
<1>8. main'.stopping = m /\ main'.queue = main.queue
  BY <1>2 DEF Inv, TypeOK
<1>9. \A n \in Managers : Pending(n)' <=> Pending(n)
  BY <1>8 DEF Pending
<1>10. Unborn'
  BY <1>1, <1>5, <1>6, <1>9 DEF Inv, Unborn, At
<1>11. Jobs'
  BY <1>5, <1>6 DEF Inv, Jobs, Unfinished, Count
<1>12. Owners'
  BY <1>1, <1>5, <1>6, <1>7, Fields DEF Inv, Owners, At
<1>13. Stops'
  BY <1>1, <1>5, <1>6, <1>7, <1>8, Fields DEF Inv, Stops, Owners, MainFree
<1>14. Finalized'
  BY <1>5, <1>6, <1>9 DEF Inv, Finalized, Final, Unfinished, Count
<1>15. Buttons'
  BY <1>1, <1>6 DEF Buttons, NobodyStopped
<1>16. Fresh'
  BY <1>5, <1>6 DEF Inv, Fresh
<1> QED BY <1>4, <1>10, <1>11, <1>12, <1>13, <1>14, <1>15, <1>16 DEF Inv

LEMMA StopNativeInv ==
  ASSUME Inv, StopNative
  PROVE  Inv'
<1>1. main' = [main EXCEPT !.step = "cancel"] /\ UNCHANGED <<tab, mgr>>
  BY DEF StopNative
<1>2. TypeOK' /\ Keeps
  BY <1>1 DEF Inv, TypeOK, Keeps, At
<1>3. Jobs' /\ \A n \in Managers : Final(n) => Final(n)'
  BY <1>1 DEF Inv, Jobs, Final, Unfinished, Count
<1> QED BY <1>2, <1>3, Kept

LEMMA StopCancelsInv ==
  ASSUME Inv, StopCancels
  PROVE  Inv'
<1>1. PICK m \in Managers :
        m = main.stopping /\ mgr[m].stopped /\ ~mgr[m].cancelled
  BY Fields DEF Inv, Stops, StopCancels, MainFree
<1>2. /\ mgr' = [mgr EXCEPT ![m].cancelled = TRUE, ![m].finalized = mgr[m].finalized + 1]
      /\ main' = [main EXCEPT !.stopping = None, !.queue = Append(main.queue, m)]
      /\ UNCHANGED tab
  BY <1>1 DEF StopCancels
<1>3. mgr[m] \in ManagerType /\ main.queue \in Seq(Managers)
  BY <1>1 DEF Inv, TypeOK
<1>4. mgr[m].finalized + 1 \in Nat /\ Append(main.queue, m) \in Seq(Managers)
  BY <1>1, <1>3 DEF ManagerType
<1>5. TypeOK'
  <2>1. [mgr[m] EXCEPT !.cancelled = TRUE, !.finalized = mgr[m].finalized + 1]
          \in ManagerType
    BY <1>3, <1>4 DEF ManagerType
  <2>2. mgr' \in [Managers -> ManagerType]
    BY <1>2, <2>1 DEF Inv, TypeOK
  <2>3. main' \in [stopping : Managers \cup {None}, step : {"native", "cancel"},
                   queue : Seq(Managers)]
    BY <1>2, <1>4 DEF Inv, TypeOK
  <2> QED BY <1>2, <2>2, <2>3 DEF Inv, TypeOK
<1>6. \A n \in Managers : n # m => mgr'[n] = mgr[n]
  BY <1>2 DEF Inv, TypeOK
<1>7. /\ mgr'[m].pc = mgr[m].pc /\ mgr'[m].owner = mgr[m].owner
      /\ mgr'[m].iter = mgr[m].iter /\ mgr'[m].job = mgr[m].job
      /\ mgr'[m].stopped /\ mgr'[m].cancelled
      /\ mgr'[m].finalized = mgr[m].finalized + 1
  BY <1>1, <1>2, <1>3 DEF Inv, TypeOK, ManagerType
<1>8. main'.stopping = None /\ main'.queue = Append(main.queue, m)
  BY <1>2 DEF Inv, TypeOK
<1>9. \A n \in Managers : Pending(n)' <=> Pending(n) \/ n = m
  BY <1>1, <1>3, <1>8, Appending DEF Pending
<1>10. Unborn'
  BY <1>1, <1>6, <1>7, <1>9 DEF Inv, Unborn, At
<1>11. Jobs'
  BY <1>6, <1>7 DEF Inv, Jobs, Unfinished, Count
<1>12. Owners'
  <2>1. \A n \in Managers : mgr'[n].pc = mgr[n].pc /\ mgr'[n].owner = mgr[n].owner
    BY <1>6, <1>7
  <2>2. tab' = tab
    BY <1>2
  <2>3. \A f \in Tabs : tab[f].mgr # None => tab[f].mgr \in Managers
    BY Fields DEF Inv
  <2> QED BY <2>1, <2>2, <2>3 DEF Inv, Owners, At
<1>13. Stops'
  <2>1. \A n \in Managers : /\ mgr'[n].stopped => mgr[n].stopped
                            /\ mgr'[n].cancelled => mgr'[n].stopped
    BY <1>1, <1>6, <1>7 DEF Inv, Stops
  <2>2. tab' = tab
    BY <1>2
  <2>3. \A f \in Tabs : tab[f].stop => tab[f].mgr \in Managers
    BY Fields DEF Inv, Owners
  <2>4. \A f \in Tabs : tab'[f].stop => ~mgr'[tab'[f].mgr].stopped
    <3>1. \A f \in Tabs : tab[f].stop => ~mgr[tab[f].mgr].stopped
      BY DEF Inv, Stops
    <3> QED BY <2>1, <2>2, <2>3, <3>1
  <2> QED BY <1>8, <2>1, <2>4 DEF Stops, MainFree
<1>14. Finalized'
  <2>1. mgr[m].finalized = 0 \/ (mgr[m].finalized = 1 /\ Final(m))
    BY <1>1 DEF Inv, Finalized
  <2>2. Final(m)' <=> Final(m)
    BY <1>7 DEF Final, Unfinished, Count
  <2> SUFFICES ASSUME NEW n \in Managers
               PROVE  /\ mgr'[n].finalized \in 0 .. 2
                      /\ mgr'[n].finalized = 1 => mgr'[n].cancelled \/ Final(n)'
                      /\ mgr'[n].finalized = 2 => mgr'[n].cancelled /\ Final(n)'
                      /\ Pending(n)' => mgr'[n].finalized # 0
    BY DEF Finalized
  <2>3. CASE n = m
    BY <1>7, <2>1, <2>2, <2>3
  <2>4. CASE n # m
    BY <1>6, <1>9, <2>4 DEF Inv, Finalized, Final, Unfinished, Count
  <2> QED BY <2>3, <2>4
<1>15. Buttons'
  BY <1>1, <1>7 DEF Buttons, NobodyStopped
<1>16. Fresh'
  BY <1>6, <1>7 DEF Inv, Fresh
<1> QED BY <1>5, <1>10, <1>11, <1>12, <1>13, <1>14, <1>15, <1>16 DEF Inv

LEMMA FinalizeInv ==
  ASSUME Inv, Finalize
  PROVE  Inv'
<1>1. PICK m \in Managers, f \in Tabs :
        /\ m = Head(main.queue) /\ f = mgr[m].owner
        /\ main.queue # <<>> /\ Pending(m) /\ ~At(m, "unborn")
  <2>1. main.queue # <<>> /\ Head(main.queue) \in Managers /\ Pending(Head(main.queue))
    <3>1. main.queue \in Seq(Managers) /\ main.queue # <<>>
      BY Fields DEF Inv, Finalize
    <3>2. 1 \in 1 .. Len(main.queue)
      BY <3>1, Taking
    <3> QED BY <3>1, <3>2, Taking DEF Pending
  <2> QED BY <2>1 DEF Inv, Unborn, Owners
<1>2. /\ tab' = [tab EXCEPT ![f].text = IF mgr[m].reset THEN "START" ELSE "New Test",
                            ![f].start = TRUE, ![f].stop = FALSE, ![f].timer = None]
      /\ mgr' = [mgr EXCEPT ![m].reset = FALSE]
      /\ main' = [main EXCEPT !.queue = Tail(main.queue)]
  BY <1>1 DEF Finalize
<1>3. tab[f] \in TabType /\ mgr[m] \in ManagerType /\ main.queue \in Seq(Managers)
  BY DEF Inv, TypeOK
<1>4. TypeOK'
  <2>1. \A t \in {"START", "New Test"} :
          [tab[f] EXCEPT !.text = t, !.start = TRUE, !.stop = FALSE, !.timer = None]
            \in TabType
    BY <1>3 DEF TabType
  <2>2. [mgr[m] EXCEPT !.reset = FALSE] \in ManagerType
    BY <1>3 DEF ManagerType
  <2>3. tab' \in [Tabs -> TabType]
    <3>1. CASE mgr[m].reset
      BY <1>2, <2>1, <3>1 DEF Inv, TypeOK
    <3>2. CASE ~mgr[m].reset
      BY <1>2, <2>1, <3>2 DEF Inv, TypeOK
    <3> QED BY <3>1, <3>2
  <2>4. mgr' \in [Managers -> ManagerType]
    BY <1>2, <2>2 DEF Inv, TypeOK
  <2>5. main' \in [stopping : Managers \cup {None}, step : {"native", "cancel"},
                   queue : Seq(Managers)]
    BY <1>1, <1>2, <1>3, Taking DEF Inv, TypeOK
  <2> QED BY <2>3, <2>4, <2>5 DEF TypeOK
<1>5. \A n \in Managers :
        /\ mgr'[n].pc = mgr[n].pc /\ mgr'[n].owner = mgr[n].owner
        /\ mgr'[n].iter = mgr[n].iter /\ mgr'[n].job = mgr[n].job
        /\ mgr'[n].stopped = mgr[n].stopped /\ mgr'[n].cancelled = mgr[n].cancelled
        /\ mgr'[n].finalized = mgr[n].finalized
  BY ZenonT(40), <1>2 DEF Inv, TypeOK, ManagerType
<1>6. /\ \A g \in Tabs : g # f => tab'[g] = tab[g]
      /\ tab'[f].mgr = tab[f].mgr /\ ~tab'[f].stop
  BY <1>2, <1>3 DEF Inv, TypeOK, TabType
<1>7. main'.stopping = main.stopping /\ main'.queue = Tail(main.queue)
  BY <1>2 DEF Inv, TypeOK
<1>8. \A n \in Managers : Pending(n)' => Pending(n)
  BY <1>1, <1>3, <1>7, Taking DEF Pending
<1>9. Unborn'
  BY <1>5, <1>8 DEF Inv, Unborn, At
<1>10. Jobs'
  BY <1>5 DEF Inv, Jobs, Unfinished, Count
<1>11. \A g \in Tabs : tab'[g].mgr = tab[g].mgr /\ (tab'[g].stop => tab[g].stop)
  BY <1>6
<1>12. Owners'
  BY <1>5, <1>11, Fields DEF Inv, Owners, At
<1>13. Stops'
  BY <1>5, <1>7, <1>11, Fields DEF Inv, Stops, Owners, MainFree
<1>14. Finalized'
  <2>1. \A n \in Managers : Final(n)' <=> Final(n)
    BY <1>5 DEF Final, Unfinished, Count
  <2> QED BY <1>5, <1>8, <2>1 DEF Inv, Finalized
<1>15. Buttons'
  <2> SUFFICES ASSUME NobodyStopped'
               PROVE  /\ \A n \in Managers : Open(n)' => Holds(n)'
                      /\ (\A i, j \in 1 .. Len(main.queue) :
                            main.queue[i] = main.queue[j] => i = j)'
    BY DEF Buttons
  <2>1. NobodyStopped
    BY <1>5 DEF NobodyStopped
  <2>2. \A i, j \in 1 .. Len(main.queue) : main.queue[i] = main.queue[j] => i = j
    BY <2>1 DEF Inv, Buttons
  <2>3. (\A i, j \in 1 .. Len(main.queue) : main.queue[i] = main.queue[j] => i = j)'
    <3> SUFFICES ASSUME NEW i \in 1 .. Len(main'.queue), NEW j \in 1 .. Len(main'.queue),
                        main'.queue[i] = main'.queue[j]
                 PROVE  i = j
      OBVIOUS
    <3>1. i \in 1 .. Len(main.queue) - 1 /\ j \in 1 .. Len(main.queue) - 1
      BY <1>1, <1>3, <1>7, Taking
    <3>2. main.queue[i + 1] = main.queue[j + 1]
      BY <1>1, <1>3, <1>7, <3>1, Taking
    <3>3. i + 1 \in 1 .. Len(main.queue) /\ j + 1 \in 1 .. Len(main.queue)
      BY <1>1, <1>3, <3>1, Taking
    <3>4. i + 1 = j + 1
      BY <2>2, <3>2, <3>3
    <3> QED BY <3>1, <3>4
  <2>4. ~Pending(m)' /\ mgr[m].finalized # 0
    BY <1>1, <1>3, <1>7, <2>2, Taking DEF Pending, Inv, Finalized
  <2>5. ASSUME NEW n \in Managers, Open(n)'
        PROVE  Holds(n)'
    <3>1. n # m
      BY <1>5, <2>4, <2>5 DEF Open
    <3>2. Open(n)
      BY <1>5, <1>8, <2>5 DEF Open, At
    <3>3. Holds(n) /\ Holds(m) /\ mgr[n].owner \in Tabs
      BY <1>1, <2>1, <3>2 DEF Inv, Buttons, Open, Owners
    <3>4. mgr[n].owner # f
      BY <1>1, <3>1, <3>3 DEF Holds
    <3> QED BY <1>5, <1>6, <3>3, <3>4 DEF Holds
  <2> QED BY <2>3, <2>5
<1>16. Fresh'
  BY <1>5 DEF Inv, Fresh
<1> QED BY <1>4, <1>9, <1>10, <1>12, <1>13, <1>14, <1>15, <1>16 DEF Inv

-----------------------------------------------------------------------------
(* The theorems *)

LEMMA InitInv == Init => Inv
<1> SUFFICES ASSUME Init
             PROVE  Inv
  OBVIOUS
<1>1. TypeOK
  BY ManagerAssumption DEF Init, TypeOK, TabType, ManagerType
<1>2. /\ \A m \in Managers : /\ mgr[m].pc = "unborn" /\ mgr[m].job = "none"
                             /\ mgr[m].iter = 0 /\ mgr[m].finalized = 0
                             /\ ~mgr[m].stopped /\ ~mgr[m].cancelled
      /\ \A f \in Tabs : tab[f].mgr = None /\ ~tab[f].stop
      /\ main.stopping = None /\ main.queue = <<>>
  BY DEF Init
<1>3. \A m \in Managers : ~Pending(m)
  BY <1>2 DEF Pending
<1>4. Unborn /\ Jobs /\ Fresh /\ Owners /\ Stops
  BY <1>2, <1>3 DEF Unborn, Jobs, Fresh, Early, Owners, Stops, At, Unfinished, MainFree
<1>5. Finalized /\ Buttons
  BY <1>2, <1>3 DEF Finalized, Buttons, Open, At
<1> QED BY <1>1, <1>4, <1>5 DEF Inv

LEMMA NextInv == Inv /\ [Next]_vars => Inv'
<1> SUFFICES ASSUME Inv, [Next]_vars
             PROVE  Inv'
  OBVIOUS
<1>1. ASSUME NEW f \in Tabs, Click(f)
      PROVE  Inv'
  BY <1>1, ClickNewTestInv, ClickStartInv, ClickStopInv DEF Click
<1>2. CASE MainStep
  BY <1>2, StopNativeInv, StopCancelsInv, FinalizeInv DEF MainStep
<1>3. ASSUME NEW m \in Managers, Loop(m)
      PROVE  Inv'
  BY <1>3, BeginInv, StartTimerInv, EstimateInv, TopInv, LaunchInv, WaitEndsInv, JoinInv,
     AfterInv, BackoffInv, PauseInv, LoopCancelledInv DEF Loop
<1>4. ASSUME NEW m \in Managers, JobGoesOn(m) \/ CallEnds(m)
      PROVE  Inv'
  BY <1>4, EnterInv, SetupFailsInv, SetupWorksInv, OnErrorInv, OnCompleteInv,
     EstimateReturnsInv DEF JobGoesOn, CallEnds
<1>5. CASE UNCHANGED vars
  BY <1>5
  DEF vars, Inv, TypeOK, Unborn, Jobs, Fresh, Owners, Stops, Finalized, Buttons, Pending,
     Final, Open, Holds, NobodyStopped, At, Unfinished, Count, MainFree
<1> QED BY <1>1, <1>2, <1>3, <1>4, <1>5 DEF Next

\* Inv holds of every reachable state.
THEOREM AlwaysInv == Spec => []Inv
<1> QED BY InitInv, NextInv, PTL DEF Spec

\* The tabs, the tests and the main thread keep their types: the iteration count too,
\* which nothing but the test at the head of the loop bounds.
THEOREM TypesCorrect == Spec => []TypeOK
<1>1. Inv => TypeOK
  BY DEF Inv
<1> QED BY <1>1, AlwaysInv, PTL

\* A test has one call of runIperfLive at a time, for any number of iterations, stops
\* and expired waits.
THEOREM OneJob == Spec => []OneJobPerManager
<1>1. Inv => OneJobPerManager
  BY DEF Inv, Jobs, OneJobPerManager
<1> QED BY <1>1, AlwaysInv, PTL

\* A test is finalized once, and twice at most if it is stopped.
THEOREM FinalizedAtMostTwice == Spec => []FinalizedOnce
<1>1. Inv => FinalizedOnce
  BY DEF Inv, Finalized, Stops, FinalizedOnce
<1> QED BY <1>1, AlwaysInv, PTL

\* Without a stop, a test inside runIperfLive holds the buttons of its tab.
LEMMA UnfinishedHolds ==
  ASSUME Inv, NobodyStopped, NEW m \in Managers, Unfinished(m)
  PROVE  Holds(m) /\ mgr[m].owner \in Tabs
<1>1. mgr[m] \in ManagerType /\ ~At(m, "unborn")
  BY DEF Inv, TypeOK, Unborn, Unfinished
<1>2. mgr[m].job = "estimating" => mgr[m].finalized = 0
  BY DEF Inv, Jobs, Fresh, Early, NobodyStopped
<1>3. mgr[m].job # "estimating" => ~Final(m)
  BY <1>1, ManagerAssumption DEF Inv, Jobs, Final, Count, ManagerType
<1>4. mgr[m].finalized = 0
  BY <1>2, <1>3 DEF Inv, Finalized, Stops, NobodyStopped
<1> QED BY <1>1, <1>4 DEF Inv, Buttons, Open, Owners

\* The native calls of a tab never overlap while nobody stops a test, for any number
\* of tabs, tests and iterations.
THEOREM NoOverlap == Spec => []CallsDoNotOverlap
<1>1. Inv => CallsDoNotOverlap
  BY UnfinishedHolds DEF CallsDoNotOverlap, Holds
<1> QED BY <1>1, AlwaysInv, PTL

\* The Stop button of its tab reaches every native call that nobody stopped.
THEOREM StopReachesTheCall == Spec => []RunningTestCanBeStopped
<1>1. Inv => RunningTestCanBeStopped
  BY UnfinishedHolds DEF RunningTestCanBeStopped, Holds, InNative, Unfinished
<1> QED BY <1>1, AlwaysInv, PTL

\* A call that began after the stop of its test was the next thing the loop did: it is
\* under way or over, and the loop finds the flag before it launches another.
Lates ==
  \A m \in Managers :
    /\ mgr[m].late \in {0, 1}
    /\ mgr[m].late = 1 =>
         /\ mgr[m].stopped /\ mgr[m].job # "launched"
         /\ mgr[m].pc \in {"estimate", "top", "waiting", "joining", "after", "over"}
         /\ mgr[m].pc = "estimate" => mgr[m].job = "estimating"

\* A step that begins no call.
LEMMA LatesKept ==
  ASSUME Lates,
         \A m \in Managers :
           /\ mgr'[m].late = mgr[m].late
           /\ mgr[m].stopped => mgr'[m].stopped
           /\ \/ mgr'[m].job = mgr[m].job /\ mgr'[m].pc = mgr[m].pc
              \/ /\ mgr[m].stopped =>
                      mgr'[m].pc \in {"top", "waiting", "joining", "after", "over"}
                 /\ mgr'[m].job # "launched"
              \/ mgr[m].pc \in {"unborn", "launched", "begun", "preparing", "backoff", "pause"}
  PROVE  Lates'
  BY DEF Lates

LEMMA LoopLate ==
  ASSUME Inv, Lates, NEW m \in Managers, Loop(m)
  PROVE  Lates'
<1>0. mgr \in [Managers -> ManagerType] /\ mgr[m] \in ManagerType
  BY DEF Inv, TypeOK
<1>1. CASE Begin(m) \/ Pause(m) \/ LoopCancelled(m) \/ Join(m) \/ Top(m)
  BY <1>0, <1>1, LatesKept
  DEF Begin, Pause, LoopCancelled, Join, Top, Step, At, ManagerType, Inv, Jobs, Unfinished, Lates
<1>2. CASE StartTimer(m)
  BY <1>0, <1>2, LatesKept DEF StartTimer, At, ManagerType
<1>3. CASE Estimate(m)
  BY <1>0, <1>3 DEF Estimate, Late, At, Job, ManagerType, Lates
<1>4. CASE Launch(m)
  BY <1>0, <1>4, LatesKept DEF Launch, At, ManagerType
<1>5. CASE WaitEnds(m)
  BY <1>0, <1>5, LatesKept DEF WaitEnds, At, ManagerType
<1>6. CASE After(m)
  BY <1>0, <1>6, LatesKept DEF After, At, ManagerType, Inv, Jobs, Unfinished
<1>7. CASE Backoff(m)
  BY <1>0, <1>7, LatesKept DEF Backoff, At, ManagerType
<1> QED BY <1>1, <1>2, <1>3, <1>4, <1>5, <1>6, <1>7 DEF Loop

LEMMA JobLate ==
  ASSUME Inv, Lates, NEW m \in Managers, JobGoesOn(m) \/ CallEnds(m)
  PROVE  Lates'
<1>0. mgr \in [Managers -> ManagerType] /\ mgr[m] \in ManagerType
  BY DEF Inv, TypeOK
<1>1. CASE Enter(m)
  <2>1. mgr[m].pc \in {"waiting", "joining", "over"}
    BY <1>0, <1>1 DEF Enter, Job, ManagerType, Inv, Jobs, Unborn, At, Unfinished
  <2> QED BY <1>0, <1>1, <2>1 DEF Enter, Job, Late, ManagerType, Lates
<1>2. CASE EstimateReturns(m)
  BY <1>0, <1>2, LatesKept DEF EstimateReturns, Job, ManagerType
<1>3. CASE SetupFails(m) \/ SetupWorks(m) \/ OnError(m) \/ OnComplete(m)
  <2>1. mgr[m].pc \in {"waiting", "joining", "over"}
    BY <1>0, <1>3
    DEF SetupFails, SetupWorks, OnError, OnComplete, Job, ManagerType, Inv, Jobs, Unborn,
        At, Unfinished
  <2> QED BY <1>0, <1>3, <2>1, LatesKept
          DEF SetupFails, SetupWorks, OnError, OnComplete, ManagerType
<1> QED BY <1>1, <1>2, <1>3 DEF JobGoesOn, CallEnds

LEMMA UserLate ==
  ASSUME Inv, Lates, MainStep \/ \E f \in Tabs : Click(f)
  PROVE  Lates'
<1>0. mgr \in [Managers -> ManagerType]
  BY DEF Inv, TypeOK
<1>1. CASE StopNative \/ \E f \in Tabs : ClickNewTest(f)
  BY <1>1, LatesKept DEF StopNative, ClickNewTest
<1>2. ASSUME NEW f \in Tabs, ClickStart(f)
      PROVE  Lates'
  BY <1>0, <1>2, LatesKept DEF ClickStart, At, ManagerType
<1>3. ASSUME NEW f \in Tabs, ClickStop(f)
      PROVE  Lates'
  <2>1. tab[f].mgr \in Managers
    BY <1>3, Fields DEF ClickStop, Inv, Owners
  <2> QED BY <1>0, <1>3, <2>1, LatesKept DEF ClickStop, ManagerType
<1>4. CASE StopCancels
  <2>1. main.stopping \in Managers
    BY <1>4, Fields DEF StopCancels, MainFree, Inv
  <2> QED BY <1>0, <1>4, <2>1, LatesKept DEF StopCancels, ManagerType
<1>5. CASE Finalize
  <2>1. PICK m \in Managers : mgr' = [mgr EXCEPT ![m].reset = FALSE]
    BY <1>5, Fields, Taking DEF Finalize, Inv
  <2>2. \A n \in Managers :
          /\ mgr'[n].late = mgr[n].late /\ mgr'[n].stopped = mgr[n].stopped
          /\ mgr'[n].job = mgr[n].job /\ mgr'[n].pc = mgr[n].pc
    BY ZenonT(40), <1>0, <2>1 DEF ManagerType
  <2> QED BY <2>2, LatesKept
<1> QED BY <1>1, <1>2, <1>3, <1>4, <1>5 DEF MainStep, Click

\* A stop lets at most one native call of its test begin, wherever it comes between the
\* steps of the coroutine and the job, for any number of tabs, tests and iterations.
THEOREM OneLateCall == Spec => []AtMostOneLateCall
<1>1. Init => Inv /\ Lates
  BY InitInv DEF Init, Lates
<1>2. Inv /\ Lates /\ [Next]_vars => (Inv /\ Lates)'
  <2>1. Lates /\ UNCHANGED vars => Lates'
    BY DEF vars, Lates
  <2> QED BY <2>1, NextInv, LoopLate, JobLate, UserLate DEF Next
<1>3. Lates => AtMostOneLateCall
  BY DEF Lates, AtMostOneLateCall
<1> QED BY <1>1, <1>2, <1>3, PTL DEF Spec

-----------------------------------------------------------------------------
(* The timer *)

\* The test whose timer runs in a tab is a test of the tab, and once its finalizations
\* have run, it started its timer after its stop.
Timers ==
  \A f \in Tabs, m \in Managers : tab[f].timer = m =>
    /\ mgr[m].owner = f /\ ~At(m, "unborn")
    /\ mgr[m].finalized > 0 /\ ~Pending(m) => mgr[m].lateTimer

\* A step that starts no timer and runs no finalization, though it may post one.
LEMMA TimersKept ==
  ASSUME Timers,
         \A f \in Tabs : tab'[f].timer = tab[f].timer,
         \A m \in Managers : ~At(m, "unborn") =>
           /\ mgr'[m].owner = mgr[m].owner /\ ~At(m, "unborn")'
           /\ mgr'[m].lateTimer = mgr[m].lateTimer
           /\ mgr'[m].finalized = mgr[m].finalized \/ Pending(m)'
           /\ Pending(m) => Pending(m)'
  PROVE  Timers'
  BY DEF Timers

LEMMA LoopTimer ==
  ASSUME Inv, Timers, NEW m \in Managers, Loop(m)
  PROVE  Timers'
<1>0. /\ mgr \in [Managers -> ManagerType] /\ mgr[m] \in ManagerType
      /\ tab \in [Tabs -> TabType]
  BY DEF Inv, TypeOK
<1>1. CASE StartTimer(m)
  <2>1. /\ mgr[m].owner \in Tabs /\ mgr[m].pc = "begun"
        /\ ~mgr[m].stopped => mgr[m].finalized = 0
    BY <1>1 DEF Inv, Owners, Fresh, Early, StartTimer, At
  <2>2. /\ \A n \in Managers : n # m => mgr'[n] = mgr[n]
        /\ mgr'[m].pc # "unborn" /\ mgr'[m].owner = mgr[m].owner
        /\ mgr'[m].finalized = mgr[m].finalized /\ mgr'[m].lateTimer = mgr[m].stopped
        /\ main' = main
    BY <1>0, <1>1 DEF StartTimer, ManagerType
  <2>3. PICK o \in Tabs : o = mgr[m].owner /\ tab' = [tab EXCEPT ![o].timer = m]
    BY <1>1, <2>1 DEF StartTimer
  <2>4. tab'[o].timer = m /\ \A f \in Tabs : f # o => tab'[f] = tab[f]
    BY <1>0, <2>3 DEF TabType
  <2>5. mgr[m].finalized \in Nat
    BY <1>0 DEF ManagerType
  <2> SUFFICES ASSUME NEW f \in Tabs, NEW n \in Managers, tab'[f].timer = n
               PROVE  /\ mgr'[n].owner = f /\ ~At(n, "unborn")'
                      /\ mgr'[n].finalized > 0 /\ ~Pending(n)' => mgr'[n].lateTimer
    BY DEF Timers
  <2>6. CASE f = o
    <3>1. n = m
      BY <2>4, <2>6
    <3> QED BY <2>1, <2>2, <2>3, <2>5, <2>6, <3>1 DEF At
  <2>7. CASE f # o
    <3>1. tab[f].timer = n /\ mgr[n].owner = f /\ n # m
      BY <2>3, <2>4, <2>7 DEF Timers
    <3> QED BY <2>2, <3>1 DEF Timers, Pending, At
  <2> QED BY <2>6, <2>7
<1>2. CASE ~StartTimer(m)
  <2>1. UNCHANGED <<tab, main>>
    BY <1>2 DEF Loop, Begin, Estimate, Top, Launch, WaitEnds, Join, After, Backoff, Pause,
                LoopCancelled, Step
  <2>2. \A n \in Managers : ~At(n, "unborn") =>
          /\ mgr'[n].owner = mgr[n].owner /\ ~At(n, "unborn")'
          /\ mgr'[n].lateTimer = mgr[n].lateTimer /\ mgr'[n].finalized = mgr[n].finalized
    BY <1>0, <1>2 DEF Loop, Begin, Estimate, Top, Launch, WaitEnds, Join, After, Backoff,
                      Pause, LoopCancelled, Step, At, ManagerType
  <2> QED BY <2>1, <2>2, TimersKept DEF Pending
<1> QED BY <1>1, <1>2

LEMMA JobTimer ==
  ASSUME Inv, Timers, NEW m \in Managers, JobGoesOn(m) \/ CallEnds(m)
  PROVE  Timers'
<1>0. mgr \in [Managers -> ManagerType] /\ mgr[m] \in ManagerType
      /\ main.queue \in Seq(Managers)
  BY DEF Inv, TypeOK
<1>1. CASE Enter(m)
  <2>1. PICK j, l : mgr' = [mgr EXCEPT ![m].job = j, ![m].late = l]
    BY <1>1 DEF Enter
  <2>2. UNCHANGED <<tab, main>>
    BY <1>1 DEF Enter
  <2>3. \A n \in Managers :
          /\ mgr'[n].owner = mgr[n].owner /\ mgr'[n].pc = mgr[n].pc
          /\ mgr'[n].lateTimer = mgr[n].lateTimer /\ mgr'[n].finalized = mgr[n].finalized
    BY <1>0, <2>1 DEF ManagerType
  <2> QED BY <2>2, <2>3, TimersKept DEF Pending, At
<1>3. CASE SetupFails(m) \/ SetupWorks(m) \/ OnError(m)
  <2>1. UNCHANGED <<tab, main>>
    BY <1>3 DEF SetupFails, SetupWorks, OnError
  <2>2. \A n \in Managers :
          /\ mgr'[n].owner = mgr[n].owner /\ mgr'[n].pc = mgr[n].pc
          /\ mgr'[n].lateTimer = mgr[n].lateTimer /\ mgr'[n].finalized = mgr[n].finalized
    <3>1. CASE SetupFails(m)
      BY <1>0, <3>1 DEF SetupFails, ManagerType
    <3>2. CASE SetupWorks(m)
      BY <1>0, <3>2 DEF SetupWorks, ManagerType
    <3>3. CASE OnError(m)
      BY <1>0, <3>3 DEF OnError, ManagerType
    <3> QED BY <1>3, <3>1, <3>2, <3>3
  <2> QED BY <2>1, <2>2, TimersKept DEF Pending, At
<1>4. CASE EstimateReturns(m)
  <2>1. UNCHANGED <<tab, main>>
    BY <1>4 DEF EstimateReturns
  <2>2. \A n \in Managers :
          /\ mgr'[n].owner = mgr[n].owner
          /\ mgr[n].pc # "unborn" => mgr'[n].pc # "unborn"
          /\ mgr'[n].lateTimer = mgr[n].lateTimer /\ mgr'[n].finalized = mgr[n].finalized
    BY <1>0, <1>4 DEF EstimateReturns, ManagerType
  <2> QED BY <2>1, <2>2, TimersKept DEF Pending, At
<1>2. CASE OnComplete(m)
  <2> DEFINE last == mgr[m].iter = Count(m) - 1
  <2>1. /\ tab' = tab
        /\ mgr' = [mgr EXCEPT ![m].job = "done", ![m].completed = TRUE,
                      ![m].finalized = IF last THEN mgr[m].finalized + 1
                                       ELSE mgr[m].finalized]
        /\ IF last THEN main' = [main EXCEPT !.queue = Append(main.queue, m)]
           ELSE main' = main
    BY <1>2 DEF OnComplete, Post
  <2> HIDE DEF last
  <2>2. \A n \in Managers :
          /\ mgr'[n].owner = mgr[n].owner /\ mgr'[n].pc = mgr[n].pc
          /\ mgr'[n].lateTimer = mgr[n].lateTimer
          /\ mgr'[n].finalized = mgr[n].finalized \/ (n = m /\ last)
    BY <1>0, <2>1 DEF ManagerType
  <2>3. last => main'.queue = Append(main.queue, m)
    BY <2>1 DEF Inv, TypeOK
  <2>4. \A n \in Managers : (Pending(n) \/ (n = m /\ last)) => Pending(n)'
    BY <1>0, <2>1, <2>3, Appending DEF Pending
  <2> QED BY <2>1, <2>2, <2>4, TimersKept DEF At
<1> QED BY <1>1, <1>2, <1>3, <1>4 DEF JobGoesOn, CallEnds

\* The finalization that runs stops the timer of its tab, and no other tab shows a timer
\* of the same test.
LEMMA FinalizeTimer ==
  ASSUME Inv, Timers, Finalize
  PROVE  Timers'
<1>1. /\ tab \in [Tabs -> TabType] /\ mgr \in [Managers -> ManagerType]
      /\ main.queue \in Seq(Managers) /\ main.queue # <<>>
  BY DEF Inv, TypeOK, Finalize
<1>2. PICK m \in Managers, f \in Tabs :
        m = main.queue[1] /\ m = Head(main.queue) /\ f = mgr[m].owner
  <2>1. Head(main.queue) \in Managers /\ Head(main.queue) = main.queue[1]
    BY <1>1, Taking
  <2>2. Pending(Head(main.queue))
    <3>1. 1 \in 1 .. Len(main.queue)
      BY <1>1, Taking
    <3> QED BY <2>1, <3>1 DEF Pending
  <2> QED BY <2>1, <2>2 DEF Inv, Unborn, Owners
<1>3. /\ tab' = [tab EXCEPT ![f].text = IF mgr[m].reset THEN "START" ELSE "New Test",
                            ![f].start = TRUE, ![f].stop = FALSE, ![f].timer = None]
      /\ mgr' = [mgr EXCEPT ![m].reset = FALSE]
      /\ main'.queue = Tail(main.queue)
  BY <1>2 DEF Finalize, Inv, TypeOK
<1>4. tab'[f].timer = None /\ \A g \in Tabs : g # f => tab'[g] = tab[g]
  BY <1>1, <1>3 DEF TabType
<1>5. \A n \in Managers :
        /\ mgr'[n].owner = mgr[n].owner /\ mgr'[n].pc = mgr[n].pc
        /\ mgr'[n].lateTimer = mgr[n].lateTimer /\ mgr'[n].finalized = mgr[n].finalized
  BY ZenonT(40), <1>1, <1>3 DEF ManagerType
<1>6. ASSUME NEW n \in Managers, n # m, Pending(n)
      PROVE  Pending(n)'
  <2>1. PICK i \in 1 .. Len(main.queue) : main.queue[i] = n
    BY <1>6 DEF Pending
  <2>2. /\ Len(main.queue) \in Nat /\ Len(main'.queue) = Len(main.queue) - 1
        /\ \A j \in 1 .. Len(main.queue) - 1 : main'.queue[j] = main.queue[j + 1]
    BY <1>1, <1>3, Taking
  <2>3. i # 1 /\ i - 1 \in 1 .. Len(main.queue) - 1 /\ (i - 1) + 1 = i
    BY <1>2, <1>6, <2>1, <2>2
  <2> QED BY <2>1, <2>2, <2>3 DEF Pending
<1> SUFFICES ASSUME NEW g \in Tabs, NEW n \in Managers, tab'[g].timer = n
             PROVE  /\ mgr'[n].owner = g /\ ~At(n, "unborn")'
                    /\ mgr'[n].finalized > 0 /\ ~Pending(n)' => mgr'[n].lateTimer
  BY DEF Timers
<1>7. g # f /\ tab[g].timer = n
  BY <1>4, ManagerAssumption
<1>8. mgr[n].owner = g /\ n # m
  BY <1>2, <1>7 DEF Timers
<1> QED BY <1>5, <1>6, <1>7, <1>8 DEF Timers, At

LEMMA UserTimer ==
  ASSUME Inv, Timers, MainStep \/ \E f \in Tabs : Click(f)
  PROVE  Timers'
<1>0. /\ mgr \in [Managers -> ManagerType] /\ tab \in [Tabs -> TabType]
      /\ main.queue \in Seq(Managers)
  BY DEF Inv, TypeOK
<1>1. ASSUME NEW f \in Tabs, ClickNewTest(f)
      PROVE  Timers'
  <2>1. \A g \in Tabs : tab'[g].timer = tab[g].timer
    BY <1>0, <1>1 DEF ClickNewTest, TabType
  <2> QED BY <1>1, <2>1, TimersKept DEF ClickNewTest, At, Pending
<1>2. ASSUME NEW f \in Tabs, ClickStart(f)
      PROVE  Timers'
  <2>1. PICK m \in Managers, h \in BOOLEAN :
          /\ At(m, "unborn") /\ UNCHANGED main
          /\ mgr' = [mgr EXCEPT ![m].pc = "launched", ![m].owner = f, ![m].hybrid = h]
          /\ tab' = [tab EXCEPT ![f].start = FALSE, ![f].stop = TRUE, ![f].mgr = m]
    BY <1>2 DEF ClickStart
  <2>2. \A g \in Tabs : tab'[g].timer = tab[g].timer
    BY <1>0, <2>1 DEF TabType
  <2>3. \A n \in Managers : ~At(n, "unborn") => mgr'[n] = mgr[n]
    BY <1>0, <2>1 DEF At
  <2> QED BY <2>1, <2>2, <2>3, TimersKept DEF At, Pending
<1>3. ASSUME NEW f \in Tabs, ClickStop(f)
      PROVE  Timers'
  <2>1. tab[f].mgr \in Managers /\ main'.queue = main.queue
    BY <1>3, Fields DEF ClickStop, Inv, Owners, TypeOK
  <2>2. \A g \in Tabs : tab'[g].timer = tab[g].timer
    BY <1>0, <1>3 DEF ClickStop, TabType
  <2>3. \A n \in Managers :
          /\ mgr'[n].owner = mgr[n].owner /\ mgr'[n].pc = mgr[n].pc
          /\ mgr'[n].lateTimer = mgr[n].lateTimer /\ mgr'[n].finalized = mgr[n].finalized
    BY <1>0, <1>3, <2>1 DEF ClickStop, ManagerType
  <2> QED BY <2>1, <2>2, <2>3, TimersKept DEF At, Pending
<1>4. CASE StopNative
  <2>1. main'.queue = main.queue
    BY <1>4 DEF StopNative, Inv, TypeOK
  <2> QED BY <1>4, <2>1, TimersKept DEF StopNative, At, Pending
<1>5. CASE StopCancels
  <2> DEFINE m == main.stopping
  <2>1. m \in Managers /\ main'.queue = Append(main.queue, m) /\ tab' = tab
    BY <1>5, Fields DEF StopCancels, MainFree, Inv, TypeOK
  <2>2. mgr' = [mgr EXCEPT ![m].cancelled = TRUE, ![m].finalized = mgr[m].finalized + 1]
    BY <1>5 DEF StopCancels
  <2> HIDE DEF m
  <2>3. \A n \in Managers :
          /\ mgr'[n].owner = mgr[n].owner /\ mgr'[n].pc = mgr[n].pc
          /\ mgr'[n].lateTimer = mgr[n].lateTimer
          /\ n # m => mgr'[n].finalized = mgr[n].finalized
    BY <1>0, <2>1, <2>2 DEF ManagerType
  <2>4. \A n \in Managers : Pending(n) \/ n = m => Pending(n)'
    BY <1>0, <2>1, Appending DEF Pending
  <2> QED BY <2>1, <2>3, <2>4, TimersKept DEF At
<1> QED BY <1>1, <1>2, <1>3, <1>4, <1>5, FinalizeTimer DEF MainStep, Click

\* The timer of a test stops with the test (TimerStopsUnlessStopped), for any number of
\* tabs, tests and iterations and whatever is stopped: once its finalizations have run,
\* a timer runs on only if that very test started it after its own stop.
THEOREM TimerStops == Spec => []TimerStopsUnlessStopped
<1>1. Init => Inv /\ Timers
  BY InitInv, ManagerAssumption DEF Init, Timers
<1>2. Inv /\ Timers /\ [Next]_vars => (Inv /\ Timers)'
  <2>1. Timers /\ UNCHANGED vars => Timers'
    BY DEF vars, Timers, Pending, At
  <2> QED BY <2>1, NextInv, LoopTimer, JobTimer, UserTimer DEF Next
<1>3. Timers => TimerStopsUnlessStopped
  BY DEF Timers, TimerStopsUnlessStopped
<1> QED BY <1>1, <1>2, <1>3, PTL DEF Spec
=============================================================================
