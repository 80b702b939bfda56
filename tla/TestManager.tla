----------------------------- MODULE TestManager -----------------------------
(***************************************************************************)
(* The app around the native code: the tabs that start and stop tests      *)
(* (RunTestFragment, CommandLineFragment) and IperfTestManage, which runs  *)
(* the iterations of a test.                                               *)
(*                                                                         *)
(* The main thread handles clicks and, in order, the finalizations posted  *)
(* to it.  Each manager has a coroutine, the loop over the iterations,     *)
(* which launches a job per iteration; the job calls runIperfLive, whose   *)
(* callbacks run on the job's thread.  Cancelling a coroutine stops it at  *)
(* its next suspension; a job inside runIperfLive is not interrupted.      *)
(*                                                                         *)
(* What runIperfLive does is in IperfJni: it calls onComplete at its end,  *)
(* and after a failed setup onError alone.  It may also never return (a    *)
(* lost network, a stop that comes too early), so nothing here assumes     *)
(* that it does.                                                           *)
(*                                                                         *)
(* A hybrid test first estimates the bandwidth with a native call that the *)
(* coroutine makes itself: no flag is read before it, and a cancellation   *)
(* does not keep it from being made.                                       *)
(***************************************************************************)
EXTENDS Naturals, Sequences, FiniteSets

CONSTANTS
  Managers,        \* the IperfTestManage objects, one per test started
  RunTabs,         \* the tabs of RunTestFragment
  CommandTabs,     \* the tabs of CommandLineFragment
  None,
  Iterations       \* the count entered in RunTestFragment

Tabs == RunTabs \cup CommandTabs

ASSUME ManagerAssumption ==
  /\ RunTabs \cap CommandTabs = {} /\ None \notin Managers \cup Tabs
  /\ Iterations \in Nat

VARIABLES
  tab,     \* the widgets of each tab, and its manager
  mgr,     \* each manager: its coroutine, its flags, its job
  main     \* the main thread: the stop it is executing, the finalizations posted

vars == <<tab, mgr, main>>

TabType ==
  [text  : {"START", "New Test"},   \* startBtn.text; "START" is also "Run Command"
   start : BOOLEAN,                 \* startBtn.isEnabled
   stop  : BOOLEAN,                 \* stopBtn.isEnabled
   timer : Managers \cup {None},    \* the test that started its job in timerJobs
   mgr   : Managers \cup {None}]    \* iperfManager

ManagerType ==
  [pc        : {"unborn", "launched", "begun", "estimate", "top", "preparing",
                "waiting", "joining", "after", "backoff", "pause", "over"},
   owner     : Tabs \cup {None},
   hybrid    : BOOLEAN,               \* isHybridTest
   iter      : 0 .. Iterations + 1,   \* iteration
   stopped   : BOOLEAN,               \* wasStoppedManually
   cancelled : BOOLEAN,               \* iperfJob was cancelled
   reset     : BOOLEAN,               \* pendingReset is set
   error     : BOOLEAN,               \* lastIterationHadError
   completed : BOOLEAN,               \* testCompleted
   job       : {"none", "estimating", "launched", "entered", "live", "failed", "done"},
   refused   : BOOLEAN,               \* history: arguments of a call were refused
   finalized : Nat,                   \* history: finalizations posted
   lateTimer : BOOLEAN,               \* history: its timer was started after its stop
   late      : Nat]                   \* history: native calls begun after its stop

TypeOK ==
  /\ tab \in [Tabs -> TabType]
  /\ mgr \in [Managers -> ManagerType]
  /\ main \in [stopping : Managers \cup {None}, step : {"native", "cancel"},
               queue : Seq(Managers)]

Init ==
  /\ tab = [f \in Tabs |-> [text |-> "START", start |-> TRUE, stop |-> FALSE,
                            timer |-> None, mgr |-> None]]
  /\ mgr = [m \in Managers |->
              [pc |-> "unborn", owner |-> None, hybrid |-> FALSE, iter |-> 0,
               stopped |-> FALSE, cancelled |-> FALSE, reset |-> FALSE, error |-> FALSE,
               completed |-> FALSE, job |-> "none", refused |-> FALSE,
               finalized |-> 0, lateTimer |-> FALSE, late |-> 0]]
  /\ main = [stopping |-> None, step |-> "native", queue |-> <<>>]

-----------------------------------------------------------------------------
(* Helpers *)

At(m, label) == mgr[m].pc = label
Job(m, label) == mgr[m].job = label
MainFree == main.stopping = None
Count(m) == IF mgr[m].owner \in RunTabs THEN Iterations ELSE 1

\* The job of m is somewhere between its launch and the end of its callbacks; m is
\* inside runIperfLive, with its estimate or an iteration.
Unfinished(m) == mgr[m].job \in {"estimating", "launched", "entered", "live", "failed"}
InNative(m) == mgr[m].job \in {"estimating", "entered", "live", "failed"}

\* A native call of m begins now: one more after its stop?
Late(m) == IF mgr[m].stopped THEN mgr[m].late + 1 ELSE mgr[m].late

Step(m, label) == mgr' = [mgr EXCEPT ![m].pc = label] /\ UNCHANGED <<tab, main>>

\* A finalization of m is posted and has not run.
Pending(m) == \E i \in 1 .. Len(main.queue) : main.queue[i] = m

\* finalizeTest: mainScope.launch posts the rest to the main thread.
Post(m) == main' = [main EXCEPT !.queue = Append(@, m)]

-----------------------------------------------------------------------------
(* The main thread *)

\* startBtn: after a test, RunTestFragment first goes back to its form.
ClickNewTest(f) ==
  /\ MainFree /\ f \in RunTabs /\ tab[f].start /\ tab[f].text = "New Test"
  /\ tab' = [tab EXCEPT ![f].text = "START"]
  /\ UNCHANGED <<mgr, main>>

\* startTest makes a new IperfTestManage; new ones only differ in their name.
NewManager == CHOOSE m \in Managers : At(m, "unborn")

ClickStart(f) ==
  /\ MainFree /\ tab[f].start
  /\ f \in CommandTabs \/ tab[f].text = "START"
  /\ \E m \in Managers, h \in BOOLEAN :
       /\ At(m, "unborn") /\ m = NewManager /\ (h => f \in RunTabs)
       /\ mgr' = [mgr EXCEPT ![m].pc = "launched", ![m].owner = f, ![m].hybrid = h]
       /\ tab' = [tab EXCEPT ![f].start = FALSE, ![f].stop = TRUE, ![f].mgr = m]
  /\ UNCHANGED main

\* stopBtn, and stopTests up to the native call.
ClickStop(f) ==
  /\ MainFree /\ tab[f].stop
  /\ tab' = [tab EXCEPT ![f].stop = FALSE]
  /\ mgr' = [mgr EXCEPT ![tab[f].mgr].stopped = TRUE, ![tab[f].mgr].reset = TRUE]
  /\ main' = [main EXCEPT !.stopping = tab[f].mgr, !.step = "native"]

\* forceStopIperfTest: it hastens the end of the call in flight, if there is one.
StopNative ==
  /\ ~MainFree /\ main.step = "native"
  /\ main' = [main EXCEPT !.step = "cancel"]
  /\ UNCHANGED <<tab, mgr>>

\* iperfJob?.cancel() and finalizeTest(true).
StopCancels ==
  LET m == main.stopping IN
  /\ ~MainFree /\ main.step = "cancel"
  /\ mgr' = [mgr EXCEPT ![m].cancelled = TRUE, ![m].finalized = @ + 1]
  /\ main' = [main EXCEPT !.stopping = None, !.queue = Append(@, m)]
  /\ UNCHANGED tab

\* Mutant of Finalize: stopTimer is forgotten.
FinalizeWithoutTimer ==
  LET m == Head(main.queue)
      f == mgr[m].owner
  IN  /\ MainFree /\ main.queue # <<>>
      /\ tab' = [tab EXCEPT ![f].text = IF mgr[m].reset THEN "START" ELSE "New Test",
                            ![f].start = TRUE, ![f].stop = FALSE]
      /\ mgr' = [mgr EXCEPT ![m].reset = FALSE]
      /\ main' = [main EXCEPT !.queue = Tail(@)]

\* The posted part of finalizeTest, with onTestComplete and pendingReset.
Finalize ==
  LET m == Head(main.queue)
      f == mgr[m].owner
  IN  /\ MainFree /\ main.queue # <<>>
      /\ tab' = [tab EXCEPT ![f].text = IF mgr[m].reset THEN "START" ELSE "New Test",
                            ![f].start = TRUE, ![f].stop = FALSE, ![f].timer = None]
      /\ mgr' = [mgr EXCEPT ![m].reset = FALSE]
      /\ main' = [main EXCEPT !.queue = Tail(@)]

-----------------------------------------------------------------------------
(* The loop of startTest *)

\* The coroutine is dispatched: it begins unless it was cancelled before.
Begin(m) == At(m, "launched") /\ Step(m, IF mgr[m].cancelled THEN "over" ELSE "begun")

\* startTimer ends a timer of the tab that still runs, and starts one.
StartTimer(m) ==
  /\ At(m, "begun")
  /\ mgr' = [mgr EXCEPT ![m].pc = IF mgr[m].hybrid THEN "estimate" ELSE "top",
                        ![m].lateTimer = mgr[m].stopped]
  /\ tab' = [tab EXCEPT ![mgr[m].owner].timer = m]
  /\ UNCHANGED main

\* runTcpBidirAndGetBandwidth calls runIperfLive on the thread of the coroutine; refused
\* or failed, it gives an estimate of 0 and the test goes on.
Estimate(m) ==
  /\ At(m, "estimate") /\ Job(m, "none")
  /\ mgr' = [mgr EXCEPT ![m].job = "estimating", ![m].late = Late(m)]
  /\ UNCHANGED <<tab, main>>
EstimateReturns(m) ==
  /\ Job(m, "estimating")
  /\ mgr' = [mgr EXCEPT ![m].job = "none", ![m].pc = "top"]
  /\ UNCHANGED <<tab, main>>

\* Mutant of Top: the stop is not looked at.
TopDespiteStop(m) ==
  /\ At(m, "top")
  /\ Step(m, IF mgr[m].iter >= Count(m) THEN "over" ELSE "preparing")

\* The head of the loop: its end, a stop, or the next iteration.
Top(m) ==
  /\ At(m, "top")
  /\ Step(m, IF mgr[m].iter >= Count(m) \/ mgr[m].stopped THEN "over" ELSE "preparing")

\* The iteration sets its arguments and launches its job, which is dead at once if the
\* coroutine has been cancelled by then.
Launch(m) ==
  /\ At(m, "preparing")
  /\ mgr' = [mgr EXCEPT ![m].completed = FALSE, ![m].pc = "waiting",
                        ![m].job = IF mgr[m].cancelled THEN "done" ELSE "launched"]
  /\ UNCHANGED <<tab, main>>

\* The wait ends: the test has completed or was stopped, or withTimeout expires; the
\* job, launched 10 seconds or more ago, has begun by then.  runJob.cancel() follows;
\* it has an effect only on a job that has not begun.
WaitEnds(m) ==
  /\ At(m, "waiting")
  /\ mgr[m].completed \/ mgr[m].stopped \/ ~Job(m, "launched")
  /\ mgr' = [mgr EXCEPT ![m].pc = "joining",
                        ![m].job = IF @ = "launched" THEN "done" ELSE @]
  /\ UNCHANGED <<tab, main>>

\* Mutant of Join: the job is not joined after the timeout.
GoOn(m) == At(m, "joining") /\ Step(m, "after")

\* runJob.join()
Join(m) == At(m, "joining") /\ ~Unfinished(m) /\ Step(m, "after")

\* What is decided between two iterations.
After(m) ==
  /\ At(m, "after")
  /\ mgr' = [mgr EXCEPT
       ![m].iter = @ + 1,
       ![m].pc = CASE mgr[m].iter + 1 >= Count(m) \/ mgr[m].stopped -> "top"
                   [] mgr[m].error -> "backoff"
                   [] OTHER -> "pause"]
  /\ UNCHANGED <<tab, main>>

\* safeDelay after an error, and the delay between iterations: false breaks the loop.
Backoff(m) ==
  /\ At(m, "backoff")
  /\ mgr' = [mgr EXCEPT ![m].pc = IF mgr[m].stopped THEN "over" ELSE "pause",
                        ![m].error = mgr[m].stopped]
  /\ UNCHANGED <<tab, main>>
Pause(m) == At(m, "pause") /\ Step(m, IF mgr[m].stopped THEN "over" ELSE "top")

\* A cancelled coroutine ends where it is suspended.
LoopCancelled(m) ==
  /\ mgr[m].cancelled
  /\ mgr[m].pc \in {"waiting", "joining", "backoff", "pause"}
  /\ Step(m, "over")

-----------------------------------------------------------------------------
(* The job of an iteration *)

\* The job is dispatched: it calls runIperfLive unless it was cancelled before.
Enter(m) ==
  /\ Job(m, "launched")
  /\ mgr' = [mgr EXCEPT ![m].job = IF mgr[m].cancelled THEN "done" ELSE "entered",
                        ![m].late = IF mgr[m].cancelled THEN @ ELSE Late(m)]
  /\ UNCHANGED <<tab, main>>

\* The arguments are refused: onError, and runIperfLive returns.
SetupFails(m) ==
  /\ Job(m, "entered")
  /\ mgr' = [mgr EXCEPT ![m].job = "done", ![m].error = TRUE, ![m].completed = TRUE,
                        ![m].refused = TRUE]
  /\ UNCHANGED <<tab, main>>

SetupWorks(m) ==
  /\ Job(m, "entered")
  /\ mgr' = [mgr EXCEPT ![m].job = "live"]
  /\ UNCHANGED <<tab, main>>

\* Mutant of OnError: an error finalizes the test.
OnErrorFinalizes(m) ==
  /\ Job(m, "live")
  /\ mgr' = [mgr EXCEPT ![m].job = "failed", ![m].error = TRUE, ![m].completed = TRUE,
                        ![m].finalized = @ + 1]
  /\ Post(m) /\ UNCHANGED tab

OnError(m) ==
  /\ Job(m, "live")
  /\ mgr' = [mgr EXCEPT ![m].job = "failed", ![m].error = TRUE, ![m].completed = TRUE]
  /\ UNCHANGED <<tab, main>>

\* Mutants of OnComplete: every iteration finalizes the test; no iteration does,
\* because the last one is missed by one.
FinalizeEachTime(m) ==
  /\ Job(m, "live") \/ Job(m, "failed")
  /\ mgr' = [mgr EXCEPT ![m].job = "done", ![m].completed = TRUE, ![m].finalized = @ + 1]
  /\ Post(m) /\ UNCHANGED tab
MissTheLast(m) ==
  LET last == mgr[m].iter = Count(m) IN
  /\ Job(m, "live") \/ Job(m, "failed")
  /\ mgr' = [mgr EXCEPT ![m].job = "done", ![m].completed = TRUE,
                        ![m].finalized = IF last THEN @ + 1 ELSE @]
  /\ IF last THEN Post(m) ELSE UNCHANGED main
  /\ UNCHANGED tab

\* onComplete finalizes the test in its last iteration; runIperfLive returns.
OnComplete(m) ==
  LET last == mgr[m].iter = Count(m) - 1 IN
  /\ Job(m, "live") \/ Job(m, "failed")
  /\ mgr' = [mgr EXCEPT ![m].job = "done", ![m].completed = TRUE,
                        ![m].finalized = IF last THEN @ + 1 ELSE @]
  /\ IF last THEN Post(m) ELSE UNCHANGED main
  /\ UNCHANGED tab

-----------------------------------------------------------------------------
Click(f) == ClickNewTest(f) \/ ClickStart(f) \/ ClickStop(f)

MainStep == StopNative \/ StopCancels \/ Finalize

Loop(m) ==
  \/ Begin(m) \/ StartTimer(m) \/ Estimate(m) \/ Top(m) \/ Launch(m) \/ WaitEnds(m)
  \/ Join(m) \/ After(m) \/ Backoff(m) \/ Pause(m) \/ LoopCancelled(m)

\* What a job does of its own accord: it is dispatched, its arguments are parsed, and
\* after a failure the call closes its pipe, joins its reader and completes.
JobGoesOn(m) ==
  Enter(m) \/ SetupFails(m) \/ SetupWorks(m) \/ (Job(m, "failed") /\ OnComplete(m))

\* When a test under way ends, if ever, is up to the network, the server and its stop.
CallEnds(m) == EstimateReturns(m) \/ OnError(m) \/ (Job(m, "live") /\ OnComplete(m))

Next ==
  \/ \E f \in Tabs : Click(f)
  \/ MainStep
  \/ \E m \in Managers : Loop(m) \/ JobGoesOn(m) \/ CallEnds(m)

\* Nobody has to click and no native call has to end; posted work, coroutines and jobs
\* that can go on do.
Fairness ==
  /\ WF_vars(MainStep)
  /\ \A m \in Managers : WF_vars(Loop(m)) /\ WF_vars(JobGoesOn(m))

Spec == Init /\ [][Next]_vars
FairSpec == Spec /\ Fairness

-----------------------------------------------------------------------------
(* Properties *)

NobodyStopped == \A m \in Managers : ~mgr[m].stopped

\* Without a stop, the native calls of a tab never overlap: the Start button is enabled
\* only while the job of none of its tests is unfinished, timeouts of the wait included,
\* and two of its tests never have one at the same time.
CallsDoNotOverlap ==
  NobodyStopped => \A m \in Managers : Unfinished(m) =>
    /\ ~tab[mgr[m].owner].start
    /\ \A n \in Managers : Unfinished(n) /\ mgr[n].owner = mgr[m].owner => n = m

\* A manager has one native call at a time, even when it is stopped or times out.
OneJobPerManager ==
  \A m \in Managers : mgr[m].pc \in {"top", "after", "backoff", "pause"} => ~Unfinished(m)

\* A native call that nobody stopped can be stopped: its tab has the Stop button
\* enabled, and the button leads to the manager of the call.
RunningTestCanBeStopped ==
  NobodyStopped => \A m \in Managers : InNative(m) =>
    tab[mgr[m].owner].stop /\ tab[mgr[m].owner].mgr = m

\* The timer of a test does not run on after the finalizations of the test, unless that
\* very test was stopped before its coroutine, on its own thread, had started the timer.
TimerStopsUnlessStopped ==
  \A f \in Tabs, m \in Managers :
    tab[f].timer = m /\ mgr[m].finalized > 0 /\ ~Pending(m) => mgr[m].lateTimer

\* A test is finalized once, by its last iteration or by the stop; a stop that comes
\* with the last iteration under way may finalize it a second time.
FinalizedOnce ==
  \A m \in Managers : mgr[m].finalized <= IF mgr[m].stopped THEN 2 ELSE 1

\* A stop ("Stops any ongoing test", IperfTestManage.kt:339) may come between the check
\* of its flag and a native call, and even when it has been carried out ("No active test
\* running. Finalizing...", :363) a hybrid test may still begin its estimate; but it
\* lets one call through at most: a test makes no second call after its stop, whatever
\* the first did.
AtMostOneLateCall == \A m \in Managers : mgr[m].late <= 1

\* A test of f is inside runIperfLive for ever, and nobody stops it.
CallHangs(f) ==
  \E m \in Managers : [](mgr[m].owner = f /\ InNative(m) /\ ~mgr[m].stopped)

\* Every test that is started is finalized, whatever fails, is stopped or times out, and
\* the Start button comes back: a stop brings it back even if the native call never
\* returns.  It stays away if the native code refused the arguments, or while a call that
\* nobody stops does not return.
StartComesBackUnlessRefused ==
  \A f \in Tabs :
    ~tab[f].start ~> tab[f].start \/ (\E m \in Managers : mgr[m].refused) \/ CallHangs(f)

\* CommandLineFragment.kt:168 of the callback given to every test: "Re-enable inputs
\* on completion".  A call that nobody stops and that never returns does not complete.
StartComesBack == \A f \in Tabs : ~tab[f].start ~> tab[f].start \/ CallHangs(f)

\* RunTestFragment.kt:151 and CommandLineFragment.kt:143 on the reset they give to
\* stopTests: "Only runs after runJob's onComplete".
ResetAfterComplete ==
  [][\A m \in Managers : mgr[m].reset /\ ~mgr[m].reset' => ~InNative(m)]_vars
=============================================================================
