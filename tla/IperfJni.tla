------------------------------ MODULE IperfJni ------------------------------
(***************************************************************************)
(* The native side of IperfRunner (iperf_jni.c): calls of runIperfLive,    *)
(* each with the thread that executes it, its reader thread and the pipe   *)
(* between them, and forceStopIperfTest, called from the UI thread.  They  *)
(* share global_test, reader_thread and stop_requested, without a lock.    *)
(*                                                                         *)
(* A call of runIperfLive is named by the struct iperf_test it creates, an *)
(* element of Tests.  One call is in flight at a time (TestManager shows   *)
(* when the app keeps to that).  A use of memory that is free already, or  *)
(* of NULL, is a fault; what the process does after one is not described.  *)
(***************************************************************************)
EXTENDS IperfServer

CONSTANTS
  NULL,
  MaxLines,    \* bound: lines in a pipe
  MaxStops,    \* bound: calls of forceStopIperfTest
  MayCut,      \* bound: the tests whose network connection may be lost
  MayFail      \* bound: the tests (or none) during which a call of the system may fail

ASSUME JniAssumption ==
  /\ NULL \notin Tests
  /\ MaxLines \in Nat \ {0} /\ MaxStops \in Nat
  /\ MayCut \subseteq Tests /\ MayFail \subseteq Tests \cup {NoTest}

VARIABLES
  call,     \* each call of runIperfLive
  jni,      \* the static variables of iperf_jni.c
  stop      \* the UI thread in forceStopIperfTest

jvars == <<call, jni, stop>>
vars == <<svars, jvars>>

CallType ==
  [pc     : {"idle", "setup", "run", "fclose", "free", "unset", "join", "final",
             "reset", "complete", "returned"},
   mem    : {"none", "live", "freed"},           \* its struct iperf_test
   reader : {"none", "running", "ended"},        \* its reader thread
   out    : {"none", "open", "closed"},          \* its end of the pipe, fp
   pipe   : 0 .. MaxLines,                       \* lines not read yet
   prints : BOOLEAN,                             \* it has a line to write before it goes on
   errors : 0 .. 1,                              \* calls of onError
   said   : {"none", "stopped", "failed", "ok"}, \* the final message
   completed : BOOLEAN]                          \* onComplete was called

StaticsType ==
  [global_test : Tests \cup {NULL}, reader_thread : Tests \cup {NULL},
   stop_requested : BOOLEAN, fault : BOOLEAN]

StopType ==
  [pc : {"idle", "check", "mark", "send", "shut"}, target : Tests \cup {NULL},
   count : 0 .. MaxStops,
   marked : SUBSET Tests]     \* history: the tests whose done a stop has set

JniTypeOK ==
  /\ call \in [Tests -> CallType]
  /\ jni \in StaticsType
  /\ stop \in StopType

Init ==
  /\ ClientInit
  /\ srv = IdleServer
  /\ call = [c \in Tests |->
              [pc |-> "idle", mem |-> "none", reader |-> "none", out |-> "none",
               pipe |-> 0, prints |-> FALSE, errors |-> 0, said |-> "none", completed |-> FALSE]]
  /\ jni = [global_test |-> NULL, reader_thread |-> NULL, stop_requested |-> FALSE,
            fault |-> FALSE]
  /\ stop = [pc |-> "idle", target |-> NULL, count |-> 0, marked |-> {}]

-----------------------------------------------------------------------------
(* runIperfLive *)

InFlight == {c \in Tests : call[c].pc \notin {"idle", "returned"}}

\* Where the thread of a call, or the UI thread in forceStopIperfTest, is; after a
\* fault no thread goes on.
In(c, label) == ~jni.fault /\ call[c].pc = label
StopIn(label) == ~jni.fault /\ stop.pc = label

Go(c, label) == call' = [call EXCEPT ![c].pc = label]

\* global_test = iperf_new_test().  No call begins while the UI thread is in
\* forceStopIperfTest: that thread starts the tests, and the loop that repeats them
\* has seen the stop by then.
New(c) ==
  /\ In(c, "idle") /\ stop.pc = "idle"
  /\ InFlight = {}
  /\ \/ /\ call' = [call EXCEPT ![c].pc = "setup", ![c].mem = "live"]
        /\ jni' = [jni EXCEPT !.global_test = c]
     \/ /\ call' = [call EXCEPT ![c].pc = "returned", ![c].errors = 1]
        /\ jni' = [jni EXCEPT !.global_test = NULL]
  /\ UNCHANGED <<svars, stop>>

\* No pipe, or arguments that do not parse: onError, and the test is freed.  The
\* pointer to it stays, and onComplete is not called.
SetupFails(c) ==
  /\ In(c, "setup")
  /\ \E out \in {"none", "closed"} :
       call' = [call EXCEPT ![c].pc = "returned", ![c].errors = 1, ![c].out = out,
                            ![c].mem = "freed"]
  /\ UNCHANGED <<svars, jni, stop>>

\* The pipe, the arguments, the reader thread; iperf_run_client is entered.
Setup(c) ==
  /\ In(c, "setup")
  /\ call' = [call EXCEPT ![c].pc = "run", ![c].out = "open", ![c].reader = "running"]
  /\ jni' = [jni EXCEPT !.reader_thread = c]
  /\ RunClient(c)
  /\ UNCHANGED <<srv, stop>>

\* Whether iperf_run_client prints after its step and before its next one: the server
\* it talks to, each stream, the summary of the results and the last line always; the
\* interval that is over in tmr_run, and what cleanup_and_fail reports, if there is one.
Prints(c) ==
  IF \/ At(c, "dispatch") /\ test[c].state = "PARAM_EXCHANGE" /\ test'[c].pc = "check"
     \/ test'[c].streams # test[c].streams
     \/ test'[c].pc = "end"
     \/ At(c, "joinrcv") /\ test'[c].pc = "ret"
  THEN {TRUE}
  ELSE IF test'[c].pc \in {"run", "fail"} THEN BOOLEAN ELSE {FALSE}

ClientAt(c) == In(c, "run") /\ ~call[c].prints
ThenPrints(c) ==
  /\ \E prints \in Prints(c) : call' = [call EXCEPT ![c].prints = prints]
  /\ UNCHANGED <<srv, jni, stop>>

\* A step of iperf_run_client.
Client(c) ==
  /\ ClientAt(c)
  /\ \/ ClientStep(c)
     \/ srv.pc # "closed" /\ ConnectOk(c)
     \/ srv.pc # "closed" /\ ~net[c].cut /\ CreateStream(c)
     \/ \E met, over \in BOOLEAN : (met => c \notin Timed) /\ Run(c, FALSE, over, met)
  /\ ThenPrints(c)

\* A line is written to the pipe, which blocks while it is full.
PrintLine(c) ==
  /\ In(c, "run") /\ call[c].prints /\ call[c].pipe < MaxLines
  /\ call' = [call EXCEPT ![c].pipe = @ + 1, ![c].prints = FALSE]
  /\ UNCHANGED <<svars, jni, stop>>

TimeUp(c) == ClientAt(c) /\ Run(c, TRUE, TRUE, FALSE) /\ ThenPrints(c)

CallFails(c) == c \in MayFail /\ ClientAt(c) /\ ClientFails(c) /\ ThenPrints(c)

\* iperf_run_client has returned: onError if it failed.
ClientReturned(c) ==
  /\ ClientAt(c) /\ At(c, "ret")
  /\ call' = [call EXCEPT
       ![c].pc = "fclose",
       ![c].errors = IF test[c].result = "fail" /\ jni.global_test # NULL THEN 1 ELSE @]
  /\ UNCHANGED <<svars, jni, stop>>

\* Mutant of CloseOutput: fp stays open.
KeepOutput(c) == In(c, "fclose") /\ Go(c, "free") /\ UNCHANGED <<svars, jni, stop>>

\* fclose(fp): what is in the pipe stays readable.
CloseOutput(c) ==
  /\ In(c, "fclose")
  /\ call' = [call EXCEPT ![c].pc = "free", ![c].out = "closed"]
  /\ UNCHANGED <<svars, jni, stop>>

\* if (global_test) iperf_free_test(global_test); the pointer is loaded again.  Of a
\* freed test, its threads and descriptors stay.
Free(c) ==
  LET g == jni.global_test IN
  /\ In(c, "free")
  /\ IF g = NULL THEN Go(c, "join") /\ UNCHANGED <<test, jni>>
     ELSE /\ call' = [call EXCEPT ![c].pc = "unset", ![g].mem = "freed"]
          /\ jni' = [jni EXCEPT !.fault = call[g].mem # "live"]
          /\ test' = [test EXCEPT ![g] = [NewTest EXCEPT
                        !.pc = "ret", !.ctrl = test[g].ctrl, !.live = test[g].live,
                        !.left = test[g].left, !.result = test[g].result]]
  /\ UNCHANGED <<net, backlog, srv, stop>>

\* Mutant of Unset: global_test keeps its value.
KeepPointer(c) == In(c, "unset") /\ Go(c, "join") /\ UNCHANGED <<svars, jni, stop>>

\* global_test = NULL
Unset(c) ==
  /\ In(c, "unset")
  /\ Go(c, "join") /\ jni' = [jni EXCEPT !.global_test = NULL]
  /\ UNCHANGED <<svars, stop>>

\* Mutant of JoinReader: the call does not wait for its reader thread.
DetachReader(c) == In(c, "join") /\ Go(c, "final") /\ UNCHANGED <<svars, jni, stop>>

\* pthread_join(reader_thread), a static variable like global_test.
JoinReader(c) ==
  /\ In(c, "join")
  /\ call[jni.reader_thread].reader = "ended"
  /\ Go(c, "final")
  /\ UNCHANGED <<svars, jni, stop>>

\* Mutant of FinalMessage: the result is looked at before stop_requested.
FailureFirst(c) ==
  /\ In(c, "final")
  /\ call' = [call EXCEPT ![c].pc = "reset",
                          ![c].said = IF test[c].result = "fail" THEN "failed"
                                      ELSE IF jni.stop_requested THEN "stopped"
                                      ELSE "ok"]
  /\ UNCHANGED <<svars, jni, stop>>

\* The line that says how the test ended.
FinalMessage(c) ==
  /\ In(c, "final")
  /\ call' = [call EXCEPT ![c].pc = "reset",
                          ![c].said = IF jni.stop_requested THEN "stopped"
                                      ELSE IF test[c].result = "fail" THEN "failed"
                                      ELSE "ok"]
  /\ UNCHANGED <<svars, jni, stop>>

Reset(c) ==
  /\ In(c, "reset")
  /\ Go(c, "complete")
  /\ jni' = [jni EXCEPT !.stop_requested = FALSE, !.reader_thread = NULL]
  /\ UNCHANGED <<svars, stop>>

Complete(c) ==
  /\ In(c, "complete")
  /\ call' = [call EXCEPT ![c].pc = "returned", ![c].completed = TRUE]
  /\ UNCHANGED <<svars, jni, stop>>

-----------------------------------------------------------------------------
(* readerThreadFunc: a line is passed on to onOutput, or the pipe is at its end. *)

ReadLine(c) ==
  /\ ~jni.fault /\ call[c].reader = "running" /\ call[c].pipe > 0
  /\ call' = [call EXCEPT ![c].pipe = @ - 1]
  /\ UNCHANGED <<svars, jni, stop>>

ReaderEnds(c) ==
  /\ ~jni.fault /\ call[c].reader = "running" /\ call[c].pipe = 0 /\ call[c].out = "closed"
  /\ call' = [call EXCEPT ![c].reader = "ended"]
  /\ UNCHANGED <<svars, jni, stop>>

-----------------------------------------------------------------------------
(* forceStopIperfTest *)

RequestStop ==
  /\ StopIn("idle") /\ stop.count < MaxStops
  /\ stop' = [stop EXCEPT !.pc = "check", !.count = @ + 1]
  /\ jni' = [jni EXCEPT !.stop_requested = TRUE]
  /\ UNCHANGED <<svars, call>>

\* A step of the UI thread that uses the test c points to, or faults.
Using(c, step) ==
  IF c # NULL /\ call[c].mem = "live" THEN step /\ UNCHANGED jni
  ELSE jni' = [jni EXCEPT !.fault = TRUE] /\ UNCHANGED <<cvars, stop>>

\* if (global_test && !global_test->done)
CheckStop ==
  LET g == jni.global_test IN
  /\ StopIn("check")
  /\ IF g = NULL THEN stop' = [stop EXCEPT !.pc = "idle"] /\ UNCHANGED <<cvars, jni>>
     ELSE Using(g, /\ stop' = [stop EXCEPT !.pc = IF test[g].done THEN "idle" ELSE "mark",
                                           !.target = g]
                   /\ UNCHANGED cvars)
  /\ UNCHANGED <<srv, call>>

\* global_test->done = 1, then iperf_set_send_state, with the pointer already loaded.
MarkStop ==
  /\ StopIn("mark")
  /\ Using(stop.target,
       /\ MarkDone(stop.target)
       /\ stop' = [stop EXCEPT !.pc = "send", !.marked = @ \cup {stop.target}])
  /\ UNCHANGED <<srv, call>>

SendStop ==
  /\ StopIn("send")
  /\ Using(stop.target, SendDone(stop.target) /\ stop' = [stop EXCEPT !.pc = "shut"])
  /\ UNCHANGED <<srv, call>>

\* shutdown(global_test->ctrl_sck): the pointer is loaded again after the call.
ShutStop ==
  /\ StopIn("shut")
  /\ Using(jni.global_test,
       ShutControl(jni.global_test) /\ stop' = [stop EXCEPT !.pc = "idle", !.target = NULL])
  /\ UNCHANGED <<srv, call>>

-----------------------------------------------------------------------------
(* The rest of the world *)

ThreadExits(c) ==
  ~jni.fault /\ (\E d \in {"snd", "rcv"} : StreamThreadExits(c, d)) /\ UNCHANGED <<srv, jvars>>

Cut(c) == ~jni.fault /\ c \in MayCut /\ NetworkLost(c) /\ UNCHANGED <<srv, jvars>>

Server == ~jni.fault /\ ServerStep /\ UNCHANGED jvars

ServerCallFails ==
  ~jni.fault /\ srv.ctrl \in MayFail /\ ServerFails /\ UNCHANGED jvars

-----------------------------------------------------------------------------
\* The steps of the thread that executes runIperfLive, which nobody has to wait for
\* but the reader.
CallStep(c) ==
  \/ SetupFails(c) \/ Setup(c) \/ Client(c) \/ PrintLine(c) \/ ClientReturned(c)
  \/ CloseOutput(c)
  \/ Free(c) \/ Unset(c) \/ JoinReader(c) \/ FinalMessage(c) \/ Reset(c) \/ Complete(c)

Reader(c) == ReadLine(c) \/ ReaderEnds(c)

StopStep == CheckStop \/ MarkStop \/ SendStop \/ ShutStop

Next ==
  \/ \E c \in Tests : New(c) \/ CallStep(c) \/ TimeUp(c) \/ CallFails(c) \/ Reader(c)
                      \/ ThreadExits(c) \/ Cut(c)
  \/ RequestStop \/ StopStep
  \/ Server \/ ServerCallFails

Fairness ==
  /\ \A c \in Tests : /\ WF_vars(CallStep(c))
                      /\ WF_vars(Reader(c))
                      /\ SF_vars(TimeUp(c))
  /\ WF_vars(StopStep)
  /\ WF_vars(Server)

Spec == Init /\ [][Next]_vars
FairSpec == Spec /\ Fairness

-----------------------------------------------------------------------------
(* Properties *)

\* Once onComplete was called, nothing of the call is left that could still call
\* back: its reader thread has ended after it passed on every line, its memory is
\* free, and global_test does not point to it.
CompletedCallIsQuiet ==
  \A c \in Tests : call[c].completed =>
    /\ call[c].reader = "ended" /\ call[c].pipe = 0
    /\ call[c].mem = "freed" /\ jni.global_test # c

\* global_test points to freed memory only between iperf_free_test and the
\* assignment after it, or when the call could not be set up.
DanglingOnlyAfterError ==
  \A c \in Tests : jni.global_test = c /\ call[c].mem = "freed" =>
    \/ call[c].pc = "unset"
    \/ call[c].pc = "returned" /\ ~call[c].completed /\ call[c].errors = 1

\* The memory of a test is freed while stream threads use it only when the test was
\* stopped, for the loop of iperf_run_client then ends before the senders are joined,
\* or when such a thread could not be joined.
WorkersJoinedUnlessStopped ==
  \A c \in Tests : call[c].mem = "freed" /\ ~(test[c].live \subseteq test[c].left) =>
    c \in stop.marked

\* A call whose test a stop marked says so in its final message, whatever
\* iperf_run_client returned.
StopIsReported ==
  \A c \in Tests : c \in stop.marked /\ call[c].said # "none" => call[c].said = "stopped"

\* iperf_jni.c:73, "Gracefully requests iperf to stop, used by the stop button in the
\* UI": a stop never touches memory that is free.
GracefulStop == ~jni.fault

\* iperf_jni.c:91, "Unblocks select()": a call whose test a stop marked returns.
StopUnblocks ==
  \A c \in Tests : c \in stop.marked ~> (call[c].pc = "returned" \/ jni.fault)

\* Every call that begins returns, whatever the stops do to it, while the network
\* works: no thread waits for one that waits for it.
CallReturns ==
  \A c \in Tests :
    call[c].pc = "setup" ~> (call[c].pc = "returned" \/ jni.fault \/ net[c].cut)
=============================================================================
