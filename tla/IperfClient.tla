----------------------------- MODULE IperfClient -----------------------------
(***************************************************************************)
(* The thread that executes iperf_run_client on one struct iperf_test, its *)
(* stream threads, and the TCP connections it opens (iperf_client_api.c).  *)
(*                                                                         *)
(* The module has no server and no JNI layer: ControlProtocol composes it  *)
(* with iperf_run_server, IperfJni with the calls the app makes.  Another  *)
(* thread may write test->state and test->done and shut the control socket *)
(* down while the client runs, so every read or write of one of these is a *)
(* step of its own.                                                        *)
(*                                                                         *)
(* The data streams carry no data here; a stream is its direction, as the  *)
(* client sees it: "snd" or "rcv".                                         *)
(***************************************************************************)
EXTENDS Naturals, Sequences, FiniteSets

CONSTANTS
  Tests,       \* the struct iperf_test objects, one per client
  Mode,        \* test->mode of each: "SENDER", "RECEIVER" (-R), "BIDIR" (--bidir)
  NumStreams,  \* test->num_streams (-P), per direction
  Timed,       \* the tests whose duration is not 0 (-t)
  Omits        \* the tests with an omit period (-O)

ASSUME ClientAssumption ==
  /\ Mode \in [Tests -> {"SENDER", "RECEIVER", "BIDIR"}]
  /\ NumStreams \in Nat \ {0}
  /\ Timed \subseteq Tests /\ Omits \subseteq Tests

VARIABLES
  test,     \* struct iperf_test and the position of the thread that runs it
  net,      \* the control connection of each test
  backlog   \* connection requests the server has not accepted, in order

cvars == <<test, net, backlog>>

States == {"NONE", "IPERF_START", "TEST_START", "TEST_RUNNING", "TEST_END",
           "PARAM_EXCHANGE", "CREATE_STREAMS", "SERVER_TERMINATE", "EXCHANGE_RESULTS",
           "DISPLAY_RESULTS", "IPERF_DONE", "ACCESS_DENIED", "SERVER_ERROR",
           "CLIENT_TERMINATE"}

\* The states whose number is positive: the others make iperf_client_end skip
\* its farewell.
Positive == States \ {"NONE", "ACCESS_DENIED", "SERVER_ERROR"}

\* What travels on the control connection: states of one byte, the cookie and
\* the two JSON bodies.
Messages == States \cup {"COOKIE", "PARAMS", "RESULTS"}

TestType ==
  [pc      : {"idle", "dial", "cookie", "top", "select", "read", "dispatch", "streams",
              "results", "end", "check", "run", "join", "sendend", "joinrcv", "fail",
              "ret"},
   state   : Messages,                             \* test->state
   done    : BOOLEAN,                              \* test->done
   ctrl    : {"none", "open", "shut", "closed"},   \* ctrl_sck: -1, open, after shutdown,
                                                   \* a number that is closed already
   streams : Seq({"snd", "rcv"}),                  \* directions of the streams created
   live    : SUBSET {"snd", "rcv"},                \* directions whose threads execute
   startup : BOOLEAN,                              \* no stream thread was created yet
   armed   : BOOLEAN,                              \* create_client_timers was called
   omitting : BOOLEAN,                             \* test->omitting
   left    : SUBSET {"snd", "rcv"},                \* directions with a thread that could
                                                   \* not be joined (sp->done is set)
   result  : {"none", "ok", "fail"}]               \* what iperf_run_client returned

NetType ==
  [peer  : {"none", "open", "closed"},  \* the server's end, as TCP lets the client see it
   toCli : Seq(Messages),               \* what the client has not read yet
   toSrv : Seq(Messages),               \* what the server has not read yet
   cut   : BOOLEAN]                     \* the network carries nothing any more

ClientTypeOK ==
  /\ test    \in [Tests -> TestType]
  /\ net     \in [Tests -> NetType]
  /\ backlog \in Seq([test : Tests, kind : {"ctrl", "data"}])

NewTest == [pc |-> "idle", state |-> "NONE", done |-> FALSE, ctrl |-> "none",
            streams |-> <<>>, live |-> {}, startup |-> TRUE, armed |-> FALSE,
            omitting |-> FALSE, left |-> {}, result |-> "none"]

ClientInit ==
  /\ test = [t \in Tests |-> NewTest]
  /\ net = [t \in Tests |-> [peer |-> "none", toCli |-> <<>>, toSrv |-> <<>>,
                             cut |-> FALSE]]
  /\ backlog = <<>>

-----------------------------------------------------------------------------
(* Helpers *)

At(t, label) == test[t].pc = label
Jump(t, label) == test' = [test EXCEPT ![t].pc = label]

\* A write on the control socket: it fails after a shutdown, goes through while
\* the peer is there, and does either once the peer has closed.
WriteFails(t) == test[t].ctrl # "open" \/ net[t].peer # "open"
WriteWorks(t) == test[t].ctrl = "open"
Written(t, m) ==
  net' = [net EXCEPT ![t].toSrv =
                       IF net[t].peer = "open" /\ ~net[t].cut THEN Append(@, m) ELSE @]

\* A step that writes (m) and goes on at (label), or fails and goes to the error exit.
WriteThen(t, m, label) ==
  \/ WriteWorks(t) /\ Written(t, m) /\ Jump(t, label)
  \/ WriteFails(t) /\ UNCHANGED net /\ Jump(t, "fail")

\* Mutant of AtEof: a socket that is shut down or closed is never readable.
NeverAtEof(t) == FALSE

\* The control socket is readable: something to read, or end of file.
AtEof(t) == net[t].toCli = <<>> /\ (test[t].ctrl # "open" \/ net[t].peer = "closed")
Readable(t) == net[t].toCli # <<>> \/ AtEof(t)

\* Mutant of Directions: with --bidir the receiving streams come first.
ReceivingFirst(t) ==
  [i \in 1 .. (IF Mode[t] = "BIDIR" THEN 2 * NumStreams ELSE NumStreams) |->
     IF Mode[t] = "SENDER" \/ i > NumStreams THEN "snd" ELSE "rcv"]

\* The stream directions of a mode, in the order iperf_handle_message_client
\* creates them: with --bidir the sending streams come first.
Directions(t) ==
  LET Of(d) == [i \in 1 .. NumStreams |-> d]
  IN  CASE Mode[t] = "SENDER"   -> Of("snd")
        [] Mode[t] = "RECEIVER" -> Of("rcv")
        [] Mode[t] = "BIDIR"    -> Of("snd") \o Of("rcv")

-----------------------------------------------------------------------------
(* Connecting *)

\* iperf_run_client is entered.
RunClient(t) == At(t, "idle") /\ Jump(t, "dial") /\ UNCHANGED <<net, backlog>>

\* netdial succeeds: the connection waits in the server's backlog.
ConnectOk(t) ==
  /\ At(t, "dial")
  /\ test' = [test EXCEPT ![t].ctrl = "open", ![t].pc = "cookie"]
  /\ net' = [net EXCEPT ![t].peer = "open"]
  /\ backlog' = Append(backlog, [test |-> t, kind |-> "ctrl"])

\* netdial fails or times out: the control socket stays -1.
ConnectFails(t) == At(t, "dial") /\ Jump(t, "fail") /\ UNCHANGED <<net, backlog>>

\* An option of the control socket cannot be set.
SetupControlFails(t) == At(t, "cookie") /\ Jump(t, "fail") /\ UNCHANGED <<net, backlog>>

SendCookie(t) == At(t, "cookie") /\ WriteThen(t, "COOKIE", "top") /\ UNCHANGED backlog

-----------------------------------------------------------------------------
(* The select loop *)

\* while (test->state != IPERF_DONE)
LoopTop(t) ==
  /\ At(t, "top")
  /\ Jump(t, IF test[t].state = "IPERF_DONE" THEN "joinrcv" ELSE "select")
  /\ UNCHANGED <<net, backlog>>

\* select returns with the control socket readable.
SelectReadable(t) ==
  At(t, "select") /\ Readable(t) /\ Jump(t, "read") /\ UNCHANGED <<net, backlog>>

\* select fails with another error than EINTR.
SelectFails(t) == At(t, "select") /\ Jump(t, "fail") /\ UNCHANGED <<net, backlog>>

\* select returns 0 because a timer is due.  Before TEST_START there is none, and
\* select waits for the server as long as it takes.
SelectTimeout(t) ==
  /\ At(t, "select") /\ test[t].armed /\ ~Readable(t)
  /\ Jump(t, "check")
  /\ UNCHANGED <<net, backlog>>

\* select returns 0 and no block arrived for the receive timeout (IENOMSG).
ReceiveTimeout(t) ==
  /\ At(t, "select") /\ test[t].state = "TEST_RUNNING" /\ ~Readable(t)
  /\ Mode[t] # "SENDER"
  /\ Jump(t, "fail")
  /\ UNCHANGED <<net, backlog>>

\* Mutant of ReadState: at end of file the state is overwritten too.
ReadStateStoresEof(t) ==
  /\ At(t, "read") /\ AtEof(t)
  /\ test' = [test EXCEPT ![t].state = "EOF", ![t].pc = "fail"]
  /\ UNCHANGED <<net, backlog>>

\* read() of one byte straight into test->state; end of file leaves it alone.
ReadState(t) ==
  /\ At(t, "read")
  /\ \/ /\ net[t].toCli # <<>>
        /\ test' = [test EXCEPT ![t].state = Head(net[t].toCli), ![t].pc = "dispatch"]
        /\ net' = [net EXCEPT ![t].toCli = Tail(@)]
     \/ AtEof(t) /\ Jump(t, "fail") /\ UNCHANGED net
  /\ UNCHANGED backlog

\* if (test->state == TEST_RUNNING)
CheckRunning(t) ==
  /\ At(t, "check")
  /\ Jump(t, IF test[t].state = "TEST_RUNNING" THEN "run" ELSE "top")
  /\ UNCHANGED <<net, backlog>>

-----------------------------------------------------------------------------
(* switch (test->state): the state is read again, after the byte was stored *)

Received(t, state) == At(t, "dispatch") /\ test[t].state = state

HandleParamExchange(t) ==
  Received(t, "PARAM_EXCHANGE") /\ WriteThen(t, "PARAMS", "check") /\ UNCHANGED backlog

\* create_client_timers clears test->done when the test has a duration.
HandleTestStart(t) ==
  /\ Received(t, "TEST_START")
  /\ test' = [test EXCEPT ![t].done = @ /\ t \notin Timed, ![t].armed = TRUE,
                          ![t].omitting = t \in Omits, ![t].pc = "check"]
  /\ UNCHANGED <<net, backlog>>

\* iperf_init_test or a timer fails, before done is cleared or after it.
TimersFail(t) ==
  /\ Received(t, "TEST_START")
  /\ \E cleared \in BOOLEAN :
       test' = [test EXCEPT ![t].done = @ /\ ~(cleared /\ t \in Timed), ![t].pc = "fail"]
  /\ UNCHANGED <<net, backlog>>

\* Mutant of HandleExchangeResults: the server's results are not awaited.
SendResultsOnly(t) ==
  Received(t, "EXCHANGE_RESULTS") /\ WriteThen(t, "RESULTS", "check") /\ UNCHANGED backlog

\* iperf_exchange_results, client side: send, then wait for the server's.
HandleExchangeResults(t) ==
  Received(t, "EXCHANGE_RESULTS") /\ WriteThen(t, "RESULTS", "results") /\ UNCHANGED backlog

\* The states that are handled without touching the connection or the test.
HandleOther(t) ==
  /\ At(t, "dispatch")
  /\ test[t].state \notin {"PARAM_EXCHANGE", "TEST_START", "EXCHANGE_RESULTS"}
  /\ Jump(t, CASE test[t].state = "CREATE_STREAMS" -> "streams"
               [] test[t].state = "DISPLAY_RESULTS" -> "end"
               [] test[t].state \in {"TEST_RUNNING", "IPERF_DONE"} -> "check"
               [] OTHER -> "fail")
  /\ UNCHANGED <<net, backlog>>

\* One turn of iperf_create_streams: connect, then iperf_new_stream.
CreateStream(t) ==
  /\ At(t, "streams")
  /\ Len(test[t].streams) < Len(Directions(t))
  /\ test' = [test EXCEPT ![t].streams = Append(@, Directions(t)[Len(@) + 1])]
  /\ backlog' = Append(backlog, [test |-> t, kind |-> "data"])
  /\ UNCHANGED net

\* Every stream is there, or one could not be connected.
StreamsCreated(t) ==
  /\ At(t, "streams")
  /\ Jump(t, IF Len(test[t].streams) < Len(Directions(t)) THEN "fail" ELSE "check")
  /\ UNCHANGED <<net, backlog>>

\* get_results: the server's results.  Anything else does not parse, and Nread
\* gives up at end of file or when its select times out.
GetResults(t) ==
  /\ At(t, "results")
  /\ IF net[t].toCli = <<>> THEN Jump(t, "fail") /\ UNCHANGED net
     ELSE /\ Jump(t, IF Head(net[t].toCli) = "RESULTS" THEN "check" ELSE "fail")
          /\ net' = [net EXCEPT ![t].toCli = Tail(@)]
  /\ UNCHANGED backlog

-----------------------------------------------------------------------------
(* The running test *)

\* Threads are created the first time; then tmr_run, where test_timer_proc may
\* fire, and the omit timer before it (over), and the test for the end: done, or the
\* bytes or blocks to transfer are (met), but never in the omit period.
Run(t, fired, over, met) ==
  /\ At(t, "run")
  /\ fired => t \in Timed /\ over
  /\ test' = [test EXCEPT
                ![t].live = IF test[t].startup
                            THEN {test[t].streams[i] : i \in DOMAIN test[t].streams}
                            ELSE @,
                ![t].startup = FALSE,
                ![t].done = @ \/ fired,
                ![t].omitting = @ /\ ~over,
                ![t].pc = IF (test[t].omitting => over) /\ (test[t].done \/ fired \/ met)
                          THEN "join" ELSE "top"]
  /\ UNCHANGED <<net, backlog>>

\* A thread cannot be created, when n of them were.
ThreadsFail(t) ==
  /\ At(t, "run") /\ test[t].startup
  /\ \E n \in 0 .. Len(test[t].streams) :
       test' = [test EXCEPT ![t].live = {test[t].streams[i] : i \in 1 .. n},
                            ![t].startup = FALSE, ![t].pc = "fail"]
  /\ UNCHANGED <<net, backlog>>

\* Mutant of JoinSenders: the sender threads are left alone.
LeaveSenders(t) ==
  /\ At(t, "join")
  /\ test' = [test EXCEPT ![t].done = TRUE, ![t].pc = "sendend"]
  /\ UNCHANGED <<net, backlog>>

\* The sender threads are cancelled and joined, and test->done is set.
JoinSenders(t) ==
  /\ At(t, "join")
  /\ test' = [test EXCEPT ![t].live = @ \ {"snd"}, ![t].done = TRUE, ![t].pc = "sendend"]
  /\ UNCHANGED <<net, backlog>>

\* A thread of direction d cannot be cancelled or joined, at the end of the test (the
\* senders) or of the loop (the receivers). It is not tried again.
JoinFails(t, d) ==
  /\ At(t, IF d = "snd" THEN "join" ELSE "joinrcv")
  /\ d \in test[t].live
  /\ test' = [test EXCEPT ![t].left = @ \cup {d}, ![t].pc = "fail"]
  /\ UNCHANGED <<net, backlog>>

\* iperf_set_send_state(test, TEST_END)
SendTestEnd(t) ==
  /\ At(t, "sendend")
  /\ \/ /\ WriteWorks(t) /\ Written(t, "TEST_END")
        /\ test' = [test EXCEPT ![t].state = "TEST_END", ![t].pc = "top"]
     \/ /\ WriteFails(t) /\ UNCHANGED net
        /\ test' = [test EXCEPT ![t].state = "TEST_END", ![t].pc = "fail"]
  /\ UNCHANGED backlog

\* A stream thread leaves its loop: done was set, or a transfer failed.
StreamThreadExits(t, d) ==
  /\ d \in test[t].live
  /\ test' = [test EXCEPT ![t].live = @ \ {d}]
  /\ UNCHANGED <<net, backlog>>

-----------------------------------------------------------------------------
(* The end of the call *)

\* iperf_client_end, in a step that also leaves the threads (live), the result and
\* the label given.  The farewell is sent unless the server had refused; if it
\* cannot be written (lost) the function returns before it closes the socket.
\* Closing discards what was not read.
IperfClientEnd(t, live, result, label) ==
  LET farewell == test[t].state \in Positive /\ test[t].ctrl # "none"
      arrives  == farewell /\ net[t].peer = "open" /\ ~net[t].cut
  IN  \E lost \in BOOLEAN :
        /\ lost => farewell /\ WriteFails(t)
        /\ ~lost => ~farewell \/ WriteWorks(t)
        /\ test' = [test EXCEPT ![t].state = IF farewell THEN "IPERF_DONE" ELSE @,
                                ![t].ctrl = IF lost \/ @ = "none" THEN @ ELSE "closed",
                                ![t].live = live, ![t].result = result, ![t].pc = label]
        /\ net' = IF lost THEN net
                  ELSE [net EXCEPT ![t].toCli = <<>>,
                                   ![t].toSrv = IF arrives THEN Append(@, "IPERF_DONE")
                                                ELSE @]
        /\ UNCHANGED backlog

\* DISPLAY_RESULTS: on_test_finish and iperf_client_end, whose result is ignored.
DisplayResults(t) ==
  At(t, "end") /\ IperfClientEnd(t, test[t].live, test[t].result, "check")

\* The loop is over: only receiver threads are cancelled and joined here.
LoopExit(t) ==
  /\ At(t, "joinrcv")
  /\ test' = [test EXCEPT ![t].live = @ \ {"rcv"}, ![t].result = "ok", ![t].pc = "ret"]
  /\ UNCHANGED <<net, backlog>>

\* Mutants of CleanupAndFail: the threads are not joined; the error is not
\* returned.
FailWithThreads(t) == At(t, "fail") /\ IperfClientEnd(t, test[t].live, "fail", "ret")
FailSilently(t) ==
  At(t, "fail") /\ IperfClientEnd(t, test[t].live \cap test[t].left, "ok", "ret")

\* cleanup_and_fail: every thread is joined that was not tried before, then
\* iperf_client_end.
CleanupAndFail(t) ==
  At(t, "fail") /\ IperfClientEnd(t, test[t].live \cap test[t].left, "fail", "ret")

\* iperf_got_sigend: a client that is a process of its own is interrupted. It tells
\* the server, if it can, and exits.
Interrupted(t) ==
  /\ test[t].pc \notin {"idle", "ret"}
  /\ test' = [test EXCEPT ![t].state = "CLIENT_TERMINATE", ![t].done = TRUE,
                          ![t].ctrl = IF @ = "none" THEN @ ELSE "closed",
                          ![t].live = {}, ![t].result = "fail", ![t].pc = "ret"]
  /\ \E told \in BOOLEAN :
       /\ told => WriteWorks(t)
       /\ ~told => WriteFails(t)
       /\ net' = [net EXCEPT ![t].toCli = <<>>,
                             ![t].toSrv = IF told /\ net[t].peer = "open" /\ ~net[t].cut
                                          THEN Append(@, "CLIENT_TERMINATE") ELSE @]
  /\ UNCHANGED backlog

-----------------------------------------------------------------------------
(* What forceStopIperfTest does to the test, from another thread *)

\* test->done = 1
MarkDone(t) == test' = [test EXCEPT ![t].done = TRUE] /\ UNCHANGED <<net, backlog>>

\* iperf_set_send_state(test, IPERF_DONE): nothing at all while the socket is -1;
\* a failed write is ignored.
SendDone(t) ==
  /\ IF test[t].ctrl = "none" THEN UNCHANGED <<test, net>>
     ELSE /\ test' = [test EXCEPT ![t].state = "IPERF_DONE"]
          /\ \/ WriteWorks(t) /\ Written(t, "IPERF_DONE")
             \/ WriteFails(t) /\ UNCHANGED net
  /\ UNCHANGED backlog

\* Mutant of ShutControl: no shutdown.
NoShutdown(t) == UNCHANGED cvars

\* shutdown(test->ctrl_sck, SHUT_RDWR)
ShutControl(t) ==
  /\ test' = [test EXCEPT ![t].ctrl = IF @ = "open" THEN "shut" ELSE @]
  /\ UNCHANGED <<net, backlog>>

-----------------------------------------------------------------------------
(* The network is lost: what was on its way in either direction never arrives, *)
(* and neither end learns what the other does.                                 *)

NetworkLost(t) ==
  /\ ~net[t].cut /\ net[t].peer = "open"
  /\ \E i \in 0 .. Len(net[t].toCli), j \in 0 .. Len(net[t].toSrv) :
       net' = [net EXCEPT ![t].cut = TRUE, ![t].toCli = SubSeq(@, 1, i),
                          ![t].toSrv = SubSeq(@, 1, j)]
  /\ UNCHANGED <<test, backlog>>

-----------------------------------------------------------------------------
(* What the client thread does on its own.  RunClient, ConnectOk, CreateStream *)
(* and Run are left to the composing module, which knows when a connection can *)
(* be made and when a transfer is over.                                        *)

ClientStep(t) ==
  \/ ConnectFails(t)
  \/ SendCookie(t)
  \/ LoopTop(t)
  \/ SelectReadable(t)
  \/ SelectTimeout(t)
  \/ ReceiveTimeout(t)
  \/ ReadState(t)
  \/ CheckRunning(t)
  \/ HandleParamExchange(t)
  \/ HandleTestStart(t)
  \/ HandleExchangeResults(t)
  \/ HandleOther(t)
  \/ StreamsCreated(t)
  \/ GetResults(t)
  \/ JoinSenders(t)
  \/ SendTestEnd(t)
  \/ DisplayResults(t)
  \/ LoopExit(t)
  \/ CleanupAndFail(t)

\* A call of the system fails that hardly ever does.
ClientFails(t) ==
  \/ SetupControlFails(t) \/ SelectFails(t) \/ TimersFail(t) \/ ThreadsFail(t)
  \/ \E d \in {"snd", "rcv"} : JoinFails(t, d)
=============================================================================
