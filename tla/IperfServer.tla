----------------------------- MODULE IperfServer -----------------------------
(***************************************************************************)
(* iperf_run_server and its handlers (iperf_server_api.c): one thread, one *)
(* test at a time, started again by main after each run.                   *)
(*                                                                         *)
(* Reads of a fixed size (the cookie, the JSON bodies) wait until Nread    *)
(* times out; the wait is a control point of its own.  Timeouts have no    *)
(* clock: one may expire whenever the code waits with it.  The stream      *)
(* threads of the server are left out: nothing here depends on them.       *)
(***************************************************************************)
EXTENDS IperfClient

CONSTANT NoTest

ASSUME ServerAssumption == NoTest \notin Tests

VARIABLE srv    \* the server's struct iperf_test and the position of its thread

svars == <<cvars, srv>>

ServerType ==
  [pc      : {"closed", "select", "cookie", "params", "start", "results", "broken"},
   state   : Messages,
   done    : BOOLEAN,
   ctrl    : Tests \cup {NoTest},       \* whose control connection; NoTest is -1
   rec     : Nat,                       \* rec_streams_accepted
   snd     : Nat,                       \* send_streams_accepted
   streams : Seq({"snd", "rcv"}),       \* directions given to the accepted streams
   timer   : BOOLEAN]                   \* test->timer runs

ServerTypeOK == ClientTypeOK /\ srv \in ServerType

IdleServer == [pc |-> "closed", state |-> "NONE", done |-> FALSE, ctrl |-> NoTest,
               rec |-> 0, snd |-> 0, streams |-> <<>>, timer |-> FALSE]

-----------------------------------------------------------------------------
(* Helpers *)

\* What the server's streams do for client t: streams_to_rec and streams_to_send.
ToReceive(t) == IF Mode[t] = "RECEIVER" THEN 0 ELSE NumStreams
ToSend(t)    == IF Mode[t] = "SENDER" THEN 0 ELSE NumStreams

\* A write to client t may fail once the client has shut its end.
ServerWriteFails(t) == test[t].ctrl \in {"shut", "closed"}
Deliver(n, t, ms) ==
  [n EXCEPT ![t].toCli = IF test[t].ctrl = "closed" \/ n[t].cut THEN @ ELSE @ \o ms]

FromClient(t) == net[t].toSrv
Gets(t, m) == FromClient(t) # <<>> /\ Head(FromClient(t)) = m
ClientEof(t) == FromClient(t) = <<>> /\ test[t].ctrl \in {"shut", "closed"} /\ ~net[t].cut
Consume(n, t) == [n EXCEPT ![t].toSrv = Tail(@)]

\* The server closes its control connections of the tests in S.  Those (reset)
\* had unread bytes: TCP resets them, and what the client has not read is lost.
Closed(n, S, reset) ==
  [t \in Tests |->
     IF t \notin S THEN n[t]
     ELSE [n[t] EXCEPT !.peer = IF @ = "open" /\ ~n[t].cut THEN "closed" ELSE @,
                       !.toSrv = <<>>,
                       !.toCli = IF t \in reset THEN <<>> ELSE @]]
CloseControl(n, S) ==
  \E reset \in SUBSET {t \in S : n[t].toSrv # <<>>} : net' = Closed(n, S, reset)

\* cleanup_server: threads joined, every socket closed (with the listener go the
\* connections nobody accepted), timers cancelled; the run is over.
Cleanup(n) ==
  /\ srv' = [IdleServer EXCEPT !.state = srv.state]
  /\ CloseControl(n, ({srv.ctrl} \ {NoTest}) \cup {backlog[i].test : i \in
                       {j \in DOMAIN backlog : backlog[j].kind = "ctrl"}})
  /\ backlog' = <<>>
  /\ UNCHANGED test

InLoop == srv.pc = "select" /\ srv.state # "IPERF_DONE"

-----------------------------------------------------------------------------
(* Listening and accepting *)

\* iperf_reset_test, iperf_server_listen and the initialisations before the loop.
ServerListen ==
  /\ srv.pc = "closed"
  /\ srv' = [IdleServer EXCEPT !.pc = "select", !.state = "IPERF_START"]
  /\ UNCHANGED cvars

\* iperf_accept, server free: the cookie is awaited.  The connection may be a
\* stream of a client whose run was cleaned up; then nothing valid follows.
AcceptClient ==
  /\ InLoop /\ srv.state # "CREATE_STREAMS" /\ srv.ctrl = NoTest
  /\ backlog # <<>>
  /\ IF Head(backlog).kind = "ctrl"
     THEN /\ srv' = [srv EXCEPT !.ctrl = Head(backlog).test, !.pc = "cookie"]
          /\ backlog' = Tail(backlog)
          /\ UNCHANGED <<test, net>>
     ELSE Cleanup(net)

\* Mutant of Deny: the refused connection stays open.
DenyWithoutClose(read) == backlog' = Tail(backlog) /\ UNCHANGED <<test, net, srv>>

\* The connection at the head of the backlog is answered ACCESS_DENIED and closed;
\* whether its cookie was read (read) decides if TCP may reset it.
Deny(read) ==
  LET t == Head(backlog).test
      n == IF read THEN [net EXCEPT ![t].toSrv = <<>>] ELSE net
  IN  /\ backlog' = Tail(backlog)
      /\ IF Head(backlog).kind = "ctrl"
         THEN CloseControl(Deliver(n, t, <<"ACCESS_DENIED">>), {t})
         ELSE UNCHANGED net
      /\ UNCHANGED <<test, srv>>

\* iperf_accept, server busy: the cookie is not read.
RefuseClient ==
  /\ InLoop /\ srv.state # "CREATE_STREAMS" /\ srv.ctrl # NoTest
  /\ backlog # <<>>
  /\ Deny(FALSE)

\* The rest of iperf_accept up to the wait for the parameters.
ReadCookie ==
  LET t == srv.ctrl IN
  /\ srv.pc = "cookie"
  /\ \/ /\ Gets(t, "COOKIE")
        /\ net' = Deliver(Consume(net, t), t, <<"PARAM_EXCHANGE">>)
        /\ srv' = [srv EXCEPT !.pc = "params", !.state = "PARAM_EXCHANGE"]
        /\ UNCHANGED <<test, backlog>>
     \/ /\ ~Gets(t, "COOKIE") \/ ServerWriteFails(t)
        /\ Cleanup(net)

\* iperf_exchange_parameters, server side.
GetParameters ==
  LET t == srv.ctrl IN
  /\ srv.pc = "params"
  /\ \/ /\ Gets(t, "PARAMS")
        /\ net' = Deliver(Consume(net, t), t, <<"CREATE_STREAMS">>)
        /\ srv' = [srv EXCEPT !.pc = "select", !.state = "CREATE_STREAMS"]
        /\ UNCHANGED <<test, backlog>>
     \/ /\ Gets(t, "PARAMS")
        /\ Cleanup(Deliver(Consume(net, t), t, <<"SERVER_ERROR">>))  \* protocol->listen fails
     \/ /\ ~Gets(t, "PARAMS") \/ ServerWriteFails(t)
        /\ Cleanup(net)

-----------------------------------------------------------------------------
(* Streams *)

\* protocol->accept in state CREATE_STREAMS: a connection without the client's
\* cookie is denied; the first streams receive, the following ones send.
AcceptStream ==
  LET t == srv.ctrl IN
  /\ InLoop /\ srv.state = "CREATE_STREAMS"
  /\ backlog # <<>>
  /\ IF Head(backlog) = [test |-> t, kind |-> "data"]
     THEN LET rec == srv.rec # ToReceive(t)
              now == [srv EXCEPT !.rec = IF rec THEN @ + 1 ELSE @,
                                 !.snd = IF rec THEN @ ELSE @ + 1,
                                 !.streams = Append(@, IF rec THEN "rcv" ELSE "snd")]
              all == now.rec = ToReceive(t) /\ now.snd = ToSend(t)
          IN  /\ srv' = [now EXCEPT !.pc = IF all THEN "start" ELSE @]
              /\ backlog' = Tail(backlog)
              /\ UNCHANGED <<test, net>>
     ELSE Deny(TRUE)

\* All streams accepted: TEST_START, timers, TEST_RUNNING, threads.
StartTest ==
  LET t == srv.ctrl IN
  /\ srv.pc = "start"
  /\ \/ /\ net' = Deliver(net, t, <<"TEST_START", "TEST_RUNNING">>)
        /\ srv' = [srv EXCEPT !.pc = "select", !.state = "TEST_RUNNING",
                              !.done = @ /\ t \notin Timed,
                              !.timer = t \in Timed]
        /\ UNCHANGED <<test, backlog>>
     \/ ServerWriteFails(t) /\ Cleanup(net)

-----------------------------------------------------------------------------
(* iperf_handle_message_server *)

\* A state from the client.  TEST_END: the streams are closed and the client's
\* results awaited.
HandleTestEnd ==
  LET t == srv.ctrl IN
  /\ InLoop /\ t # NoTest
  /\ Gets(t, "TEST_END")
  /\ \/ /\ net' = Deliver(Consume(net, t), t, <<"EXCHANGE_RESULTS">>)
        /\ srv' = [srv EXCEPT !.pc = "results", !.state = "EXCHANGE_RESULTS",
                              !.done = TRUE]
        /\ UNCHANGED <<test, backlog>>
     \/ ServerWriteFails(t) /\ Cleanup(net)

\* IPERF_DONE, CLIENT_TERMINATE, or the client closed the connection.
HandleDone ==
  LET t == srv.ctrl IN
  /\ InLoop /\ t # NoTest
  /\ \/ /\ Gets(t, "IPERF_DONE") \/ Gets(t, "CLIENT_TERMINATE")
        /\ net' = Consume(net, t)
     \/ ClientEof(t) /\ UNCHANGED net
  /\ srv' = [srv EXCEPT !.state = "IPERF_DONE"]
  /\ UNCHANGED <<test, backlog>>

\* Anything else the client can send is no state (IEMESSAGE).
HandleUnknown ==
  LET t == srv.ctrl IN
  /\ InLoop /\ t # NoTest
  /\ FromClient(t) # <<>> /\ Head(FromClient(t)) \notin
       {"TEST_END", "IPERF_DONE", "TEST_START", "CLIENT_TERMINATE"}
  /\ Cleanup(net)

\* iperf_exchange_results, server side, and DISPLAY_RESULTS after it.
ExchangeResultsServer ==
  LET t == srv.ctrl IN
  /\ srv.pc = "results"
  /\ \/ /\ Gets(t, "RESULTS")
        /\ net' = Deliver(Consume(net, t), t, <<"RESULTS", "DISPLAY_RESULTS">>)
        /\ srv' = [srv EXCEPT !.pc = "select", !.state = "DISPLAY_RESULTS"]
        /\ UNCHANGED <<test, backlog>>
     \/ /\ ~Gets(t, "RESULTS") \/ ServerWriteFails(t)
        /\ Cleanup(net)

\* The loop ends: cleanup_server, and 0 is returned.
ServerFinish ==
  /\ srv.pc = "select" /\ srv.state = "IPERF_DONE"
  /\ Cleanup(net)

-----------------------------------------------------------------------------
(* Timeouts *)

\* server_timer_proc, 40 seconds after the test should have ended: the streams
\* are freed, their threads left alone, and the control socket closed under the
\* select set.  The timer leaves a test alone that is done.
ServerTimer ==
  LET t == srv.ctrl IN
  /\ InLoop /\ srv.timer
  /\ IF srv.done
     THEN srv' = [srv EXCEPT !.timer = FALSE] /\ UNCHANGED cvars
     ELSE /\ srv' = [srv EXCEPT !.timer = FALSE, !.done = TRUE, !.streams = <<>>,
                                !.ctrl = NoTest, !.pc = "broken"]
          /\ CloseControl(net, {t})
          /\ UNCHANGED <<test, backlog>>

\* select then fails on the closed descriptor.
ServerSelectFails == srv.pc = "broken" /\ Cleanup(net)

\* Mutant of NoMessageTimeout: the server only looks after tests it only receives in.
TimeoutUnlessSending ==
  /\ InLoop /\ srv.ctrl # NoTest
  /\ Mode[srv.ctrl] = "SENDER"
  /\ Cleanup(net)

\* Nothing was received for the receive timeout, in a test where the server
\* receives (IENOMSG).
NoMessageTimeout ==
  /\ InLoop /\ srv.ctrl # NoTest
  /\ Mode[srv.ctrl] # "RECEIVER"
  /\ Cleanup(net)

-----------------------------------------------------------------------------
ServerStep ==
  \/ ServerListen
  \/ AcceptClient
  \/ RefuseClient
  \/ ReadCookie
  \/ GetParameters
  \/ AcceptStream
  \/ StartTest
  \/ HandleTestEnd
  \/ HandleDone
  \/ HandleUnknown
  \/ ExchangeResultsServer
  \/ ServerFinish
  \/ ServerTimer
  \/ ServerSelectFails
  \/ NoMessageTimeout

\* What a client was told when its test could not be started.
Told == {<<>>, <<"TEST_START">>, <<"TEST_START", "TEST_RUNNING">>}

\* A call of the system fails that hardly ever does: select, accept, a socket option,
\* a new stream; or the listener that is opened again, the rate asked for, a timer or
\* a thread, when the test was about to start.
ServerFails ==
  \/ InLoop /\ Cleanup(net)
  \/ srv.pc = "start" /\ \E told \in Told : Cleanup(Deliver(net, srv.ctrl, told))
=============================================================================
