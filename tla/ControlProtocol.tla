--------------------------- MODULE ControlProtocol ---------------------------
(***************************************************************************)
(* Clients of iperf_client_api.c against one server of iperf_server_api.c: *)
(* clients that come while another is served, users who stop a client at   *)
(* any moment, processes that are interrupted, connections that break at   *)
(* either end, a network that is lost.                                     *)
(***************************************************************************)
EXTENDS IperfServer

CONSTANTS
  MayStop,    \* bound: the tests somebody may stop
  MayCut,     \* bound: the tests whose network connection may be lost
  MayInterrupt,  \* the clients that are processes of their own and may be interrupted
  MayFail     \* bound: the tests (or none) during which a call of the system may fail

ASSUME ProtocolAssumption ==
  /\ MayStop \subseteq Tests /\ MayCut \subseteq Tests /\ MayFail \subseteq Tests \cup {NoTest}
  /\ MayInterrupt \subseteq Tests \ MayStop

VARIABLES
  stopping,    \* per test, the next step of a forceStopIperfTest under way
  stopped,     \* the tests forceStopIperfTest found running
  exchanged    \* the tests whose results the server received and answered

vars == <<test, net, backlog, srv, stopping, stopped, exchanged>>

hvars == <<stopping, stopped, exchanged>>

TypeOK ==
  /\ ServerTypeOK
  /\ stopping \in [Tests -> {"no", "send", "shut"}]
  /\ stopped \subseteq Tests
  /\ exchanged \subseteq Tests

Init ==
  /\ ClientInit
  /\ srv = IdleServer
  /\ stopping = [t \in Tests |-> "no"]
  /\ stopped = {}
  /\ exchanged = {}

-----------------------------------------------------------------------------
Listening == srv.pc # "closed"

Client(t) == ClientStep(t) /\ UNCHANGED <<srv, hvars>>

Start(t) == RunClient(t) /\ UNCHANGED <<srv, hvars>>

Connect(t) == Listening /\ ConnectOk(t) /\ UNCHANGED <<srv, hvars>>

ConnectStream(t) ==
  Listening /\ ~net[t].cut /\ CreateStream(t) /\ UNCHANGED <<srv, hvars>>

\* A pass through tmr_run and the test for the end, with the timer due or not;
\* a test without a duration ends when its bytes or blocks are transferred.
Pass(t) ==
  /\ \E met, over \in BOOLEAN : (met => t \notin Timed) /\ Run(t, FALSE, over, met)
  /\ UNCHANGED <<srv, hvars>>
TimeUp(t) == Run(t, TRUE, TRUE, FALSE) /\ UNCHANGED <<srv, hvars>>

CallFails(t) == t \in MayFail /\ ClientFails(t) /\ UNCHANGED <<srv, hvars>>
Interrupt(t) == t \in MayInterrupt /\ Interrupted(t) /\ UNCHANGED <<srv, hvars>>

ThreadExits ==
  /\ \E t \in Tests, d \in {"snd", "rcv"} : StreamThreadExits(t, d)
  /\ UNCHANGED <<srv, hvars>>

Server ==
  /\ ServerStep
  /\ exchanged' = IF srv.pc = "results" /\ srv'.pc = "select"
                  THEN exchanged \cup {srv.ctrl} ELSE exchanged
  /\ UNCHANGED <<stopping, stopped>>

ServerCallFails == srv.ctrl \in MayFail /\ ServerFails /\ UNCHANGED hvars

\* forceStopIperfTest, one statement at a time, while the test is not done.
StopBegins(t) ==
  /\ t \in MayStop /\ stopping[t] = "no" /\ ~test[t].done /\ ~At(t, "ret")
  /\ MarkDone(t)
  /\ stopping' = [stopping EXCEPT ![t] = "send"]
  /\ stopped' = stopped \cup {t}
  /\ UNCHANGED <<srv, exchanged>>
StopSends(t) ==
  /\ stopping[t] = "send"
  /\ SendDone(t)
  /\ stopping' = [stopping EXCEPT ![t] = "shut"]
  /\ UNCHANGED <<srv, stopped, exchanged>>
StopShuts(t) ==
  /\ stopping[t] = "shut"
  /\ ShutControl(t)
  /\ stopping' = [stopping EXCEPT ![t] = "no"]
  /\ UNCHANGED <<srv, stopped, exchanged>>

Cut(t) == t \in MayCut /\ NetworkLost(t) /\ UNCHANGED <<srv, hvars>>

Next ==
  \/ \E t \in Tests : Start(t) \/ Client(t) \/ Connect(t) \/ ConnectStream(t)
                      \/ Pass(t) \/ TimeUp(t) \/ CallFails(t) \/ Interrupt(t)
  \/ \E t \in Tests : StopBegins(t) \/ StopSends(t) \/ StopShuts(t) \/ Cut(t)
  \/ ThreadExits
  \/ Server
  \/ ServerCallFails

\* Threads that can go on do, and a timer that is due fires the next time, or one
\* of the next times, tmr_run is called.
Fairness ==
  /\ WF_vars(Server)
  /\ \A t \in Tests :
       /\ WF_vars(Client(t)) /\ WF_vars(Connect(t)) /\ WF_vars(ConnectStream(t))
       /\ WF_vars(Pass(t)) /\ SF_vars(TimeUp(t))
       /\ WF_vars(StopSends(t)) /\ WF_vars(StopShuts(t))

Spec == Init /\ [][Next]_vars
FairSpec == Spec /\ Fairness

-----------------------------------------------------------------------------
(* Properties *)

\* While the server runs a test, each stream it accepted does the opposite of the
\* client's stream with the same number: one end sends what the other receives,
\* and no stream is missing.  Roles are never sent: the client derives them from
\* the order in which it connects, the server from the order in which it accepts.
StreamRolesComplementary ==
  LET t == srv.ctrl IN
  (srv.state = "TEST_RUNNING" /\ srv.pc = "select" /\ t # NoTest) =>
    /\ Len(srv.streams) = Len(test[t].streams)
    /\ \A i \in DOMAIN srv.streams : srv.streams[i] # test[t].streams[i]

\* A client never takes a JSON body or a part of it for a state, whatever a stop
\* writes in between (ReadState reads one byte straight into test->state).
NoDesync == \A t \in Tests : test[t].state \in States

\* Nobody but the client being served has been let past the cookie: every other
\* open connection still waits in the backlog.
OneClientAtATime ==
  \A t \in Tests : net[t].peer = "open" /\ ~net[t].cut =>
    srv.ctrl = t \/ \E i \in DOMAIN backlog : backlog[i] = [test |-> t, kind |-> "ctrl"]

\* A client that sent TEST_END has joined its sender threads: what it reports as
\* sent cannot grow while the results are exchanged.
NoSenderAfterTestEnd ==
  \A t \in Tests :
    test[t].state \in {"TEST_END", "EXCHANGE_RESULTS", "DISPLAY_RESULTS"} =>
      "snd" \notin test[t].live

\* The protocol implements TestSession.
Session == INSTANCE TestSession WITH
  holder <- srv.ctrl,
  outcome <- [t \in Tests |-> test[t].result]
SessionSpec == Session!Spec

\* Every call of iperf_run_client that begins returns, however the server, the stops
\* and the errors fall, unless the network is lost.
ClientReturns == \A t \in Tests : At(t, "dial") ~> At(t, "ret") \/ net[t].cut

\* The server becomes free again after every client.  iperf_server_api.c:640: "If
\* nothing was received during the specified time (per state) then probably something
\* got stuck either at the client, server or network, and test should be forced to
\* end."
ServerFreesUp == \A t \in Tests : srv.ctrl = t ~> srv.ctrl = NoTest

\* A stop that finds the control connection made ends the call, even when the
\* network is lost and although the client may overwrite the state that the stop
\* wrote with one it was just reading.
StopEndsCall ==
  \A t \in Tests : stopping[t] = "shut" /\ test[t].ctrl # "none" ~> At(t, "ret")
=============================================================================
