----------------------- MODULE ControlProtocol_proofs -----------------------
(***************************************************************************)
(* The safety properties of the control protocol, for any tests, modes and *)
(* numbers of streams, any stops and any loss of the network, and that the *)
(* protocol implements TestSession.                                        *)
(*                                                                         *)
(* The inductive invariant has a part per promise: EndedOnceSaid for       *)
(* NoSenderAfterTestEnd, ResultsAwaited for NoDesync, Admitted for         *)
(* OneClientAtATime, Accepting and StreamsInOrder for                      *)
(* StreamRolesComplementary, Success and NoFarewell for TestSession.       *)
(***************************************************************************)
EXTENDS ControlProtocol, IperfServer_proofs, FiniteSetTheorems

\* The positions of connection c in a backlog, and how many data connections of t
\* wait in it.
Places(b, c) == {i \in DOMAIN b : b[i] = c}
Waiting(b, t) == Cardinality(Places(b, [test |-> t, kind |-> "data"]))

\* A result is returned at the end only, and a client that comes to the regular end
\* has exchanged results or was stopped.
Success(t) ==
  /\ test[t].pc # "ret" => test[t].result = "none"
  /\ stopping[t] # "no" => t \in stopped
  /\ "DISPLAY_RESULTS" \in Queued(net[t].toCli) => t \in exchanged
  /\ \/ test[t].pc # "ret" /\ test[t].state \in {"IPERF_DONE", "DISPLAY_RESULTS"}
     \/ test[t].pc \in {"end", "joinrcv"}
     => t \in exchanged \cup stopped

\* The streams the server has accepted: those that receive first, never more than the
\* client asks for, and all of them once the test runs.
Accepting ==
  LET t == srv.ctrl IN
  /\ srv.pc # "broken" =>
       /\ Len(srv.streams) = srv.rec + srv.snd
       /\ \A i \in DOMAIN srv.streams : srv.streams[i] = IF i <= srv.rec THEN "rcv" ELSE "snd"
  /\ srv.pc \in {"closed", "cookie", "params"} \/ (srv.pc = "select" /\ t = NoTest) =>
       srv.rec = 0 /\ srv.snd = 0
  /\ srv.pc # "broken" /\ t # NoTest =>
       /\ srv.rec <= ToReceive(t) /\ srv.snd <= ToSend(t)
       /\ srv.snd > 0 => srv.rec = ToReceive(t)
  /\ srv.pc = "start" \/ (srv.pc = "select" /\ t # NoTest /\ srv.state = "TEST_RUNNING") =>
       srv.rec = ToReceive(t) /\ srv.snd = ToSend(t)
  /\ srv.pc = "select" /\ srv.state = "CREATE_STREAMS" =>
       ~(srv.rec = ToReceive(t) /\ srv.snd = ToSend(t))

\* The client creates its streams in the order of its mode; each that the server has
\* accepted, or has yet to accept, is one of them.
StreamsInOrder(t) ==
  /\ Len(test[t].streams) <= Len(Directions(t))
  /\ \A i \in DOMAIN test[t].streams : test[t].streams[i] = Directions(t)[i]
  /\ (IF srv.ctrl = t THEN srv.rec + srv.snd ELSE 0) + Waiting(backlog, t) <= Len(test[t].streams)

\* What holds of each client.
OfClient(t) ==
  /\ EndedOnceSaid(t) /\ ResultsAwaited(t) /\ NoFarewell(t) /\ Admitted(t)
  /\ Success(t) /\ StreamsInOrder(t)

\* The inductive invariant.
IInv == TypeOK /\ Serving /\ Accepting /\ \A t \in Tests : OfClient(t)

-----------------------------------------------------------------------------
(* The step of the composition is an event of one client, or of the server. *)

\* What an event of client t may do besides changing its test and connection: it
\* leaves the server alone, and only who is told to stop is told that it is done.
Besides(t) ==
  /\ UNCHANGED <<srv, exchanged>>
  /\ \/ stopped' = stopped
     \/ stopped' = stopped \cup {t} /\ test'[t].result = test[t].result
  /\ stopping' \in [Tests -> {"no", "send", "shut"}]
  /\ \A u \in Tests : stopping'[u] # "no" => stopping[u] # "no" \/ u \in stopped'
  /\ SaysDone(t) \/ stopping[t] = "send"

\* What the server does: its own step, or one in which a call fails.
ServerTurns ==
  /\ ServerEvent
  /\ exchanged' = IF srv.pc = "results" /\ srv'.pc = "select"
                  THEN exchanged \cup {srv.ctrl} ELSE exchanged
  /\ UNCHANGED <<stopping, stopped>>

\* A failure of the server ends its run: no results are exchanged.
LEMMA ServerFailsEnds ==
  ASSUME ServerFails
  PROVE  srv'.pc = "closed" /\ \E n : Cleanup(n)
  BY DEF ServerFails, Cleanup, IdleServer

\* A step of the composition is an event of one client, or a step of the server.
LEMMA NextSplit ==
  ASSUME TypeOK, Next
  PROVE  (\E t \in Tests : ClientEvent(t) /\ Besides(t)) \/ ServerTurns
<1>0. /\ ClientTypeOK /\ stopping \in [Tests -> {"no", "send", "shut"}]
      /\ stopped \subseteq Tests
  BY DEF TypeOK, ServerTypeOK
<1>1. ASSUME NEW t \in Tests, OwnEvent(t), UNCHANGED <<srv, hvars>>
      PROVE  ClientEvent(t) /\ Besides(t)
  BY <1>0, <1>1, OwnEventDone DEF Besides, hvars
<1>3. ASSUME NEW t \in Tests, Start(t) \/ Client(t) \/ Connect(t) \/ ConnectStream(t) \/ Cut(t)
      PROVE  ClientEvent(t) /\ Besides(t)
  BY <1>1, <1>3 DEF Start, Client, Connect, ConnectStream, Cut, OwnEvent
<1>4. ASSUME NEW t \in Tests, CallFails(t) \/ Interrupt(t)
      PROVE  ClientEvent(t) /\ Besides(t)
  BY <1>1, <1>4 DEF CallFails, Interrupt, OwnEvent
<1>5. ASSUME NEW t \in Tests, Pass(t) \/ TimeUp(t)
      PROVE  ClientEvent(t) /\ Besides(t)
  <2>1. UNCHANGED <<srv, hvars>> /\ \E fired, over, met \in BOOLEAN : Run(t, fired, over, met)
    BY <1>5 DEF Pass, TimeUp
  <2> QED BY <1>1, <2>1 DEF OwnEvent
<1>6. ASSUME ThreadExits PROVE \E t \in Tests : ClientEvent(t) /\ Besides(t)
  BY <1>1, <1>6 DEF ThreadExits, OwnEvent
<1>7. ASSUME NEW t \in Tests, StopBegins(t) PROVE ClientEvent(t) /\ Besides(t)
  <2>1. MarkDone(t) /\ OwnEvent(t)
    BY <1>7 DEF StopBegins, OwnEvent
  <2>2. test'[t].result = test[t].result
    BY <1>0, <2>1 DEF MarkDone, ClientTypeOK, TestType
  <2> QED BY <1>0, <1>7, <2>1, <2>2, OwnEventDone DEF StopBegins, Besides
<1>8. ASSUME NEW t \in Tests, StopSends(t) PROVE ClientEvent(t) /\ Besides(t)
  BY <1>0, <1>8 DEF StopSends, ClientEvent, Besides
<1>9. ASSUME NEW t \in Tests, StopShuts(t) PROVE ClientEvent(t) /\ Besides(t)
  <2>1. ShutControl(t) /\ OwnEvent(t)
    BY <1>9 DEF StopShuts, OwnEvent
  <2> QED BY <1>0, <1>9, <2>1, OwnEventDone DEF StopShuts, Besides
<1>10. ASSUME Server \/ ServerCallFails PROVE ServerTurns
  <2>1. CASE Server
    BY <2>1 DEF Server, ServerTurns, ServerEvent
  <2>2. CASE ServerCallFails
    BY <2>2, ServerFailsEnds DEF ServerCallFails, ServerTurns, ServerEvent, hvars
  <2> QED BY <1>10, <2>1, <2>2
<1> QED BY <1>3, <1>4, <1>5, <1>6, <1>7, <1>8, <1>9, <1>10 DEF Next

-----------------------------------------------------------------------------
(* Success: who has come to the end has exchanged results, or was stopped. *)

\* A client event keeps Success: the regular end is reached over DISPLAY_RESULTS or
\* after a stop.
LEMMA ClientEventSuccess ==
  ASSUME ClientTypeOK, NEW t \in Tests, ClientEvent(t), Besides(t), Success(t), NoFarewell(t)
  PROVE  Success(t)'
<1>1. ClientTurn(t) /\ Queued(net'[t].toCli) \subseteq Queued(net[t].toCli)
  BY ClientEventTurn, ClientEventQueues, ClientQueued
<1>2. test'[t].pc # "ret" => test'[t].result = "none"
  BY <1>1 DEF ClientTurn, Success
<1>3. stopping'[t] # "no" => t \in stopped'
  BY DEF Besides, Success
<1>4. "DISPLAY_RESULTS" \in Queued(net'[t].toCli) => t \in exchanged'
  BY <1>1 DEF Besides, Success
<1>5. ASSUME test'[t].pc # "ret", test'[t].state \in {"IPERF_DONE", "DISPLAY_RESULTS"}
      PROVE  t \in exchanged \cup stopped
  <2>1. test[t].pc # "ret"
    BY <1>1, <1>5 DEF ClientTurn
  <2>2. CASE test'[t].state = test[t].state \/ test[t].pc = "end" \/ stopping[t] = "send"
    BY <1>5, <2>1, <2>2 DEF Success
  <2>3. CASE /\ test[t].pc = "read" /\ net[t].toCli # <<>>
             /\ test'[t].state = Head(net[t].toCli)
    BY <1>5, <2>3, HeadQueued DEF Success, NoFarewell
  <2>4. CASE test'[t].state = "IPERF_DONE"
    BY <1>5, <2>1, <2>2, <2>4, HeadQueued DEF Besides, SaysDone, Success, NoFarewell
  <2> QED BY <1>1, <1>5, <2>2, <2>3, <2>4 DEF ClientTurn
<1>6. ASSUME test'[t].pc \in {"end", "joinrcv"} PROVE t \in exchanged \cup stopped
  BY <1>1, <1>6 DEF ClientTurn, Success
<1>7. exchanged \cup stopped \subseteq exchanged' \cup stopped'
  BY DEF Besides
<1> QED BY <1>2, <1>3, <1>4, <1>5, <1>6, <1>7 DEF Success

\* A step of the server keeps Success: DISPLAY_RESULTS is said to a client with
\* which results were exchanged.
LEMMA ServerStepSuccess ==
  ASSUME ServerTypeOK, ServerTurns, ServerFrame, NEW u \in Tests, Success(u)
  PROVE  Success(u)'
<1>1. ServerQueues(u) /\ test' = test /\ ServerTurn /\ UNCHANGED <<stopping, stopped>>
      /\ exchanged \subseteq exchanged'
  BY DEF ServerFrame, ServerTurns
<1>2. Queued(net'[u].toCli) \subseteq Queued(net[u].toCli) \cup News(u)
  BY <1>1, ServerQueued
<1>3. "DISPLAY_RESULTS" \in News(u) => u \in exchanged'
  BY DEF News, ServerTurns
<1> QED BY <1>1, <1>2, <1>3 DEF Success

-----------------------------------------------------------------------------
(* Accepting streams *)

\* The server expects as many streams as the client creates, and receives on those
\* on which the client sends.
LEMMA StreamCounts ==
  ASSUME NEW t \in Tests
  PROVE  /\ ToReceive(t) \in Nat /\ ToSend(t) \in Nat
         /\ ToReceive(t) + ToSend(t) = Len(Directions(t))
         /\ ToReceive(t) + ToSend(t) > 0
         /\ \A i \in 1 .. Len(Directions(t)) :
              Directions(t)[i] = IF i <= ToReceive(t) THEN "snd" ELSE "rcv"
<1>1. NumStreams \in Nat /\ NumStreams > 0 /\ Mode[t] \in {"SENDER", "RECEIVER", "BIDIR"}
  BY ClientAssumption
<1>2. CASE Mode[t] = "SENDER"
  BY <1>1, <1>2 DEF ToReceive, ToSend, Directions
<1>3. CASE Mode[t] = "RECEIVER"
  BY <1>1, <1>3 DEF ToReceive, ToSend, Directions
<1>4. CASE Mode[t] = "BIDIR"
  <2> DEFINE s == [i \in 1 .. NumStreams |-> "snd"]
             r == [i \in 1 .. NumStreams |-> "rcv"]
  <2>1. Directions(t) = s \o r
    BY <1>4 DEF Directions
  <2>2. s \in Seq({"snd", "rcv"}) /\ r \in Seq({"snd", "rcv"})
        /\ Len(s) = NumStreams /\ Len(r) = NumStreams
    BY <1>1
  <2>3. Len(s \o r) = NumStreams + NumStreams
        /\ \A i \in 1 .. Len(s \o r) :
             (s \o r)[i] = IF i <= NumStreams THEN s[i] ELSE r[i - NumStreams]
    BY <1>1, <2>2
  <2> QED BY <1>1, <1>4, <2>1, <2>3 DEF ToReceive, ToSend
<1> QED BY <1>1, <1>2, <1>3, <1>4

\* A step that leaves the number, the roles and the client of the streams alone.
LEMMA AcceptingKept ==
  ASSUME Accepting, srv.pc # "broken",
         srv'.rec = srv.rec, srv'.snd = srv.snd, srv'.streams = srv.streams, srv'.ctrl = srv.ctrl,
         srv'.pc \in {"select", "results"}, srv.ctrl = NoTest => srv.rec = 0 /\ srv.snd = 0,
         srv'.state = "TEST_RUNNING" =>
           srv.pc = "start" \/ (srv.pc = "select" /\ srv.state = "TEST_RUNNING"),
         srv'.state # "CREATE_STREAMS"
  PROVE  Accepting'
  BY DEF Accepting, ToReceive, ToSend

\* A server without streams is about to accept them, or has no client.
LEMMA AcceptingReset ==
  ASSUME srv' \in ServerType, srv'.rec = 0, srv'.snd = 0, srv'.streams = <<>>,
         srv'.pc \in {"closed", "select", "cookie", "params"},
         srv'.pc = "select" => (srv'.state = "CREATE_STREAMS" <=> srv'.ctrl # NoTest)
  PROVE  Accepting'
<1>1. srv'.ctrl # NoTest => srv'.ctrl \in Tests
  BY DEF ServerType
<1>2. Len(srv'.streams) = 0 /\ DOMAIN srv'.streams = {}
  OBVIOUS
<1>3. srv'.ctrl # NoTest => /\ ToReceive(srv'.ctrl) \in Nat /\ ToSend(srv'.ctrl) \in Nat
                            /\ ToReceive(srv'.ctrl) + ToSend(srv'.ctrl) > 0
  BY <1>1, StreamCounts
<1>4. ToReceive(srv.ctrl)' = ToReceive(srv'.ctrl) /\ ToSend(srv.ctrl)' = ToSend(srv'.ctrl)
  BY DEF ToReceive, ToSend
<1> QED BY <1>1, <1>2, <1>3, <1>4 DEF Accepting

\* An accepted stream keeps Accepting: it is counted, and it sends when those that
\* receive are there.
LEMMA AcceptStreamAccepting ==
  ASSUME ServerTypeOK, Serving, Accepting, AcceptStream,
         Head(backlog) = [test |-> srv.ctrl, kind |-> "data"]
  PROVE  /\ Accepting'
         /\ srv'.ctrl = srv.ctrl /\ srv.ctrl \in Tests /\ backlog' = Tail(backlog)
         /\ srv'.rec + srv'.snd = srv.rec + srv.snd + 1
<1> USE TypesOfServer
<1> DEFINE t == srv.ctrl
           rec == srv.rec # ToReceive(t)
           r == IF rec THEN srv.rec + 1 ELSE srv.rec
           s == IF rec THEN srv.snd ELSE srv.snd + 1
           d == IF rec THEN "rcv" ELSE "snd"
           q == Append(srv.streams, d)
           now == [srv EXCEPT !.rec = r, !.snd = s, !.streams = q]
           all == r = ToReceive(t) /\ s = ToSend(t)
           p == IF all THEN "start" ELSE srv.pc
<1>1. t \in Tests /\ t # NoTest /\ srv.pc = "select" /\ srv.state = "CREATE_STREAMS"
  BY ServerAssumption DEF AcceptStream, InLoop, Serving
<1>2. srv.rec \in Nat /\ srv.snd \in Nat /\ srv.streams \in Seq({"snd", "rcv"})
      /\ ToReceive(t) \in Nat /\ ToSend(t) \in Nat
  BY <1>1, StreamCounts DEF ServerType
<1>3. now.rec = r /\ now.snd = s /\ now.pc = srv.pc
  BY <1>1 DEF ServerType
<1>4. srv' = [now EXCEPT !.pc = p] /\ backlog' = Tail(backlog)
  BY <1>3 DEF AcceptStream
<1>5. r \in Nat /\ s \in Nat /\ q \in Seq({"snd", "rcv"}) /\ r + s = srv.rec + srv.snd + 1
      /\ p \in {"start", "select"} /\ (p = "start" <=> all)
  BY SMTT(20), <1>1, <1>2
<1>6. /\ Len(srv.streams) = srv.rec + srv.snd
      /\ \A i \in DOMAIN srv.streams : srv.streams[i] = IF i <= srv.rec THEN "rcv" ELSE "snd"
      /\ srv.rec <= ToReceive(t) /\ srv.snd <= ToSend(t)
      /\ srv.snd > 0 => srv.rec = ToReceive(t)
      /\ ~(srv.rec = ToReceive(t) /\ srv.snd = ToSend(t))
  BY <1>1 DEF Accepting
<1>7. r <= ToReceive(t) /\ s <= ToSend(t) /\ (s > 0 => r = ToReceive(t))
  BY <1>2, <1>6
<1>8. Len(q) = r + s /\ \A i \in DOMAIN q : q[i] = IF i <= r THEN "rcv" ELSE "snd"
  <2>1. Len(q) = Len(srv.streams) + 1
    BY <1>2
  <2>2. ASSUME NEW i \in DOMAIN q PROVE q[i] = IF i <= r THEN "rcv" ELSE "snd"
    <3>1. CASE i \in DOMAIN srv.streams
      <4>1. q[i] = srv.streams[i] /\ i \in Nat /\ i <= srv.rec + srv.snd
        BY <1>2, <1>6, <3>1
      <4>2. rec => srv.snd = 0
        BY <1>2, <1>6
      <4> QED BY <1>2, <1>6, <3>1, <4>1, <4>2
    <3>2. CASE i = Len(srv.streams) + 1
      <4>1. q[i] = d
        BY <1>2, <3>2
      <4>2. rec => srv.snd = 0
        BY <1>2, <1>6
      <4> QED BY <1>2, <1>6, <3>2, <4>1, <4>2
    <3> QED BY <1>2, <3>1, <3>2
  <2> QED BY <1>2, <1>5, <1>6, <2>1, <2>2
<1> HIDE DEF r, s, d, q, p
<1>9. /\ srv'.pc = p /\ srv'.rec = r /\ srv'.snd = s /\ srv'.streams = q /\ srv'.ctrl = t
      /\ srv'.state = srv.state
  BY <1>4 DEF ServerType
<1>10. ToReceive(srv.ctrl)' = ToReceive(t) /\ ToSend(srv.ctrl)' = ToSend(t)
  BY <1>9 DEF ToReceive, ToSend
<1> HIDE DEF t
<1>11. Accepting'
  BY <1>1, <1>5, <1>7, <1>8, <1>9, <1>10 DEF Accepting, t
<1> QED BY <1>1, <1>4, <1>5, <1>9, <1>11 DEF t

\* Every step of the server keeps Accepting.
LEMMA ServerStepAccepting ==
  ASSUME ServerTypeOK, Serving, Accepting, ServerEvent
  PROVE  Accepting'
<1> USE TypesOfServer
<1>0. srv' \in ServerType /\ Serving'
  BY ServerStepFrame DEF ServerFrame
<1>1. ASSUME NEW n, Cleanup(n) PROVE Accepting'
  <2>1. /\ srv'.pc = "closed" /\ srv'.rec = 0 /\ srv'.snd = 0 /\ srv'.streams = <<>>
    BY <1>1 DEF Cleanup, IdleServer
  <2> QED BY <1>0, <2>1, AcceptingReset
<1>2. ASSUME UNCHANGED srv PROVE Accepting'
  BY <1>2 DEF Accepting, ToReceive, ToSend
<1>3. CASE ServerListen
  <2>1. /\ srv'.pc = "select" /\ srv'.rec = 0 /\ srv'.snd = 0 /\ srv'.streams = <<>>
        /\ srv'.state = "IPERF_START" /\ srv'.ctrl = NoTest
    BY <1>3 DEF ServerListen, IdleServer
  <2> QED BY <1>0, <2>1, AcceptingReset
<1>4. CASE AcceptClient
  <2>1. CASE srv' = [srv EXCEPT !.ctrl = Head(backlog).test, !.pc = "cookie"]
    <3>1. srv.rec = 0 /\ srv.snd = 0 /\ Len(srv.streams) = srv.rec + srv.snd
      BY <1>4 DEF AcceptClient, InLoop, Accepting
    <3>2. srv.streams = <<>>
      BY <3>1 DEF ServerType
    <3>3. srv'.pc = "cookie" /\ srv'.rec = 0 /\ srv'.snd = 0 /\ srv'.streams = <<>>
      BY <2>1, <3>1, <3>2 DEF ServerType
    <3> QED BY <1>0, <3>3, AcceptingReset
  <2> QED BY <1>1, <1>4, <2>1 DEF AcceptClient
<1>5. CASE RefuseClient
  BY <1>2, <1>5 DEF RefuseClient, Deny
<1>6. ASSUME srv.pc \in {"cookie", "params"}, NEW p, NEW s,
             srv' = [srv EXCEPT !.pc = p, !.state = s],
             p = "params" \/ (p = "select" /\ s = "CREATE_STREAMS")
      PROVE  Accepting'
  <2>1. srv.rec = 0 /\ srv.snd = 0 /\ Len(srv.streams) = srv.rec + srv.snd
    BY <1>6 DEF Accepting
  <2>2. srv.streams = <<>>
    BY <2>1 DEF ServerType
  <2>3. srv'.pc = p /\ srv'.state = s /\ srv'.rec = 0 /\ srv'.snd = 0 /\ srv'.streams = <<>>
        /\ srv'.ctrl = srv.ctrl
    BY <1>6, <2>1, <2>2 DEF ServerType
  <2>4. srv.ctrl # NoTest
    BY <1>6 DEF Serving
  <2> QED BY <1>0, <1>6, <2>3, <2>4, AcceptingReset
<1>7. CASE ReadCookie \/ GetParameters
  <2>1. CASE ReadCookie
    BY <1>1, <1>6, <2>1 DEF ReadCookie
  <2>2. CASE GetParameters
    BY <1>1, <1>6, <2>2 DEF GetParameters
  <2> QED BY <1>7, <2>1, <2>2
<1>8. CASE AcceptStream
  <2>1. CASE Head(backlog) = [test |-> srv.ctrl, kind |-> "data"]
    BY <1>8, <2>1, AcceptStreamAccepting
  <2>2. CASE Head(backlog) # [test |-> srv.ctrl, kind |-> "data"]
    BY <1>2, <1>8, <2>2 DEF AcceptStream, Deny
  <2> QED BY <2>1, <2>2
<1>9. CASE StartTest
  <2> DEFINE d == srv.done /\ srv.ctrl \notin Timed
             m == srv.ctrl \in Timed
  <2>1. CASE srv' = [srv EXCEPT !.pc = "select", !.state = "TEST_RUNNING",
                                !.done = d, !.timer = m]
    <3>1. srv.pc = "start" /\ srv.ctrl # NoTest
      BY <1>9 DEF StartTest, Serving
    <3> HIDE DEF d, m
    <3>2. /\ srv'.rec = srv.rec /\ srv'.snd = srv.snd /\ srv'.streams = srv.streams
          /\ srv'.ctrl = srv.ctrl /\ srv'.pc = "select" /\ srv'.state = "TEST_RUNNING"
      BY <2>1 DEF ServerType
    <3> QED BY <3>1, <3>2, AcceptingKept
  <2> QED BY <1>1, <1>9, <2>1 DEF StartTest
<1>10. CASE HandleTestEnd
  <2>1. CASE srv' = [srv EXCEPT !.pc = "results", !.state = "EXCHANGE_RESULTS", !.done = TRUE]
    <3>1. srv.pc = "select" /\ srv.ctrl # NoTest
      BY <1>10 DEF HandleTestEnd, InLoop
    <3>2. /\ srv'.rec = srv.rec /\ srv'.snd = srv.snd /\ srv'.streams = srv.streams
          /\ srv'.ctrl = srv.ctrl /\ srv'.pc = "results" /\ srv'.state = "EXCHANGE_RESULTS"
      BY <2>1 DEF ServerType
    <3> QED BY <3>1, <3>2, AcceptingKept
  <2> QED BY <1>1, <1>10, <2>1 DEF HandleTestEnd
<1>11. CASE HandleDone
  <2>1. srv.pc = "select" /\ srv.ctrl # NoTest
    BY <1>11 DEF HandleDone, InLoop
  <2>2. /\ srv'.rec = srv.rec /\ srv'.snd = srv.snd /\ srv'.streams = srv.streams
        /\ srv'.ctrl = srv.ctrl /\ srv'.pc = "select" /\ srv'.state = "IPERF_DONE"
    BY <1>11, <2>1 DEF HandleDone, ServerType
  <2> QED BY <2>1, <2>2, AcceptingKept
<1>12. CASE ExchangeResultsServer
  <2>1. CASE srv' = [srv EXCEPT !.pc = "select", !.state = "DISPLAY_RESULTS"]
    <3>1. srv.pc = "results" /\ srv.ctrl # NoTest
      BY <1>12 DEF ExchangeResultsServer, Serving
    <3>2. /\ srv'.rec = srv.rec /\ srv'.snd = srv.snd /\ srv'.streams = srv.streams
          /\ srv'.ctrl = srv.ctrl /\ srv'.pc = "select" /\ srv'.state = "DISPLAY_RESULTS"
      BY <2>1 DEF ServerType
    <3> QED BY <3>1, <3>2, AcceptingKept
  <2> QED BY <1>1, <1>12, <2>1 DEF ExchangeResultsServer
<1>13. CASE ServerTimer
  <2>1. CASE srv' = [srv EXCEPT !.timer = FALSE]
    <3>1. /\ srv'.rec = srv.rec /\ srv'.snd = srv.snd /\ srv'.streams = srv.streams
          /\ srv'.ctrl = srv.ctrl /\ srv'.pc = srv.pc /\ srv'.state = srv.state
      BY <2>1 DEF ServerType
    <3> QED BY <3>1 DEF Accepting, ToReceive, ToSend
  <2>2. CASE srv' = [srv EXCEPT !.timer = FALSE, !.done = TRUE, !.streams = <<>>,
                                !.ctrl = NoTest, !.pc = "broken"]
    <3>1. srv'.pc = "broken"
      BY <2>2 DEF ServerType
    <3> QED BY <3>1 DEF Accepting
  <2> QED BY <1>13, <2>1, <2>2 DEF ServerTimer
<1>14. CASE HandleUnknown \/ ServerFinish \/ ServerSelectFails \/ NoMessageTimeout
  <2>1. Cleanup(net)
    BY <1>14 DEF HandleUnknown, ServerFinish, ServerSelectFails, NoMessageTimeout
  <2> QED BY <1>1, <2>1
<1>15. CASE ServerFails
  BY <1>1, <1>15, ServerFailsEnds
<1> QED BY <1>3, <1>4, <1>5, <1>7, <1>8, <1>9, <1>10, <1>11, <1>12, <1>13, <1>14, <1>15
        DEF ServerEvent, ServerStep

-----------------------------------------------------------------------------
(* The data connections in the backlog *)

\* The places of a request in a backlog can be counted.
LEMMA PlacesFinite ==
  ASSUME NEW b \in Seq(Connections), NEW c
  PROVE  IsFiniteSet(Places(b, c)) /\ Cardinality(Places(b, c)) \in Nat
<1>1. Places(b, c) \subseteq 1 .. Len(b) /\ Len(b) \in Int
  BY DEF Places
<1>2. IsFiniteSet(1 .. Len(b))
  BY <1>1, FS_Interval
<1>3. IsFiniteSet(Places(b, c))
  BY <1>1, <1>2, FS_Subset
<1> QED BY <1>3, FS_CardinalityType

\* An empty backlog holds no request.
LEMMA PlacesEmpty == ASSUME NEW c PROVE Cardinality(Places(<<>>, c)) = 0
<1>1. Places(<<>>, c) = {}
  BY DEF Places
<1> QED BY <1>1, FS_EmptySet

\* A request that is added counts once.
LEMMA PlacesAppend ==
  ASSUME NEW b \in Seq(Connections), NEW e \in Connections, NEW c
  PROVE  Cardinality(Places(Append(b, e), c)) =
           Cardinality(Places(b, c)) + (IF e = c THEN 1 ELSE 0)
<1>1. Places(Append(b, e), c) =
        IF e = c THEN Places(b, c) \cup {Len(b) + 1} ELSE Places(b, c)
  BY DEF Places
<1>2. Len(b) + 1 \notin Places(b, c)
  BY DEF Places
<1>3. CASE e = c
  <2>1. Cardinality(Places(b, c) \cup {Len(b) + 1}) = Cardinality(Places(b, c)) + 1
    BY <1>2, PlacesFinite, FS_AddElement
  <2> QED BY <1>1, <1>3, <2>1
<1>4. CASE e # c
  BY <1>1, <1>4, PlacesFinite
<1> QED BY <1>3, <1>4

\* A request that is accepted no longer counts.
LEMMA PlacesTail ==
  ASSUME NEW b \in Seq(Connections), b # <<>>, NEW c
  PROVE  Cardinality(Places(Tail(b), c)) <=
           Cardinality(Places(b, c)) - (IF Head(b) = c THEN 1 ELSE 0)
<1> DEFINE S == Places(Tail(b), c)
           T == Places(b, c) \ {1}
           f == [i \in S |-> i + 1]
<1>1. \A i \in DOMAIN Tail(b) : i + 1 \in DOMAIN b /\ Tail(b)[i] = b[i + 1] /\ i \in Nat /\ i + 1 # 1
  OBVIOUS
<1>2. \A i \in S : f[i] \in T
  BY <1>1 DEF Places
<1>3. \A i, j \in S : f[i] = f[j] => i = j
  BY <1>1 DEF Places
<1>4. f \in Injection(S, T)
  BY <1>2, <1>3 DEF Injection, IsInjective
<1>5. IsFiniteSet(Places(b, c)) /\ Cardinality(Places(b, c)) \in Nat
  BY PlacesFinite
<1>6. IsFiniteSet(T) /\ Cardinality(T) = IF 1 \in Places(b, c) THEN Cardinality(Places(b, c)) - 1
                                         ELSE Cardinality(Places(b, c))
  BY <1>5, FS_RemoveElement
<1>7. 1 \in Places(b, c) <=> Head(b) = c
  BY DEF Places
<1>8. Cardinality(S) <= Cardinality(T)
  BY <1>4, <1>6, FS_Injection
<1> QED BY <1>5, <1>6, <1>7, <1>8

\* How the number of data connections of a client in the backlog changes.
LEMMA WaitingChanges ==
  ASSUME ServerTypeOK, NEW u \in Tests
  PROVE  /\ Waiting(backlog, u) \in Nat
         /\ Waiting(<<>>, u) = 0
         /\ \A t \in Tests, kind \in {"ctrl", "data"} :
              Waiting(Append(backlog, [test |-> t, kind |-> kind]), u) =
                Waiting(backlog, u) + (IF t = u /\ kind = "data" THEN 1 ELSE 0)
         /\ backlog # <<>> =>
              Waiting(Tail(backlog), u) <= Waiting(backlog, u) -
                (IF Head(backlog) = [test |-> u, kind |-> "data"] THEN 1 ELSE 0)
         /\ backlog # <<>> => Waiting(Tail(backlog), u) \in Nat
<1> USE TypesOfServer DEF Waiting
<1> DEFINE c == [test |-> u, kind |-> "data"]
<1>1. \A t \in Tests, kind \in {"ctrl", "data"} :
        /\ [test |-> t, kind |-> kind] \in Connections
        /\ [test |-> t, kind |-> kind] = c <=> t = u /\ kind = "data"
  BY DEF Connections
<1> HIDE DEF c
<1>2. Waiting(backlog, u) \in Nat /\ Waiting(<<>>, u) = 0
  BY PlacesFinite, PlacesEmpty DEF c
<1>3. ASSUME NEW t \in Tests, NEW kind \in {"ctrl", "data"}
      PROVE  Waiting(Append(backlog, [test |-> t, kind |-> kind]), u) =
                Waiting(backlog, u) + (IF t = u /\ kind = "data" THEN 1 ELSE 0)
  <2> DEFINE e == [test |-> t, kind |-> kind]
  <2>1. e \in Connections /\ (e = c <=> t = u /\ kind = "data")
    BY <1>1
  <2> HIDE DEF e
  <2>2. Cardinality(Places(Append(backlog, e), c)) =
          Cardinality(Places(backlog, c)) + (IF e = c THEN 1 ELSE 0)
    BY <2>1, PlacesAppend
  <2> QED BY <2>1, <2>2 DEF c, e
<1>4. backlog # <<>> =>
        /\ Waiting(Tail(backlog), u) <= Waiting(backlog, u) - (IF Head(backlog) = c THEN 1 ELSE 0)
        /\ Waiting(Tail(backlog), u) \in Nat
  BY PlacesTail, PlacesFinite DEF c
<1> QED BY <1>2, <1>3, <1>4 DEF c

-----------------------------------------------------------------------------
(* The streams of a client and the server's count of them *)

\* The streams of client t the server has accepted.
Taken(t) == IF srv.ctrl = t THEN srv.rec + srv.snd ELSE 0

\* A sequence with one more element at the end.
LEMMA AppendElements ==
  ASSUME NEW S, NEW s \in Seq(S), NEW d \in S
  PROVE  /\ Len(Append(s, d)) = Len(s) + 1
         /\ \A i \in DOMAIN Append(s, d) :
              /\ Append(s, d)[i] = IF i = Len(s) + 1 THEN d ELSE s[i]
              /\ i = Len(s) + 1 \/ i \in DOMAIN s
  OBVIOUS

\* A client event keeps StreamsInOrder: a stream is created in its turn, with its
\* request.
LEMMA ClientEventStreams ==
  ASSUME ServerTypeOK, NEW t \in Tests, ClientEvent(t), UNCHANGED srv, StreamsInOrder(t)
  PROVE  StreamsInOrder(t)'
<1>1. ClientTypeOK /\ Taken(t)' = Taken(t) /\ srv \in ServerType /\ Waiting(backlog, t) \in Nat
  BY WaitingChanges DEF Taken, ServerTypeOK
<1>2. Taken(t) \in Nat
  BY <1>1 DEF Taken, ServerType
<1>3. Waiting(backlog, t)' = Waiting(backlog', t) /\ Directions(t)' = Directions(t)
  BY DEF Waiting, Directions
<1>4. CASE test'[t].streams = test[t].streams /\ Waiting(backlog', t) = Waiting(backlog, t)
  BY <1>1, <1>3, <1>4 DEF StreamsInOrder, Taken
<1>5. CASE CreateStream(t)
  <2> DEFINE s == test[t].streams
             k == Len(s) + 1
             d == Directions(t)[k]
  <2>1. test[t] \in TestType /\ s \in Seq({"snd", "rcv"}) /\ test \in [Tests -> TestType]
    BY <1>1 DEF ClientTypeOK, TestType
  <2>2. Len(s) < Len(Directions(t)) /\ test' = [test EXCEPT ![t].streams = Append(s, d)]
        /\ backlog' = Append(backlog, [test |-> t, kind |-> "data"])
    BY <1>5 DEF CreateStream
  <2>3. Directions(t) \in Seq({"snd", "rcv"})
    BY DirectionsType
  <2>4. d \in {"snd", "rcv"}
    BY <2>1, <2>2, <2>3
  <2> HIDE DEF d, s
  <2>5. test'[t].streams = Append(s, d)
    BY <2>1, <2>2 DEF TestType, s
  <2>6. Waiting(backlog', t) = Waiting(backlog, t) + 1
    <3>1. Waiting(backlog', t) = Waiting(backlog, t) + (IF t = t /\ "data" = "data" THEN 1 ELSE 0)
      BY <2>2, WaitingChanges
    <3> QED BY <3>1
  <2>7. /\ Len(Append(s, d)) = Len(s) + 1
        /\ \A i \in DOMAIN Append(s, d) : Append(s, d)[i] = IF i = Len(s) + 1 THEN d ELSE s[i]
        /\ \A i \in DOMAIN Append(s, d) : i = Len(s) + 1 \/ i \in DOMAIN s
    BY <2>1, <2>4, AppendElements
  <2>8. Len(test'[t].streams) <= Len(Directions(t))
    BY <2>1, <2>2, <2>3, <2>5, <2>7
  <2>9. \A i \in DOMAIN test'[t].streams : test'[t].streams[i] = Directions(t)[i]
    BY <2>5, <2>7 DEF StreamsInOrder, d, s
  <2>10. Taken(t)' + Waiting(backlog', t) <= Len(test'[t].streams)
    BY <1>1, <1>2, <2>1, <2>5, <2>6, <2>7 DEF StreamsInOrder, Taken, s
  <2> QED BY <1>3, <2>8, <2>9, <2>10 DEF StreamsInOrder, Taken
<1>6. \/ test'[t].streams = test[t].streams /\ Waiting(backlog', t) = Waiting(backlog, t)
      \/ CreateStream(t)
  <2>1. CASE backlog' = backlog
    BY <1>1, <2>1, ClientEventPeers
  <2>2. CASE backlog' = Append(backlog, [test |-> t, kind |-> "ctrl"])
    <3>1. Waiting(backlog', t) = Waiting(backlog, t) + (IF t = t /\ "ctrl" = "data" THEN 1 ELSE 0)
      BY <2>2, WaitingChanges
    <3>2. Waiting(backlog', t) = Waiting(backlog, t)
      BY <1>1, <3>1
    <3>3. ConnectOk(t) \/ CreateStream(t) \/ test'[t].streams = test[t].streams
      BY <1>1, ClientEventPeers
    <3> QED BY <1>1, <3>2, <3>3, ClientEventPeers
  <2> QED BY <1>1, <2>1, <2>2, ClientEventPeers
<1> QED BY <1>4, <1>5, <1>6

\* The other clients' streams stay as they are.
LEMMA OtherStreams ==
  ASSUME ServerTypeOK, NEW t \in Tests, ClientEvent(t), UNCHANGED srv,
         NEW u \in Tests \ {t}, StreamsInOrder(u)
  PROVE  StreamsInOrder(u)'
<1>1. ClientTypeOK /\ test'[u] = test[u] /\ Directions(u)' = Directions(u)
      /\ Waiting(backlog, u)' = Waiting(backlog', u)
  BY ClientEventFrame DEF TestFrame, ServerTypeOK, Directions, Waiting
<1>2. Waiting(backlog', u) = Waiting(backlog, u)
  <2>1. \E kind \in {"ctrl", "data"} :
          backlog' \in {backlog, Append(backlog, [test |-> t, kind |-> kind])}
    BY <1>1, ClientEventPeers
  <2>2. PICK kind \in {"ctrl", "data"} :
          backlog' \in {backlog, Append(backlog, [test |-> t, kind |-> kind])}
    BY <2>1
  <2>3. Waiting(Append(backlog, [test |-> t, kind |-> kind]), u) =
          Waiting(backlog, u) + (IF t = u /\ kind = "data" THEN 1 ELSE 0)
    BY WaitingChanges
  <2>4. Waiting(backlog, u) \in Nat
    BY WaitingChanges
  <2>5. t # u
    OBVIOUS
  <2>6. Waiting(Append(backlog, [test |-> t, kind |-> kind]), u) = Waiting(backlog, u)
    BY <2>3, <2>4, <2>5
  <2> QED BY <2>2, <2>6
<1> QED BY <1>1, <1>2 DEF StreamsInOrder

\* A step of the server keeps StreamsInOrder: it counts a stream only for a request
\* it takes.
LEMMA ServerStepStreams ==
  ASSUME ServerTypeOK, Serving, Accepting, ServerEvent, NEW u \in Tests, StreamsInOrder(u)
  PROVE  StreamsInOrder(u)'
<1> USE TypesOfServer
<1>0. /\ test' = test /\ srv' \in ServerType /\ Directions(u)' = Directions(u)
      /\ Waiting(backlog, u)' = Waiting(backlog', u)
      /\ Waiting(backlog, u) \in Nat /\ Waiting(<<>>, u) = 0
      /\ u # NoTest
  BY ServerStepFrame, WaitingChanges, ServerAssumption DEF ServerFrame, Directions, Waiting
<1>1. backlog # <<>> =>
        /\ Waiting(Tail(backlog), u) \in Nat
        /\ Waiting(Tail(backlog), u) <= Waiting(backlog, u)
        /\ Head(backlog) = [test |-> u, kind |-> "data"] =>
             Waiting(Tail(backlog), u) <= Waiting(backlog, u) - 1
  <2>1. backlog # <<>> =>
          /\ Waiting(Tail(backlog), u) <= Waiting(backlog, u) -
               (IF Head(backlog) = [test |-> u, kind |-> "data"] THEN 1 ELSE 0)
          /\ Waiting(Tail(backlog), u) \in Nat
    BY WaitingChanges
  <2>2. CASE Head(backlog) = [test |-> u, kind |-> "data"]
    BY <1>0, <2>1, <2>2
  <2>3. CASE Head(backlog) # [test |-> u, kind |-> "data"]
    BY <1>0, <2>1, <2>3
  <2> QED BY <2>2, <2>3
<1>2. Taken(u) \in Nat /\ Taken(u)' \in Nat
  BY <1>0 DEF Taken, ServerType
<1> SUFFICES Taken(u)' + Waiting(backlog', u) <= Taken(u) + Waiting(backlog, u)
  <2>1. Taken(u) + Waiting(backlog, u) <= Len(test[u].streams)
    BY DEF StreamsInOrder, Taken
  <2>2. test[u].streams \in Seq({"snd", "rcv"}) /\ Waiting(backlog', u) \in Nat
    <3>1. Waiting(backlog', u) \in Nat
      BY <1>0, ServerStepFrame, PlacesFinite DEF Waiting, ServerFrame
    <3> QED BY <3>1 DEF ServerTypeOK, ClientTypeOK, TestType
  <2>3. Taken(u)' + Waiting(backlog', u) <= Len(test[u].streams)
    BY <1>0, <1>2, <2>1, <2>2
  <2> QED BY <1>0, <2>3 DEF StreamsInOrder, Taken
<1>3. ASSUME NEW n, Cleanup(n) PROVE Taken(u)' + Waiting(backlog', u) <= Taken(u) + Waiting(backlog, u)
  <2>1. srv'.ctrl = NoTest /\ backlog' = <<>>
    BY <1>3 DEF Cleanup, IdleServer
  <2>2. Taken(u)' = 0
    BY <1>0, <2>1 DEF Taken
  <2> QED BY <1>0, <1>2, <2>1, <2>2
<1>4. CASE /\ srv'.ctrl = srv.ctrl /\ srv'.rec = srv.rec /\ srv'.snd = srv.snd
           /\ backlog' = backlog \/ (backlog # <<>> /\ backlog' = Tail(backlog))
  <2>1. Taken(u)' = Taken(u)
    BY <1>4 DEF Taken
  <2>2. Waiting(backlog', u) \in Nat /\ Waiting(backlog', u) <= Waiting(backlog, u)
    <3>1. CASE backlog' = backlog
      BY <1>0, <3>1
    <3>2. CASE backlog # <<>> /\ backlog' = Tail(backlog)
      BY <1>0, <1>1, <3>2
    <3> QED BY <1>4, <3>1, <3>2
  <2> QED BY <1>0, <1>2, <2>1, <2>2
<1>5. CASE ServerListen
  <2>1. srv'.ctrl = NoTest /\ backlog' = backlog
    BY <1>5 DEF ServerListen, IdleServer, cvars
  <2>2. Taken(u)' = 0
    BY <1>0, <2>1 DEF Taken
  <2> QED BY <1>0, <1>2, <2>1, <2>2
<1>6. CASE AcceptClient
  <2>1. CASE /\ srv' = [srv EXCEPT !.ctrl = Head(backlog).test, !.pc = "cookie"]
             /\ backlog' = Tail(backlog)
    <3>1. srv.rec = 0 /\ srv.snd = 0 /\ backlog # <<>>
      BY <1>6 DEF AcceptClient, InLoop, Accepting
    <3>2. srv'.rec = 0 /\ srv'.snd = 0
      BY <2>1, <3>1 DEF ServerType
    <3>3. Taken(u)' = 0
      BY <3>2 DEF Taken
    <3> QED BY <1>0, <1>1, <1>2, <2>1, <3>1, <3>3
  <2> QED BY <1>3, <1>6, <2>1 DEF AcceptClient
<1>7. CASE RefuseClient
  BY <1>4, <1>7 DEF RefuseClient, Deny
<1>8. CASE ReadCookie \/ GetParameters
  <2>1. CASE ReadCookie
    BY <1>3, <1>4, <2>1 DEF ReadCookie, ServerType
  <2>2. CASE GetParameters
    BY <1>3, <1>4, <2>2 DEF GetParameters, ServerType
  <2> QED BY <1>8, <2>1, <2>2
<1>9. CASE AcceptStream
  <2>1. CASE Head(backlog) = [test |-> srv.ctrl, kind |-> "data"]
    <3>1. /\ srv'.ctrl = srv.ctrl /\ backlog' = Tail(backlog) /\ backlog # <<>>
          /\ srv'.rec + srv'.snd = srv.rec + srv.snd + 1
      BY <1>9, <2>1, AcceptStreamAccepting DEF AcceptStream
    <3>2. CASE srv.ctrl = u
      <4>1. Taken(u)' = Taken(u) + 1
        BY <3>1, <3>2 DEF Taken
      <4> QED BY <1>0, <1>1, <1>2, <2>1, <3>1, <3>2, <4>1
    <3>3. CASE srv.ctrl # u
      <4>1. Taken(u)' = Taken(u)
        BY <3>1, <3>3 DEF Taken
      <4> QED BY <1>0, <1>1, <1>2, <3>1, <4>1
    <3> QED BY <3>2, <3>3
  <2>2. CASE Head(backlog) # [test |-> srv.ctrl, kind |-> "data"]
    BY <1>4, <1>9, <2>2 DEF AcceptStream, Deny
  <2> QED BY <2>1, <2>2
<1>10. CASE StartTest
  <2> DEFINE d == srv.done /\ srv.ctrl \notin Timed
             m == srv.ctrl \in Timed
  <2>1. CASE /\ srv' = [srv EXCEPT !.pc = "select", !.state = "TEST_RUNNING",
                                   !.done = d, !.timer = m]
             /\ backlog' = backlog
    <3> HIDE DEF d, m
    <3> QED BY <1>4, <2>1 DEF ServerType
  <2> QED BY <1>3, <1>10, <2>1 DEF StartTest
<1>11. CASE HandleTestEnd
  BY <1>3, <1>4, <1>11 DEF HandleTestEnd, ServerType
<1>12. CASE HandleDone
  BY <1>4, <1>12 DEF HandleDone, ServerType
<1>13. CASE ExchangeResultsServer
  BY <1>3, <1>4, <1>13 DEF ExchangeResultsServer, ServerType
<1>14. CASE ServerTimer
  <2>1. CASE srv' = [srv EXCEPT !.timer = FALSE] /\ UNCHANGED cvars
    BY <1>4, <2>1 DEF ServerType, cvars
  <2>2. CASE /\ srv' = [srv EXCEPT !.timer = FALSE, !.done = TRUE, !.streams = <<>>,
                                   !.ctrl = NoTest, !.pc = "broken"]
             /\ backlog' = backlog
    <3>1. srv'.ctrl = NoTest
      BY <2>2 DEF ServerType
    <3>2. Taken(u)' = 0
      BY <1>0, <3>1 DEF Taken
    <3> QED BY <1>0, <1>2, <2>2, <3>2
  <2> QED BY <1>14, <2>1, <2>2 DEF ServerTimer
<1>15. CASE HandleUnknown \/ ServerFinish \/ ServerSelectFails \/ NoMessageTimeout
  <2>1. Cleanup(net)
    BY <1>15 DEF HandleUnknown, ServerFinish, ServerSelectFails, NoMessageTimeout
  <2> QED BY <1>3, <2>1
<1>16. CASE ServerFails
  BY <1>3, <1>16, ServerFailsEnds
<1> QED BY <1>5, <1>6, <1>7, <1>8, <1>9, <1>10, <1>11, <1>12, <1>13, <1>14, <1>15, <1>16
        DEF ServerEvent, ServerStep

-----------------------------------------------------------------------------
(* The invariant *)

\* Nothing was done yet at the start.
LEMMA InitIInv == Init => IInv
<1> SUFFICES ASSUME Init PROVE IInv
  OBVIOUS
<1> DEFINE n == [peer |-> "none", toCli |-> <<>>, toSrv |-> <<>>, cut |-> FALSE]
<1>1. /\ test = [t \in Tests |-> NewTest] /\ net = [t \in Tests |-> n] /\ backlog = <<>>
      /\ srv = IdleServer /\ stopping = [t \in Tests |-> "no"] /\ stopped = {} /\ exchanged = {}
  BY DEF Init, ClientInit
<1>2. TypeOK
  <2>1. NewTest \in TestType /\ n \in NetType
    <3>1. <<>> \in Seq({"snd", "rcv"}) /\ <<>> \in Seq(Messages) /\ "NONE" \in Messages
      BY DEF Messages, States
    <3> QED BY <3>1 DEF NewTest, TestType, NetType
  <2>2. IdleServer \in ServerType
    <3>1. <<>> \in Seq({"snd", "rcv"}) /\ "NONE" \in Messages
      BY DEF Messages, States
    <3> QED BY <3>1 DEF IdleServer, ServerType
  <2> HIDE DEF n
  <2> QED BY <1>1, <2>1, <2>2 DEF TypeOK, ServerTypeOK, ClientTypeOK
<1>3. Serving
  BY <1>1 DEF Serving, IdleServer
<1>4. Accepting
  BY <1>1 DEF Accepting, IdleServer
<1>5. ASSUME NEW t \in Tests PROVE OfClient(t)
  <2>1. /\ test[t].pc = "idle" /\ test[t].state = "NONE" /\ test[t].result = "none"
        /\ test[t].live = {} /\ test[t].streams = <<>>
        /\ net[t].toCli = <<>> /\ net[t].toSrv = <<>> /\ net[t].peer = "none"
    BY <1>1 DEF NewTest
  <2>2. EndedOnceSaid(t) /\ ResultsAwaited(t) /\ NoFarewell(t) /\ Admitted(t)
    BY <1>1, <2>1, QueuedEmpty
       DEF EndedOnceSaid, ResultsAwaited, NoFarewell, Admitted, States, IdleServer
  <2>3. Success(t)
    BY <1>1, <2>1, QueuedEmpty DEF Success
  <2>4. Waiting(backlog, t) = 0 /\ t # NoTest
    BY <1>1, PlacesEmpty, ServerAssumption DEF Waiting
  <2>5. Len(Directions(t)) \in Nat
    BY DirectionsType
  <2>6. StreamsInOrder(t)
    BY <1>1, <2>1, <2>4, <2>5 DEF StreamsInOrder, IdleServer
  <2> QED BY <2>2, <2>3, <2>6 DEF OfClient
<1> QED BY <1>2, <1>3, <1>4, <1>5 DEF IInv, OfClient

\* An event of client t keeps what holds of the others.
LEMMA OthersKept ==
  ASSUME TypeOK, NEW t \in Tests, ClientEvent(t), Besides(t), NEW u \in Tests \ {t}, OfClient(u)
  PROVE  OfClient(u)'
<1>1. ServerTypeOK /\ ClientTypeOK /\ UNCHANGED <<srv, exchanged>>
  BY DEF TypeOK, ServerTypeOK, Besides
<1>2. test'[u] = test[u] /\ net'[u] = net[u]
  BY <1>1, ClientEventFrame DEF TestFrame, NetFrame
<1>3. EndedOnceSaid(u)' /\ ResultsAwaited(u)' /\ NoFarewell(u)'
  BY <1>1, <1>2 DEF OfClient, EndedOnceSaid, Ended, ResultsAwaited, NoFarewell
<1>4. Admitted(u)'
  BY <1>1, ClientEventAdmitted DEF OfClient
<1>5. Success(u)'
  BY <1>1, <1>2 DEF OfClient, Success, Besides
<1>6. StreamsInOrder(u)'
  BY <1>1, OtherStreams DEF OfClient
<1> QED BY <1>3, <1>4, <1>5, <1>6 DEF OfClient

\* An event of a client keeps the invariant.
LEMMA ClientEventIInv ==
  ASSUME IInv, NEW t \in Tests, ClientEvent(t), Besides(t)
  PROVE  IInv'
<1>1. TypeOK /\ ServerTypeOK /\ ClientTypeOK /\ UNCHANGED srv /\ \A u \in Tests : OfClient(u)
  BY DEF IInv, OfClient, TypeOK, ServerTypeOK, Besides
<1>2. TypeOK'
  BY <1>1, ClientEventFrame DEF TypeOK, ServerTypeOK, Besides
<1>3. Serving' /\ Accepting'
  BY <1>1 DEF IInv, Serving, Accepting, ToReceive, ToSend
<1>4. OfClient(t)'
  BY <1>1, ClientEventEnded, ClientEventAwaited, ClientEventFarewell, ClientEventAdmitted,
     ClientEventSuccess, ClientEventStreams DEF OfClient
<1>5. \A u \in Tests \ {t} : OfClient(u)'
  BY <1>1, OthersKept
<1> QED BY <1>2, <1>3, <1>4, <1>5 DEF IInv, OfClient

\* A step of the server keeps the invariant.
LEMMA ServerIInv ==
  ASSUME IInv, ServerTurns
  PROVE  IInv'
<1>1. TypeOK /\ ServerTypeOK /\ Serving /\ Accepting /\ ServerEvent
      /\ \A u \in Tests : OfClient(u)
  BY DEF IInv, OfClient, TypeOK, ServerTurns
<1>2. ServerFrame /\ ServerTypeOK' /\ Serving'
  BY <1>1, ServerStepFrame DEF ServerFrame
<1>3. TypeOK'
  <2>1. srv.pc = "results" /\ srv'.pc = "select" => srv.ctrl \in Tests
    BY <1>1, TypesOfServer DEF Serving
  <2> QED BY <1>1, <1>2, <2>1 DEF TypeOK, ServerTurns
<1>4. Accepting'
  BY <1>1, ServerStepAccepting
<1>5. ASSUME NEW u \in Tests PROVE OfClient(u)'
  BY <1>1, <1>2, <1>5, ServerStepEnded, ServerStepAwaited, ServerStepFarewell,
     ServerStepAdmitted,
     ServerStepSuccess, ServerStepStreams DEF OfClient
<1> QED BY <1>2, <1>3, <1>4, <1>5 DEF IInv, OfClient

\* Every step keeps the invariant.
LEMMA StepIInv == IInv /\ [Next]_vars => IInv'
<1> SUFFICES ASSUME IInv, [Next]_vars PROVE IInv'
  OBVIOUS
<1>1. CASE Next
  BY <1>1, NextSplit, ClientEventIInv, ServerIInv DEF IInv
<1>2. CASE UNCHANGED vars
  <2>1. TypeOK' /\ Serving' /\ Accepting'
    BY <1>2 DEF vars, IInv, TypeOK, ServerTypeOK, ClientTypeOK, Serving, Accepting,
                ToReceive, ToSend
  <2>2. ASSUME NEW t \in Tests PROVE OfClient(t)'
    <3>1. EndedOnceSaid(t)' /\ ResultsAwaited(t)' /\ NoFarewell(t)'
      BY <1>2 DEF vars, IInv, OfClient, EndedOnceSaid, Ended, ResultsAwaited, NoFarewell
    <3>2. Admitted(t)' /\ Success(t)'
      BY <1>2 DEF vars, IInv, OfClient, Admitted, Success
    <3>3. StreamsInOrder(t)'
      <4>1. Directions(t)' = Directions(t) /\ Waiting(backlog, t)' = Waiting(backlog, t)
        BY <1>2 DEF vars, Directions, Waiting
      <4> QED BY <1>2, <4>1 DEF vars, IInv, OfClient, StreamsInOrder
    <3> QED BY <3>1, <3>2, <3>3 DEF OfClient
  <2> QED BY <2>1, <2>2 DEF IInv
<1> QED BY <1>1, <1>2

\* The inductive invariant holds in every state of the protocol.
THEOREM Invariant == Spec => []IInv
  BY InitIInv, StepIInv, PTL DEF Spec

\* Type correctness: tests, connections, backlog and server keep the types of their
\* fields, in any run of iperf_run_client and iperf_run_server.
THEOREM Types == Spec => []TypeOK
  BY Invariant, PTL DEF IInv

\* One client at a time (OneClientAtATime): any other client whose connection is
\* open still waits in the backlog, whatever is accepted, refused, stopped, cut or
\* cleaned up.
THEOREM OneAtATime == Spec => []OneClientAtATime
<1>1. IInv => OneClientAtATime
  BY DEF IInv, OfClient, Admitted, OneClientAtATime
<1> QED BY <1>1, Invariant, PTL

\* No sender after TEST_END (NoSenderAfterTestEnd): once the server has read
\* TEST_END of a client, no sender thread of that client is left.
THEOREM SendersJoined == Spec => []NoSenderAfterTestEnd
<1>1. IInv => NoSenderAfterTestEnd
  BY DEF IInv, OfClient, EndedOnceSaid, Ended, NoSenderAfterTestEnd
<1> QED BY <1>1, Invariant, PTL

\* No desynchronisation (NoDesync): a body of results is never read as a state byte;
\* neither side sends one except to a peer that waits for it.
THEOREM Synchronised == Spec => []NoDesync
<1>1. IInv => NoDesync
  BY DEF IInv, OfClient, ResultsAwaited, NoDesync
<1> QED BY <1>1, Invariant, PTL

\* Complementary roles (StreamRolesComplementary): when the server runs a test, it
\* has as many streams as the client and receives on exactly those on which the
\* client sends.
THEOREM RolesAgree == Spec => []StreamRolesComplementary
<1>1. IInv => StreamRolesComplementary
  <2> SUFFICES ASSUME IInv, srv.state = "TEST_RUNNING", srv.pc = "select", srv.ctrl # NoTest
               PROVE  LET t == srv.ctrl
                      IN  /\ Len(srv.streams) = Len(test[t].streams)
                          /\ \A i \in DOMAIN srv.streams : srv.streams[i] # test[t].streams[i]
    BY DEF StreamRolesComplementary
  <2> DEFINE t == srv.ctrl
             s == test[t].streams
             q == srv.streams
  <2>1. t \in Tests /\ ServerTypeOK /\ StreamsInOrder(t) /\ Accepting
    BY TypesOfServer DEF IInv, TypeOK, OfClient
  <2>2. /\ s \in Seq({"snd", "rcv"}) /\ q \in Seq({"snd", "rcv"})
        /\ Waiting(backlog, t) \in Nat
    BY <2>1, WaitingChanges DEF ServerTypeOK, ClientTypeOK, TestType, ServerType
  <2>3. /\ Len(q) = ToReceive(t) + ToSend(t)
        /\ \A i \in DOMAIN q : q[i] = IF i <= ToReceive(t) THEN "rcv" ELSE "snd"
        /\ srv.rec + srv.snd = ToReceive(t) + ToSend(t)
    BY <2>1 DEF Accepting
  <2>4. /\ Len(s) <= Len(Directions(t)) /\ \A i \in DOMAIN s : s[i] = Directions(t)[i]
        /\ srv.rec + srv.snd + Waiting(backlog, t) <= Len(s)
    BY <2>1 DEF StreamsInOrder
  <2>5. /\ ToReceive(t) \in Nat /\ ToSend(t) \in Nat
        /\ ToReceive(t) + ToSend(t) = Len(Directions(t))
        /\ \A i \in 1 .. Len(Directions(t)) :
             Directions(t)[i] = IF i <= ToReceive(t) THEN "snd" ELSE "rcv"
    BY <2>1, StreamCounts
  <2> HIDE DEF s, q, t
  <2>6. Len(q) = Len(s) /\ Len(s) = Len(Directions(t))
    BY <2>2, <2>3, <2>4, <2>5
  <2>7. ASSUME NEW i \in DOMAIN q PROVE q[i] # s[i]
    <3>1. i \in DOMAIN s /\ i \in 1 .. Len(Directions(t))
      BY <2>2, <2>6
    <3>2. s[i] = IF i <= ToReceive(t) THEN "snd" ELSE "rcv"
      BY <2>4, <2>5, <3>1
    <3> QED BY <2>3, <3>2
  <2> QED BY <2>6, <2>7 DEF s, q, t
<1> QED BY <1>1, Invariant, PTL

-----------------------------------------------------------------------------
(* The refinement *)

\* The server stops waiting for results in a loop that goes on only by
\* iperf_exchange_results.
LEMMA ResultsAnswered ==
  ASSUME ServerTypeOK, ServerEvent, srv.pc = "results", srv'.pc = "select"
  PROVE  srv'.ctrl = srv.ctrl
<1>1. ExchangeResultsServer
  BY ServerFailsEnds
     DEF ServerEvent, ServerStep, InLoop, ServerListen, AcceptClient, RefuseClient, ReadCookie,
         GetParameters,
         AcceptStream, StartTest, HandleTestEnd, HandleDone, HandleUnknown, ServerFinish,
         ServerTimer, ServerSelectFails, NoMessageTimeout
<1>2. ASSUME NEW n, Cleanup(n) PROVE FALSE
  BY <1>2 DEF Cleanup, IdleServer
<1> QED BY <1>1, <1>2 DEF ExchangeResultsServer, ServerTypeOK, ServerType

\* An initial state of the protocol is one of TestSession.
LEMMA InitSession == Init => Session!Init
  BY DEF Init, ClientInit, IdleServer, NewTest, Session!Init

\* An event of a client is a stop, a return or a stutter of TestSession: ok is
\* returned only when results were exchanged or the test was stopped.
LEMMA ClientEventSession ==
  ASSUME IInv, NEW t \in Tests, ClientEvent(t), Besides(t)
  PROVE  [Session!Next]_(Session!vars)
<1> DEFINE out == [u \in Tests |-> test[u].result]
<1>1. /\ ClientTypeOK /\ UNCHANGED <<srv, exchanged>> /\ srv.ctrl' = srv.ctrl
      /\ Success(t) /\ test[t] \in TestType
  BY DEF IInv, OfClient, TypeOK, ServerTypeOK, ClientTypeOK, Besides
<1>2. \A u \in Tests \ {t} : test'[u] = test[u]
  BY <1>1, ClientEventFrame DEF TestFrame
<1>3. out' = [u \in Tests |-> test'[u].result]
  OBVIOUS
<1>4. CASE test'[t].result = test[t].result
  <2>1. out' = out
    BY <1>2, <1>4
  <2>2. CASE stopped' = stopped
    BY <1>1, <2>1, <2>2 DEF Session!vars
  <2>3. CASE stopped' = stopped \cup {t}
    <3>1. Session!Stop(t)
      BY <1>1, <2>1, <2>3 DEF Session!Stop
    <3> QED BY <3>1 DEF Session!Next
  <2> QED BY <2>2, <2>3 DEF Besides
<1>5. CASE test'[t].result # test[t].result
  <2>1. PICK r \in {"ok", "fail"} : test'[t].result = r /\ (r = "ok" => test[t].pc = "joinrcv")
                                     /\ test[t].pc # "ret"
    BY <1>1, <1>5, ClientEventTurn DEF ClientTurn
  <2>2. test[t].result = "none" /\ (r = "ok" => t \in exchanged \cup stopped)
    BY <1>1, <2>1 DEF Success
  <2>3. stopped' = stopped
    BY <1>5 DEF Besides
  <2>4. out' = [out EXCEPT ![t] = r]
    BY <1>2, <1>3, <2>1
  <2>5. out[t] = "none"
    BY <2>2
  <2> HIDE DEF out
  <2>6. Session!Return(t, r)
    BY <1>1, <2>2, <2>3, <2>4, <2>5 DEF Session!Return, out
  <2> QED BY <2>6 DEF Session!Next
<1> QED BY <1>4, <1>5

\* A step of the server admits a client, releases it, exchanges results with it, or
\* is a stutter of TestSession.
LEMMA ServerSession ==
  ASSUME IInv, ServerTurns
  PROVE  [Session!Next]_(Session!vars)
<1>1. ServerTypeOK /\ Serving /\ ServerEvent /\ UNCHANGED stopped
  BY DEF IInv, TypeOK, ServerTurns
<1>2. /\ ServerTurn /\ UNCHANGED test /\ srv'.ctrl \in Tests \cup {NoTest}
      /\ srv.ctrl \in Tests \cup {NoTest}
  BY <1>1, ServerStepFrame DEF ServerFrame, ServerType, ServerTypeOK
<1>3. CASE srv.pc = "results" /\ srv'.pc = "select"
  <2>1. srv'.ctrl = srv.ctrl /\ srv.ctrl \in Tests
    BY <1>1, <1>2, <1>3, ResultsAnswered DEF Serving
  <2>2. Session!Exchange(srv.ctrl)
    BY <1>1, <1>2, <1>3, <2>1 DEF Session!Exchange, ServerTurns
  <2> QED BY <2>1, <2>2 DEF Session!Next
<1>4. CASE ~(srv.pc = "results" /\ srv'.pc = "select")
  <2>1. exchanged' = exchanged
    BY <1>4 DEF ServerTurns
  <2>2. CASE srv'.ctrl = srv.ctrl
    BY <1>1, <1>2, <2>1, <2>2 DEF Session!vars
  <2>3. CASE srv'.ctrl = NoTest
    <3>1. Session!Release
      BY <1>1, <1>2, <2>1, <2>3 DEF Session!Release
    <3> QED BY <3>1 DEF Session!Next
  <2>4. CASE srv.ctrl = NoTest /\ srv'.ctrl \in Tests
    <3>1. Session!Admit(srv'.ctrl)
      BY <1>1, <1>2, <2>1, <2>4 DEF Session!Admit
    <3> QED BY <2>4, <3>1 DEF Session!Next
  <2> QED BY <1>2, <2>2, <2>3, <2>4 DEF ServerTurn
<1> QED BY <1>3, <1>4

\* The protocol implements TestSession (SessionSpec), for any number of clients: the
\* outcome a client returns is what the abstract session allows.
THEOREM Refinement == Spec => SessionSpec
<1>1. IInv /\ [Next]_vars => [Session!Next]_(Session!vars)
  <2> SUFFICES ASSUME IInv, [Next]_vars PROVE [Session!Next]_(Session!vars)
    OBVIOUS
  <2>1. CASE Next
    BY <2>1, NextSplit, ClientEventSession, ServerSession DEF IInv
  <2>2. CASE UNCHANGED vars
    BY <2>2 DEF vars, Session!vars
  <2> QED BY <2>1, <2>2
<1> QED BY <1>1, InitSession, Invariant, PTL DEF Spec, SessionSpec, Session!Spec
=============================================================================
