------------------------- MODULE IperfServer_proofs -------------------------
(***************************************************************************)
(* What a step of iperf_run_client, of iperf_run_server or of the threads  *)
(* around them does to one client's test, its connection and the server,   *)
(* and the invariants of one client that every such step keeps.  The       *)
(* lemmas speak of single steps and of no specification: those of          *)
(* ControlProtocol_proofs and IperfJni_proofs use them.                    *)
(*                                                                         *)
(* A lemma named ...Frame says which clients an action leaves alone, and   *)
(* that it keeps the types.  ClientTurn, ClientQueues and ServerFrame say  *)
(* the rest of what an invariant needs to know of a step, so that each is  *)
(* kept by one argument and not by one per action.                         *)
(***************************************************************************)
EXTENDS IperfServer, TLAPS

\* What is on its way in a queue.
Queued(q) == {q[i] : i \in DOMAIN q}

\* Everything that can happen to the test of one client, or to its connections,
\* besides the steps of the server.
ClientEvent(t) ==
  \/ ClientStep(t) \/ RunClient(t) \/ ConnectOk(t) \/ CreateStream(t)
  \/ \E fired, over, met \in BOOLEAN : Run(t, fired, over, met)
  \/ \E d \in {"snd", "rcv"} : StreamThreadExits(t, d)
  \/ ClientFails(t) \/ Interrupted(t)
  \/ MarkDone(t) \/ SendDone(t) \/ ShutControl(t)
  \/ NetworkLost(t)

-----------------------------------------------------------------------------
\* Nothing is on its way in an empty queue.
LEMMA QueuedEmpty == Queued(<<>>) = {}
  BY DEF Queued

\* A message that is sent joins what is on its way.
LEMMA QueuedAppend ==
  ASSUME NEW S, NEW q \in Seq(S), NEW m \in S
  PROVE  Queued(Append(q, m)) \subseteq Queued(q) \cup {m}
  BY DEF Queued

\* Who reads takes one of the messages on their way and adds none.
LEMMA QueuedTail ==
  ASSUME NEW S, NEW q \in Seq(S), q # <<>>
  PROVE  Queued(Tail(q)) \subseteq Queued(q) /\ Head(q) \in Queued(q)
  BY DEF Queued

\* Answers join what is on its way.
LEMMA QueuedConcat ==
  ASSUME NEW S, NEW q \in Seq(S), NEW r \in Seq(S)
  PROVE  Queued(q \o r) \subseteq Queued(q) \cup Queued(r)
<1>1. ASSUME NEW i \in DOMAIN (q \o r)
      PROVE  (q \o r)[i] \in Queued(q) \cup Queued(r)
  <2>1. CASE i <= Len(q)
    BY <2>1 DEF Queued
  <2>2. CASE i > Len(q)
    <3>1. i - Len(q) \in DOMAIN r /\ (q \o r)[i] = r[i - Len(q)]
      BY <2>2
    <3> QED BY <3>1 DEF Queued
  <2> QED BY <2>1, <2>2
<1> QED BY <1>1 DEF Queued

\* A connection that loses its last messages brings no new ones.
LEMMA QueuedPrefix ==
  ASSUME NEW S, NEW q \in Seq(S), NEW i \in 0 .. Len(q)
  PROVE  Queued(SubSeq(q, 1, i)) \subseteq Queued(q)
  BY DEF Queued

-----------------------------------------------------------------------------
(* Types: what a client event changes, and that it keeps the types. *)

Labels == {"idle", "dial", "cookie", "top", "select", "read", "dispatch", "streams",
           "results", "end", "check", "run", "join", "sendend", "joinrcv", "fail", "ret"}
Connections == [test : Tests, kind : {"ctrl", "data"}]

\* Only the test, or the connection, of client t changes, and it keeps its type.
TestFrame(t) ==
  /\ \A u \in Tests \ {t} : test'[u] = test[u]
  /\ test'[t] \in TestType
  /\ test' \in [Tests -> TestType]
NetFrame(t) ==
  /\ \A u \in Tests \ {t} : net'[u] = net[u]
  /\ net'[t] \in NetType
  /\ net' \in [Tests -> NetType]

\* An assignment to the record of test t changes that test alone.
LEMMA TestFramed ==
  ASSUME ClientTypeOK, NEW t \in Tests, NEW r \in TestType, test' = [test EXCEPT ![t] = r]
  PROVE  TestFrame(t) /\ test'[t] = r
  BY DEF TestFrame, ClientTypeOK

\* An assignment to the connection of test t changes that connection alone.
LEMMA NetFramed ==
  ASSUME ClientTypeOK, NEW t \in Tests, NEW r \in NetType, net' = [net EXCEPT ![t] = r]
  PROVE  NetFrame(t) /\ net'[t] = r
  BY DEF NetFrame, ClientTypeOK

\* A step that leaves the tests, or the connections, alone.
LEMMA Unframed ==
  ASSUME ClientTypeOK, NEW t \in Tests
  PROVE  (UNCHANGED test => TestFrame(t)) /\ (UNCHANGED net => NetFrame(t))
  BY DEF TestFrame, NetFrame, ClientTypeOK

\* A step to another label changes the position of the thread and nothing else.
LEMMA JumpFrame ==
  ASSUME ClientTypeOK, NEW t \in Tests, NEW l \in Labels, Jump(t, l)
  PROVE  TestFrame(t) /\ test'[t] = [test[t] EXCEPT !.pc = l]
<1>1. test[t] \in TestType
  BY DEF ClientTypeOK
<1>2. [test[t] EXCEPT !.pc = l] \in TestType
  BY <1>1 DEF TestType, Labels
<1>3. test' = [test EXCEPT ![t] = [test[t] EXCEPT !.pc = l]]
  BY DEF Jump
<1> QED BY <1>2, <1>3, TestFramed

\* A write appends its message or is lost, and changes nothing else.
Wrote(t, m) ==
  /\ NetFrame(t)
  /\ net'[t].toSrv = net[t].toSrv \/ net'[t].toSrv = Append(net[t].toSrv, m)
  /\ net'[t].toCli = net[t].toCli
  /\ net'[t].peer = net[t].peer
  /\ net'[t].cut = net[t].cut

\* A write on the control connection (Nwrite of the client).
LEMMA WrittenFrame ==
  ASSUME ClientTypeOK, NEW t \in Tests, NEW m \in Messages, Written(t, m)
  PROVE  Wrote(t, m)
<1>1. net[t] \in NetType
  BY DEF ClientTypeOK
<1> DEFINE q == IF net[t].peer = "open" /\ ~net[t].cut THEN Append(net[t].toSrv, m)
                ELSE net[t].toSrv
<1>2. q \in Seq(Messages) /\ (q = net[t].toSrv \/ q = Append(net[t].toSrv, m))
  BY <1>1 DEF NetType
<1>3. net' = [net EXCEPT ![t] = [net[t] EXCEPT !.toSrv = q]]
  BY DEF Written
<1> HIDE DEF q
<1>4. [net[t] EXCEPT !.toSrv = q] \in NetType
  BY <1>1, <1>2 DEF NetType
<1>5. NetFrame(t) /\ net'[t] = [net[t] EXCEPT !.toSrv = q]
  BY <1>3, <1>4, NetFramed
<1> QED BY <1>1, <1>2, <1>5 DEF NetType, Wrote

\* A write and the step it is part of: on to the label, or to cleanup_and_fail.
LEMMA WriteThenFrame ==
  ASSUME ClientTypeOK, NEW t \in Tests, NEW m \in Messages, NEW l \in Labels,
         WriteThen(t, m, l)
  PROVE  /\ TestFrame(t) /\ NetFrame(t)
         /\ \/ Wrote(t, m) /\ test'[t] = [test[t] EXCEPT !.pc = l]
            \/ UNCHANGED net /\ test'[t] = [test[t] EXCEPT !.pc = "fail"]
<1>1. CASE Written(t, m) /\ Jump(t, l)
  BY <1>1, WrittenFrame, JumpFrame DEF Wrote
<1>2. CASE UNCHANGED net /\ Jump(t, "fail")
  BY <1>2, JumpFrame, Unframed DEF Labels
<1> QED BY <1>1, <1>2 DEF WriteThen

\* The steps that only move the thread, and where they move it.
Moves(t) ==
  \/ ConnectFails(t) \/ LoopTop(t) \/ SelectReadable(t) \/ SelectTimeout(t)
  \/ ReceiveTimeout(t) \/ CheckRunning(t) \/ HandleOther(t) \/ StreamsCreated(t)
  \/ RunClient(t) \/ SetupControlFails(t) \/ SelectFails(t)

\* The steps that only move the thread go to a label of iperf_run_client.
LEMMA MovesFrame ==
  ASSUME ClientTypeOK, NEW t \in Tests, Moves(t)
  PROVE  /\ TestFrame(t) /\ UNCHANGED <<net, backlog>>
         /\ \E l \in Labels : Jump(t, l) /\ test'[t] = [test[t] EXCEPT !.pc = l]
<1>1. \E l \in Labels : Jump(t, l)
  <2>1. CASE ConnectFails(t) \/ ReceiveTimeout(t) \/ SetupControlFails(t) \/ SelectFails(t)
    BY <2>1 DEF ConnectFails, ReceiveTimeout, SetupControlFails, SelectFails, Labels
  <2>2. CASE LoopTop(t)
    BY <2>2 DEF LoopTop, Labels
  <2>3. CASE SelectReadable(t) \/ SelectTimeout(t) \/ RunClient(t)
    BY <2>3 DEF SelectReadable, SelectTimeout, RunClient, Labels
  <2>4. CASE CheckRunning(t)
    BY <2>4 DEF CheckRunning, Labels
  <2>5. CASE HandleOther(t)
    BY <2>5 DEF HandleOther, Labels
  <2>6. CASE StreamsCreated(t)
    BY <2>6 DEF StreamsCreated, Labels
  <2> QED BY <2>1, <2>2, <2>3, <2>4, <2>5, <2>6 DEF Moves
<1>2. UNCHANGED <<net, backlog>>
  BY DEF Moves, ConnectFails, LoopTop, SelectReadable, SelectTimeout, ReceiveTimeout,
         CheckRunning, HandleOther, StreamsCreated, RunClient, SetupControlFails, SelectFails
<1> QED BY <1>1, <1>2, JumpFrame

\* TEST_START changes the client's own test only.
LEMMA HandleTestStartFrame ==
  ASSUME ClientTypeOK, NEW t \in Tests, HandleTestStart(t)
  PROVE  TestFrame(t)
<1>1. test[t] \in TestType
  BY DEF ClientTypeOK
<1> DEFINE d == test[t].done /\ t \notin Timed
           o == t \in Omits
           r == [test[t] EXCEPT !.done = d, !.armed = TRUE, !.omitting = o, !.pc = "check"]
<1>2. test' = [test EXCEPT ![t] = r]
  BY DEF HandleTestStart
<1>3. d \in BOOLEAN /\ o \in BOOLEAN
  BY <1>1 DEF TestType
<1> HIDE DEF d, o
<1>4. r \in TestType
  BY <1>1, <1>3 DEF TestType
<1> QED BY <1>2, <1>4, TestFramed

\* Timers that cannot be created change the client's own test only.
LEMMA TimersFailFrame ==
  ASSUME ClientTypeOK, NEW t \in Tests, TimersFail(t)
  PROVE  /\ TestFrame(t) /\ UNCHANGED <<net, backlog>>
         /\ test[t].pc = "dispatch"
         /\ test'[t].pc = "fail" /\ test'[t].state = test[t].state
         /\ test'[t].result = test[t].result /\ test'[t].streams = test[t].streams
         /\ test'[t].startup = test[t].startup /\ test'[t].left = test[t].left
         /\ test'[t].live = test[t].live
<1>1. test[t] \in TestType
  BY DEF ClientTypeOK
<1>2. PICK cleared \in BOOLEAN :
        test' = [test EXCEPT ![t].done = @ /\ ~(cleared /\ t \in Timed), ![t].pc = "fail"]
  BY DEF TimersFail
<1> DEFINE d == test[t].done /\ ~(cleared /\ t \in Timed)
           r == [test[t] EXCEPT !.done = d, !.pc = "fail"]
<1>3. test' = [test EXCEPT ![t] = r]
  BY <1>2
<1>4. d \in BOOLEAN
  BY <1>1 DEF TestType
<1> HIDE DEF d
<1>5. /\ r \in TestType /\ r.pc = "fail" /\ r.state = test[t].state
      /\ r.result = test[t].result /\ r.streams = test[t].streams
      /\ r.startup = test[t].startup /\ r.left = test[t].left /\ r.live = test[t].live
  BY <1>1, <1>4 DEF TestType
<1> HIDE DEF r
<1>6. TestFrame(t) /\ test'[t] = r
  BY <1>3, <1>5, TestFramed
<1> QED BY <1>5, <1>6 DEF TimersFail, Received, At

\* Threads that cannot be created, or joined, change the client's own test only.
LEMMA ThreadsFailFrame ==
  ASSUME ClientTypeOK, NEW t \in Tests, ThreadsFail(t)
  PROVE  /\ TestFrame(t) /\ UNCHANGED <<net, backlog>>
         /\ test[t].pc = "run" /\ test[t].startup /\ ~test'[t].startup
         /\ test'[t].pc = "fail" /\ test'[t].state = test[t].state
         /\ test'[t].result = test[t].result /\ test'[t].streams = test[t].streams
         /\ test'[t].left = test[t].left
<1>1. test[t] \in TestType
  BY DEF ClientTypeOK
<1>2. PICK n \in 0 .. Len(test[t].streams) :
        test' = [test EXCEPT ![t].live = {test[t].streams[i] : i \in 1 .. n},
                             ![t].startup = FALSE, ![t].pc = "fail"]
  BY DEF ThreadsFail
<1> DEFINE l == {test[t].streams[i] : i \in 1 .. n}
           r == [test[t] EXCEPT !.live = l, !.startup = FALSE, !.pc = "fail"]
<1>3. test' = [test EXCEPT ![t] = r]
  BY <1>2
<1>4. l \in SUBSET {"snd", "rcv"}
  BY <1>1 DEF TestType
<1> HIDE DEF l
<1>5. /\ r \in TestType /\ r.pc = "fail" /\ r.state = test[t].state
      /\ r.result = test[t].result /\ r.streams = test[t].streams
      /\ r.startup = FALSE /\ r.left = test[t].left
  BY <1>1, <1>4 DEF TestType
<1> HIDE DEF r
<1>6. TestFrame(t) /\ test'[t] = r
  BY <1>3, <1>5, TestFramed
<1> QED BY <1>5, <1>6 DEF ThreadsFail, At

LEMMA JoinFailsFrame ==
  ASSUME ClientTypeOK, NEW t \in Tests, NEW d \in {"snd", "rcv"}, JoinFails(t, d)
  PROVE  /\ TestFrame(t) /\ UNCHANGED <<net, backlog>>
         /\ test[t].pc \in {"join", "joinrcv"}
         /\ test'[t].pc = "fail" /\ test'[t].state = test[t].state
         /\ test'[t].result = test[t].result /\ test'[t].streams = test[t].streams
         /\ test'[t].startup = test[t].startup /\ test[t].left \subseteq test'[t].left
         /\ test'[t].live = test[t].live
<1>1. test[t] \in TestType
  BY DEF ClientTypeOK
<1> DEFINE l == test[t].left \cup {d}
           r == [test[t] EXCEPT !.left = l, !.pc = "fail"]
<1>2. test' = [test EXCEPT ![t] = r]
  BY DEF JoinFails
<1>3. l \in SUBSET {"snd", "rcv"}
  BY <1>1 DEF TestType
<1> HIDE DEF l
<1>4. /\ r \in TestType /\ r.pc = "fail" /\ r.state = test[t].state
      /\ r.result = test[t].result /\ r.streams = test[t].streams
      /\ r.startup = test[t].startup /\ r.left = l /\ r.live = test[t].live
  BY <1>1, <1>3 DEF TestType
<1>5. test[t].left \subseteq l
  BY DEF l
<1> HIDE DEF r
<1>6. TestFrame(t) /\ test'[t] = r
  BY <1>2, <1>4, TestFramed
<1> QED BY <1>4, <1>5, <1>6 DEF JoinFails, At

\* The end of an interrupted client: the fields of its test, and the connection, where
\* it takes its leave or does not.
LEMMA InterruptedFrame ==
  ASSUME ClientTypeOK, NEW t \in Tests, Interrupted(t)
  PROVE  /\ TestFrame(t) /\ NetFrame(t) /\ UNCHANGED backlog
         /\ test[t].pc # "ret" /\ test'[t].pc = "ret" /\ test'[t].result = "fail"
         /\ test'[t].state = "CLIENT_TERMINATE" /\ test'[t].live = {}
         /\ test'[t].startup = test[t].startup /\ test'[t].left = test[t].left
         /\ test'[t].streams = test[t].streams
         /\ net'[t].toCli = <<>> /\ net'[t].peer = net[t].peer /\ net'[t].cut = net[t].cut
         /\ \/ net'[t].toSrv = net[t].toSrv
            \/ net'[t].toSrv = Append(net[t].toSrv, "CLIENT_TERMINATE")
<1>1. test[t] \in TestType /\ net[t] \in NetType
  BY DEF ClientTypeOK
<1>2. PICK told \in BOOLEAN :
        net' = [net EXCEPT ![t].toCli = <<>>,
                           ![t].toSrv = IF told /\ net[t].peer = "open" /\ ~net[t].cut
                                        THEN Append(@, "CLIENT_TERMINATE") ELSE @]
  BY DEF Interrupted
<1> DEFINE c == IF test[t].ctrl = "none" THEN test[t].ctrl ELSE "closed"
           r == [test[t] EXCEPT !.state = "CLIENT_TERMINATE", !.done = TRUE, !.ctrl = c,
                                !.live = {}, !.result = "fail", !.pc = "ret"]
           q == IF told /\ net[t].peer = "open" /\ ~net[t].cut
                THEN Append(net[t].toSrv, "CLIENT_TERMINATE") ELSE net[t].toSrv
           n == [net[t] EXCEPT !.toCli = <<>>, !.toSrv = q]
<1>3. test' = [test EXCEPT ![t] = r]
  BY DEF Interrupted
<1>4. net' = [net EXCEPT ![t] = n]
  BY <1>2
<1>5. c \in {"none", "open", "shut", "closed"} /\ "CLIENT_TERMINATE" \in Messages
  BY <1>1 DEF TestType, Messages, States
<1>6. /\ q \in Seq(Messages) /\ <<>> \in Seq(Messages)
      /\ q = net[t].toSrv \/ q = Append(net[t].toSrv, "CLIENT_TERMINATE")
  BY <1>1, <1>5 DEF NetType
<1> HIDE DEF c, q
<1>7. /\ r \in TestType /\ r.pc = "ret" /\ r.result = "fail" /\ r.state = "CLIENT_TERMINATE"
      /\ r.live = {} /\ r.startup = test[t].startup /\ r.left = test[t].left
      /\ r.streams = test[t].streams
  BY <1>1, <1>5 DEF TestType
<1>8. /\ n \in NetType /\ n.toCli = <<>> /\ n.peer = net[t].peer /\ n.cut = net[t].cut
      /\ n.toSrv = q
  BY <1>1, <1>6 DEF NetType
<1> HIDE DEF r, n
<1>9. TestFrame(t) /\ test'[t] = r
  BY <1>3, <1>7, TestFramed
<1>10. NetFrame(t) /\ net'[t] = n
  BY <1>4, <1>8, NetFramed
<1>11. UNCHANGED backlog /\ test[t].pc # "ret"
  BY DEF Interrupted
<1> QED BY <1>6, <1>7, <1>8, <1>9, <1>10, <1>11

\* Reading the state byte changes the client's own test and connection only.
LEMMA ReadStateFrame ==
  ASSUME ClientTypeOK, NEW t \in Tests, ReadState(t)
  PROVE  TestFrame(t) /\ NetFrame(t)
<1>1. test[t] \in TestType /\ net[t] \in NetType
  BY DEF ClientTypeOK
<1>2. CASE net[t].toCli # <<>> /\ test' = [test EXCEPT ![t].state = Head(net[t].toCli), ![t].pc = "dispatch"]
           /\ net' = [net EXCEPT ![t].toCli = Tail(@)]
  <2>1. Head(net[t].toCli) \in Messages /\ Tail(net[t].toCli) \in Seq(Messages)
    BY <1>1, <1>2 DEF NetType
  <2>2. [test[t] EXCEPT !.state = Head(net[t].toCli), !.pc = "dispatch"] \in TestType
    BY <1>1, <2>1 DEF TestType
  <2>3. [net[t] EXCEPT !.toCli = Tail(net[t].toCli)] \in NetType
    BY <1>1, <2>1 DEF NetType
  <2>4. test' = [test EXCEPT ![t] = [test[t] EXCEPT !.state = Head(net[t].toCli), !.pc = "dispatch"]]
    BY <1>2
  <2>5. net' = [net EXCEPT ![t] = [net[t] EXCEPT !.toCli = Tail(net[t].toCli)]]
    BY <1>2
  <2> QED BY <2>2, <2>3, <2>4, <2>5, TestFramed, NetFramed
<1>3. CASE Jump(t, "fail") /\ UNCHANGED net
  BY <1>3, JumpFrame, Unframed DEF Labels
<1> QED BY <1>2, <1>3 DEF ReadState

\* get_results changes the client's own test and connection only.
LEMMA GetResultsFrame ==
  ASSUME ClientTypeOK, NEW t \in Tests, GetResults(t)
  PROVE  TestFrame(t) /\ NetFrame(t)
<1>1. net[t] \in NetType
  BY DEF ClientTypeOK
<1>2. \E l \in Labels : Jump(t, l)
  BY DEF GetResults, Labels
<1>3. TestFrame(t)
  BY <1>2, JumpFrame
<1>4. CASE UNCHANGED net
  BY <1>3, <1>4, Unframed
<1>5. CASE net[t].toCli # <<>> /\ net' = [net EXCEPT ![t].toCli = Tail(@)]
  <2>1. Tail(net[t].toCli) \in Seq(Messages)
    BY <1>1, <1>5 DEF NetType
  <2>2. [net[t] EXCEPT !.toCli = Tail(net[t].toCli)] \in NetType
    BY <1>1, <2>1 DEF NetType
  <2>3. net' = [net EXCEPT ![t] = [net[t] EXCEPT !.toCli = Tail(net[t].toCli)]]
    BY <1>5
  <2> QED BY <1>3, <2>2, <2>3, NetFramed
<1> QED BY <1>4, <1>5 DEF GetResults

\* Joining the sender threads changes the client's own test only.
LEMMA JoinSendersFrame ==
  ASSUME ClientTypeOK, NEW t \in Tests, JoinSenders(t)
  PROVE  TestFrame(t)
<1>1. test[t] \in TestType
  BY DEF ClientTypeOK
<1> DEFINE l == test[t].live \ {"snd"}
<1>2. l \in SUBSET {"snd", "rcv"}
  BY <1>1 DEF TestType
<1>3. test' = [test EXCEPT ![t] = [test[t] EXCEPT !.live = l, !.done = TRUE, !.pc = "sendend"]]
  BY DEF JoinSenders
<1> HIDE DEF l
<1>4. [test[t] EXCEPT !.live = l, !.done = TRUE, !.pc = "sendend"] \in TestType
  BY <1>1, <1>2 DEF TestType
<1> QED BY <1>3, <1>4, TestFramed

\* iperf_set_send_state(TEST_END) writes that byte on the client's own connection,
\* or nothing.
LEMMA SendTestEndFrame ==
  ASSUME ClientTypeOK, NEW t \in Tests, SendTestEnd(t)
  PROVE  TestFrame(t) /\ NetFrame(t) /\ (Wrote(t, "TEST_END") \/ UNCHANGED net)
<1>1. test[t] \in TestType
  BY DEF ClientTypeOK
<1>2. TestFrame(t)
  <2>1. PICK l \in {"top", "fail"} : test' = [test EXCEPT ![t].state = "TEST_END", ![t].pc = l]
    BY DEF SendTestEnd
  <2>2. test' = [test EXCEPT ![t] = [test[t] EXCEPT !.state = "TEST_END", !.pc = l]]
    BY <2>1
  <2>3. [test[t] EXCEPT !.state = "TEST_END", !.pc = l] \in TestType
    BY ZenonT(40), <1>1 DEF TestType, Messages, States
  <2> QED BY <2>2, <2>3, TestFramed
<1>3. CASE Written(t, "TEST_END")
  BY <1>2, <1>3, WrittenFrame DEF Wrote, Messages, States
<1>4. CASE UNCHANGED net
  BY <1>2, <1>4, Unframed
<1> QED BY <1>3, <1>4 DEF SendTestEnd

\* Leaving the loop of iperf_run_client changes the client's own test only.
LEMMA LoopExitFrame ==
  ASSUME ClientTypeOK, NEW t \in Tests, LoopExit(t)
  PROVE  TestFrame(t)
<1>1. test[t] \in TestType
  BY DEF ClientTypeOK
<1> DEFINE l == test[t].live \ {"rcv"}
<1>2. l \in SUBSET {"snd", "rcv"}
  BY <1>1 DEF TestType
<1>3. test' = [test EXCEPT ![t] = [test[t] EXCEPT !.live = l, !.result = "ok", !.pc = "ret"]]
  BY DEF LoopExit
<1> HIDE DEF l
<1>4. [test[t] EXCEPT !.live = l, !.result = "ok", !.pc = "ret"] \in TestType
  BY <1>1, <1>2 DEF TestType
<1> QED BY <1>3, <1>4, TestFramed

\* iperf_client_end changes the client's own test and connection only.
LEMMA IperfClientEndFrame ==
  ASSUME ClientTypeOK, NEW t \in Tests, NEW live \in SUBSET {"snd", "rcv"},
         NEW result \in {"none", "ok", "fail"}, NEW label \in Labels,
         IperfClientEnd(t, live, result, label)
  PROVE  TestFrame(t) /\ NetFrame(t)
<1>1. test[t] \in TestType /\ net[t] \in NetType
  BY DEF ClientTypeOK
<1> DEFINE farewell == test[t].state \in Positive /\ test[t].ctrl # "none"
           arrives  == farewell /\ net[t].peer = "open" /\ ~net[t].cut
           State    == IF farewell THEN "IPERF_DONE" ELSE test[t].state
           Ctrl(lost) == IF lost \/ test[t].ctrl = "none" THEN test[t].ctrl ELSE "closed"
           ToSrv    == IF arrives THEN Append(net[t].toSrv, "IPERF_DONE") ELSE net[t].toSrv
<1>2. PICK lost \in BOOLEAN :
        /\ test' = [test EXCEPT ![t].state = State, ![t].ctrl = Ctrl(lost),
                                ![t].live = live, ![t].result = result, ![t].pc = label]
        /\ net' = IF lost THEN net ELSE [net EXCEPT ![t].toCli = <<>>, ![t].toSrv = ToSrv]
  BY DEF IperfClientEnd
<1>3. test' = [test EXCEPT ![t] = [test[t] EXCEPT !.state = State, !.ctrl = Ctrl(lost),
                                !.live = live, !.result = result, !.pc = label]]
  BY <1>2
<1>4. State \in Messages /\ Ctrl(lost) \in {"none", "open", "shut", "closed"}
  BY <1>1 DEF TestType, Messages, States
<1>5. ToSrv \in Seq(Messages) /\ <<>> \in Seq(Messages)
  BY <1>1 DEF NetType, Messages, States
<1>6. net' = net \/ net' = [net EXCEPT ![t] = [net[t] EXCEPT !.toCli = <<>>, !.toSrv = ToSrv]]
  BY <1>2
<1> HIDE DEF State, Ctrl, ToSrv
<1>7. [test[t] EXCEPT !.state = State, !.ctrl = Ctrl(lost),
                       !.live = live, !.result = result, !.pc = label] \in TestType
  BY ZenonT(40), <1>1, <1>4 DEF TestType, Labels
<1>8. [net[t] EXCEPT !.toCli = <<>>, !.toSrv = ToSrv] \in NetType
  BY <1>1, <1>5 DEF NetType
<1>9. TestFrame(t)
  BY <1>3, <1>7, TestFramed
<1> QED BY <1>6, <1>8, <1>9, NetFramed, Unframed

\* netdial changes the client's own test and connection and adds a request to the
\* backlog.
LEMMA ConnectOkFrame ==
  ASSUME ClientTypeOK, NEW t \in Tests, ConnectOk(t)
  PROVE  TestFrame(t) /\ NetFrame(t) /\ backlog' \in Seq(Connections)
<1>1. test[t] \in TestType /\ net[t] \in NetType /\ backlog \in Seq(Connections)
  BY DEF ClientTypeOK, Connections
<1>2. [test[t] EXCEPT !.ctrl = "open", !.pc = "cookie"] \in TestType
  BY <1>1 DEF TestType
<1>3. [net[t] EXCEPT !.peer = "open"] \in NetType
  BY <1>1 DEF NetType
<1>4. test' = [test EXCEPT ![t] = [test[t] EXCEPT !.ctrl = "open", !.pc = "cookie"]]
  BY DEF ConnectOk
<1>5. net' = [net EXCEPT ![t] = [net[t] EXCEPT !.peer = "open"]]
  BY DEF ConnectOk
<1>6. [test |-> t, kind |-> "ctrl"] \in Connections
  BY DEF Connections
<1>7. backlog' \in Seq(Connections)
  BY <1>1, <1>6 DEF ConnectOk
<1> QED BY <1>2, <1>3, <1>4, <1>5, <1>7, TestFramed, NetFramed

\* How many streams a mode has, and that each has a direction.
LEMMA DirectionsType ==
  ASSUME NEW t \in Tests
  PROVE  /\ Directions(t) \in Seq({"snd", "rcv"})
         /\ Len(Directions(t)) = IF Mode[t] = "BIDIR" THEN 2 * NumStreams ELSE NumStreams
  BY ClientAssumption DEF Directions

\* A turn of iperf_create_streams changes the client's own test and adds a request
\* to the backlog.
LEMMA CreateStreamFrame ==
  ASSUME ClientTypeOK, NEW t \in Tests, CreateStream(t)
  PROVE  TestFrame(t) /\ backlog' \in Seq(Connections)
<1>1. test[t] \in TestType /\ backlog \in Seq(Connections)
  BY DEF ClientTypeOK, Connections
<1> DEFINE s == Append(test[t].streams, Directions(t)[Len(test[t].streams) + 1])
<1>2. s \in Seq({"snd", "rcv"})
  BY <1>1, DirectionsType DEF CreateStream, TestType
<1>3. test' = [test EXCEPT ![t] = [test[t] EXCEPT !.streams = s]]
  BY DEF CreateStream
<1> HIDE DEF s
<1>4. [test[t] EXCEPT !.streams = s] \in TestType
  BY <1>1, <1>2 DEF TestType
<1>5. [test |-> t, kind |-> "data"] \in Connections
  BY DEF Connections
<1>6. backlog' \in Seq(Connections)
  BY <1>1, <1>5 DEF CreateStream
<1> QED BY <1>3, <1>4, <1>6, TestFramed

\* A turn of the running test changes the client's own test only.
LEMMA RunFrame ==
  ASSUME ClientTypeOK, NEW t \in Tests, NEW fired \in BOOLEAN, NEW over \in BOOLEAN,
         NEW met \in BOOLEAN, Run(t, fired, over, met)
  PROVE  /\ TestFrame(t) /\ UNCHANGED <<net, backlog>>
         /\ test[t].pc = "run" /\ test'[t].pc \in {"join", "top"} /\ ~test'[t].startup
         /\ test[t].startup \/ test'[t].live = test[t].live
         /\ test'[t].state = test[t].state /\ test'[t].result = test[t].result
         /\ test'[t].streams = test[t].streams /\ test'[t].left = test[t].left
<1>1. test[t] \in TestType
  BY DEF ClientTypeOK
<1> DEFINE l == IF test[t].startup
                THEN {test[t].streams[i] : i \in DOMAIN test[t].streams} ELSE test[t].live
           d == test[t].done \/ fired
           o == test[t].omitting /\ ~over
           p == IF (test[t].omitting => over) /\ (test[t].done \/ fired \/ met)
                THEN "join" ELSE "top"
           r == [test[t] EXCEPT !.live = l, !.startup = FALSE, !.done = d, !.omitting = o,
                                !.pc = p]
<1>2. l \in SUBSET {"snd", "rcv"} /\ (test[t].startup \/ l = test[t].live)
  BY <1>1 DEF TestType
<1>3. d \in BOOLEAN /\ o \in BOOLEAN /\ p \in {"join", "top"}
  BY <1>1 DEF TestType
<1>4. test' = [test EXCEPT ![t] = r] /\ UNCHANGED <<net, backlog>> /\ test[t].pc = "run"
  BY DEF Run, At
<1> HIDE DEF l, d, o, p
<1>5. /\ r \in TestType /\ r.pc = p /\ r.live = l /\ r.startup = FALSE
      /\ r.state = test[t].state /\ r.result = test[t].result
      /\ r.streams = test[t].streams /\ r.left = test[t].left
  BY <1>1, <1>2, <1>3 DEF TestType
<1> HIDE DEF r
<1>6. TestFrame(t) /\ test'[t] = r
  BY <1>4, <1>5, TestFramed
<1> QED BY <1>2, <1>3, <1>4, <1>5, <1>6

\* A stream thread that ends changes its own test only.
LEMMA StreamThreadExitsFrame ==
  ASSUME ClientTypeOK, NEW t \in Tests, NEW d \in {"snd", "rcv"}, StreamThreadExits(t, d)
  PROVE  TestFrame(t)
<1>1. test[t] \in TestType
  BY DEF ClientTypeOK
<1> DEFINE l == test[t].live \ {d}
<1>2. l \in SUBSET {"snd", "rcv"}
  BY <1>1 DEF TestType
<1>3. test' = [test EXCEPT ![t] = [test[t] EXCEPT !.live = l]]
  BY DEF StreamThreadExits
<1> HIDE DEF l
<1>4. [test[t] EXCEPT !.live = l] \in TestType
  BY <1>1, <1>2 DEF TestType
<1> QED BY <1>3, <1>4, TestFramed

\* The steps of a stop.
LEMMA StopFrame ==
  ASSUME ClientTypeOK, NEW t \in Tests, MarkDone(t) \/ SendDone(t) \/ ShutControl(t)
  PROVE  TestFrame(t) /\ NetFrame(t) /\ UNCHANGED backlog
<1>1. test[t] \in TestType
  BY DEF ClientTypeOK
<1>2. CASE MarkDone(t)
  <2>1. [test[t] EXCEPT !.done = TRUE] \in TestType
    BY <1>1 DEF TestType
  <2>2. test' = [test EXCEPT ![t] = [test[t] EXCEPT !.done = TRUE]]
    BY <1>2 DEF MarkDone
  <2> QED BY <1>2, <2>1, <2>2, TestFramed, Unframed DEF MarkDone
<1>3. CASE SendDone(t)
  <2>1. [test[t] EXCEPT !.state = "IPERF_DONE"] \in TestType
    BY <1>1 DEF TestType, Messages, States
  <2>2. test' = test \/ test' = [test EXCEPT ![t] = [test[t] EXCEPT !.state = "IPERF_DONE"]]
    BY <1>3 DEF SendDone
  <2>3. TestFrame(t)
    BY <2>1, <2>2, TestFramed, Unframed
  <2>4. UNCHANGED net \/ Written(t, "IPERF_DONE")
    BY <1>3 DEF SendDone
  <2>5. NetFrame(t)
    BY <2>4, WrittenFrame, Unframed DEF Wrote, Messages, States
  <2> QED BY <1>3, <2>3, <2>5 DEF SendDone
<1>4. CASE ShutControl(t)
  <2> DEFINE c == IF test[t].ctrl = "open" THEN "shut" ELSE test[t].ctrl
  <2>1. c \in {"none", "open", "shut", "closed"}
    BY <1>1 DEF TestType
  <2>2. test' = [test EXCEPT ![t] = [test[t] EXCEPT !.ctrl = c]]
    BY <1>4 DEF ShutControl
  <2> HIDE DEF c
  <2>3. [test[t] EXCEPT !.ctrl = c] \in TestType
    BY <1>1, <2>1 DEF TestType
  <2> QED BY <1>4, <2>2, <2>3, TestFramed, Unframed DEF ShutControl
<1> QED BY <1>2, <1>3, <1>4

\* A network that is lost changes the connection of one test only.
LEMMA NetworkLostFrame ==
  ASSUME ClientTypeOK, NEW t \in Tests, NetworkLost(t)
  PROVE  NetFrame(t)
<1>1. net[t] \in NetType
  BY DEF ClientTypeOK
<1>2. PICK i \in 0 .. Len(net[t].toCli), j \in 0 .. Len(net[t].toSrv) :
        net' = [net EXCEPT ![t].cut = TRUE, ![t].toCli = SubSeq(@, 1, i),
                           ![t].toSrv = SubSeq(@, 1, j)]
  BY DEF NetworkLost
<1> DEFINE c == SubSeq(net[t].toCli, 1, i)
           s == SubSeq(net[t].toSrv, 1, j)
<1>3. net' = [net EXCEPT ![t] = [net[t] EXCEPT !.cut = TRUE, !.toCli = c, !.toSrv = s]]
  BY <1>2
<1>4. c \in Seq(Messages) /\ s \in Seq(Messages)
  BY <1>1 DEF NetType
<1> HIDE DEF c, s
<1>5. [net[t] EXCEPT !.cut = TRUE, !.toCli = c, !.toSrv = s] \in NetType
  BY <1>1, <1>4 DEF NetType
<1> QED BY <1>3, <1>5, NetFramed

\* Every client event keeps the types and leaves the other clients alone.
LEMMA ClientEventFrame ==
  ASSUME ClientTypeOK, NEW t \in Tests, ClientEvent(t)
  PROVE  TestFrame(t) /\ NetFrame(t) /\ ClientTypeOK'
<1>1. backlog \in Seq(Connections)
  BY DEF ClientTypeOK, Connections
<1> SUFFICES TestFrame(t) /\ NetFrame(t) /\ backlog' \in Seq(Connections)
  BY DEF ClientTypeOK, TestFrame, NetFrame, Connections
<1> USE <1>1, Unframed
<1>2. CASE Moves(t)
  BY <1>2, MovesFrame
<1>3. CASE SendCookie(t) \/ HandleParamExchange(t) \/ HandleExchangeResults(t)
  BY <1>3, WriteThenFrame DEF SendCookie, HandleParamExchange, HandleExchangeResults,
                              Messages, Labels
<1>4. CASE HandleTestStart(t)
  BY <1>4, HandleTestStartFrame DEF HandleTestStart
<1>5. CASE ReadState(t)
  BY <1>5, ReadStateFrame DEF ReadState
<1>6. CASE GetResults(t)
  BY <1>6, GetResultsFrame DEF GetResults
<1>7. CASE JoinSenders(t)
  BY <1>7, JoinSendersFrame DEF JoinSenders
<1>8. CASE SendTestEnd(t)
  BY <1>8, SendTestEndFrame DEF SendTestEnd
<1>9. CASE LoopExit(t)
  BY <1>9, LoopExitFrame DEF LoopExit
<1>10. CASE DisplayResults(t) \/ CleanupAndFail(t)
  <2>1. PICK live \in SUBSET {"snd", "rcv"}, result \in {"none", "ok", "fail"},
             label \in Labels : IperfClientEnd(t, live, result, label)
    BY <1>10 DEF DisplayResults, CleanupAndFail, ClientTypeOK, TestType, Labels
  <2>2. UNCHANGED backlog
    BY <2>1 DEF IperfClientEnd
  <2> QED BY <2>1, <2>2, IperfClientEndFrame
<1>11. CASE ConnectOk(t)
  BY <1>11, ConnectOkFrame
<1>12. CASE CreateStream(t)
  BY <1>12, CreateStreamFrame DEF CreateStream
<1>13. CASE \E fired, over, met \in BOOLEAN : Run(t, fired, over, met)
  BY <1>13, RunFrame
<1>14. CASE \E d \in {"snd", "rcv"} : StreamThreadExits(t, d)
  BY <1>14, StreamThreadExitsFrame DEF StreamThreadExits
<1>15. CASE MarkDone(t) \/ SendDone(t) \/ ShutControl(t)
  BY <1>15, StopFrame
<1>16. CASE NetworkLost(t)
  BY <1>16, NetworkLostFrame DEF NetworkLost
<1>17. CASE TimersFail(t) \/ ThreadsFail(t)
  BY <1>17, TimersFailFrame, ThreadsFailFrame
<1>18. CASE \E d \in {"snd", "rcv"} : JoinFails(t, d)
  BY <1>18, JoinFailsFrame
<1>19. CASE Interrupted(t)
  BY <1>19, InterruptedFrame
<1> QED BY <1>2, <1>3, <1>4, <1>5, <1>6, <1>7, <1>8, <1>9, <1>10, <1>11, <1>12, <1>13,
           <1>14, <1>15, <1>16, <1>17, <1>18, <1>19
        DEF ClientEvent, ClientStep, ClientFails, Moves

-----------------------------------------------------------------------------
(* What the steps of the server change. *)

Nets == [Tests -> NetType]

\* The control connection the server holds, by the position of its thread.
Serving ==
  /\ srv.pc = "closed" => srv.ctrl = NoTest
  /\ srv.pc \in {"cookie", "params", "start", "results"} => srv.ctrl # NoTest
  /\ srv.pc = "select" /\ srv.state = "CREATE_STREAMS" => srv.ctrl # NoTest

\* What the server writes to client t arrives there at the end of the queue, or is
\* lost.
LEMMA DeliverNet ==
  ASSUME NEW n \in Nets, NEW t \in Tests, NEW ms \in Seq(Messages)
  PROVE  /\ Deliver(n, t, ms) \in Nets
         /\ \A u \in Tests :
              /\ Deliver(n, t, ms)[u].toSrv = n[u].toSrv
              /\ Deliver(n, t, ms)[u].peer = n[u].peer
              /\ Deliver(n, t, ms)[u].cut = n[u].cut
              /\ \/ Deliver(n, t, ms)[u].toCli = n[u].toCli
                 \/ u = t /\ Deliver(n, t, ms)[u].toCli = n[u].toCli \o ms
<1>1. n[t] \in NetType
  BY DEF Nets
<1> DEFINE q == IF test[t].ctrl = "closed" \/ n[t].cut THEN n[t].toCli ELSE n[t].toCli \o ms
           r == [n[t] EXCEPT !.toCli = q]
<1>2. q \in Seq(Messages) /\ (q = n[t].toCli \/ q = n[t].toCli \o ms)
  BY <1>1 DEF NetType
<1>3. Deliver(n, t, ms) = [n EXCEPT ![t] = r]
  BY DEF Deliver
<1> HIDE DEF q
<1>4. r \in NetType /\ r.toSrv = n[t].toSrv /\ r.peer = n[t].peer /\ r.cut = n[t].cut /\ r.toCli = q
  BY <1>1, <1>2 DEF NetType
<1> HIDE DEF r
<1> QED BY <1>2, <1>3, <1>4 DEF Nets

\* What the server reads from client t leaves the head of that queue.
LEMMA ConsumeNet ==
  ASSUME NEW n \in Nets, NEW t \in Tests, n[t].toSrv # <<>>
  PROVE  /\ Consume(n, t) \in Nets
         /\ \A u \in Tests :
              /\ Consume(n, t)[u].toCli = n[u].toCli
              /\ Consume(n, t)[u].peer = n[u].peer
              /\ Consume(n, t)[u].cut = n[u].cut
              /\ Consume(n, t)[u].toSrv = IF u = t THEN Tail(n[u].toSrv) ELSE n[u].toSrv
<1>1. n[t] \in NetType
  BY DEF Nets
<1> DEFINE q == Tail(n[t].toSrv)
           r == [n[t] EXCEPT !.toSrv = q]
<1>2. q \in Seq(Messages)
  BY <1>1 DEF NetType
<1>3. Consume(n, t) = [n EXCEPT ![t] = r]
  BY DEF Consume
<1>4. r \in NetType /\ r.toSrv = q /\ r.peer = n[t].peer /\ r.cut = n[t].cut /\ r.toCli = n[t].toCli
  BY <1>1, <1>2 DEF NetType
<1> HIDE DEF r
<1> QED BY <1>3, <1>4 DEF Nets

\* Closing control connections empties their queues and tells the client, unless the
\* network is lost; the other connections stay.
LEMMA ClosedNet ==
  ASSUME NEW n \in Nets, NEW S, CloseControl(n, S)
  PROVE  /\ net' \in Nets
         /\ \A u \in Tests :
              /\ net'[u].toSrv = IF u \in S THEN <<>> ELSE n[u].toSrv
              /\ net'[u].toCli \in {n[u].toCli, <<>>}
              /\ net'[u].cut = n[u].cut
              /\ net'[u].peer = IF u \in S /\ n[u].peer = "open" /\ ~n[u].cut THEN "closed"
                                ELSE n[u].peer
<1>1. PICK reset \in SUBSET {t \in S : n[t].toSrv # <<>>} : net' = Closed(n, S, reset)
  BY DEF CloseControl
<1>2. ASSUME NEW u \in Tests
      PROVE  /\ net'[u] \in NetType
             /\ net'[u].toSrv = IF u \in S THEN <<>> ELSE n[u].toSrv
             /\ net'[u].toCli \in {n[u].toCli, <<>>}
             /\ net'[u].cut = n[u].cut
             /\ net'[u].peer = IF u \in S /\ n[u].peer = "open" /\ ~n[u].cut THEN "closed"
                               ELSE n[u].peer
  <2>1. n[u] \in NetType
    BY DEF Nets
  <2>2. CASE u \notin S
    BY <2>1, <2>2, <1>1 DEF Closed
  <2>3. CASE u \in S
    <3> DEFINE p == IF n[u].peer = "open" /\ ~n[u].cut THEN "closed" ELSE n[u].peer
               c == IF u \in reset THEN <<>> ELSE n[u].toCli
    <3>1. net'[u] = [n[u] EXCEPT !.peer = p, !.toSrv = <<>>, !.toCli = c]
      BY <2>3, <1>1 DEF Closed
    <3>2. p \in {"none", "open", "closed"} /\ c \in Seq(Messages) /\ <<>> \in Seq(Messages)
          /\ c \in {n[u].toCli, <<>>}
      BY <2>1 DEF NetType
    <3>3. p = IF u \in S /\ n[u].peer = "open" /\ ~n[u].cut THEN "closed" ELSE n[u].peer
      BY <2>3
    <3> HIDE DEF p, c
    <3>4. /\ net'[u] \in NetType /\ net'[u].toSrv = <<>> /\ net'[u].toCli = c
          /\ net'[u].cut = n[u].cut /\ net'[u].peer = p
      BY <3>1, <3>2, <2>1 DEF NetType
    <3> QED BY <3>2, <3>3, <3>4, <2>3
  <2> QED BY <2>2, <2>3
<1>3. net' = [u \in Tests |-> net'[u]]
  BY <1>1 DEF Closed
<1>4. net' \in Nets
  BY <1>2, <1>3 DEF Nets
<1> QED BY <1>2, <1>4

\* A connection request is a test and a kind, and no more.
LEMMA ConnectionFields ==
  ASSUME NEW b \in Connections
  PROVE  b = [test |-> b.test, kind |-> b.kind]
  BY DEF Connections

\* A run that is cleaned up: the connection served and those in the backlog close.
LEMMA CleanupNet ==
  ASSUME ServerTypeOK, NEW n \in Nets, Cleanup(n)
  PROVE  /\ net' \in Nets /\ srv' \in ServerType /\ backlog' = <<>> /\ UNCHANGED test
         /\ srv'.pc = "closed" /\ srv'.ctrl = NoTest
         /\ \A u \in Tests :
              /\ net'[u].toSrv \in {n[u].toSrv, <<>>}
              /\ net'[u].toCli \in {n[u].toCli, <<>>}
              /\ net'[u].cut = n[u].cut
              /\ net'[u].peer = IF /\ \/ u = srv.ctrl
                                      \/ \E i \in DOMAIN backlog :
                                           backlog[i] = [test |-> u, kind |-> "ctrl"]
                                   /\ n[u].peer = "open" /\ ~n[u].cut
                                THEN "closed" ELSE n[u].peer
<1> DEFINE S == ({srv.ctrl} \ {NoTest}) \cup {backlog[i].test : i \in
                       {j \in DOMAIN backlog : backlog[j].kind = "ctrl"}}
<1>1. CloseControl(n, S) /\ backlog' = <<>> /\ UNCHANGED test
      /\ srv' = [IdleServer EXCEPT !.state = srv.state]
  BY DEF Cleanup
<1>2. srv' \in ServerType /\ srv'.pc = "closed" /\ srv'.ctrl = NoTest
  <2>1. srv.state \in Messages
    BY DEF ServerTypeOK, ServerType
  <2>2. srv' = [pc |-> "closed", state |-> srv.state, done |-> FALSE, ctrl |-> NoTest,
                rec |-> 0, snd |-> 0, streams |-> <<>>, timer |-> FALSE]
    BY <1>1 DEF IdleServer
  <2>3. <<>> \in Seq({"snd", "rcv"})
    OBVIOUS
  <2> QED BY <2>1, <2>2, <2>3 DEF ServerType
<1>3. ASSUME NEW u \in Tests
      PROVE  u \in S <=> \/ u = srv.ctrl
                         \/ \E i \in DOMAIN backlog : backlog[i] = [test |-> u, kind |-> "ctrl"]
  <2>1. backlog \in Seq(Connections)
    BY DEF ServerTypeOK, ClientTypeOK, Connections
  <2>2. ASSUME NEW i \in DOMAIN backlog
        PROVE  backlog[i] = [test |-> backlog[i].test, kind |-> backlog[i].kind]
    BY <2>1, ConnectionFields
  <2>3. ASSUME NEW i \in DOMAIN backlog, backlog[i] = [test |-> u, kind |-> "ctrl"]
        PROVE  u \in S
    <3>1. backlog[i].kind = "ctrl" /\ backlog[i].test = u
      BY <2>3
    <3> QED BY <3>1
  <2>4. ASSUME u \in S, u # srv.ctrl
        PROVE  \E i \in DOMAIN backlog : backlog[i] = [test |-> u, kind |-> "ctrl"]
    <3>1. PICK i \in DOMAIN backlog : backlog[i].kind = "ctrl" /\ u = backlog[i].test
      BY <2>4
    <3>2. backlog[i] = [test |-> u, kind |-> "ctrl"]
      BY <2>2, <3>1
    <3> QED BY <3>2
  <2>5. u = srv.ctrl => u \in S
    BY ServerAssumption
  <2> QED BY <2>3, <2>4, <2>5
<1> HIDE DEF S
<1>4. /\ net' \in Nets
      /\ \A u \in Tests :
           /\ net'[u].toSrv = IF u \in S THEN <<>> ELSE n[u].toSrv
           /\ net'[u].toCli \in {n[u].toCli, <<>>}
           /\ net'[u].cut = n[u].cut
           /\ net'[u].peer = IF u \in S /\ n[u].peer = "open" /\ ~n[u].cut THEN "closed"
                             ELSE n[u].peer
  BY <1>1, ClosedNet
<1> QED BY <1>1, <1>2, <1>3, <1>4

\* What the server may answer client u in one step.
Reply(u, ms) ==
  \/ ms \in {<<"ACCESS_DENIED">>, <<"SERVER_ERROR">>, <<"PARAM_EXCHANGE">>,
             <<"TEST_START">>, <<"TEST_START", "TEST_RUNNING">>}
  \/ ms = <<"CREATE_STREAMS">> /\ srv.pc = "params" /\ srv.ctrl = u
  \/ ms = <<"EXCHANGE_RESULTS">> /\ Gets(u, "TEST_END")
  \/ /\ ms = <<"RESULTS", "DISPLAY_RESULTS">>
     /\ srv.pc = "results" /\ srv.ctrl = u /\ srv'.pc = "select"
     /\ Gets(u, "RESULTS") /\ net'[u].toSrv = Tail(net[u].toSrv)

\* What a step of the server may do to the queues of one client: reset them, take
\* one message, answer.
ServerQueues(u) ==
  /\ \/ net'[u].toSrv \in {net[u].toSrv, <<>>}
     \/ net[u].toSrv # <<>> /\ net'[u].toSrv = Tail(net[u].toSrv)
  /\ \/ net'[u].toCli \in {net[u].toCli, <<>>}
     \/ \E ms \in Seq(Messages) : Reply(u, ms) /\ net'[u].toCli = net[u].toCli \o ms

\* The server serves the client it served, one whose connection waited, or nobody;
\* it waits for results only from a client that sent TEST_END.
ServerTurn ==
  /\ srv'.ctrl \in {srv.ctrl, NoTest} \/ (srv.ctrl = NoTest /\ srv'.pc = "cookie")
  /\ srv'.pc = "results" => srv.pc = "select" /\ srv'.ctrl = srv.ctrl
                            /\ srv.ctrl \in Tests /\ Gets(srv.ctrl, "TEST_END")
  /\ srv.pc = "results" => srv'.pc \in {"select", "closed"}

ServerFrame ==
  /\ UNCHANGED test
  /\ net' \in Nets /\ srv' \in ServerType /\ backlog' \in Seq(Connections)
  /\ \A u \in Tests : ServerQueues(u) /\ net'[u].cut = net[u].cut
  /\ ServerTurn
  /\ Serving'

\* The types, taken apart for the proofs that follow.
LEMMA TypesOfServer ==
  ASSUME ServerTypeOK
  PROVE  /\ net \in Nets /\ srv \in ServerType
         /\ backlog \in Seq(Connections) /\ <<>> \in Seq(Connections)
         /\ backlog # <<>> => Head(backlog) \in Connections /\ Tail(backlog) \in Seq(Connections)
         /\ backlog # <<>> => Head(backlog).test \in Tests /\ Head(backlog).kind \in {"ctrl", "data"}
         /\ srv.ctrl # NoTest => srv.ctrl \in Tests
<1>1. net \in Nets /\ srv \in ServerType /\ backlog \in Seq(Connections)
  BY DEF ServerTypeOK, ClientTypeOK, Nets, Connections
<1>2. backlog # <<>> => Head(backlog) \in Connections /\ Tail(backlog) \in Seq(Connections)
  BY <1>1
<1> QED BY <1>1, <1>2 DEF Connections, ServerType

\* cleanup_server, with the connections as they were.
LEMMA CleanupNetFrame ==
  ASSUME ServerTypeOK, Serving, Cleanup(net)
  PROVE  ServerFrame
<1> USE TypesOfServer
<1>1. \A u \in Tests : ServerQueues(u) /\ net'[u].cut = net[u].cut
  BY CleanupNet DEF ServerQueues
<1>2. ServerTurn /\ Serving'
  BY CleanupNet DEF ServerTurn, Serving
<1> QED BY <1>1, <1>2, CleanupNet DEF ServerFrame

\* cleanup_server, also after SERVER_ERROR was written.
LEMMA CleanupFrame ==
  ASSUME ServerTypeOK, Serving, NEW t \in Tests,
         \/ Cleanup(net)
         \/ /\ Gets(t, "PARAMS")
            /\ Cleanup(Deliver(Consume(net, t), t, <<"SERVER_ERROR">>))
  PROVE  ServerFrame
<1> USE TypesOfServer
<1>1. CASE Cleanup(net)
  BY <1>1, CleanupNetFrame
<1>2. CASE Gets(t, "PARAMS") /\ Cleanup(Deliver(Consume(net, t), t, <<"SERVER_ERROR">>))
  <2> DEFINE n == Consume(net, t)
             e == <<"SERVER_ERROR">>
             d == Deliver(n, t, e)
  <2>1. net[t].toSrv # <<>>
    BY <1>2 DEF Gets, FromClient
  <2>2. n \in Nets /\ \A u \in Tests :
          n[u].toCli = net[u].toCli /\ n[u].cut = net[u].cut
          /\ n[u].toSrv = IF u = t THEN Tail(net[u].toSrv) ELSE net[u].toSrv
    BY <2>1, ConsumeNet
  <2>3. e \in Seq(Messages)
    BY DEF Messages, States
  <2>4. Cleanup(d)
    BY <1>2
  <2> HIDE DEF n, e
  <2>5. d \in Nets /\ \A u \in Tests : d[u].toSrv = n[u].toSrv /\ d[u].cut = n[u].cut
          /\ (d[u].toCli = n[u].toCli \/ d[u].toCli = n[u].toCli \o e)
    BY <2>2, <2>3, DeliverNet
  <2> HIDE DEF d
  <2>6. ASSUME NEW u \in Tests
        PROVE  ServerQueues(u) /\ net'[u].cut = net[u].cut
    <3>1. /\ net'[u].toSrv \in {d[u].toSrv, <<>>} /\ net'[u].toCli \in {d[u].toCli, <<>>}
          /\ net'[u].cut = d[u].cut
      BY <2>4, <2>5, CleanupNet
    <3>2. net'[u].toCli \in {net[u].toCli, <<>>} \/ net'[u].toCli = net[u].toCli \o e
      BY <2>2, <2>5, <3>1
    <3>3. \/ net'[u].toSrv \in {net[u].toSrv, <<>>}
          \/ net[u].toSrv # <<>> /\ net'[u].toSrv = Tail(net[u].toSrv)
      BY <2>1, <2>2, <2>5, <3>1
    <3> QED BY <2>2, <2>3, <2>5, <3>1, <3>2, <3>3 DEF ServerQueues, Reply, e
  <2>7. ServerTurn /\ Serving'
    BY <2>4, <2>5, CleanupNet DEF ServerTurn, Serving
  <2> QED BY <2>4, <2>5, <2>6, <2>7, CleanupNet DEF ServerFrame
<1> QED BY <1>1, <1>2

\* iperf_accept that refuses a client or a stream.
LEMMA DenyFrame ==
  ASSUME ServerTypeOK, Serving, NEW read \in BOOLEAN, Deny(read), backlog # <<>>, srv.pc = "select"
  PROVE  ServerFrame
<1> USE TypesOfServer
<1> DEFINE t == Head(backlog).test
           n == IF read THEN [net EXCEPT ![t].toSrv = <<>>] ELSE net
           e == <<"ACCESS_DENIED">>
           d == Deliver(n, t, e)
<1>1. /\ backlog' = Tail(backlog) /\ UNCHANGED <<test, srv>>
      /\ CloseControl(d, {t}) \/ UNCHANGED net
  BY DEF Deny
<1>2. t \in Tests
  OBVIOUS
<1> HIDE DEF t
<1>3. n \in Nets /\ \A u \in Tests :
          n[u].toCli = net[u].toCli /\ n[u].cut = net[u].cut
          /\ (n[u].toSrv = net[u].toSrv \/ n[u].toSrv = <<>>)
  <2> DEFINE r == [net[t] EXCEPT !.toSrv = <<>>]
  <2>1. [net EXCEPT ![t].toSrv = <<>>] = [net EXCEPT ![t] = r]
    OBVIOUS
  <2>2. r \in NetType /\ r.toCli = net[t].toCli /\ r.cut = net[t].cut /\ r.toSrv = <<>>
    <3>1. net[t] \in NetType /\ <<>> \in Seq(Messages)
      BY <1>2 DEF Nets
    <3> QED BY <3>1 DEF NetType
  <2> HIDE DEF r
  <2>3. n = net \/ n = [net EXCEPT ![t] = r]
    BY <2>1
  <2> HIDE DEF n
  <2> QED BY <1>2, <2>2, <2>3 DEF Nets
<1>4. e \in Seq(Messages)
  BY DEF Messages, States
<1> HIDE DEF n, e
<1>5. d \in Nets /\ \A u \in Tests : d[u].toSrv = n[u].toSrv /\ d[u].cut = n[u].cut
        /\ (d[u].toCli = n[u].toCli \/ d[u].toCli = n[u].toCli \o e)
  BY <1>2, <1>3, <1>4, DeliverNet
<1> HIDE DEF d
<1>6. net' \in Nets /\ \A u \in Tests : ServerQueues(u) /\ net'[u].cut = net[u].cut
  <2>1. CASE CloseControl(d, {t})
    <3>1. net' \in Nets
      BY <2>1, <1>5, ClosedNet
    <3>2. ASSUME NEW u \in Tests
          PROVE  ServerQueues(u) /\ net'[u].cut = net[u].cut
      <4>1. /\ net'[u].toSrv \in {d[u].toSrv, <<>>} /\ net'[u].toCli \in {d[u].toCli, <<>>}
            /\ net'[u].cut = d[u].cut
        BY <2>1, <1>5, ClosedNet
      <4>2. net'[u].toCli \in {net[u].toCli, <<>>} \/ net'[u].toCli = net[u].toCli \o e
        BY <1>3, <1>5, <4>1
      <4> QED BY <1>3, <1>4, <1>5, <4>1, <4>2 DEF ServerQueues, Reply, e
    <3> QED BY <3>1, <3>2
  <2>2. CASE UNCHANGED net
    BY <2>2 DEF ServerQueues
  <2> QED BY <2>1, <2>2, <1>1
<1> QED BY <1>1, <1>6 DEF ServerFrame, ServerTurn, Serving

\* The message of client t is taken and answered with ms.
Answered(t, ms) == net' = Deliver(Consume(net, t), t, ms)

\* A message taken from client t and an answer to it: the other connections stay.
LEMMA AnsweredNet ==
  ASSUME ServerTypeOK, NEW t \in Tests, NEW ms \in Seq(Messages), Answered(t, ms),
         net[t].toSrv # <<>>
  PROVE  /\ net' \in Nets
         /\ \A u \in Tests :
              /\ net'[u].peer = net[u].peer /\ net'[u].cut = net[u].cut
              /\ u # t => net'[u].toSrv = net[u].toSrv /\ net'[u].toCli = net[u].toCli
         /\ net'[t].toSrv = Tail(net[t].toSrv)
         /\ net'[t].toCli = net[t].toCli \/ net'[t].toCli = net[t].toCli \o ms
<1> DEFINE n == Consume(net, t)
<1>1. n \in Nets /\ \A u \in Tests :
        /\ n[u].toCli = net[u].toCli /\ n[u].cut = net[u].cut /\ n[u].peer = net[u].peer
        /\ n[u].toSrv = IF u = t THEN Tail(net[u].toSrv) ELSE net[u].toSrv
  BY ConsumeNet, TypesOfServer
<1>2. net' = Deliver(n, t, ms)
  BY DEF Answered
<1> HIDE DEF n
<1>3. ASSUME NEW u \in Tests
      PROVE  /\ net'[u].peer = n[u].peer /\ net'[u].cut = n[u].cut
             /\ net'[u].toSrv = n[u].toSrv
             /\ net'[u].toCli = n[u].toCli \/ (u = t /\ net'[u].toCli = n[u].toCli \o ms)
  BY <1>1, <1>2, DeliverNet
<1>4. net' \in Nets
  BY <1>1, <1>2, DeliverNet
<1> QED BY <1>1, <1>3, <1>4

\* A client that is answered is the one served, and the answer one it may get.
LEMMA AnswerFrame ==
  ASSUME ServerTypeOK, NEW t \in Tests, NEW ms \in Seq(Messages), Answered(t, ms),
         net[t].toSrv # <<>>, net'[t].toSrv = Tail(net[t].toSrv) => Reply(t, ms)
  PROVE  net' \in Nets /\ \A u \in Tests : ServerQueues(u) /\ net'[u].cut = net[u].cut
<1>1. net' \in Nets /\ net'[t].toSrv = Tail(net[t].toSrv)
      /\ (net'[t].toCli = net[t].toCli \/ net'[t].toCli = net[t].toCli \o ms)
      /\ \A u \in Tests : /\ net'[u].cut = net[u].cut
                          /\ u # t => net'[u].toSrv = net[u].toSrv /\ net'[u].toCli = net[u].toCli
  BY AnsweredNet
<1>2. ServerQueues(t)
  BY <1>1 DEF ServerQueues
<1>3. ASSUME NEW u \in Tests, u # t PROVE ServerQueues(u)
  BY <1>1, <1>3 DEF ServerQueues
<1> QED BY <1>1, <1>2, <1>3

\* iperf_accept, once the cookie came or did not come.
LEMMA ReadCookieFrame ==
  ASSUME ServerTypeOK, Serving, ReadCookie
  PROVE  ServerFrame
<1> USE TypesOfServer
<1> DEFINE t == srv.ctrl
           ms == <<"PARAM_EXCHANGE">>
<1>1. t \in Tests
  BY DEF ReadCookie, Serving
<1>2. CASE Cleanup(net)
  BY <1>1, <1>2, CleanupFrame
<1>3. CASE /\ Gets(t, "COOKIE")
           /\ net' = Deliver(Consume(net, t), t, ms)
           /\ srv' = [srv EXCEPT !.pc = "params", !.state = "PARAM_EXCHANGE"]
           /\ UNCHANGED <<test, backlog>>
  <2>1. ms \in Seq(Messages) /\ Reply(t, ms)
    BY DEF Messages, States, Reply
  <2>2. Answered(t, ms) /\ net[t].toSrv # <<>>
    BY <1>3 DEF Answered, Gets, FromClient
  <2>3. srv' \in ServerType
    BY <1>3 DEF ServerType, Messages, States
  <2>4. ServerTurn /\ Serving'
    BY <1>3, <1>1 DEF ReadCookie, ServerTurn, Serving, ServerType
  <2> HIDE DEF t, ms
  <2> QED BY <1>1, <1>3, <2>1, <2>2, <2>3, <2>4, AnswerFrame DEF ServerFrame
<1> QED BY <1>2, <1>3 DEF ReadCookie

\* iperf_exchange_parameters on the server.
LEMMA GetParametersFrame ==
  ASSUME ServerTypeOK, Serving, GetParameters
  PROVE  ServerFrame
<1> USE TypesOfServer
<1> DEFINE t == srv.ctrl
           ms == <<"CREATE_STREAMS">>
<1>1. t \in Tests
  BY DEF GetParameters, Serving
<1>2. CASE Cleanup(net)
  BY <1>1, <1>2, CleanupFrame
<1>3. CASE Gets(t, "PARAMS") /\ Cleanup(Deliver(Consume(net, t), t, <<"SERVER_ERROR">>))
  BY <1>1, <1>3, CleanupFrame
<1>4. CASE /\ Gets(t, "PARAMS")
           /\ net' = Deliver(Consume(net, t), t, ms)
           /\ srv' = [srv EXCEPT !.pc = "select", !.state = "CREATE_STREAMS"]
           /\ UNCHANGED <<test, backlog>>
  <2>1. ms \in Seq(Messages) /\ Reply(t, ms)
    BY DEF Messages, States, Reply, GetParameters
  <2>2. Answered(t, ms) /\ net[t].toSrv # <<>>
    BY <1>4 DEF Answered, Gets, FromClient
  <2>3. srv' \in ServerType
    BY <1>4 DEF ServerType, Messages, States
  <2>4. ServerTurn /\ Serving'
    BY <1>4, <1>1, ServerAssumption DEF GetParameters, ServerTurn, Serving, ServerType
  <2> HIDE DEF t, ms
  <2> QED BY <1>1, <1>4, <2>1, <2>2, <2>3, <2>4, AnswerFrame DEF ServerFrame
<1> QED BY <1>2, <1>3, <1>4 DEF GetParameters

\* TEST_END is taken, and the server then waits for the results of its client.
LEMMA HandleTestEndFrame ==
  ASSUME ServerTypeOK, Serving, HandleTestEnd
  PROVE  ServerFrame
<1> USE TypesOfServer
<1> DEFINE t == srv.ctrl
           ms == <<"EXCHANGE_RESULTS">>
<1>1. t \in Tests /\ Gets(t, "TEST_END")
  BY DEF HandleTestEnd
<1>2. CASE Cleanup(net)
  BY <1>1, <1>2, CleanupFrame
<1>3. CASE /\ net' = Deliver(Consume(net, t), t, ms)
           /\ srv' = [srv EXCEPT !.pc = "results", !.state = "EXCHANGE_RESULTS", !.done = TRUE]
           /\ UNCHANGED <<test, backlog>>
  <2>1. ms \in Seq(Messages) /\ Reply(t, ms)
    BY <1>1 DEF Messages, States, Reply
  <2>2. Answered(t, ms) /\ net[t].toSrv # <<>>
    BY <1>1, <1>3 DEF Answered, Gets, FromClient
  <2>3. srv' \in ServerType
    BY <1>3 DEF ServerType, Messages, States
  <2>4. ServerTurn /\ Serving'
    BY <1>3, <1>1, ServerAssumption DEF HandleTestEnd, InLoop, ServerTurn, Serving, ServerType
  <2> HIDE DEF t, ms
  <2> QED BY <1>1, <1>3, <2>1, <2>2, <2>3, <2>4, AnswerFrame DEF ServerFrame
<1> QED BY <1>2, <1>3 DEF HandleTestEnd

\* iperf_exchange_results on the server: its own results answer those of the client.
LEMMA ExchangeResultsServerFrame ==
  ASSUME ServerTypeOK, Serving, ExchangeResultsServer
  PROVE  ServerFrame
<1> USE TypesOfServer
<1> DEFINE t == srv.ctrl
           ms == <<"RESULTS", "DISPLAY_RESULTS">>
<1>1. t \in Tests /\ srv.pc = "results"
  BY DEF ExchangeResultsServer, Serving
<1>2. CASE Cleanup(net)
  BY <1>1, <1>2, CleanupFrame
<1>3. CASE /\ Gets(t, "RESULTS")
           /\ net' = Deliver(Consume(net, t), t, ms)
           /\ srv' = [srv EXCEPT !.pc = "select", !.state = "DISPLAY_RESULTS"]
           /\ UNCHANGED <<test, backlog>>
  <2>1. ms \in Seq(Messages)
    BY DEF Messages, States
  <2>2. Answered(t, ms) /\ net[t].toSrv # <<>>
    BY <1>3 DEF Answered, Gets, FromClient
  <2>3. srv' \in ServerType /\ srv'.pc = "select"
    BY <1>3 DEF ServerType, Messages, States
  <2>4. ServerTurn /\ Serving'
    BY <1>3, <1>1 DEF ServerTurn, Serving, ServerType
  <2>5. net'[t].toSrv = Tail(net[t].toSrv) => Reply(t, ms)
    BY <1>1, <1>3, <2>3 DEF Reply
  <2> HIDE DEF t, ms
  <2> QED BY <1>1, <1>3, <2>1, <2>2, <2>3, <2>4, <2>5, AnswerFrame DEF ServerFrame
<1> QED BY <1>2, <1>3 DEF ExchangeResultsServer

\* The server starts the test of the client it serves.
LEMMA StartTestFrame ==
  ASSUME ServerTypeOK, Serving, StartTest
  PROVE  ServerFrame
<1> USE TypesOfServer
<1> DEFINE t == srv.ctrl
           ms == <<"TEST_START", "TEST_RUNNING">>
<1>1. t \in Tests /\ srv.pc = "start"
  BY DEF StartTest, Serving
<1>2. CASE Cleanup(net)
  BY <1>1, <1>2, CleanupFrame
<1>3. CASE /\ net' = Deliver(net, t, ms)
           /\ srv' = [srv EXCEPT !.pc = "select", !.state = "TEST_RUNNING",
                                 !.done = @ /\ t \notin Timed, !.timer = t \in Timed]
           /\ UNCHANGED <<test, backlog>>
  <2>1. ms \in Seq(Messages) /\ \A u \in Tests : Reply(u, ms)
    BY DEF Messages, States, Reply
  <2>2. srv' \in ServerType
    <3> DEFINE d == srv.done /\ t \notin Timed
               m == t \in Timed
    <3>1. srv' = [srv EXCEPT !.pc = "select", !.state = "TEST_RUNNING", !.done = d, !.timer = m]
      BY <1>3
    <3>2. d \in BOOLEAN /\ m \in BOOLEAN
      BY DEF ServerType
    <3> HIDE DEF d, m
    <3> QED BY <3>1, <3>2 DEF ServerType, Messages, States
  <2>3. ServerTurn /\ Serving'
    BY <1>3, <1>1 DEF ServerTurn, Serving, ServerType
  <2> HIDE DEF ms
  <2>4. net' \in Nets
    BY <1>1, <1>3, <2>1, DeliverNet
  <2>5. ASSUME NEW u \in Tests
        PROVE  ServerQueues(u) /\ net'[u].cut = net[u].cut
    <3>1. /\ net'[u].toSrv = net[u].toSrv /\ net'[u].cut = net[u].cut
          /\ net'[u].toCli = net[u].toCli \/ net'[u].toCli = net[u].toCli \o ms
      BY SMTT(20), <1>1, <1>3, <2>1, DeliverNet
    <3> QED BY <2>1, <3>1 DEF ServerQueues
  <2> QED BY <1>3, <2>2, <2>3, <2>4, <2>5 DEF ServerFrame
<1> QED BY <1>2, <1>3 DEF StartTest

\* The server learns that its client is done.
LEMMA HandleDoneFrame ==
  ASSUME ServerTypeOK, Serving, HandleDone
  PROVE  ServerFrame
<1> USE TypesOfServer
<1> DEFINE t == srv.ctrl
<1>1. t \in Tests /\ srv.pc = "select" /\ srv' = [srv EXCEPT !.state = "IPERF_DONE"]
      /\ UNCHANGED <<test, backlog>>
  BY DEF HandleDone, InLoop
<1>2. srv' \in ServerType /\ ServerTurn /\ Serving'
  <2>1. srv' \in ServerType
    BY <1>1 DEF ServerType, Messages, States
  <2> QED BY <1>1, <2>1 DEF ServerTurn, Serving, ServerType
<1>3. net' \in Nets /\ \A u \in Tests : ServerQueues(u) /\ net'[u].cut = net[u].cut
  <2>1. CASE UNCHANGED net
    BY <2>1 DEF ServerQueues
  <2>2. CASE (Gets(t, "IPERF_DONE") \/ Gets(t, "CLIENT_TERMINATE")) /\ net' = Consume(net, t)
    <3>1. net[t].toSrv # <<>>
      BY <2>2 DEF Gets, FromClient
    <3> HIDE DEF t
    <3> QED BY <1>1, <2>2, <3>1, ConsumeNet DEF ServerQueues
  <2> QED BY <2>1, <2>2 DEF HandleDone
<1> QED BY <1>1, <1>2, <1>3 DEF ServerFrame

\* A connection accepted in CREATE_STREAMS becomes a stream or is denied.
LEMMA AcceptStreamFrame ==
  ASSUME ServerTypeOK, Serving, AcceptStream
  PROVE  ServerFrame
<1> USE TypesOfServer
<1> DEFINE t == srv.ctrl
           rec == srv.rec # ToReceive(t)
           now == [srv EXCEPT !.rec = IF rec THEN @ + 1 ELSE @,
                              !.snd = IF rec THEN @ ELSE @ + 1,
                              !.streams = Append(@, IF rec THEN "rcv" ELSE "snd")]
           all == now.rec = ToReceive(t) /\ now.snd = ToSend(t)
<1>1. t \in Tests /\ backlog # <<>> /\ srv.pc = "select"
  BY DEF AcceptStream, InLoop, Serving
<1>2. CASE Deny(TRUE)
  BY <1>1, <1>2, DenyFrame
<1>3. CASE /\ srv' = [now EXCEPT !.pc = IF all THEN "start" ELSE @]
           /\ backlog' = Tail(backlog)
           /\ UNCHANGED <<test, net>>
  <2>1. now \in ServerType /\ now.pc = srv.pc /\ now.ctrl = srv.ctrl
    <3> DEFINE r == IF rec THEN srv.rec + 1 ELSE srv.rec
               s == IF rec THEN srv.snd ELSE srv.snd + 1
               q == Append(srv.streams, IF rec THEN "rcv" ELSE "snd")
    <3>1. r \in Nat /\ s \in Nat /\ q \in Seq({"snd", "rcv"})
      BY DEF ServerType
    <3>2. now = [srv EXCEPT !.rec = r, !.snd = s, !.streams = q]
      OBVIOUS
    <3> HIDE DEF r, s, q, now
    <3> QED BY <3>1, <3>2 DEF ServerType
  <2> DEFINE p == IF all THEN "start" ELSE now.pc
  <2>2. srv' = [now EXCEPT !.pc = p] /\ p \in {"start", "select"}
    BY <1>1, <1>3, <2>1
  <2> HIDE DEF now, p
  <2>3. srv' \in ServerType /\ srv'.ctrl = srv.ctrl /\ srv'.pc \in {"start", "select"}
    BY <2>1, <2>2 DEF ServerType
  <2>4. ServerTurn /\ Serving'
    BY <1>1, <2>3, ServerAssumption DEF ServerTurn, Serving
  <2>5. net' \in Nets /\ \A u \in Tests : ServerQueues(u) /\ net'[u].cut = net[u].cut
    BY <1>3 DEF ServerQueues
  <2> QED BY <1>1, <1>3, <2>3, <2>4, <2>5 DEF ServerFrame
<1> QED BY <1>2, <1>3 DEF AcceptStream

\* A connection accepted by a free server: its client is served from here on.
LEMMA AcceptClientFrame ==
  ASSUME ServerTypeOK, Serving, AcceptClient
  PROVE  ServerFrame
<1> USE TypesOfServer
<1>1. backlog # <<>> /\ srv.pc = "select" /\ srv.ctrl = NoTest /\ Head(backlog).test \in Tests
  BY DEF AcceptClient, InLoop
<1>2. CASE Cleanup(net)
  BY <1>1, <1>2, CleanupFrame
<1>3. CASE /\ srv' = [srv EXCEPT !.ctrl = Head(backlog).test, !.pc = "cookie"]
           /\ backlog' = Tail(backlog)
           /\ UNCHANGED <<test, net>>
  <2>1. srv' \in ServerType
    BY <1>1, <1>3 DEF ServerType
  <2>2. ServerTurn /\ Serving'
    BY <1>1, <1>3, ServerAssumption DEF ServerTurn, Serving, ServerType
  <2>3. net' \in Nets /\ \A u \in Tests : ServerQueues(u) /\ net'[u].cut = net[u].cut
    BY <1>3 DEF ServerQueues
  <2> QED BY <1>1, <1>3, <2>1, <2>2, <2>3 DEF ServerFrame
<1> QED BY <1>2, <1>3 DEF AcceptClient

\* server_timer_proc gives up the client it serves.
LEMMA ServerTimerFrame ==
  ASSUME ServerTypeOK, Serving, ServerTimer
  PROVE  ServerFrame
<1> USE TypesOfServer
<1>1. srv.pc = "select"
  BY DEF ServerTimer, InLoop
<1>2. CASE srv' = [srv EXCEPT !.timer = FALSE] /\ UNCHANGED cvars
  <2>1. srv' \in ServerType /\ ServerTurn /\ Serving'
    <3>1. srv' \in ServerType
      BY <1>2 DEF ServerType
    <3> QED BY <1>1, <1>2, <3>1 DEF ServerTurn, Serving, ServerType
  <2>2. net' \in Nets /\ \A u \in Tests : ServerQueues(u) /\ net'[u].cut = net[u].cut
    BY <1>2 DEF ServerQueues, cvars
  <2> QED BY <1>2, <2>1, <2>2 DEF ServerFrame, cvars
<1>3. CASE /\ srv' = [srv EXCEPT !.timer = FALSE, !.done = TRUE, !.streams = <<>>,
                                 !.ctrl = NoTest, !.pc = "broken"]
           /\ CloseControl(net, {srv.ctrl})
           /\ UNCHANGED <<test, backlog>>
  <2>1. srv' \in ServerType /\ ServerTurn /\ Serving'
    <3>1. <<>> \in Seq({"snd", "rcv"})
      OBVIOUS
    <3>2. srv' \in ServerType
      BY <1>3, <3>1 DEF ServerType
    <3> QED BY <1>1, <1>3, <3>2 DEF ServerTurn, Serving, ServerType
  <2>2. net' \in Nets /\ \A u \in Tests : ServerQueues(u) /\ net'[u].cut = net[u].cut
    BY <1>3, ClosedNet DEF ServerQueues
  <2> QED BY <1>3, <2>1, <2>2 DEF ServerFrame
<1> QED BY <1>2, <1>3 DEF ServerTimer

\* A new run of iperf_run_server begins without a client.
LEMMA ServerListenFrame ==
  ASSUME ServerTypeOK, Serving, ServerListen
  PROVE  ServerFrame
<1> USE TypesOfServer
<1>1. srv' = [pc |-> "select", state |-> "IPERF_START", done |-> FALSE, ctrl |-> NoTest,
              rec |-> 0, snd |-> 0, streams |-> <<>>, timer |-> FALSE]
  BY DEF ServerListen, IdleServer
<1>2. srv' \in ServerType
  <2>1. <<>> \in Seq({"snd", "rcv"})
    OBVIOUS
  <2> QED BY <1>1, <2>1 DEF ServerType, Messages, States
<1>3. ServerTurn /\ Serving'
  <2>1. srv.pc = "closed"
    BY DEF ServerListen
  <2>2. srv'.pc = "select" /\ srv'.ctrl = NoTest /\ srv'.state = "IPERF_START"
    BY <1>1
  <2> QED BY <2>1, <2>2 DEF ServerTurn, Serving
<1>4. net' \in Nets /\ \A u \in Tests : ServerQueues(u) /\ net'[u].cut = net[u].cut
  BY DEF ServerListen, cvars, ServerQueues
<1> QED BY <1>2, <1>3, <1>4 DEF ServerListen, cvars, ServerFrame

\* What is told are states.
LEMMA ToldMessages == Told \subseteq Seq(Messages)
<1>1. "TEST_START" \in Messages /\ "TEST_RUNNING" \in Messages
  BY DEF Messages, States
<1>2. /\ <<>> \in Seq(Messages) /\ <<"TEST_START">> \in Seq(Messages)
      /\ <<"TEST_START", "TEST_RUNNING">> \in Seq(Messages)
  BY <1>1
<1> QED BY <1>2 DEF Told

\* The server gives a test up that it was about to start, with one or both states
\* told, or none.
LEMMA StartFailsFrame ==
  ASSUME ServerTypeOK, Serving, srv.pc = "start", NEW e \in Told,
         Cleanup(Deliver(net, srv.ctrl, e))
  PROVE  ServerFrame
<1> USE TypesOfServer
<1> DEFINE t == srv.ctrl
           d == Deliver(net, t, e)
<1>1. t \in Tests
  BY DEF Serving
<1>2. e \in Seq(Messages)
  BY ToldMessages
<1>3. Cleanup(d)
  OBVIOUS
<1>4. d \in Nets /\ \A u \in Tests : d[u].toSrv = net[u].toSrv /\ d[u].cut = net[u].cut
        /\ (d[u].toCli = net[u].toCli \/ d[u].toCli = net[u].toCli \o e)
  BY <1>1, <1>2, DeliverNet
<1> HIDE DEF d
<1>5. ASSUME NEW u \in Tests
      PROVE  ServerQueues(u) /\ net'[u].cut = net[u].cut
  <2>1. /\ net'[u].toSrv \in {net[u].toSrv, <<>>} /\ net'[u].toCli \in {d[u].toCli, <<>>}
        /\ net'[u].cut = net[u].cut
    BY <1>3, <1>4, CleanupNet
  <2>2. net'[u].toCli \in {net[u].toCli, <<>>} \/ net'[u].toCli = net[u].toCli \o e
    BY <1>4, <2>1
  <2>3. net[u].toCli \o <<>> = net[u].toCli
    BY DEF Nets, NetType
  <2>4. e # <<>> => Reply(u, e)
    BY DEF Told, Reply
  <2> QED BY <1>2, <2>1, <2>2, <2>3, <2>4 DEF ServerQueues
<1>6. ServerTurn /\ Serving'
  BY <1>3, <1>4, CleanupNet DEF ServerTurn, Serving
<1> QED BY <1>3, <1>4, <1>5, <1>6, CleanupNet DEF ServerFrame

\* Everything the server does: its own steps, and those that fail.
ServerEvent == ServerStep \/ ServerFails

\* Every step of the server keeps the types and does to the queues what a server may.
LEMMA ServerStepFrame ==
  ASSUME ServerTypeOK, Serving, ServerEvent
  PROVE  ServerFrame /\ ServerTypeOK'
<1> SUFFICES ServerFrame
  BY TypesOfServer DEF ServerFrame, ServerTypeOK, ClientTypeOK, Nets, Connections
<1>1. CASE RefuseClient
  BY <1>1, DenyFrame DEF RefuseClient, InLoop
<1>2. CASE HandleUnknown \/ ServerFinish \/ ServerSelectFails \/ NoMessageTimeout
  <2>1. Cleanup(net)
    BY <1>2 DEF HandleUnknown, ServerFinish, ServerSelectFails, NoMessageTimeout
  <2> QED BY <2>1, CleanupNetFrame
<1>3. CASE ServerFails
  BY <1>3, CleanupNetFrame, StartFailsFrame DEF ServerFails
<1> QED BY <1>1, <1>2, <1>3, ServerListenFrame, AcceptClientFrame, ReadCookieFrame,
           GetParametersFrame, AcceptStreamFrame, StartTestFrame, HandleTestEndFrame,
           HandleDoneFrame, ExchangeResultsServerFrame, ServerTimerFrame
        DEF ServerEvent, ServerStep

-----------------------------------------------------------------------------
(* What the queues, the threads and the results of one client have to do with *)
(* each other.                                                                *)

\* The threads were created and the senders among them are gone.
Ended(t) == ~test[t].startup /\ "snd" \notin test[t].live

\* Wherever the end of the test shows, the senders were joined.
EndedOnceSaid(t) ==
  /\ test[t].pc = "join" => ~test[t].startup
  /\ test[t].pc = "sendend" => Ended(t)
  /\ test[t].state \in {"TEST_END", "EXCHANGE_RESULTS", "DISPLAY_RESULTS"} => Ended(t)
  /\ {"TEST_END", "RESULTS"} \cap Queued(net[t].toSrv) # {} => Ended(t)
  /\ srv.ctrl = t /\ srv.pc = "results" => Ended(t)
  /\ {"TEST_END", "EXCHANGE_RESULTS", "DISPLAY_RESULTS"} \cap Queued(net[t].toCli) # {} => Ended(t)

\* At most one body of results is in a queue.
Single(q) == \A i, j \in DOMAIN q : q[i] = "RESULTS" /\ q[j] = "RESULTS" => i = j

\* A body of results is under way only while the client waits for one, or after it
\* has given up.
ResultsAwaited(t) ==
  /\ test[t].state \in States
  /\ Queued(net[t].toCli) \subseteq States \cup {"RESULTS"}
  /\ test[t].pc \notin {"results", "fail", "ret"} =>
       "RESULTS" \notin Queued(net[t].toSrv) /\ "RESULTS" \notin Queued(net[t].toCli)
  /\ test[t].pc = "results" =>
       /\ Single(net[t].toSrv) /\ Single(net[t].toCli)
       /\ "RESULTS" \notin Queued(net[t].toSrv) \/ "RESULTS" \notin Queued(net[t].toCli)

\* The server never takes leave of a client.
NoFarewell(t) == "IPERF_DONE" \notin Queued(net[t].toCli)

\* An open connection is that of the client served, or it waits in the backlog.
Admitted(t) ==
  net[t].peer = "open" /\ ~net[t].cut =>
    srv.ctrl = t \/ \E i \in DOMAIN backlog : backlog[i] = [test |-> t, kind |-> "ctrl"]

-----------------------------------------------------------------------------
(* What a client event does, as far as these invariants are concerned. *)

\* What a client may send in one step.
Says(t) ==
  {"COOKIE", "PARAMS", "IPERF_DONE", "CLIENT_TERMINATE"}
  \cup (IF test[t].pc = "sendend" THEN {"TEST_END"} ELSE {})
  \cup (IF /\ test[t].pc = "dispatch" /\ test[t].state = "EXCHANGE_RESULTS"
           /\ test'[t].pc \in {"results", "fail"}
        THEN {"RESULTS"} ELSE {})

\* What it does to the queues of its connection: the client takes one message or
\* discards all, sends one, or the network loses the last of them.
ClientQueues(t) ==
  /\ \/ net'[t].toCli \in {net[t].toCli, <<>>}
     \/ net[t].toCli # <<>> /\ net'[t].toCli = Tail(net[t].toCli)
     \/ \E i \in 0 .. Len(net[t].toCli) : net'[t].toCli = SubSeq(net[t].toCli, 1, i)
  /\ \/ net'[t].toSrv = net[t].toSrv
     \/ \E m \in Says(t) : net'[t].toSrv = Append(net[t].toSrv, m)
     \/ \E i \in 0 .. Len(net[t].toSrv) : net'[t].toSrv = SubSeq(net[t].toSrv, 1, i)

\* How the thread of the client moves, and what it had found out by then.
ClientTurn(t) ==
  /\ test'[t].startup => test[t].startup
  /\ "snd" \in test'[t].live => "snd" \in test[t].live \/ test[t].startup
  /\ test'[t].live \subseteq test[t].live \/ test[t].pc = "run"
  /\ test'[t].pc = "ret" =>
       \/ test[t].pc = "ret" \/ test'[t].live \subseteq test'[t].left
       \/ test[t].pc = "joinrcv" /\ "rcv" \notin test'[t].live
  /\ test'[t].pc = "join" => test[t].pc = "join" \/ ~test'[t].startup
  /\ test'[t].pc = "sendend" =>
       test[t].pc = "sendend" \/ (test[t].pc = "join" /\ "snd" \notin test'[t].live)
  /\ \/ test'[t].state = test[t].state
     \/ test'[t].state = "IPERF_DONE" /\ (SendDone(t) \/ test[t].pc = "end" \/ test'[t].pc = "ret")
     \/ test'[t].state = "CLIENT_TERMINATE" /\ test'[t].pc = "ret"
     \/ test'[t].state = "TEST_END" /\ test[t].pc = "sendend" /\ test'[t].pc \in {"top", "fail"}
     \/ /\ test[t].pc = "read" /\ net[t].toCli # <<>> /\ test'[t].state = Head(net[t].toCli)
        /\ test'[t].pc = "dispatch"
  /\ test'[t].pc = "results" => test[t].pc = "results" \/ "RESULTS" \in Says(t)
  /\ test[t].pc \in {"results", "fail", "ret"} =>
       \/ test'[t].pc \in {"results", "fail", "ret"}
       \/ /\ test[t].pc = "results" /\ net[t].toCli # <<>> /\ Head(net[t].toCli) = "RESULTS"
          /\ net'[t].toCli = Tail(net[t].toCli) /\ net'[t].toSrv = net[t].toSrv
  /\ test[t].pc = "fail" => test'[t].pc \in {"fail", "ret"}
  /\ test[t].pc = "ret" => test'[t].pc = "ret"
  /\ test'[t].pc = "joinrcv" =>
       test[t].pc = "joinrcv" \/ (test[t].pc = "top" /\ test[t].state = "IPERF_DONE")
  /\ test'[t].pc = "end" =>
       test[t].pc = "end" \/ (test[t].pc = "dispatch" /\ test[t].state = "DISPLAY_RESULTS")
  /\ \/ test'[t].result = test[t].result /\ (test'[t].pc = "ret" => test[t].pc = "ret")
     \/ test[t].pc = "joinrcv" /\ test'[t].pc = "ret" /\ test'[t].result = "ok"
     \/ test[t].pc # "ret" /\ test'[t].pc = "ret" /\ test'[t].result = "fail"
  /\ test[t].left \subseteq test'[t].left

\* A step to another label, field by field.
LEMMA JumpFields ==
  ASSUME ClientTypeOK, NEW t \in Tests, NEW l \in Labels, Jump(t, l)
  PROVE  /\ test'[t].pc = l
         /\ test'[t].state = test[t].state /\ test'[t].result = test[t].result
         /\ test'[t].startup = test[t].startup /\ test'[t].live = test[t].live
         /\ test'[t].streams = test[t].streams /\ test'[t].left = test[t].left
<1>1. test[t] \in TestType
  BY DEF ClientTypeOK
<1>2. test'[t] = [test[t] EXCEPT !.pc = l]
  BY JumpFrame
<1> QED BY <1>1, <1>2 DEF TestType

\* Every client event moves the thread as ClientTurn says.
LEMMA ClientEventTurn ==
  ASSUME ClientTypeOK, NEW t \in Tests, ClientEvent(t)
  PROVE  ClientTurn(t)
<1>0. test \in [Tests -> TestType]
  BY DEF ClientTypeOK
<1> USE <1>0
<1>1. CASE ConnectFails(t)
  <2>1. Jump(t, "fail") /\ test[t].pc = "dial"
    BY <1>1 DEF ConnectFails, At
  <2> QED BY <2>1, JumpFields DEF ClientTurn, Says, Labels
<1>2. CASE SendCookie(t)
  <2>1. test[t].pc = "cookie" /\ (Jump(t, "top") \/ Jump(t, "fail"))
    BY <1>2 DEF SendCookie, At, WriteThen
  <2> QED BY <2>1, JumpFields DEF ClientTurn, Says, Labels
<1>3. CASE LoopTop(t)
  BY <1>3 DEF LoopTop, ClientTurn, TestType, Says, At, Jump
<1>4. CASE SelectReadable(t)
  BY <1>4 DEF SelectReadable, ClientTurn, TestType, Says, At, Jump
<1>5. CASE SelectTimeout(t)
  BY <1>5 DEF SelectTimeout, ClientTurn, TestType, Says, At, Jump
<1>6. CASE ReceiveTimeout(t)
  BY <1>6 DEF ReceiveTimeout, ClientTurn, TestType, Says, At, Jump
<1>7. CASE ReadState(t)
  <2>1. CASE Jump(t, "fail") /\ UNCHANGED net
    BY <1>7, <2>1, JumpFields DEF ReadState, At, ClientTurn, Says, Labels
  <2>2. CASE /\ net[t].toCli # <<>>
             /\ test' = [test EXCEPT ![t].state = Head(net[t].toCli), ![t].pc = "dispatch"]
    BY <1>7, <2>2 DEF ReadState, At, ClientTurn, Says, TestType
  <2> QED BY <1>7, <2>1, <2>2 DEF ReadState
<1>8. CASE CheckRunning(t)
  BY <1>8 DEF CheckRunning, ClientTurn, TestType, Says, At, Jump
<1>9. CASE HandleParamExchange(t)
  <2>1. test[t].pc = "dispatch" /\ test[t].state = "PARAM_EXCHANGE"
        /\ (Jump(t, "check") \/ Jump(t, "fail"))
    BY <1>9 DEF HandleParamExchange, Received, At, WriteThen
  <2> QED BY <2>1, JumpFields DEF ClientTurn, Says, Labels
<1>10. CASE HandleTestStart(t)
  BY <1>10 DEF HandleTestStart, ClientTurn, TestType, Says, At, Jump, Received
<1>11. CASE HandleExchangeResults(t)
  <2>1. test[t].pc = "dispatch" /\ test[t].state = "EXCHANGE_RESULTS"
        /\ (Jump(t, "results") \/ Jump(t, "fail"))
    BY <1>11 DEF HandleExchangeResults, Received, At, WriteThen
  <2> QED BY <2>1, JumpFields DEF ClientTurn, Says, Labels
<1>12. CASE HandleOther(t)
  BY <1>12 DEF HandleOther, ClientTurn, TestType, Says, At, Jump, Received
<1>13. CASE StreamsCreated(t)
  BY <1>13 DEF StreamsCreated, ClientTurn, TestType, Says, At, Jump
<1>14. CASE GetResults(t)
  <2>1. test[t].pc = "results" /\ (Jump(t, "check") \/ Jump(t, "fail"))
    BY <1>14 DEF GetResults, At
  <2>2. Jump(t, "check") => /\ net[t].toCli # <<>> /\ Head(net[t].toCli) = "RESULTS"
                            /\ net' = [net EXCEPT ![t].toCli = Tail(@)]
    <3>1. Jump(t, "check") /\ Jump(t, "fail") => FALSE
      BY JumpFields DEF Labels
    <3> QED BY <1>14, <3>1 DEF GetResults
  <2>3. Jump(t, "check") => /\ net[t].toCli # <<>> /\ Head(net[t].toCli) = "RESULTS"
                            /\ net'[t].toCli = Tail(net[t].toCli) /\ net'[t].toSrv = net[t].toSrv
    BY ZenonT(40), <2>2 DEF ClientTypeOK, NetType
  <2> QED BY <2>1, <2>3, JumpFields DEF ClientTurn, Says, Labels
<1>15. CASE JoinSenders(t)
  BY <1>15 DEF JoinSenders, ClientTurn, TestType, Says, Jump
<1>16. CASE SendTestEnd(t)
  <2>1. PICK l \in {"top", "fail"} : test' = [test EXCEPT ![t].state = "TEST_END", ![t].pc = l]
    BY <1>16 DEF SendTestEnd
  <2>2. test' = [test EXCEPT ![t] = [test[t] EXCEPT !.state = "TEST_END", !.pc = l]]
    BY <2>1
  <2>3. /\ test'[t].state = "TEST_END" /\ test'[t].pc = l /\ test'[t].live = test[t].live
        /\ test'[t].startup = test[t].startup /\ test'[t].left = test[t].left
        /\ test'[t].result = test[t].result
    BY <2>2 DEF TestType
  <2> QED BY <1>16, <2>3 DEF SendTestEnd, At, ClientTurn, Says
<1>17. CASE DisplayResults(t)
  BY <1>17 DEF DisplayResults, ClientTurn, TestType, Says, At, Jump, IperfClientEnd
<1>18. CASE LoopExit(t)
  BY <1>18 DEF LoopExit, ClientTurn, TestType, Says, At, Jump
<1>19. CASE CleanupAndFail(t)
  BY <1>19 DEF CleanupAndFail, ClientTurn, TestType, Says, At, Jump, IperfClientEnd
<1>20. CASE RunClient(t)
  BY <1>20 DEF RunClient, ClientTurn, TestType, Says, At, Jump
<1>21. CASE ConnectOk(t)
  BY <1>21 DEF ConnectOk, ClientTurn, TestType, Says, At, Jump
<1>22. CASE CreateStream(t)
  BY <1>22 DEF CreateStream, ClientTurn, TestType, Says, At, Jump
<1>23. CASE MarkDone(t)
  BY <1>23 DEF MarkDone, ClientTurn, TestType, Says, Jump
<1>24. CASE SendDone(t)
  <2>1. CASE test' = test
    BY <2>1 DEF ClientTurn
  <2>2. CASE test' = [test EXCEPT ![t].state = "IPERF_DONE"]
    <3>1. /\ test'[t].state = "IPERF_DONE" /\ test'[t].pc = test[t].pc
          /\ test'[t].live = test[t].live /\ test'[t].startup = test[t].startup
          /\ test'[t].left = test[t].left /\ test'[t].result = test[t].result
      BY <2>2 DEF TestType
    <3> QED BY <1>24, <3>1 DEF ClientTurn
  <2> QED BY <1>24, <2>1, <2>2 DEF SendDone
<1>25. CASE ShutControl(t)
  BY <1>25 DEF ShutControl, ClientTurn, TestType, Says, Jump
<1>26. CASE NetworkLost(t)
  BY <1>26 DEF NetworkLost, ClientTurn, TestType, Says, Jump
<1>27. ASSUME NEW fired \in BOOLEAN, NEW over \in BOOLEAN, NEW met \in BOOLEAN,
              Run(t, fired, over, met)
       PROVE  ClientTurn(t)
  BY <1>27, RunFrame DEF ClientTurn, Says
<1>28. ASSUME NEW d \in {"snd", "rcv"}, StreamThreadExits(t, d)
       PROVE  ClientTurn(t)
  BY <1>28 DEF StreamThreadExits, ClientTurn, TestType, Says
<1>29. CASE SetupControlFails(t) \/ SelectFails(t)
  <2>1. test[t].pc \in {"cookie", "select"} /\ Jump(t, "fail")
    BY <1>29 DEF SetupControlFails, SelectFails, At
  <2> QED BY <2>1, JumpFields DEF ClientTurn, Says, Labels
<1>30. CASE TimersFail(t)
  BY <1>30, TimersFailFrame DEF ClientTurn
<1>31. CASE ThreadsFail(t)
  BY <1>31, ThreadsFailFrame DEF ClientTurn
<1>32. ASSUME NEW d \in {"snd", "rcv"}, JoinFails(t, d) PROVE ClientTurn(t)
  BY <1>32, JoinFailsFrame DEF ClientTurn
<1>33. CASE Interrupted(t)
  BY <1>33, InterruptedFrame DEF ClientTurn
<1> QED BY <1>1, <1>2, <1>3, <1>4, <1>5, <1>6, <1>7, <1>8, <1>9, <1>10, <1>11, <1>12,
           <1>13, <1>14, <1>15, <1>16, <1>17, <1>18, <1>19, <1>20, <1>21, <1>22, <1>23,
           <1>24, <1>25, <1>26, <1>27, <1>28, <1>29, <1>30, <1>31, <1>32, <1>33
        DEF ClientEvent, ClientStep, ClientFails

\* A write of what the client may say is a step of its queues.
LEMMA WrittenQueues ==
  ASSUME ClientTypeOK, NEW t \in Tests, NEW m \in Messages \cap Says(t),
         Written(t, m) \/ UNCHANGED net
  PROVE  ClientQueues(t)
<1>1. CASE Written(t, m)
  BY <1>1, WrittenFrame DEF Wrote, ClientQueues
<1>2. CASE UNCHANGED net
  BY <1>2 DEF ClientQueues
<1> QED BY <1>1, <1>2

\* Every client event treats the client's queues as ClientQueues says.
LEMMA ClientEventQueues ==
  ASSUME ClientTypeOK, NEW t \in Tests, ClientEvent(t)
  PROVE  ClientQueues(t)
<1>0. net[t] \in NetType /\ net \in Nets
  BY DEF ClientTypeOK, Nets
<1>1. CASE UNCHANGED net
  BY <1>1 DEF ClientQueues
<1>2. CASE SendCookie(t) \/ HandleParamExchange(t)
  <2>1. \E m \in Messages \cap Says(t) : Written(t, m) \/ UNCHANGED net
    BY <1>2 DEF SendCookie, HandleParamExchange, WriteThen, Messages, Says
  <2> QED BY <2>1, WrittenQueues
<1>11. CASE HandleExchangeResults(t)
  <2>1. test[t].pc = "dispatch" /\ test[t].state = "EXCHANGE_RESULTS"
        /\ (Jump(t, "results") \/ Jump(t, "fail"))
        /\ (Written(t, "RESULTS") \/ UNCHANGED net)
    BY <1>11 DEF HandleExchangeResults, WriteThen, Received, At
  <2>2. "RESULTS" \in Messages \cap Says(t)
    BY <2>1, JumpFields DEF Says, Messages, Labels
  <2> QED BY <2>1, <2>2, WrittenQueues
<1>3. CASE SendTestEnd(t) \/ SendDone(t)
  <2>1. \E m \in Messages \cap Says(t) : Written(t, m) \/ UNCHANGED net
    BY <1>3 DEF SendTestEnd, SendDone, At, Messages, States, Says
  <2> QED BY <2>1, WrittenQueues
<1>4. CASE ReadState(t) \/ GetResults(t)
  <2>1. CASE net[t].toCli # <<>> /\ net' = [net EXCEPT ![t].toCli = Tail(@)]
    <3>1. net'[t].toCli = Tail(net[t].toCli) /\ net'[t].toSrv = net[t].toSrv
      BY <1>0, <2>1 DEF Nets, NetType
    <3> QED BY <2>1, <3>1 DEF ClientQueues
  <2> QED BY <1>1, <1>4, <2>1 DEF ReadState, GetResults
<1>5. CASE DisplayResults(t) \/ CleanupAndFail(t)
  <2>1. PICK live, result, label : IperfClientEnd(t, live, result, label)
    BY <1>5 DEF DisplayResults, CleanupAndFail
  <2> DEFINE q == IF (test[t].state \in Positive /\ test[t].ctrl # "none")
                     /\ net[t].peer = "open" /\ ~net[t].cut
                  THEN Append(net[t].toSrv, "IPERF_DONE") ELSE net[t].toSrv
  <2>2. net' = net \/ net' = [net EXCEPT ![t].toCli = <<>>, ![t].toSrv = q]
    BY <2>1 DEF IperfClientEnd
  <2>3. q = net[t].toSrv \/ q = Append(net[t].toSrv, "IPERF_DONE")
    OBVIOUS
  <2> HIDE DEF q
  <2>4. net' = net \/ (net'[t].toCli = <<>> /\ net'[t].toSrv = q)
    BY <1>0, <2>2 DEF Nets, NetType
  <2> QED BY <2>3, <2>4 DEF ClientQueues, Says
<1>6. CASE ConnectOk(t)
  <2>1. net'[t].toCli = net[t].toCli /\ net'[t].toSrv = net[t].toSrv
    BY <1>0, <1>6 DEF ConnectOk, Nets, NetType
  <2> QED BY <2>1 DEF ClientQueues
<1>7. CASE NetworkLost(t)
  <2>1. PICK i \in 0 .. Len(net[t].toCli), j \in 0 .. Len(net[t].toSrv) :
          net' = [net EXCEPT ![t].cut = TRUE, ![t].toCli = SubSeq(@, 1, i),
                             ![t].toSrv = SubSeq(@, 1, j)]
    BY <1>7 DEF NetworkLost
  <2>2. net'[t].toCli = SubSeq(net[t].toCli, 1, i) /\ net'[t].toSrv = SubSeq(net[t].toSrv, 1, j)
    BY <1>0, <2>1 DEF Nets, NetType
  <2> QED BY <2>2 DEF ClientQueues
<1>8. CASE Moves(t)
  BY <1>1, <1>8, MovesFrame
<1>9. CASE HandleTestStart(t) \/ JoinSenders(t) \/ LoopExit(t) \/ CreateStream(t) \/ MarkDone(t)
           \/ ShutControl(t)
  BY <1>1, <1>9 DEF HandleTestStart, JoinSenders, LoopExit, CreateStream, MarkDone,
                    ShutControl
<1>10. CASE \/ \E fired, over, met \in BOOLEAN : Run(t, fired, over, met)
            \/ \E d \in {"snd", "rcv"} : StreamThreadExits(t, d)
  BY <1>1, <1>10 DEF Run, StreamThreadExits
<1>12. CASE TimersFail(t) \/ ThreadsFail(t) \/ \E d \in {"snd", "rcv"} : JoinFails(t, d)
  BY <1>1, <1>12 DEF TimersFail, ThreadsFail, JoinFails
<1>13. CASE Interrupted(t)
  BY <1>13, InterruptedFrame DEF ClientQueues, Says
<1> QED BY <1>2, <1>3, <1>4, <1>5, <1>6, <1>7, <1>8, <1>9, <1>10, <1>11, <1>12, <1>13
        DEF ClientEvent, ClientStep, ClientFails, Moves

\* The queues, as sets of messages.
LEMMA ClientQueued ==
  ASSUME ClientTypeOK, NEW t \in Tests, ClientQueues(t)
  PROVE  /\ Queued(net'[t].toCli) \subseteq Queued(net[t].toCli)
         /\ Queued(net'[t].toSrv) \subseteq Queued(net[t].toSrv) \cup Says(t)
<1>1. net[t].toCli \in Seq(Messages) /\ net[t].toSrv \in Seq(Messages)
  BY DEF ClientTypeOK, NetType
<1>2. Says(t) \subseteq Messages
  BY DEF Says, Messages, States
<1>3. Queued(net'[t].toCli) \subseteq Queued(net[t].toCli)
  BY <1>1, QueuedEmpty, QueuedTail, QueuedPrefix DEF ClientQueues
<1>4. Queued(net'[t].toSrv) \subseteq Queued(net[t].toSrv) \cup Says(t)
  <2>1. ASSUME NEW m \in Says(t), net'[t].toSrv = Append(net[t].toSrv, m)
        PROVE  Queued(net'[t].toSrv) \subseteq Queued(net[t].toSrv) \cup Says(t)
    <3>1. m \in Messages
      BY <1>2
    <3> QED BY <1>1, <2>1, <3>1, QueuedAppend
  <2>2. ASSUME NEW i \in 0 .. Len(net[t].toSrv), net'[t].toSrv = SubSeq(net[t].toSrv, 1, i)
        PROVE  Queued(net'[t].toSrv) \subseteq Queued(net[t].toSrv)
    BY <1>1, <2>2, QueuedPrefix
  <2> QED BY <2>1, <2>2 DEF ClientQueues
<1> QED BY <1>3, <1>4

\* What may newly be on its way to client u after a step of the server.
News(u) ==
  {"ACCESS_DENIED", "SERVER_ERROR", "PARAM_EXCHANGE", "TEST_START", "TEST_RUNNING"}
  \cup (IF srv.pc = "params" /\ srv.ctrl = u THEN {"CREATE_STREAMS"} ELSE {})
  \cup (IF Gets(u, "TEST_END") THEN {"EXCHANGE_RESULTS"} ELSE {})
  \cup (IF srv.pc = "results" /\ srv.ctrl = u /\ srv'.pc = "select" /\ Gets(u, "RESULTS")
        THEN {"RESULTS", "DISPLAY_RESULTS"} ELSE {})

\* A step of the server adds at most its answers to what is on its way.
LEMMA ServerQueued ==
  ASSUME ServerTypeOK, NEW u \in Tests, ServerQueues(u)
  PROVE  /\ Queued(net'[u].toCli) \subseteq Queued(net[u].toCli) \cup News(u)
         /\ Queued(net'[u].toSrv) \subseteq Queued(net[u].toSrv)
<1>1. net[u].toCli \in Seq(Messages) /\ net[u].toSrv \in Seq(Messages)
  BY DEF ServerTypeOK, ClientTypeOK, NetType
<1>2. \A ms \in Seq(Messages) : Reply(u, ms) => Queued(ms) \subseteq News(u)
  BY DEF Reply, News, Queued
<1>3. Queued(net'[u].toSrv) \subseteq Queued(net[u].toSrv)
  BY <1>1, QueuedEmpty, QueuedTail DEF ServerQueues
<1>4. Queued(net'[u].toCli) \subseteq Queued(net[u].toCli) \cup News(u)
  <2>1. CASE net'[u].toCli \in {net[u].toCli, <<>>}
    BY <2>1, QueuedEmpty
  <2>2. ASSUME NEW ms \in Seq(Messages), Reply(u, ms), net'[u].toCli = net[u].toCli \o ms
        PROVE  Queued(net'[u].toCli) \subseteq Queued(net[u].toCli) \cup News(u)
    BY <1>1, <1>2, <2>2, QueuedConcat
  <2> QED BY <2>1, <2>2 DEF ServerQueues
<1> QED BY <1>3, <1>4

-----------------------------------------------------------------------------
(* The invariants of one client, step by step. *)

\* Messages the server takes were in the queue of its client.
LEMMA GetsQueued ==
  ASSUME ServerTypeOK, NEW u \in Tests, NEW m, Gets(u, m)
  PROVE  m \in Queued(net[u].toSrv)
<1>1. net[u].toSrv \in Seq(Messages) /\ net[u].toSrv # <<>> /\ Head(net[u].toSrv) = m
  BY DEF ServerTypeOK, ClientTypeOK, NetType, Gets, FromClient
<1> QED BY <1>1, QueuedTail

\* The client reads only what is on its way.
LEMMA HeadQueued ==
  ASSUME ClientTypeOK, NEW t \in Tests, net[t].toCli # <<>>
  PROVE  Head(net[t].toCli) \in Queued(net[t].toCli)
<1>1. net[t].toCli \in Seq(Messages)
  BY DEF ClientTypeOK, NetType
<1> QED BY <1>1, QueuedTail

\* A client event keeps EndedOnceSaid: TEST_END is said after the senders were
\* joined, and no thread is created again.
LEMMA ClientEventEnded ==
  ASSUME ClientTypeOK, NEW t \in Tests, ClientEvent(t), UNCHANGED srv, EndedOnceSaid(t)
  PROVE  EndedOnceSaid(t)'
<1> USE ClientEventTurn, ClientEventQueues, ClientQueued
<1>1. Ended(t) => Ended(t)'
  BY DEF Ended, ClientTurn
<1>2. test'[t].pc = "join" => ~test'[t].startup
  BY DEF EndedOnceSaid, ClientTurn
<1>3. test'[t].pc = "sendend" => Ended(t)'
  BY <1>1 DEF EndedOnceSaid, ClientTurn, Ended
<1>4. test'[t].state \in {"TEST_END", "EXCHANGE_RESULTS", "DISPLAY_RESULTS"} => Ended(t)'
  <2>1. CASE net[t].toCli # <<>> /\ test'[t].state = Head(net[t].toCli)
    BY <1>1, <2>1, HeadQueued DEF EndedOnceSaid
  <2>2. CASE test'[t].state \in {test[t].state, "IPERF_DONE"} \/ test[t].pc = "sendend"
    BY <1>1, <2>2 DEF EndedOnceSaid
  <2> QED BY <2>1, <2>2 DEF ClientTurn
<1>5. {"TEST_END", "RESULTS"} \cap Queued(net'[t].toSrv) # {} => Ended(t)'
  BY <1>1 DEF EndedOnceSaid, Says
<1>6. {"TEST_END", "EXCHANGE_RESULTS", "DISPLAY_RESULTS"} \cap Queued(net'[t].toCli) # {} => Ended(t)'
  BY <1>1 DEF EndedOnceSaid
<1> QED BY <1>1, <1>2, <1>3, <1>4, <1>5, <1>6 DEF EndedOnceSaid

\* A step of the server keeps EndedOnceSaid: it says EXCHANGE_RESULTS and
\* DISPLAY_RESULTS only to a client that had said TEST_END, or sent its results.
LEMMA ServerStepEnded ==
  ASSUME ServerTypeOK, NEW u \in Tests, ServerFrame, EndedOnceSaid(u)
  PROVE  EndedOnceSaid(u)'
<1>1. ServerQueues(u) /\ test' = test /\ ServerTurn
  BY DEF ServerFrame
<1>2. Ended(u)' <=> Ended(u)
  BY <1>1 DEF Ended
<1>3. Queued(net'[u].toCli) \subseteq Queued(net[u].toCli) \cup News(u)
      /\ Queued(net'[u].toSrv) \subseteq Queued(net[u].toSrv)
  BY <1>1, ServerQueued
<1>4. {"TEST_END", "EXCHANGE_RESULTS", "DISPLAY_RESULTS"} \cap News(u) # {} => Ended(u)
  <2>1. Gets(u, "TEST_END") \/ Gets(u, "RESULTS") => Ended(u)
    BY GetsQueued DEF EndedOnceSaid
  <2> QED BY <2>1 DEF News
<1>5. srv'.ctrl = u /\ srv'.pc = "results" => Ended(u)
  BY <1>1, GetsQueued DEF EndedOnceSaid, ServerTurn
<1> QED BY <1>1, <1>2, <1>3, <1>4, <1>5 DEF EndedOnceSaid

\* A client event puts no farewell on the way to the client.
LEMMA ClientEventFarewell ==
  ASSUME ClientTypeOK, NEW t \in Tests, ClientEvent(t), NoFarewell(t)
  PROVE  NoFarewell(t)'
  BY ClientEventQueues, ClientQueued DEF NoFarewell

\* The server never writes IPERF_DONE.
LEMMA ServerStepFarewell ==
  ASSUME ServerTypeOK, NEW u \in Tests, ServerFrame, NoFarewell(u)
  PROVE  NoFarewell(u)'
  BY ServerQueued DEF ServerFrame, NoFarewell, News

-----------------------------------------------------------------------------
\* A queue without results holds at most one body of them.
LEMMA SingleWithout ==
  ASSUME NEW q, "RESULTS" \notin Queued(q)
  PROVE  Single(q)
  BY DEF Single, Queued

\* A body of results may be sent where none is on its way.
LEMMA SingleAppend ==
  ASSUME NEW q \in Seq(Messages), NEW m \in Messages, Single(q),
         m = "RESULTS" => "RESULTS" \notin Queued(q)
  PROVE  Single(Append(q, m))
  BY DEF Single, Queued

\* Losing the last messages keeps a body of results single.
LEMMA SinglePrefix ==
  ASSUME NEW q \in Seq(Messages), NEW i \in 0 .. Len(q), Single(q)
  PROVE  Single(SubSeq(q, 1, i))
  BY DEF Single

\* Reading keeps a body of results single, and takes the only one when it takes one.
LEMMA SingleTail ==
  ASSUME NEW q \in Seq(Messages), q # <<>>, Single(q)
  PROVE  /\ Single(Tail(q))
         /\ Head(q) = "RESULTS" => "RESULTS" \notin Queued(Tail(q))
<1>1. \A i \in DOMAIN Tail(q) : i + 1 \in DOMAIN q /\ Tail(q)[i] = q[i + 1]
  OBVIOUS
<1>2. Head(q) = q[1] /\ 1 \in DOMAIN q
  OBVIOUS
<1>3. \A i \in DOMAIN Tail(q) : i \in Nat /\ i + 1 # 1
  OBVIOUS
<1> QED BY <1>1, <1>2, <1>3 DEF Single, Queued

\* An answer with results may follow a queue without any.
LEMMA SingleAnswer ==
  ASSUME NEW q \in Seq(Messages), NEW ms \in Seq(Messages), Single(ms), Single(q),
         "RESULTS" \notin Queued(q) \/ "RESULTS" \notin Queued(ms)
  PROVE  Single(q \o ms)
<1>1. \A i \in DOMAIN (q \o ms) :
        \/ i \in DOMAIN q /\ (q \o ms)[i] = q[i]
        \/ i - Len(q) \in DOMAIN ms /\ (q \o ms)[i] = ms[i - Len(q)]
  OBVIOUS
<1>2. \A i, j \in DOMAIN (q \o ms) : i - Len(q) = j - Len(q) => i = j
  OBVIOUS
<1> QED BY <1>1, <1>2 DEF Single, Queued

\* A client event keeps ResultsAwaited: a body is sent only by a client that then
\* waits for one, and a client that has read one goes on without any on their way.
LEMMA ClientEventAwaited ==
  ASSUME ClientTypeOK, NEW t \in Tests, ClientEvent(t), ResultsAwaited(t)
  PROVE  ResultsAwaited(t)'
<1> USE ClientEventTurn, ClientEventQueues, ClientQueued
<1>1. Queued(net'[t].toCli) \subseteq States \cup {"RESULTS"}
  BY DEF ResultsAwaited
<1>2. test'[t].state \in States
  <2>1. CASE net[t].toCli # <<>> /\ test[t].pc = "read" /\ test'[t].state = Head(net[t].toCli)
    BY <2>1, HeadQueued DEF ResultsAwaited
  <2> QED BY <2>1 DEF ClientTurn, ResultsAwaited, States
<1>3. ASSUME test'[t].pc \notin {"results", "fail", "ret"}
      PROVE  "RESULTS" \notin Queued(net'[t].toSrv) /\ "RESULTS" \notin Queued(net'[t].toCli)
  <2>1. CASE test[t].pc \notin {"results", "fail", "ret"}
    <3>1. "RESULTS" \notin Says(t)
      BY <1>3, <2>1 DEF Says, ClientTurn
    <3> QED BY <2>1, <3>1 DEF ResultsAwaited
  <2>2. CASE test[t].pc \in {"results", "fail", "ret"}
    <3>1. /\ test[t].pc = "results" /\ net[t].toCli # <<>> /\ Head(net[t].toCli) = "RESULTS"
          /\ net'[t].toCli = Tail(net[t].toCli) /\ net'[t].toSrv = net[t].toSrv
      BY <1>3, <2>2 DEF ClientTurn
    <3>2. net[t].toCli \in Seq(Messages)
      BY DEF ClientTypeOK, NetType
    <3> QED BY <3>1, <3>2, SingleTail, HeadQueued DEF ResultsAwaited
  <2> QED BY <2>1, <2>2
<1>4. ASSUME test'[t].pc = "results"
      PROVE  /\ Single(net'[t].toSrv) /\ Single(net'[t].toCli)
             /\ "RESULTS" \notin Queued(net'[t].toSrv) \/ "RESULTS" \notin Queued(net'[t].toCli)
  <2>1. net[t].toCli \in Seq(Messages) /\ net[t].toSrv \in Seq(Messages)
    BY DEF ClientTypeOK, NetType
  <2>2. Says(t) \subseteq Messages
    BY DEF Says, Messages, States
  <2>3. /\ Single(net[t].toSrv) /\ Single(net[t].toCli)
        /\ "RESULTS" \notin Queued(net[t].toSrv) \/ "RESULTS" \notin Queued(net[t].toCli)
        /\ "RESULTS" \in Says(t) => "RESULTS" \notin Queued(net[t].toSrv)
                                    /\ "RESULTS" \notin Queued(net[t].toCli)
    BY <1>4, SingleWithout DEF ResultsAwaited, ClientTurn, Says
  <2>4. Single(net'[t].toCli)
    BY <2>1, <2>3, QueuedEmpty, SingleWithout, SingleTail, SinglePrefix DEF ClientQueues
  <2>5. Single(net'[t].toSrv)
    <3>1. ASSUME NEW m \in Says(t), net'[t].toSrv = Append(net[t].toSrv, m)
          PROVE  Single(net'[t].toSrv)
      <4>1. m \in Messages
        BY <2>2
      <4> QED BY <2>1, <2>3, <3>1, <4>1, SingleAppend
    <3> QED BY <2>1, <2>3, <3>1, SinglePrefix DEF ClientQueues
  <2> QED BY <2>3, <2>4, <2>5
<1> QED BY <1>1, <1>2, <1>3, <1>4 DEF ResultsAwaited

\* A step of the server keeps ResultsAwaited: it answers a body with a body, having
\* taken the only one.
LEMMA ServerStepAwaited ==
  ASSUME ServerTypeOK, NEW u \in Tests, ServerFrame, ResultsAwaited(u)
  PROVE  ResultsAwaited(u)'
<1>1. ServerQueues(u) /\ test' = test
  BY DEF ServerFrame
<1>2. Queued(net'[u].toCli) \subseteq Queued(net[u].toCli) \cup News(u)
      /\ Queued(net'[u].toSrv) \subseteq Queued(net[u].toSrv)
  BY <1>1, ServerQueued
<1>3. Queued(net'[u].toCli) \subseteq States \cup {"RESULTS"}
  BY <1>2 DEF ResultsAwaited, News, States
<1>4. "RESULTS" \in News(u) => "RESULTS" \in Queued(net[u].toSrv)
  BY GetsQueued DEF News
<1>5. ASSUME test[u].pc = "results"
      PROVE  /\ Single(net'[u].toSrv) /\ Single(net'[u].toCli)
             /\ "RESULTS" \notin Queued(net'[u].toSrv) \/ "RESULTS" \notin Queued(net'[u].toCli)
  <2>1. net[u].toCli \in Seq(Messages) /\ net[u].toSrv \in Seq(Messages)
    BY DEF ServerTypeOK, ClientTypeOK, NetType
  <2>2. /\ Single(net[u].toSrv) /\ Single(net[u].toCli)
        /\ "RESULTS" \notin Queued(net[u].toSrv) \/ "RESULTS" \notin Queued(net[u].toCli)
    BY <1>5 DEF ResultsAwaited
  <2>3. Single(net'[u].toSrv)
    BY <1>1, <2>1, <2>2, QueuedEmpty, SingleWithout, SingleTail DEF ServerQueues
  <2>4. CASE net'[u].toCli \in {net[u].toCli, <<>>}
    BY <1>2, <2>2, <2>3, <2>4, QueuedEmpty, SingleWithout
  <2>5. ASSUME NEW ms \in Seq(Messages), Reply(u, ms), net'[u].toCli = net[u].toCli \o ms
        PROVE  /\ Single(net'[u].toCli)
               /\ "RESULTS" \notin Queued(net'[u].toSrv) \/ "RESULTS" \notin Queued(net'[u].toCli)
    <3>1. CASE "RESULTS" \notin Queued(ms)
      BY <1>2, <2>1, <2>2, <2>5, <3>1, SingleWithout, SingleAnswer, QueuedConcat
    <3>2. CASE "RESULTS" \in Queued(ms)
      <4>1. ms = <<"RESULTS", "DISPLAY_RESULTS">> /\ Gets(u, "RESULTS")
            /\ net'[u].toSrv = Tail(net[u].toSrv)
        BY <2>5, <3>2 DEF Reply, Queued
      <4>2. Single(ms)
        BY <4>1 DEF Single
      <4>3. "RESULTS" \in Queued(net[u].toSrv)
        BY <4>1, GetsQueued
      <4>4. "RESULTS" \notin Queued(net'[u].toSrv)
        BY <2>1, <2>2, <4>1, SingleTail DEF Gets, FromClient
      <4> QED BY <2>1, <2>2, <2>5, <4>2, <4>3, <4>4, SingleAnswer
    <3> QED BY <3>1, <3>2
  <2> QED BY <1>1, <2>3, <2>4, <2>5 DEF ServerQueues
<1> QED BY <1>1, <1>2, <1>3, <1>4, <1>5 DEF ResultsAwaited

-----------------------------------------------------------------------------
(* Who has been let in. *)

\* A request in the backlog stays there when another is added.
LEMMA AppendKeeps ==
  ASSUME NEW b \in Seq(Connections), NEW c \in Connections, NEW e,
         \E i \in DOMAIN b : b[i] = e
  PROVE  \E i \in DOMAIN Append(b, c) : Append(b, c)[i] = e
<1>1. PICK i \in DOMAIN b : b[i] = e
  OBVIOUS
<1>2. i \in DOMAIN Append(b, c) /\ Append(b, c)[i] = e
  BY <1>1
<1> QED BY <1>2

\* A request that is added is in the backlog.
LEMMA AppendAdds ==
  ASSUME NEW b \in Seq(Connections), NEW c \in Connections
  PROVE  \E i \in DOMAIN Append(b, c) : Append(b, c)[i] = c
<1>1. Len(b) + 1 \in DOMAIN Append(b, c) /\ Append(b, c)[Len(b) + 1] = c
  OBVIOUS
<1> QED BY <1>1

\* A request in the backlog stays there when another is accepted.
LEMMA TailKeeps ==
  ASSUME NEW b \in Seq(Connections), b # <<>>, NEW e, \E i \in DOMAIN b : b[i] = e, Head(b) # e
  PROVE  \E i \in DOMAIN Tail(b) : Tail(b)[i] = e
<1>1. PICK i \in DOMAIN b : b[i] = e
  OBVIOUS
<1>2. i # 1
  BY <1>1
<1>3. i - 1 \in DOMAIN Tail(b) /\ Tail(b)[i - 1] = e
  BY <1>1, <1>2
<1> QED BY <1>3

\* Connections are made and lost by these events only.
LEMMA ClientEventPeers ==
  ASSUME ClientTypeOK, NEW t \in Tests, ClientEvent(t)
  PROVE  /\ \/ backlog' = backlog
            \/ ConnectOk(t) /\ backlog' = Append(backlog, [test |-> t, kind |-> "ctrl"])
            \/ CreateStream(t) /\ backlog' = Append(backlog, [test |-> t, kind |-> "data"])
         /\ \/ net'[t].peer = net[t].peer
            \/ ConnectOk(t) /\ backlog' = Append(backlog, [test |-> t, kind |-> "ctrl"])
         /\ net[t].cut => net'[t].cut
         /\ test'[t].streams = test[t].streams \/ CreateStream(t)
<1> DEFINE Goal ==
         /\ \/ backlog' = backlog
            \/ ConnectOk(t) /\ backlog' = Append(backlog, [test |-> t, kind |-> "ctrl"])
            \/ CreateStream(t) /\ backlog' = Append(backlog, [test |-> t, kind |-> "data"])
         /\ \/ net'[t].peer = net[t].peer
            \/ ConnectOk(t) /\ backlog' = Append(backlog, [test |-> t, kind |-> "ctrl"])
         /\ net[t].cut => net'[t].cut
         /\ test'[t].streams = test[t].streams \/ CreateStream(t)
<1>0. test[t] \in TestType /\ net[t] \in NetType /\ test \in [Tests -> TestType] /\ net \in Nets
  BY DEF ClientTypeOK, Nets
<1>1. ASSUME NEW l \in Labels, Jump(t, l), UNCHANGED <<net, backlog>> PROVE Goal
  BY <1>1, JumpFields
<1>2. CASE Moves(t)
  BY <1>1, <1>2, MovesFrame
<1>3. CASE SendCookie(t) \/ HandleParamExchange(t) \/ HandleExchangeResults(t)
  <2>1. PICK m \in Messages, l \in Labels : WriteThen(t, m, l) /\ UNCHANGED backlog
    BY <1>3 DEF SendCookie, HandleParamExchange, HandleExchangeResults, Messages, Labels
  <2>2. PICK k \in Labels : Jump(t, k)
    BY <2>1 DEF WriteThen, Labels
  <2>3. test'[t].streams = test[t].streams
    BY <2>2, JumpFields
  <2> QED BY <2>1, <2>3, WriteThenFrame DEF Wrote
<1>4. CASE ConnectOk(t)
  <2>1. test'[t].streams = test[t].streams
    BY <1>0, <1>4 DEF ConnectOk, TestType
  <2>2. net'[t].cut = net[t].cut
    BY <1>0, <1>4 DEF ConnectOk, Nets, NetType
  <2> QED BY <1>4, <2>1, <2>2 DEF ConnectOk
<1>5. CASE CreateStream(t)
  BY <1>5 DEF CreateStream
<1>6. CASE ReadState(t)
  <2>1. net'[t].peer = net[t].peer /\ net'[t].cut = net[t].cut
    BY <1>0, <1>6 DEF ReadState, Nets, NetType
  <2>2. CASE Jump(t, "fail")
    BY <2>1, <2>2, <1>6, JumpFields DEF ReadState, Labels
  <2>3. CASE test' = [test EXCEPT ![t].state = Head(net[t].toCli), ![t].pc = "dispatch"]
    BY <2>1, <2>3, <1>0, <1>6 DEF ReadState, TestType
  <2> QED BY <1>6, <2>2, <2>3 DEF ReadState
<1>7. CASE GetResults(t)
  <2>1. net'[t].peer = net[t].peer /\ net'[t].cut = net[t].cut
    BY <1>0, <1>7 DEF GetResults, Nets, NetType
  <2>2. PICK l \in Labels : Jump(t, l)
    BY <1>7 DEF GetResults, Labels
  <2> QED BY <1>7, <2>1, <2>2, JumpFields DEF GetResults
<1>8. CASE SendTestEnd(t)
  <2>1. test'[t].streams = test[t].streams
    BY <1>0, <1>8 DEF SendTestEnd, TestType
  <2>2. net'[t].peer = net[t].peer /\ net'[t].cut = net[t].cut
    BY <1>8, SendTestEndFrame DEF Wrote
  <2> QED BY <1>8, <2>1, <2>2 DEF SendTestEnd
<1>9. CASE DisplayResults(t) \/ CleanupAndFail(t)
  <2>1. PICK live, result, label : IperfClientEnd(t, live, result, label)
    BY <1>9 DEF DisplayResults, CleanupAndFail
  <2>2. test'[t].streams = test[t].streams
    BY <2>1, <1>0 DEF IperfClientEnd, TestType
  <2>3. net'[t].peer = net[t].peer /\ net'[t].cut = net[t].cut
    BY <2>1, <1>0 DEF IperfClientEnd, Nets, NetType
  <2> QED BY <2>1, <2>2, <2>3 DEF IperfClientEnd
<1>10. CASE NetworkLost(t)
  <2>1. net'[t].peer = net[t].peer /\ net'[t].cut
    BY <1>0, <1>10 DEF NetworkLost, Nets, NetType
  <2> QED BY <1>10, <2>1 DEF NetworkLost
<1>11. CASE HandleTestStart(t) \/ JoinSenders(t) \/ LoopExit(t)
  BY <1>0, <1>11 DEF HandleTestStart, JoinSenders, LoopExit, TestType
<1>12. CASE MarkDone(t) \/ ShutControl(t)
  BY <1>0, <1>12 DEF MarkDone, ShutControl, TestType
<1>13. CASE SendDone(t)
  <2>1. test'[t].streams = test[t].streams
    BY <1>0, <1>13 DEF SendDone, TestType
  <2>2. UNCHANGED net \/ Written(t, "IPERF_DONE")
    BY <1>13 DEF SendDone
  <2>3. net'[t].peer = net[t].peer /\ net'[t].cut = net[t].cut
    BY <2>2, WrittenFrame DEF Wrote, Messages, States
  <2> QED BY <1>13, <2>1, <2>3 DEF SendDone
<1>14. ASSUME NEW fired \in BOOLEAN, NEW over \in BOOLEAN, NEW met \in BOOLEAN,
              Run(t, fired, over, met)
       PROVE  Goal
  BY <1>14, RunFrame
<1>15. ASSUME NEW d \in {"snd", "rcv"}, StreamThreadExits(t, d) PROVE Goal
  BY <1>0, <1>15 DEF StreamThreadExits, TestType
<1>16. CASE TimersFail(t) \/ ThreadsFail(t)
  BY <1>16, TimersFailFrame, ThreadsFailFrame
<1>17. ASSUME NEW d \in {"snd", "rcv"}, JoinFails(t, d) PROVE Goal
  BY <1>17, JoinFailsFrame
<1>18. CASE Interrupted(t)
  BY <1>18, InterruptedFrame
<1> QED BY <1>2, <1>3, <1>4, <1>5, <1>6, <1>7, <1>8, <1>9, <1>10, <1>11, <1>12, <1>13,
           <1>14, <1>15, <1>16, <1>17, <1>18
        DEF ClientEvent, ClientStep, ClientFails, Moves

\* A client event keeps Admitted, for its own client and the others.
LEMMA ClientEventAdmitted ==
  ASSUME ClientTypeOK, NEW t \in Tests, ClientEvent(t), UNCHANGED srv,
         NEW u \in Tests, Admitted(u)
  PROVE  Admitted(u)'
<1>1. backlog \in Seq(Connections)
      /\ \A kind \in {"ctrl", "data"} : [test |-> t, kind |-> kind] \in Connections
  BY DEF ClientTypeOK, Connections
<1>2. \A e : (\E i \in DOMAIN backlog : backlog[i] = e) => \E i \in DOMAIN backlog' : backlog'[i] = e
  BY <1>1, ClientEventPeers, AppendKeeps
<1>3. CASE net'[u].peer = net[u].peer /\ (net[u].cut => net'[u].cut)
  BY <1>2, <1>3 DEF Admitted
<1>4. CASE u = t /\ backlog' = Append(backlog, [test |-> t, kind |-> "ctrl"])
  BY <1>1, <1>4, AppendAdds DEF Admitted
<1>5. u # t => net'[u] = net[u]
  BY ClientEventFrame DEF NetFrame
<1> QED BY <1>3, <1>4, <1>5, ClientEventPeers

\* A step of the server keeps Admitted: a request leaves the backlog when its client
\* is served or its connection closed, and a client is left only with its connection
\* closed.
LEMMA ServerStepAdmitted ==
  ASSUME ServerTypeOK, Serving, ServerEvent, NEW u \in Tests, Admitted(u)
  PROVE  Admitted(u)'
<1> USE TypesOfServer
<1> DEFINE Same == /\ net'[u].peer = net[u].peer /\ net'[u].cut = net[u].cut
                   /\ srv'.ctrl = srv.ctrl /\ backlog' = backlog
<1>1. CASE Same
  BY <1>1 DEF Admitted
<1>2. ASSUME NEW n \in Nets, Cleanup(n), n[u].peer = net[u].peer, n[u].cut = net[u].cut
      PROVE  Admitted(u)'
  BY <1>2, CleanupNet DEF Admitted
<1>3. ASSUME NEW t \in Tests, NEW ms \in Seq(Messages), net[t].toSrv # <<>>, Answered(t, ms),
             srv'.ctrl = srv.ctrl, backlog' = backlog
      PROVE  Admitted(u)'
  BY <1>1, <1>3, AnsweredNet
<1>4. ASSUME NEW read \in BOOLEAN, Deny(read), backlog # <<>> PROVE Admitted(u)'
  <2> DEFINE t == Head(backlog).test
             n == IF read THEN [net EXCEPT ![t].toSrv = <<>>] ELSE net
             e == <<"ACCESS_DENIED">>
             d == Deliver(n, t, e)
  <2>1. /\ backlog' = Tail(backlog) /\ UNCHANGED srv
        /\ IF Head(backlog).kind = "ctrl" THEN CloseControl(d, {t}) ELSE UNCHANGED net
    BY <1>4 DEF Deny
  <2>2. t \in Tests /\ e \in Seq(Messages) /\ Head(backlog) = [test |-> t, kind |-> Head(backlog).kind]
    BY <1>4, ConnectionFields DEF Messages, States
  <2> HIDE DEF t, e
  <2>3. n \in Nets /\ n[u].peer = net[u].peer /\ n[u].cut = net[u].cut
    <3> DEFINE r == [net[t] EXCEPT !.toSrv = <<>>]
    <3>1. [net EXCEPT ![t].toSrv = <<>>] = [net EXCEPT ![t] = r]
      OBVIOUS
    <3>2. net[t] \in NetType /\ <<>> \in Seq(Messages)
      BY <2>2 DEF Nets
    <3>3. r \in NetType /\ r.peer = net[t].peer /\ r.cut = net[t].cut
      BY <3>2 DEF NetType
    <3> HIDE DEF r
    <3>4. n = net \/ n = [net EXCEPT ![t] = r]
      BY <3>1
    <3> HIDE DEF n
    <3> QED BY <2>2, <3>3, <3>4 DEF Nets
  <2> HIDE DEF n
  <2>4. d \in Nets /\ d[u].peer = net[u].peer /\ d[u].cut = net[u].cut
    BY <2>2, <2>3, DeliverNet
  <2> HIDE DEF d
  <2>5. CASE Head(backlog).kind = "ctrl"
    <3>1. net'[u].cut = net[u].cut
          /\ net'[u].peer = IF u = t /\ net[u].peer = "open" /\ ~net[u].cut THEN "closed"
                            ELSE net[u].peer
      BY <2>1, <2>4, <2>5, ClosedNet
    <3>2. CASE u = t
      BY <3>1, <3>2 DEF Admitted
    <3>3. CASE u # t
      <4>1. Head(backlog) # [test |-> u, kind |-> "ctrl"]
        BY <2>2, <3>3
      <4> QED BY <1>4, <2>1, <3>1, <3>3, <4>1, TailKeeps DEF Admitted
    <3> QED BY <3>2, <3>3
  <2>6. CASE Head(backlog).kind # "ctrl"
    <3>1. Head(backlog) # [test |-> u, kind |-> "ctrl"]
      BY <2>6
    <3> QED BY ZenonT(40), <1>4, <2>1, <2>6, <3>1, TailKeeps DEF Admitted
  <2> QED BY <2>5, <2>6
<1>5. CASE ServerListen
  <2>1. Same
    BY <1>5 DEF ServerListen, cvars, Serving, IdleServer
  <2> QED BY <1>1, <2>1
<1>6. CASE AcceptClient
  <2>1. CASE Cleanup(net)
    BY <1>2, <2>1
  <2>2. CASE /\ srv' = [srv EXCEPT !.ctrl = Head(backlog).test, !.pc = "cookie"]
             /\ backlog' = Tail(backlog) /\ UNCHANGED net
    <3>1. srv'.ctrl = Head(backlog).test /\ srv.ctrl = NoTest /\ backlog # <<>>
      BY <1>6, <2>2 DEF AcceptClient, ServerType
    <3>2. CASE Head(backlog) = [test |-> u, kind |-> "ctrl"]
      BY <2>2, <3>1, <3>2 DEF Admitted
    <3>3. CASE Head(backlog) # [test |-> u, kind |-> "ctrl"]
      BY ZenonT(40), <2>2, <3>1, <3>3, TailKeeps, ServerAssumption DEF Admitted
    <3> QED BY <3>2, <3>3
  <2> QED BY <1>6, <2>1, <2>2 DEF AcceptClient
<1>7. CASE RefuseClient
  BY <1>4, <1>7 DEF RefuseClient
<1>8. CASE ReadCookie
  <2> DEFINE ms == <<"PARAM_EXCHANGE">>
  <2>1. ms \in Seq(Messages) /\ srv.ctrl \in Tests
    BY <1>8 DEF Messages, States, ReadCookie, Serving
  <2>2. CASE Cleanup(net)
    BY <1>2, <2>2
  <2>3. CASE /\ Gets(srv.ctrl, "COOKIE") /\ Answered(srv.ctrl, ms)
             /\ srv' = [srv EXCEPT !.pc = "params", !.state = "PARAM_EXCHANGE"]
             /\ UNCHANGED backlog
    BY <1>3, <2>1, <2>3 DEF Gets, FromClient, ServerType
  <2> QED BY <1>8, <2>2, <2>3 DEF ReadCookie, Answered
<1>9. CASE GetParameters
  <2> DEFINE ms == <<"CREATE_STREAMS">>
             es == <<"SERVER_ERROR">>
             n  == Consume(net, srv.ctrl)
             d  == Deliver(n, srv.ctrl, es)
  <2>1. ms \in Seq(Messages) /\ es \in Seq(Messages) /\ srv.ctrl \in Tests
    BY <1>9 DEF Messages, States, GetParameters, Serving
  <2>2. CASE Cleanup(net)
    BY <1>2, <2>2
  <2>3. CASE /\ Gets(srv.ctrl, "PARAMS") /\ Answered(srv.ctrl, ms)
             /\ srv' = [srv EXCEPT !.pc = "select", !.state = "CREATE_STREAMS"]
             /\ UNCHANGED backlog
    BY <1>3, <2>1, <2>3 DEF Gets, FromClient, ServerType
  <2>4. CASE Gets(srv.ctrl, "PARAMS") /\ Cleanup(d)
    <3>1. net[srv.ctrl].toSrv # <<>>
      BY <2>4 DEF Gets, FromClient
    <3>2. n \in Nets /\ n[u].peer = net[u].peer /\ n[u].cut = net[u].cut
      BY <2>1, <3>1, ConsumeNet
    <3> HIDE DEF n, es
    <3>3. d \in Nets /\ d[u].peer = net[u].peer /\ d[u].cut = net[u].cut
      BY <2>1, <3>2, DeliverNet
    <3> HIDE DEF d
    <3> QED BY <1>2, <2>4, <3>3
  <2> QED BY <1>9, <2>2, <2>3, <2>4 DEF GetParameters, Answered
<1>10. CASE AcceptStream
  <2>1. CASE Deny(TRUE)
    BY <1>4, <1>10, <2>1 DEF AcceptStream
  <2>2. CASE Head(backlog) = [test |-> srv.ctrl, kind |-> "data"] /\ ~Deny(TRUE)
    <3>1. /\ backlog # <<>> /\ backlog' = Tail(backlog) /\ UNCHANGED net
          /\ srv'.ctrl = srv.ctrl
      BY <1>10, <2>2 DEF AcceptStream, ServerType
    <3>2. Head(backlog) # [test |-> u, kind |-> "ctrl"]
      BY <2>2
    <3> QED BY <3>1, <3>2, TailKeeps DEF Admitted
  <2> QED BY <1>10, <2>1, <2>2 DEF AcceptStream
<1>11. CASE StartTest
  <2> DEFINE ms == <<"TEST_START", "TEST_RUNNING">>
  <2>1. ms \in Seq(Messages) /\ srv.ctrl \in Tests
    BY <1>11 DEF Messages, States, StartTest, Serving
  <2>2. CASE Cleanup(net)
    BY <1>2, <2>2
  <2>3. CASE net' = Deliver(net, srv.ctrl, ms) /\ UNCHANGED backlog /\ srv'.ctrl = srv.ctrl
    <3> HIDE DEF ms
    <3> QED BY <1>1, <2>1, <2>3, DeliverNet
  <2>4. Cleanup(net) \/ (net' = Deliver(net, srv.ctrl, ms) /\ UNCHANGED backlog /\ srv'.ctrl = srv.ctrl)
    BY <1>11 DEF StartTest, ServerType
  <2> QED BY <2>2, <2>3, <2>4
<1>12. CASE HandleTestEnd
  <2> DEFINE ms == <<"EXCHANGE_RESULTS">>
  <2>1. ms \in Seq(Messages) /\ srv.ctrl \in Tests
    BY <1>12 DEF Messages, States, HandleTestEnd
  <2>2. CASE Cleanup(net)
    BY <1>2, <2>2
  <2>3. CASE /\ Gets(srv.ctrl, "TEST_END") /\ Answered(srv.ctrl, ms)
             /\ srv' = [srv EXCEPT !.pc = "results", !.state = "EXCHANGE_RESULTS", !.done = TRUE]
             /\ UNCHANGED backlog
    BY <1>3, <2>1, <2>3 DEF Gets, FromClient, ServerType
  <2> QED BY <1>12, <2>2, <2>3 DEF HandleTestEnd, Answered
<1>13. CASE HandleDone
  <2>1. srv' = [srv EXCEPT !.state = "IPERF_DONE"] /\ UNCHANGED backlog /\ srv.ctrl \in Tests
    BY <1>13 DEF HandleDone
  <2>2. net'[u].peer = net[u].peer /\ net'[u].cut = net[u].cut
    <3>1. CASE UNCHANGED net
      BY <3>1
    <3>2. CASE /\ Gets(srv.ctrl, "IPERF_DONE") \/ Gets(srv.ctrl, "CLIENT_TERMINATE")
               /\ net' = Consume(net, srv.ctrl)
      BY <2>1, <3>2, ConsumeNet DEF Gets, FromClient
    <3> QED BY <1>13, <3>1, <3>2 DEF HandleDone
  <2> QED BY <1>1, <2>1, <2>2 DEF ServerType
<1>14. CASE ExchangeResultsServer
  <2> DEFINE ms == <<"RESULTS", "DISPLAY_RESULTS">>
  <2>1. ms \in Seq(Messages) /\ srv.ctrl \in Tests
    BY <1>14 DEF Messages, States, ExchangeResultsServer, Serving
  <2>2. CASE Cleanup(net)
    BY <1>2, <2>2
  <2>3. CASE /\ Gets(srv.ctrl, "RESULTS") /\ Answered(srv.ctrl, ms)
             /\ srv' = [srv EXCEPT !.pc = "select", !.state = "DISPLAY_RESULTS"]
             /\ UNCHANGED backlog
    BY <1>3, <2>1, <2>3 DEF Gets, FromClient, ServerType
  <2> QED BY <1>14, <2>2, <2>3 DEF ExchangeResultsServer, Answered
<1>15. CASE ServerTimer
  <2>1. CASE srv' = [srv EXCEPT !.timer = FALSE] /\ UNCHANGED cvars
    BY <1>1, <2>1 DEF cvars, ServerType
  <2>2. CASE CloseControl(net, {srv.ctrl}) /\ UNCHANGED backlog
    BY <2>2, ClosedNet DEF Admitted
  <2> QED BY <1>15, <2>1, <2>2 DEF ServerTimer
<1>16. CASE HandleUnknown \/ ServerFinish \/ ServerSelectFails \/ NoMessageTimeout
  <2>1. Cleanup(net)
    BY <1>16 DEF HandleUnknown, ServerFinish, ServerSelectFails, NoMessageTimeout
  <2> QED BY <1>2, <2>1
<1>17. CASE ServerFails
  <2>1. CASE Cleanup(net)
    BY <1>2, <2>1
  <2>2. ASSUME srv.pc = "start", NEW e \in Told, Cleanup(Deliver(net, srv.ctrl, e))
        PROVE  Admitted(u)'
    <3> DEFINE d == Deliver(net, srv.ctrl, e)
    <3>1. e \in Seq(Messages) /\ srv.ctrl \in Tests
      BY <2>2, ToldMessages DEF Serving
    <3>2. d \in Nets /\ d[u].peer = net[u].peer /\ d[u].cut = net[u].cut
      BY <3>1, DeliverNet
    <3>3. Cleanup(d)
      BY <2>2
    <3> HIDE DEF d
    <3> QED BY <1>2, <3>2, <3>3
  <2> QED BY <1>17, <2>1, <2>2 DEF ServerFails
<1> QED BY <1>5, <1>6, <1>7, <1>8, <1>9, <1>10, <1>11, <1>12, <1>13, <1>14, <1>15, <1>16,
           <1>17 DEF ServerEvent, ServerStep

-----------------------------------------------------------------------------
(* Who may say that a test is done *)

\* Every event of client t but the message a stop sends.
OwnEvent(t) ==
  \/ ClientStep(t) \/ RunClient(t) \/ ConnectOk(t) \/ CreateStream(t)
  \/ \E fired, over, met \in BOOLEAN : Run(t, fired, over, met)
  \/ \E d \in {"snd", "rcv"} : StreamThreadExits(t, d)
  \/ ClientFails(t) \/ Interrupted(t)
  \/ MarkDone(t) \/ ShutControl(t) \/ NetworkLost(t)

\* A client that takes its test for done has come to the end, or was told so.
SaysDone(t) ==
  test'[t].state = "IPERF_DONE" =>
    \/ test[t].state = "IPERF_DONE" \/ test[t].pc = "end" \/ test'[t].pc = "ret"
    \/ net[t].toCli # <<>> /\ Head(net[t].toCli) = "IPERF_DONE"

\* The thread of a client moves on with every step it takes.
LEMMA ClientStepMoves ==
  ASSUME ClientTypeOK, NEW t \in Tests, ClientStep(t)
  PROVE  test'[t].pc # test[t].pc
<1>0. test \in [Tests -> TestType]
  BY DEF ClientTypeOK
<1> USE <1>0 DEF At, Jump, Received
<1>1. CASE ConnectFails(t) \/ LoopTop(t) \/ SelectReadable(t) \/ SelectTimeout(t)
           \/ ReceiveTimeout(t) \/ CheckRunning(t)
  BY <1>1 DEF ConnectFails, LoopTop, SelectReadable, SelectTimeout, ReceiveTimeout,
              CheckRunning, TestType
<1>2. CASE SendCookie(t) \/ HandleParamExchange(t) \/ HandleExchangeResults(t)
  BY <1>2 DEF SendCookie, HandleParamExchange, HandleExchangeResults, WriteThen, TestType
<1>3. CASE ReadState(t) \/ HandleTestStart(t) \/ GetResults(t)
  BY <1>3 DEF ReadState, HandleTestStart, GetResults, TestType
<1>4. CASE HandleOther(t)
  BY <1>4 DEF HandleOther, TestType
<1>5. CASE StreamsCreated(t) \/ JoinSenders(t) \/ SendTestEnd(t) \/ LoopExit(t)
  BY <1>5 DEF StreamsCreated, JoinSenders, SendTestEnd, LoopExit, TestType
<1>6. CASE DisplayResults(t)
  BY <1>6 DEF DisplayResults, IperfClientEnd, TestType
<1>7. CASE CleanupAndFail(t)
  BY <1>7 DEF CleanupAndFail, IperfClientEnd, TestType
<1> QED BY <1>1, <1>2, <1>3, <1>4, <1>5, <1>6, <1>7 DEF ClientStep

\* Which events from outside the client's thread write the state of the test: only
\* the farewell of a stop does, and it does not move the thread.
LEMMA SendDoneState ==
  ASSUME ClientTypeOK, NEW t \in Tests
  PROVE  /\ SendDone(t) => test'[t].pc = test[t].pc
         /\ \/ RunClient(t) \/ ConnectOk(t) \/ CreateStream(t)
            \/ \E fired, over, met \in BOOLEAN : Run(t, fired, over, met)
            \/ \E d \in {"snd", "rcv"} : StreamThreadExits(t, d)
            \/ ClientFails(t) \/ MarkDone(t) \/ ShutControl(t) \/ NetworkLost(t)
            => test'[t].state = test[t].state
<1>0. test \in [Tests -> TestType]
  BY DEF ClientTypeOK
<1>1. SendDone(t) => test'[t].pc = test[t].pc
  BY <1>0 DEF SendDone, TestType
<1>2. RunClient(t) \/ ConnectOk(t) \/ CreateStream(t) => test'[t].state = test[t].state
  BY <1>0 DEF RunClient, Jump, ConnectOk, CreateStream, TestType
<1>3. ASSUME NEW fired \in BOOLEAN, NEW over \in BOOLEAN, NEW met \in BOOLEAN,
             Run(t, fired, over, met)
      PROVE  test'[t].state = test[t].state
  BY <1>3, RunFrame
<1>4. ASSUME NEW d, StreamThreadExits(t, d) PROVE test'[t].state = test[t].state
  BY <1>0, <1>4 DEF StreamThreadExits, TestType
<1>5. MarkDone(t) \/ ShutControl(t) \/ NetworkLost(t) => test'[t].state = test[t].state
  <2>1. MarkDone(t) => test'[t].state = test[t].state
    BY <1>0 DEF MarkDone, TestType
  <2>2. ShutControl(t) => test'[t].state = test[t].state
    BY <1>0 DEF ShutControl, TestType
  <2> QED BY <2>1, <2>2 DEF NetworkLost
<1>6. ClientFails(t) => test'[t].state = test[t].state
  <2>1. CASE SetupControlFails(t) \/ SelectFails(t)
    BY <2>1, JumpFields DEF SetupControlFails, SelectFails, Labels
  <2>2. CASE TimersFail(t) \/ ThreadsFail(t)
    BY <2>2, TimersFailFrame, ThreadsFailFrame
  <2>3. CASE \E d \in {"snd", "rcv"} : JoinFails(t, d)
    BY <2>3, JoinFailsFrame
  <2> QED BY <2>1, <2>2, <2>3 DEF ClientFails
<1> QED BY <1>1, <1>2, <1>3, <1>4, <1>5, <1>6

\* No event but the farewell of a stop makes a client take its test for done, unless
\* the client had come to the end or was told so.
LEMMA OwnEventDone ==
  ASSUME ClientTypeOK, NEW t \in Tests, OwnEvent(t)
  PROVE  ClientEvent(t) /\ SaysDone(t)
<1>1. ClientEvent(t)
  BY DEF OwnEvent, ClientEvent
<1>2. CASE ClientStep(t)
  <2>1. ~SendDone(t)
    BY <1>2, ClientStepMoves, SendDoneState
  <2> QED BY <1>1, <2>1, ClientEventTurn DEF ClientTurn, SaysDone
<1>3. CASE Interrupted(t)
  BY <1>1, <1>3, InterruptedFrame DEF SaysDone
<1>4. CASE ~ClientStep(t) /\ ~Interrupted(t)
  BY <1>1, <1>4, SendDoneState DEF OwnEvent, SaysDone
<1> QED BY <1>1, <1>2, <1>3, <1>4

\* What happens to a test from outside its thread.
Outside(t) ==
  \/ \E d \in {"snd", "rcv"} : StreamThreadExits(t, d)
  \/ MarkDone(t) \/ SendDone(t) \/ ShutControl(t) \/ NetworkLost(t)

\* What happens from outside leaves the position of the thread and the result alone,
\* and starts no stream thread.
LEMMA OutsideFields ==
  ASSUME ClientTypeOK, NEW t \in Tests, Outside(t)
  PROVE  /\ ClientEvent(t)
         /\ test'[t].pc = test[t].pc /\ test'[t].result = test[t].result
         /\ test'[t].live \subseteq test[t].live /\ test'[t].left = test[t].left
<1>0. test \in [Tests -> TestType]
  BY DEF ClientTypeOK
<1>1. ClientEvent(t)
  BY DEF Outside, ClientEvent
<1>2. ASSUME NEW d, StreamThreadExits(t, d)
      PROVE  /\ test'[t].pc = test[t].pc /\ test'[t].result = test[t].result
             /\ test'[t].live \subseteq test[t].live /\ test'[t].left = test[t].left
  <2> DEFINE l == test[t].live \ {d}
  <2>1. test' = [test EXCEPT ![t] = [test[t] EXCEPT !.live = l]]
    BY <1>2 DEF StreamThreadExits
  <2>2. l \subseteq test[t].live
    OBVIOUS
  <2> HIDE DEF l
  <2>3. /\ test'[t].pc = test[t].pc /\ test'[t].result = test[t].result /\ test'[t].live = l
        /\ test'[t].left = test[t].left
    BY <1>0, <2>1 DEF TestType
  <2> QED BY <2>2, <2>3
<1>3. ASSUME MarkDone(t) \/ SendDone(t) \/ ShutControl(t) \/ NetworkLost(t)
      PROVE  /\ test'[t].pc = test[t].pc /\ test'[t].result = test[t].result
             /\ test'[t].live = test[t].live /\ test'[t].left = test[t].left
  <2>1. CASE MarkDone(t)
    BY <1>0, <2>1 DEF MarkDone, TestType
  <2>2. CASE SendDone(t)
    <3>1. CASE test' = test
      BY <3>1
    <3>2. CASE test' = [test EXCEPT ![t].state = "IPERF_DONE"]
      BY <1>0, <3>2 DEF TestType
    <3> QED BY <2>2, <3>1, <3>2 DEF SendDone
  <2>3. CASE ShutControl(t)
    <3> DEFINE k == IF test[t].ctrl = "open" THEN "shut" ELSE test[t].ctrl
    <3>1. test' = [test EXCEPT ![t] = [test[t] EXCEPT !.ctrl = k]]
      BY <2>3 DEF ShutControl
    <3> HIDE DEF k
    <3> QED BY <1>0, <3>1 DEF TestType
  <2>4. CASE NetworkLost(t)
    BY <2>4 DEF NetworkLost
  <2> QED BY <1>3, <2>1, <2>2, <2>3, <2>4
<1> QED BY <1>1, <1>2, <1>3 DEF Outside
=============================================================================
