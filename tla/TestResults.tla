---------------------------- MODULE TestResults ----------------------------
(* The results of one test (iperf_api.c): the threads of either end count its *)
(* streams, each end leaves its omit period when its own timer says so, and  *)
(* sends what it counted to the other when the test ends (send_results,      *)
(* get_results); then it prints a summary of both (iperf_print_results). The *)
(* server prints before the exchange, the client after it. Nothing keeps the *)
(* threads from counting while the main thread reads and clears what they    *)
(* count. A block or a datagram is one unit.                                 *)
EXTENDS Integers, FiniteSets

CONSTANTS Tests,      \* tests: [mode, protocol, streams, omit, old, units]; old: the
                      \* server does not send what it omitted (before 3.17); units,
                      \* a bound: the units sent on a stream
          MaxCopies,  \* bound: datagrams of a stream that arrive once more
          MaxLost     \* bound: retransmissions of the kernel on a stream
ASSUME ResultsAssumption ==
  /\ MaxCopies \in Nat /\ MaxLost \in Nat
  /\ \A t \in Tests : /\ t.mode \in {"SENDER", "RECEIVER", "BIDIRECTIONAL"}
                      /\ t.protocol \in {"tcp", "udp"} /\ t.streams \in Int
                      /\ t.omit \in BOOLEAN /\ t.old \in BOOLEAN /\ t.units \in Nat

VARIABLES exam,     \* the test, or NoExam
          ends,     \* struct iperf_test of either end
          strm,     \* the streams of either end, by id, and where their threads are
          net,      \* per id: what the network has had of the stream
          caught,   \* history: streams of which a thread was in the middle of a unit
                    \* when the main thread of its end noted, cleared, sent or printed
                    \* what it counts
          mail,     \* the results on their way to either end, or NoMail
          summary   \* what either end has printed, or NoMail

resultVars == <<exam, ends, strm, net, caught, mail, summary>>

Ends == {"client", "server"}
Other(e) == IF e = "client" THEN "server" ELSE "client"
NoExam == [mode |-> "none", streams |-> 0]
NoMail == [has |-> FALSE]
NoStream == [i \in {} |-> 0]

\* iperf_add_stream: the first stream is 1, the next ones 3, 4, ...
StreamId(k) == IF k = 1 THEN 1 ELSE k + 1
Direction(t, k) ==
  CASE t.mode = "SENDER" -> "client" [] t.mode = "RECEIVER" -> "server"
    [] OTHER -> IF k <= t.streams THEN "client" ELSE "server"
StreamIds(t) == {StreamId(k) : k \in 1 .. (IF t.mode = "BIDIRECTIONAL" THEN 2 ELSE 1) * t.streams}
SenderOf(t, i) == Direction(t, CHOOSE k \in 1 .. 2 * t.streams : StreamId(k) = i)

NewStream(sends) ==
  [sender |-> sends, at |-> "idle", sent |-> 0, sent_omit |-> 0, received |-> 0,
   packet_count |-> 0, cnt_error |-> 0, outoforder |-> 0,
   omitted_packet_count |-> 0, omitted_cnt_error |-> 0, omitted_outoforder |-> 0,
   peer_packet_count |-> 0, peer_omitted |-> 0, retrans |-> 0, prev_retrans |-> 0]

\* The units written, the highest that arrived, those before it that did not (yet),
\* those that arrived once more, the retransmissions of the kernel.
NewNet == [written |-> 0, arrived |-> 0, missing |-> 0, copies |-> 0, retrans |-> 0]

ResultsInit ==
  /\ exam = NoExam
  /\ ends = [e \in Ends |-> [phase |-> "idle", omitting |-> FALSE, has |-> FALSE, other |-> FALSE]]
  /\ strm = [e \in Ends |-> NoStream] /\ net = NoStream /\ caught = {}
  /\ mail = [e \in Ends |-> NoMail] /\ summary = [e \in Ends |-> NoMail]

ModeAt(e) == IF e = "client" \/ exam.mode = "BIDIRECTIONAL" THEN exam.mode
             ELSE IF exam.mode = "SENDER" THEN "RECEIVER" ELSE "SENDER"

StartResults(t) ==
  /\ exam = NoExam
  /\ exam' = t
  /\ ends' = [e \in Ends |->
                [phase |-> "running", omitting |-> t.omit, other |-> FALSE,
                 has |-> t.protocol = "tcp" /\ \E i \in StreamIds(t) : SenderOf(t, i) = e]]
  /\ strm' = [e \in Ends |-> [i \in StreamIds(t) |-> NewStream(SenderOf(t, i) = e)]]
  /\ net' = [i \in StreamIds(t) |-> NewNet]
  /\ UNCHANGED <<caught, mail, summary>>

Udp == exam.protocol = "udp"
At(e, phase) == ends[e].phase = phase
Measures(e) == ends[e].phase \in {"running", "resetting"}

----------------------------------------------------------------------------
(* The threads. That of a stream goes through a unit in steps, and is seen   *)
(* between them by the main thread of its end: Busy.                         *)
Busy(s) == s.at \notin {"idle", "over"}
SeenBy(e) == caught \cup {i \in DOMAIN net : Busy(strm[e][i])}

ThreadStep(e, i, s, n) ==
  /\ strm' = [strm EXCEPT ![e][i] = s] /\ net' = [net EXCEPT ![i] = n]
  /\ caught' = IF At(e, "resetting") THEN caught \cup {i} ELSE caught
  /\ UNCHANGED <<exam, ends, mail, summary>>

\* A sender numbers a datagram before it writes it, takes the number back when the
\* write fails, and counts what it wrote; TCP has no numbers. The threads of the
\* client are joined before its test ends. Those of the server find the sockets
\* closed: what is under way may still be written, what begins then is refused.
Sends(e, i, at) ==
  strm[e][i].sender /\ strm[e][i].at = at /\ (Measures(e) \/ e = "server")

BeginUnit(e, i) ==
  /\ Sends(e, i, "idle") /\ net[i].written < exam.units
  /\ ThreadStep(e, i, [strm[e][i] EXCEPT !.at = IF Measures(e) THEN "sending" ELSE "refused",
                                         !.packet_count = IF Udp THEN @ + 1 ELSE @], net[i])

WriteUnit(e, i) ==
  /\ Sends(e, i, "sending")
  /\ ThreadStep(e, i, [strm[e][i] EXCEPT !.at = "written"], [net[i] EXCEPT !.written = @ + 1])

FailUnit(e, i, soft) ==
  /\ Sends(e, i, "sending") \/ Sends(e, i, "refused")
  /\ soft => Measures(e)
  /\ ThreadStep(e, i, [strm[e][i] EXCEPT !.at = IF soft THEN "idle" ELSE "over",
                                         !.packet_count = IF Udp THEN @ - 1 ELSE @], net[i])

CountSent(e, i) ==
  /\ Sends(e, i, "written")
  /\ ThreadStep(e, i, [strm[e][i] EXCEPT !.at = "idle", !.sent = @ + 1], net[i])

\* A receiver reads a unit: the next of TCP, the next datagram or one further on, one
\* that was overtaken, or one that was there before. It counts it if it finds the
\* state TEST_RUNNING, and only then looks at its number.
Reads(e, i, n) ==
  /\ Measures(e) /\ ~strm[e][i].sender /\ strm[e][i].at = "idle"
  /\ ThreadStep(e, i, [strm[e][i] EXCEPT !.at = "read"], n)

ReadNext(e, i, k) ==
  /\ k \in (net[i].arrived + 1) .. net[i].written /\ (Udp \/ k = net[i].arrived + 1)
  /\ Reads(e, i, [net[i] EXCEPT !.arrived = k, !.missing = @ + (k - 1 - net[i].arrived)])

ReadLate(e, i) ==
  /\ net[i].missing > 0
  /\ Reads(e, i, [net[i] EXCEPT !.missing = @ - 1])

ReadCopy(e, i) ==
  /\ Udp /\ net[i].arrived > 0 /\ net[i].copies < MaxCopies
  /\ Reads(e, i, [net[i] EXCEPT !.copies = @ + 1])

CountReceived(e, i) ==
  /\ strm[e][i].at = "read"
  /\ ThreadStep(e, i, [strm[e][i] EXCEPT !.at = IF Udp THEN "counted" ELSE "idle",
                                         !.received = @ + 1], net[i])

Sequenced(s, n) ==
  IF n > s.packet_count
  THEN [s EXCEPT !.at = "idle", !.packet_count = n,
                 !.cnt_error = @ + (n - 1 - s.packet_count)]
  ELSE [s EXCEPT !.at = "idle", !.outoforder = @ + 1,
                 !.cnt_error = IF @ > 0 THEN @ - 1 ELSE @]

SequenceUnit(e, i) ==
  /\ strm[e][i].at = "counted"
  /\ ThreadStep(e, i, Sequenced(strm[e][i], net[i].arrived), net[i])

Retransmit(e, i) ==
  /\ At(e, "running") /\ ~Udp /\ strm[e][i].sender
  /\ net[i].written > 0 /\ net[i].retrans < MaxLost
  /\ net' = [net EXCEPT ![i].retrans = @ + 1]
  /\ UNCHANGED <<exam, ends, strm, caught, mail, summary>>

----------------------------------------------------------------------------
\* The part of iperf_stats_callback the results depend on.
Counted(e) ==
  [i \in DOMAIN strm[e] |->
     IF ends[e].has /\ strm[e][i].sender
     THEN [strm[e][i] EXCEPT !.retrans = @ + (net[i].retrans - strm[e][i].prev_retrans),
                             !.prev_retrans = net[i].retrans]
     ELSE strm[e][i]]

StatsCallback(e) ==
  /\ At(e, "running")
  /\ strm' = [strm EXCEPT ![e] = Counted(e)]
  /\ UNCHANGED <<exam, ends, net, caught, mail, summary>>

\* iperf_reset_stats, when the omit timer of this end fires: the counters of a stream
\* are noted, then its bytes are cleared. A thread that adds to the bytes received at
\* that moment may undo it.
Noted(s) ==
  [s EXCEPT !.omitted_packet_count = s.packet_count, !.omitted_cnt_error = s.cnt_error,
            !.omitted_outoforder = s.outoforder]

NoteOmitted(e) ==
  /\ At(e, "running") /\ ends[e].omitting
  /\ ends' = [ends EXCEPT ![e].omitting = FALSE, ![e].phase = "resetting"]
  /\ strm' = [strm EXCEPT ![e] = [i \in DOMAIN strm[e] |-> Noted(strm[e][i])]]
  /\ caught' = SeenBy(e)
  /\ UNCHANGED <<exam, net, mail, summary>>

Cleared(s, i, has, undone) ==
  [s EXCEPT !.sent_omit = s.sent, !.received = IF undone THEN @ ELSE 0, !.retrans = 0,
            !.prev_retrans = IF has THEN net[i].retrans ELSE @]

ClearOmitted(e, undone) ==
  /\ At(e, "resetting") /\ \A i \in undone : strm[e][i].at = "read"
  /\ ends' = [ends EXCEPT ![e].phase = "running"]
  /\ strm' = [strm EXCEPT ![e] =
       [i \in DOMAIN strm[e] |-> Cleared(strm[e][i], i, ends[e].has, i \in undone)]]
  /\ caught' = SeenBy(e)
  /\ UNCHANGED <<exam, net, mail, summary>>

----------------------------------------------------------------------------
(* The summary. A stream is shown from both sides at the client and from its *)
(* own side at the server.                                                   *)
SentOf(s) == s.sent - s.sent_omit
SenderPackets(s) == IF s.sender THEN s.packet_count ELSE s.peer_packet_count
SenderOmitted(s) == IF s.sender THEN s.omitted_packet_count ELSE s.peer_omitted
ReceiverPackets(s) == IF s.sender THEN s.peer_packet_count ELSE s.packet_count
ReceiverOmitted(s) == IF s.sender THEN s.peer_omitted ELSE s.omitted_packet_count

\* The flag is looked up per direction: the stream's sender is this end or the
\* other. Without a flag no retransmissions are printed.
ShowsRetransmits(e, s) ==
  IF ModeAt(e) = "BIDIRECTIONAL" /\ ~s.sender THEN ends[e].other ELSE ends[e].has

\* The sums leave out the -1 of an unknown number of omitted losses, the JSON of the
\* stream does not; its text line shows no losses then.
LostInSum(s) == s.cnt_error - (IF s.omitted_cnt_error > -1 THEN s.omitted_cnt_error ELSE 0)

StreamSummary(e, s) ==
  [sent |-> SentOf(s), received |-> s.received,
   retrans |-> IF ShowsRetransmits(e, s) THEN s.retrans ELSE -1,
   lost |-> s.cnt_error - s.omitted_cnt_error, summed |-> LostInSum(s),
   packets |-> (IF SenderPackets(s) # 0 THEN SenderPackets(s) ELSE ReceiverPackets(s))
               - s.omitted_packet_count,
   sender_packets |-> SenderPackets(s) - SenderOmitted(s),
   receiver_packets |-> ReceiverPackets(s) - ReceiverOmitted(s)]

\* The sums of the streams of one direction.
SumOver(e, t, sends, f) ==
  LET ids == {i \in DOMAIN t[e] : t[e][i].sender = sends}
      add[S \in SUBSET ids] ==
        IF S = {} THEN 0
        ELSE LET i == CHOOSE i \in S : TRUE IN StreamSummary(e, t[e][i])[f] + add[S \ {i}]
  IN add[ids]

PrintResults(e, t) ==
  [has |-> TRUE,
   stream |-> [i \in DOMAIN t[e] |-> StreamSummary(e, t[e][i])],
   sum |-> [sends \in BOOLEAN |->
              [sent |-> SumOver(e, t, sends, "sent"), received |-> SumOver(e, t, sends, "received"),
               lost |-> SumOver(e, t, sends, "summed"), packets |-> SumOver(e, t, sends, "packets")]]]

----------------------------------------------------------------------------
(* The end of the test. The client has joined its sender threads, wherever   *)
(* they were, and takes the last statistics; the server does so when TEST_END *)
(* arrives, closes the stream sockets and prints.                            *)
TestEnd ==
  /\ At("client", "running") /\ ~ends["client"].omitting
  /\ strm' = [strm EXCEPT !["client"] = Counted("client")]
  /\ ends' = [ends EXCEPT !["client"].phase = "ended"] /\ caught' = SeenBy("client")
  /\ UNCHANGED <<exam, net, mail, summary>>

ServerEnds ==
  /\ At("client", "ended") /\ At("server", "running")
  /\ strm' = [strm EXCEPT !["server"] = Counted("server")]
  /\ summary' = [summary EXCEPT !["server"] = PrintResults("server", strm')]
  /\ ends' = [ends EXCEPT !["server"].phase = "exchange"] /\ caught' = SeenBy("server")
  /\ UNCHANGED <<exam, net, mail>>

\* Mutants of StreamResult: the bytes of the omit period are sent as well; the
\* losses of the omit period are not sent apart.
StreamResultWhole(e, s) ==
  [bytes |-> IF s.sender THEN s.sent ELSE s.received,
   retransmits |-> IF s.sender /\ ends[e].has THEN s.retrans ELSE -1,
   errors |-> s.cnt_error, omitted_errors |-> s.omitted_cnt_error,
   packets |-> s.packet_count, omitted_packets |-> s.omitted_packet_count]

StreamResultAllLost(e, s) ==
  [bytes |-> IF s.sender THEN SentOf(s) ELSE s.received,
   retransmits |-> IF s.sender /\ ends[e].has THEN s.retrans ELSE -1,
   errors |-> s.cnt_error, omitted_errors |-> 0,
   packets |-> s.packet_count, omitted_packets |-> s.omitted_packet_count]

StreamResult(e, s) ==
  [bytes |-> IF s.sender THEN SentOf(s) ELSE s.received,
   retransmits |-> IF s.sender /\ ends[e].has THEN s.retrans ELSE -1,
   errors |-> s.cnt_error, omitted_errors |-> s.omitted_cnt_error,
   packets |-> s.packet_count, omitted_packets |-> s.omitted_packet_count]

SendResults(e) ==
  /\ \/ e = "client" /\ At("client", "ended") /\ At("server", "exchange")
     \/ e = "server" /\ At("server", "got")
  /\ mail' = [mail EXCEPT ![Other(e)] =
       [has |-> TRUE, omits |-> ~(exam.old /\ e = "server"),
        sender_has_retransmits |-> IF ModeAt(e) = "RECEIVER" THEN -1
                                   ELSE IF ends[e].has THEN 1 ELSE 0,
        streams |-> [i \in DOMAIN strm[e] |-> StreamResult(e, strm[e][i])]]]
  /\ ends' = [ends EXCEPT ![e].phase = IF e = "client" THEN "exchange" ELSE "sent"]
  /\ caught' = SeenBy(e)
  /\ UNCHANGED <<exam, strm, net, summary>>

\* A sender stores what the other received, a receiver what the other sent. An
\* old peer counts the omitted losses among the others and does not say how many.
Stores(s, r, omits) ==
  IF s.sender
  THEN [s EXCEPT !.received = r.bytes, !.peer_packet_count = r.packets, !.cnt_error = r.errors,
                 !.peer_omitted = IF omits THEN r.omitted_packets ELSE s.omitted_packet_count,
                 !.omitted_cnt_error =
                    IF omits THEN r.omitted_errors
                    ELSE IF s.omitted_packet_count > 0 THEN (IF r.errors > 0 THEN -1 ELSE 0)
                    ELSE r.errors]
  ELSE [s EXCEPT !.sent = r.bytes, !.peer_packet_count = r.packets, !.retrans = r.retransmits,
                 !.peer_omitted = IF omits THEN r.omitted_packets ELSE r.packets]

GetResults(e) ==
  /\ At(e, "exchange") /\ mail[e].has
  /\ ends' = [ends EXCEPT
       ![e].phase = "got",
       ![e].has = IF ModeAt(e) = "RECEIVER" THEN mail[e].sender_has_retransmits # 0 ELSE @,
       ![e].other = IF ModeAt(e) = "BIDIRECTIONAL" THEN mail[e].sender_has_retransmits # 0 ELSE @]
  /\ strm' = [strm EXCEPT ![e] =
       [i \in DOMAIN strm[e] |-> Stores(strm[e][i], mail[e].streams[i], mail[e].omits)]]
  /\ mail' = [mail EXCEPT ![e] = NoMail]
  /\ UNCHANGED <<exam, net, caught, summary>>

\* DISPLAY_RESULTS: iperf_client_end closes the stream sockets and prints.
DisplayResults ==
  /\ At("client", "got") /\ At("server", "sent")
  /\ summary' = [summary EXCEPT !["client"] = PrintResults("client", strm)]
  /\ ends' = [ends EXCEPT !["client"].phase = "done"] /\ caught' = SeenBy("client")
  /\ UNCHANGED <<exam, strm, net, mail>>

Exchanging ==
  \/ TestEnd \/ ServerEnds \/ DisplayResults
  \/ \E e \in Ends : SendResults(e) \/ GetResults(e)

Threads(e, i) ==
  \/ BeginUnit(e, i) \/ WriteUnit(e, i) \/ CountSent(e, i)
  \/ \E soft \in BOOLEAN : FailUnit(e, i, soft)
  \/ \E k \in 1 .. exam.units : ReadNext(e, i, k)
  \/ ReadLate(e, i) \/ ReadCopy(e, i) \/ CountReceived(e, i) \/ SequenceUnit(e, i)

ResultsNext ==
  \/ \E t \in Tests : StartResults(t)
  \/ \E e \in Ends : \E i \in DOMAIN strm[e] : Threads(e, i) \/ Retransmit(e, i)
  \/ \E e \in Ends : StatsCallback(e) \/ NoteOmitted(e)
  \/ \E e \in Ends : \E undone \in SUBSET DOMAIN strm[e] : ClearOmitted(e, undone)
  \/ Exchanging

ResultsSpec == ResultsInit /\ [][ResultsNext]_resultVars
----------------------------------------------------------------------------
Printed == summary["client"].has
AtClient(i) == summary["client"].stream[i]
AtServer(i) == summary["server"].stream[i]
SentByClient(i) == SenderOf(exam, i) = "client"
OutOfOrder(s) == s.outoforder - s.omitted_outoforder

\* The losses in the client's summary are those of the measured period: with the
\* datagrams received they make up the datagrams the receiver counted and some that
\* came twice, they fall below zero by no more than came late or twice, and exceed the
\* datagrams of the sender by no more than it had omitted (one lost in the omit period
\* that comes after it is taken off the losses of the measured period, so the
\* protection against a negative count, iperf_udp.c:149-154, does not reach what is
\* shown). The first two take a
\* receiver whose thread was never in the middle of a datagram when it was asked.
\* From a server that does not say what it omitted the client shows no loss at
\* all if it omitted nothing itself, and otherwise all that was ever lost.
LossWithinTotal ==
  Printed /\ Udp =>
    \A i \in DOMAIN net :
      LET p == AtClient(i)  s == strm["client"][i]
          receiver == strm[Other(SenderOf(exam, i))][i]
      IN /\ (exam.old => ~SentByClient(i)) /\ i \notin caught =>
              /\ p.received + p.lost - p.receiver_packets \in 0 .. net[i].copies
              /\ p.lost + OutOfOrder(receiver) >= 0
         /\ p.summed <= p.packets + SenderOmitted(s)
         /\ exam.old /\ SentByClient(i) => p.summed \in 0 .. ReceiverPackets(s)
         /\ exam.old /\ SentByClient(i) /\ SenderOmitted(s) = 0 => p.summed = 0

\* Both ends tell the same of a test: the client shows for what the server sent and
\* received the numbers the server showed, but for a unit its thread was in the middle
\* of, never more received than written in and before the measured period and copied
\* by the network (and no more than one of them is not counted as sent), and
\* retransmissions for the TCP streams, never for others.
ReportsAgree ==
  Printed =>
    \A i \in DOMAIN net :
      LET p == AtClient(i)  q == AtServer(i)
          sent == p.sent + strm[SenderOf(exam, i)][i].sent_omit
          one == IF i \in caught THEN {0, 1} ELSE {0}
      IN /\ SentByClient(i) => p.received - q.received \in one
         /\ SentByClient(i) /\ ~exam.old /\ i \notin caught => p.lost = q.lost
         /\ ~SentByClient(i) => p.sent - q.sent \in one /\ p.retrans = q.retrans
         /\ p.received <= net[i].written + net[i].copies
         /\ net[i].written - sent \in one
         /\ (p.retrans >= 0) = ~Udp
         /\ LET sum == summary["client"].sum[SentByClient(i)]
            IN /\ exam.streams = 1 => sum.sent = p.sent
               /\ sum.received >= p.received
=============================================================================
