----------------------------- MODULE UdpCounters ----------------------------
(* A UDP stream under test: the sender numbers its datagrams, the network    *)
(* loses, reorders and duplicates them, the receiving thread counts          *)
(* (iperf_udp.c), and the main thread takes the numbers of an interval and   *)
(* ends the omit period (iperf_api.c) while the receiving thread counts on.  *)
(* A datagram is one unit of the byte counters.                              *)
EXTENDS Integers, FiniteSets

CONSTANTS MaxPackets,     \* bound: datagrams sent
          MaxDups,        \* bound: datagrams that arrive again
          MaxIntervals    \* bound: intervals reported
ASSUME UdpAssumption == MaxPackets \in Nat /\ MaxDups \in Nat /\ MaxIntervals \in Nat

VARIABLES snd,       \* the sender: packet_count, bytes_sent
          rcv,       \* the receiving stream: its counters and results
          wrk,       \* the receiving thread
          main,      \* the main thread of the receiver: its position, the struct temp
          irp,       \* the last interval in interval_results, or None
          phase,     \* test->state at the receiver: before, at or after TEST_RUNNING
          got,       \* history: the datagrams that were counted
          dups,      \* history: how many arrived again
          sum,       \* history: what the interval reports add up to
          raced      \* history: the threads met inside a callback

udpVars == <<snd, rcv, wrk, main, irp, phase, got, dups, sum, raced>>

NoInterval == [packet_count |-> 0, cnt_error |-> 0, taken |-> FALSE]
NoReport == [bytes |-> 0, packets |-> 0, errors |-> 0]

UdpInit ==
  /\ snd = [packet_count |-> 0, bytes_sent |-> 0]
  /\ rcv = [packet_count |-> 0, cnt_error |-> 0, outoforder |-> 0,
            omitted_packets |-> 0, omitted_errors |-> 0,
            bytes_received |-> 0, this_interval |-> 0]
  /\ wrk = [pc |-> "recv", n |-> 0]
  /\ main = [pc |-> "loop", temp |-> NoReport, omits |-> 0, intervals |-> 0]
  /\ irp = NoInterval /\ sum = NoReport
  /\ phase = "start" /\ got = {} /\ dups = 0 /\ raced = FALSE

----------------------------------------------------------------------------
(* The sender. A datagram that cannot be written is not counted: the next    *)
(* one has the same number.                                                  *)
UdpSend(written) ==
  /\ snd.packet_count < MaxPackets
  /\ LET n == snd.packet_count + 1
     IN snd' = [snd EXCEPT !.packet_count = IF written THEN n ELSE n - 1,
                           !.bytes_sent = IF written THEN @ + 1 ELSE @]
  /\ UNCHANGED <<rcv, wrk, main, irp, phase, got, dups, sum, raced>>

(* The receiving thread, iperf_udp_recv. What another thread may see between *)
(* two updates is a step: first the bytes, then the bytes of the interval,   *)
(* then the losses, then the highest number. Only while the test runs.       *)
Met == raced' = (raced \/ main.pc # "loop")

UdpReceive(n) ==
  /\ wrk.pc = "recv"
  /\ n \in 1 .. snd.packet_count
  /\ IF n \in got THEN dups < MaxDups /\ dups' = dups + 1 ELSE UNCHANGED dups
  /\ phase = "running"
  /\ rcv' = [rcv EXCEPT !.bytes_received = @ + 1]
  /\ got' = got \cup {n}
  /\ wrk' = [pc |-> "interval", n |-> n]
  /\ Met /\ UNCHANGED <<snd, main, irp, phase, sum>>

AddToInterval ==
  /\ wrk.pc = "interval"
  /\ rcv' = [rcv EXCEPT !.this_interval = @ + 1]
  /\ wrk' = [wrk EXCEPT !.pc = "sequence"]
  /\ Met /\ UNCHANGED <<snd, main, irp, phase, got, dups, sum>>

Forward == wrk.n >= rcv.packet_count + 1

\* Mutant of CountGap: the datagram itself counts as a part of the gap.
CountGapAndItself ==
  /\ wrk.pc = "sequence" /\ Forward
  /\ rcv' = [rcv EXCEPT !.cnt_error = @ + (wrk.n - rcv.packet_count)]
  /\ wrk' = [wrk EXCEPT !.pc = "highest"]
  /\ Met /\ UNCHANGED <<snd, main, irp, phase, got, dups, sum>>

CountGap ==
  /\ wrk.pc = "sequence" /\ Forward
  /\ rcv' = [rcv EXCEPT !.cnt_error = @ + (wrk.n - 1 - rcv.packet_count)]
  /\ wrk' = [wrk EXCEPT !.pc = "highest"]
  /\ Met /\ UNCHANGED <<snd, main, irp, phase, got, dups, sum>>

SetHighest ==
  /\ wrk.pc = "highest"
  /\ rcv' = [rcv EXCEPT !.packet_count = wrk.n]
  /\ wrk' = [pc |-> "recv", n |-> 0]
  /\ Met /\ UNCHANGED <<snd, main, irp, phase, got, dups, sum>>

\* A late datagram takes a loss back, if there is one.
CountOutOfOrder ==
  /\ wrk.pc = "sequence" /\ ~Forward
  /\ rcv' = [rcv EXCEPT !.outoforder = @ + 1,
                        !.cnt_error = IF @ > 0 THEN @ - 1 ELSE @]
  /\ wrk' = [pc |-> "recv", n |-> 0]
  /\ Met /\ UNCHANGED <<snd, main, irp, phase, got, dups, sum>>

----------------------------------------------------------------------------
(* The main thread. iperf_stats_callback reads the bytes of the interval,    *)
(* computes the differences to the last interval, reads the counters again   *)
(* as the base of the next one, and clears the bytes of the interval.        *)
Meets == raced' = (raced \/ wrk.pc # "recv")

BeginInterval ==
  /\ main.pc = "loop" /\ phase # "start" /\ main.intervals < MaxIntervals
  /\ main' = [main EXCEPT !.pc = "packets", !.intervals = @ + 1,
                          !.temp = [NoReport EXCEPT !.bytes = rcv.this_interval]]
  /\ Meets /\ UNCHANGED <<snd, rcv, wrk, irp, phase, got, dups, sum>>

TakeDifferences ==
  /\ main.pc = "packets"
  /\ main' = [main EXCEPT !.pc = "base",
                          !.temp.packets = rcv.packet_count - irp.packet_count,
                          !.temp.errors = rcv.cnt_error - irp.cnt_error]
  /\ Meets /\ UNCHANGED <<snd, rcv, wrk, irp, phase, got, dups, sum>>

\* Mutant of TakeBase: the base of the first interval is kept for all others.
TakeFirstBase ==
  /\ main.pc = "base"
  /\ irp' = IF irp.taken THEN irp
            ELSE [packet_count |-> rcv.packet_count, cnt_error |-> rcv.cnt_error, taken |-> TRUE]
  /\ main' = [main EXCEPT !.pc = "clear"]
  /\ Meets /\ UNCHANGED <<snd, rcv, wrk, phase, got, dups, sum>>

TakeBase ==
  /\ main.pc = "base"
  /\ irp' = [packet_count |-> rcv.packet_count, cnt_error |-> rcv.cnt_error, taken |-> TRUE]
  /\ main' = [main EXCEPT !.pc = "clear"]
  /\ Meets /\ UNCHANGED <<snd, rcv, wrk, phase, got, dups, sum>>

EndInterval ==
  /\ main.pc = "clear"
  /\ rcv' = [rcv EXCEPT !.this_interval = 0]
  /\ sum' = [bytes |-> sum.bytes + main.temp.bytes,
             packets |-> sum.packets + main.temp.packets,
             errors |-> sum.errors + main.temp.errors]
  /\ main' = [main EXCEPT !.pc = "loop", !.temp = NoReport]
  /\ Meets /\ UNCHANGED <<snd, wrk, irp, phase, got, dups>>

(* The omit timer: iperf_reset_stats notes the counters so far and clears    *)
(* the bytes. The last interval stays the base of the next.                  *)
OmitEnds ==
  /\ main.pc = "loop" /\ phase = "running" /\ main.omits = 0
  /\ rcv' = [rcv EXCEPT !.omitted_packets = rcv.packet_count]
  /\ main' = [main EXCEPT !.pc = "omit errors", !.omits = 1]
  /\ Meets /\ UNCHANGED <<snd, wrk, irp, phase, got, dups, sum>>

\* Mutant of OmitErrors: the losses of the omit period are not noted.
OmitNoErrors ==
  /\ main.pc = "omit errors"
  /\ rcv' = [rcv EXCEPT !.bytes_received = 0]
  /\ sum' = [sum EXCEPT !.bytes = 0]
  /\ main' = [main EXCEPT !.pc = "omit interval"]
  /\ Meets /\ UNCHANGED <<snd, wrk, irp, phase, got, dups>>

OmitErrors ==
  /\ main.pc = "omit errors"
  /\ rcv' = [rcv EXCEPT !.omitted_errors = rcv.cnt_error, !.bytes_received = 0]
  /\ sum' = [sum EXCEPT !.bytes = 0]
  /\ main' = [main EXCEPT !.pc = "omit interval"]
  /\ Meets /\ UNCHANGED <<snd, wrk, irp, phase, got, dups>>

OmitInterval ==
  /\ main.pc = "omit interval"
  /\ rcv' = [rcv EXCEPT !.this_interval = 0]
  /\ main' = [main EXCEPT !.pc = "loop"]
  /\ Meets /\ UNCHANGED <<snd, wrk, irp, phase, got, dups, sum>>

\* The receiver gets to TEST_RUNNING, and leaves it; a server reports once more then.
TestRunning ==
  /\ main.pc = "loop" /\ phase # "end"
  /\ phase' = IF phase = "start" THEN "running" ELSE "end"
  /\ UNCHANGED <<snd, rcv, wrk, main, irp, got, dups, sum, raced>>

Counting ==
  \/ AddToInterval \/ CountGap \/ SetHighest \/ CountOutOfOrder
  \/ \E n \in 1 .. MaxPackets : UdpReceive(n)

Reporting ==
  \/ BeginInterval \/ TakeDifferences \/ TakeBase \/ EndInterval
  \/ OmitEnds \/ OmitErrors \/ OmitInterval

UdpNext ==
  \/ Counting \/ Reporting \/ TestRunning
  \/ \E written \in BOOLEAN : UdpSend(written)

UdpSpec == UdpInit /\ [][UdpNext]_udpVars
----------------------------------------------------------------------------
Missing(first, last) == {n \in first .. last : n \notin got}

AtRest == wrk.pc = "recv" /\ main.pc = "loop"

\* What is counted as lost is lost: between two datagrams the count is at most
\* the number of datagrams that have not arrived, whatever was lost, reordered
\* or duplicated, and exactly that number when none came twice (iperf_udp_recv).
LossIsReal ==
  wrk.pc = "recv" =>
    /\ rcv.cnt_error >= 0
    /\ rcv.cnt_error <= Cardinality(Missing(1, rcv.packet_count))
    /\ dups = 0 => rcv.cnt_error = Cardinality(Missing(1, rcv.packet_count))

\* The losses reported for the measured period, after the omitted ones are
\* taken off, are never more than the datagrams missing in it, wherever the end
\* of the omit period falls between two updates of the receiving thread.
OmittedLossStaysOmitted ==
  AtRest /\ main.omits = 1 =>
    rcv.cnt_error - rcv.omitted_errors
      <= Cardinality(Missing(rcv.omitted_packets + 1, rcv.packet_count))

\* The interval reports never add up to more than was received, except for a
\* datagram that is being counted when the omit period ends, and to exactly
\* that if no datagram arrived during a callback (iperf_stats_callback).
IntervalsAddUp ==
  /\ main.pc # "omit interval" =>
       sum.bytes + rcv.this_interval <= rcv.bytes_received + main.omits
  /\ AtRest /\ ~raced =>
       /\ sum.bytes + rcv.this_interval = rcv.bytes_received
       /\ sum.packets = irp.packet_count /\ sum.errors = irp.cnt_error
=============================================================================
