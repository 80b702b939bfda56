------------------------------ MODULE SendRate ------------------------------
(* The thread of a data stream: how much it sends at a time, how it keeps    *)
(* the target rate (iperf_send_mt, iperf_check_throttle), and what the main  *)
(* thread concludes from the bytes: the end of a test of so many bytes or    *)
(* blocks, and the rate limit of a server (iperf_check_total_rate).          *)
(* A block is BlockSize units; the rate is in units per tick.  The counters  *)
(* are atomic; the two threads take the steps between them in any order.     *)
EXTENDS Integers, Sequences

CONSTANTS RateSettings,   \* the tests, see SettingsOf
          BlockSize,      \* settings->blksize
          Multisend,      \* test->multisend: blocks per call without a rate
          RingSize,       \* MAX_INTERVAL: the entries of the ring of the rate limit
          LastTick,       \* bound: ticks of the clock
          MaxBytes        \* bound: bytes that a stream transfers
ASSUME RateAssumption ==
  /\ BlockSize \in Nat \ {0} /\ Multisend \in Nat \ {0} /\ RingSize \in Nat \ {0}
  /\ LastTick \in Nat /\ MaxBytes \in Nat
  /\ \A s \in RateSettings :
       /\ s.rate \in Nat /\ s.burst \in Nat /\ s.bytes \in Nat /\ s.blocks \in Nat
       /\ s.limit \in Nat /\ s.window \in Nat
       /\ s.sender \in BOOLEAN /\ s.omit \in BOOLEAN

VARIABLES set,      \* the settings of the test
          tick,     \* time since start_time_fixed
          stream,   \* the stream: result, pending_size, green_light
          send,     \* the thread in iperf_send_mt or iperf_recv_mt: position, multisend,
                    \* message_sent, and r: what it transferred and has not counted yet
          quota,    \* test->bytes_sent, blocks_sent, bytes_received, blocks_received
          ctl,      \* test->omitting, done and the ring of the rate limit; if the main
                    \* thread is in iperf_reset_stats
          period,   \* history: the bytes transferred since the omit period ended, those
                    \* before (omitted), and of these the ones not counted yet then (late)
          totals    \* history: the bytes of every interval

rateVars == <<set, tick, stream, send, quota, ctl, period, totals>>

NoSettings == [rate |-> 0, burst |-> 0, bytes |-> 0, blocks |-> 0, limit |-> 0,
               window |-> 1, sender |-> TRUE, omit |-> FALSE]

RateInit ==
  /\ set = NoSettings /\ tick = 1 /\ totals = <<>>
  /\ stream = [bytes |-> 0, omitted |-> 0, interval |-> 0, pending |-> 0, green |-> TRUE]
  /\ send = [pc |-> "new", left |-> 0, sent |-> FALSE, r |-> 0]
  /\ quota = [bytes_sent |-> 0, blocks_sent |-> 0, bytes_received |-> 0, blocks_received |-> 0]
  /\ ctl = [omitting |-> FALSE, done |-> FALSE, resetting |-> FALSE, ring |-> <<>>,
            index |-> 0, count |-> 0, exceeded |-> FALSE]
  /\ period = [bytes |-> 0, late |-> 0, omitted |-> 0]

StartStream ==
  /\ send.pc = "new" /\ \E s \in RateSettings : set' = s
  /\ send' = [send EXCEPT !.pc = "top"]
  /\ ctl' = [ctl EXCEPT !.omitting = set'.omit, !.ring = [i \in 0 .. RingSize - 1 |-> 0]]
  /\ UNCHANGED <<tick, stream, quota, period, totals>>

----------------------------------------------------------------------------
(* iperf_send_mt: a burst, a number of blocks, or one block under a rate.    *)
PerMessage == set.rate # 0 /\ set.burst = 0

MultisendCount ==
  IF set.burst # 0 THEN set.burst ELSE IF set.rate = 0 THEN Multisend ELSE 1

QuotaSent ==
  \/ set.bytes # 0 /\ quota.bytes_sent >= set.bytes
  \/ set.blocks # 0 /\ quota.blocks_sent >= set.blocks

BeginSend ==
  /\ send.pc = "top" /\ set.sender /\ ~ctl.done
  /\ send' = [pc |-> "send", left |-> MultisendCount, sent |-> FALSE, r |-> 0]
  /\ UNCHANGED <<set, tick, stream, quota, ctl, period, totals>>

MaySend == stream.green /\ send.left > 0 /\ ~(send.left > 1 /\ QuotaSent)

\* iperf_tcp_send: what is left of a block, or the first part of it, is written
\* and added to the result of the stream.
WritePart(r) ==
  /\ send.pc = "send" /\ MaySend
  /\ stream.bytes + BlockSize <= MaxBytes
  /\ LET block == IF stream.pending = 0 THEN BlockSize ELSE stream.pending
     IN /\ r <= block
        /\ stream' = [stream EXCEPT !.bytes = @ + r, !.interval = @ + r,
                                    !.pending = block - r]
  /\ send' = [send EXCEPT !.pc = "count", !.r = r]
  /\ period' = [period EXCEPT !.bytes = @ + r]
  /\ UNCHANGED <<set, tick, quota, ctl, totals>>

\* Back in iperf_send_mt, the test counts it. A block counts when all of it is sent.
CountPart ==
  /\ send.pc = "count"
  /\ quota' = [quota EXCEPT !.bytes_sent = @ + send.r,
                            !.blocks_sent = IF stream.pending = 0 THEN @ + 1 ELSE @]
  /\ send' = [pc |-> IF PerMessage THEN "throttle message" ELSE "send",
              left |-> send.left - 1, sent |-> TRUE, r |-> 0]
  /\ UNCHANGED <<set, tick, stream, ctl, period, totals>>

\* The loop ends, also when nothing could be written for now (NET_SOFTERROR,
\* which leaves what is pending).
EndSend ==
  /\ send.pc = "send"
  /\ send' = [send EXCEPT !.pc = IF set.rate # 0 /\ (~PerMessage \/ ~send.sent)
                                 THEN "throttle call" ELSE "top"]
  /\ UNCHANGED <<set, tick, stream, quota, ctl, period, totals>>

(* iperf_check_throttle: the rate so far, in whole units, against the        *)
(* target. The thread sleeps until the average has come down to it.          *)
MissingRate == set.rate - stream.bytes \div tick

Throttled == send.pc \in {"throttle message", "throttle call"}
Continue == IF send.pc = "throttle message" THEN "send" ELSE "top"

\* Mutant of CheckThrottle: the light is switched on again, never off.
CheckThrottleLate ==
  /\ Throttled
  /\ stream' = [stream EXCEPT !.green = TRUE]
  /\ send' = [send EXCEPT !.pc = Continue]
  /\ UNCHANGED <<set, tick, quota, ctl, period, totals>>

CheckThrottle ==
  /\ Throttled
  /\ IF ctl.done THEN UNCHANGED stream
     ELSE stream' = [stream EXCEPT !.green = MissingRate > 0]
  /\ send' = [send EXCEPT !.pc = IF ~ctl.done /\ MissingRate < 0 THEN "sleep" ELSE Continue]
  /\ UNCHANGED <<set, tick, quota, ctl, period, totals>>

WakeUp ==
  /\ send.pc = "sleep" /\ tick * set.rate >= stream.bytes
  /\ stream' = [stream EXCEPT !.green = TRUE]
  /\ send' = [send EXCEPT !.pc = IF send.sent /\ PerMessage THEN "send" ELSE "top"]
  /\ UNCHANGED <<set, tick, quota, ctl, period, totals>>

\* iperf_tcp_recv and, after it, iperf_recv_mt: each read counts as a block.
ReadPart(r) ==
  /\ send.pc = "top" /\ ~set.sender /\ ~ctl.done
  /\ period.bytes + period.omitted + r <= MaxBytes
  /\ stream' = [stream EXCEPT !.bytes = @ + r, !.interval = @ + r]
  /\ send' = [send EXCEPT !.pc = "received", !.r = r]
  /\ period' = [period EXCEPT !.bytes = @ + r]
  /\ UNCHANGED <<set, tick, quota, ctl, totals>>

CountRead ==
  /\ send.pc = "received"
  /\ quota' = [quota EXCEPT !.bytes_received = @ + send.r, !.blocks_received = @ + 1]
  /\ send' = [send EXCEPT !.pc = "top", !.r = 0]
  /\ UNCHANGED <<set, tick, stream, ctl, period, totals>>

----------------------------------------------------------------------------
(* The main thread: statistics each tick at most, the end of the omit period *)
(* (iperf_reset_stats), the test for the end (iperf_run_client).             *)
\* The sum of f[0] to f[n - 1] (the loop over the ring).
SumTo(f, n) ==
  LET sum[k \in 0 .. n] == IF k = 0 THEN 0 ELSE sum[k - 1] + f[k - 1] IN sum[n]

NextIndex == IF ctl.index + 1 >= set.window THEN 0 ELSE ctl.index + 1

Written(n) == IF NextIndex < RingSize THEN [ctl.ring EXCEPT ![NextIndex] = n] ELSE ctl.ring

\* The ring has RingSize entries whatever the window is. What the mean of a longer
\* window is, some of which was written outside the ring, and what that of no
\* interval is as an integer, is undefined: any.
MeanAbove(ring, any) ==
  IF set.window \notin 1 .. RingSize THEN any
  ELSE SumTo(ring, set.window) \div set.window > set.limit

\* Mutant of TotalRate: the ring is averaged before it is full.
TotalRateEarly(n, any) ==
  [ctl EXCEPT !.index = NextIndex, !.ring = Written(n), !.count = @ + 1,
              !.exceeded = @ \/ MeanAbove(Written(n), any)]

TotalRate(n, any) ==
  [ctl EXCEPT !.index = NextIndex, !.ring = Written(n), !.count = @ + 1,
              !.exceeded = @ \/ (ctl.count + 1 >= set.window /\ MeanAbove(Written(n), any))]

TakeInterval ==
  /\ send.pc # "new" /\ ~ctl.resetting /\ Len(totals) < tick - 1
  /\ IF set.limit = 0 \/ ctl.done THEN UNCHANGED ctl
     ELSE \E any \in BOOLEAN : ctl' = TotalRate(stream.interval, any)
  /\ totals' = Append(totals, stream.interval)
  /\ stream' = [stream EXCEPT !.interval = 0]
  /\ UNCHANGED <<set, tick, send, quota, period>>

EndPeriod ==
  period' = [bytes |-> 0, late |-> send.r, omitted |-> period.omitted + period.bytes]

\* Mutant of OmitOver: what was sent while omitting counts.
OmitOverKeeps ==
  /\ ctl.omitting
  /\ ctl' = [ctl EXCEPT !.omitting = FALSE, !.resetting = TRUE]
  /\ EndPeriod
  /\ UNCHANGED <<set, tick, stream, send, quota, totals>>

\* The omit period ends: iperf_reset_stats clears what the test has sent, not what
\* it has received, ...
OmitOver ==
  /\ ctl.omitting
  /\ ctl' = [ctl EXCEPT !.omitting = FALSE, !.resetting = TRUE]
  /\ quota' = [quota EXCEPT !.bytes_sent = 0, !.blocks_sent = 0]
  /\ EndPeriod
  /\ UNCHANGED <<set, tick, stream, send, totals>>

\* ... and then, for each stream, notes what is omitted, or clears what was received.
OmitStream ==
  /\ ctl.resetting
  /\ ctl' = [ctl EXCEPT !.resetting = FALSE]
  /\ stream' = IF set.sender THEN [stream EXCEPT !.omitted = stream.bytes, !.interval = 0]
                ELSE [stream EXCEPT !.bytes = 0, !.interval = 0]
  /\ UNCHANGED <<set, tick, send, quota, period, totals>>

QuotaReached ==
  \/ set.bytes # 0 /\ (quota.bytes_sent >= set.bytes \/ quota.bytes_received >= set.bytes)
  \/ set.blocks # 0 /\ (quota.blocks_sent >= set.blocks \/ quota.blocks_received >= set.blocks)

EndByQuota ==
  /\ send.pc # "new" /\ ~ctl.done /\ ~ctl.omitting /\ ~ctl.resetting /\ QuotaReached
  /\ ctl' = [ctl EXCEPT !.done = TRUE]
  /\ UNCHANGED <<set, tick, stream, send, quota, period, totals>>

RateTick ==
  /\ send.pc # "new" /\ tick < LastTick /\ ~ctl.done
  /\ tick' = tick + 1
  /\ UNCHANGED <<set, stream, send, quota, ctl, period, totals>>

SendThread ==
  \/ BeginSend \/ CountPart \/ CountRead \/ EndSend \/ CheckThrottle \/ WakeUp
  \/ \E r \in 1 .. BlockSize : WritePart(r) \/ ReadPart(r)

RateNext ==
  \/ StartStream \/ SendThread
  \/ TakeInterval \/ OmitOver \/ OmitStream \/ EndByQuota \/ RateTick

RateSpec == RateInit /\ [][RateNext]_rateVars
----------------------------------------------------------------------------
\* A stream with a target rate is never ahead of it by more than what it sends
\* between two checks: one block, or a burst, from the start of the test on,
\* the omit period included (iperf_check_throttle, iperf_send_mt). Only the
\* sender is held back.
RateKept ==
  set.rate # 0 /\ set.sender =>
    stream.bytes <= tick * set.rate
                    + BlockSize * (IF set.burst = 0 THEN 1 ELSE set.burst)

\* What the test was to measure was transferred in the measured period, but for
\* what was late: a part that was written and not yet counted when that began.
QuotaMeasured ==
  LET measured == period.bytes + period.late
  IN \/ set.bytes # 0 /\ measured >= set.bytes
     \/ set.blocks # 0 /\ measured > (set.blocks - 1) * BlockSize

\* A test of so many bytes or blocks in which the client sends ends when that much
\* was sent since the omit period ended (its counters were cleared, iperf_api.c:3499),
\* but for the rest of a block that was under way and at most one part that was
\* written and not yet counted.
SentQuotaIsMeasured ==
  ctl.done /\ set.sender => QuotaMeasured /\ period.late <= BlockSize

\* A test in which the client receives ends when that much was received, in the omit
\* period and since: unlike "all of a test's stats" (iperf_api.c:3478), the counters of
\* what was received are not cleared when that ends.
ReceivedQuotaIsTransferred ==
  ctl.done /\ ~set.sender =>
    LET received == period.bytes + period.omitted
    IN \/ set.bytes # 0 /\ received >= set.bytes
       \/ set.blocks # 0 /\ received >= set.blocks

\* A test of so many bytes or blocks does not end before that much was transferred.
EndsWithQuota == SentQuotaIsMeasured /\ ReceivedQuotaIsTransferred

\* The limit of a server is exceeded when, and only when, the mean of as many
\* consecutive intervals as the window has is above it; no shorter run of
\* intervals counts (iperf_check_total_rate), if the window has no more entries
\* than the ring, and has any. Of other windows nothing is promised: iperf.h:400
\* calls the ring "a cyclic array that includes the last interval's bytes
\* transferred", and iperf_api.c:1883 lets a window have more entries than it.
RateLimitExact ==
  LET Until(last) == [k \in 0 .. set.window - 1 |-> totals[last - k]]
  IN set.limit # 0 /\ ~ctl.done /\ set.window \in 1 .. RingSize =>
       (ctl.exceeded <=>
          \E last \in set.window .. Len(totals) :
             SumTo(Until(last), set.window) \div set.window > set.limit)
=============================================================================
