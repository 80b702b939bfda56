---------------------------- MODULE Traffic_proofs ----------------------------
(***************************************************************************)
(* What a stream sends and what it receives: a rate is kept and a quota is *)
(* measured (SendRate), what is counted as lost is lost (UdpCounters), and *)
(* the rate asked for is within its bounds (BandwidthStrategy).            *)
(***************************************************************************)
EXTENDS SendRate, UdpCounters, BandwidthStrategy, FiniteSetTheorems,
        WellFoundedInduction, TLAPS

----------------------------------------------------------------------------
(***************************************************************************)
(* A sending stream keeps its target rate to within what it sends between  *)
(* two looks at the clock, whatever the rate, the burst and the block size *)
(* are, and however the blocks are cut into parts.  A test of so many      *)
(* bytes or blocks ends when that much was sent since the omit period.     *)
(***************************************************************************)
Positions == {"new", "top", "send", "count", "received", "throttle message", "throttle call", "sleep"}

Streams == [bytes : Nat, omitted : Nat, interval : Nat, pending : Nat, green : BOOLEAN]
Sends == [pc : Positions, left : Nat, sent : BOOLEAN, r : 0 .. BlockSize]

RateTypeOK ==
  /\ set.rate \in Nat /\ set.burst \in Nat
  /\ tick \in Nat \ {0}
  /\ stream \in Streams
  /\ send \in Sends
  /\ "done" \in DOMAIN ctl

\* What a stream with a rate may send in one call of iperf_send_mt, in blocks.
Burst == IF set.burst = 0 THEN 1 ELSE set.burst
Budget == tick * set.rate
Paced == set.rate # 0 /\ set.sender

NotStarted == send.pc = "new" => stream.bytes = 0 /\ send.left = 0 /\ send.sent = FALSE

\* What is left of a call; of a call without a burst nothing is, once a block or
\* a part of one was sent.
CallLimited ==
  Paced =>
    /\ send.left <= Burst
    /\ PerMessage /\ send.sent => send.left = 0
    /\ send.pc = "throttle message" => PerMessage /\ send.sent

\* The light is green only while the stream is not ahead, except for what this
\* call has sent since.
GreenMeansBehind ==
  Paced /\ stream.green =>
    /\ send.pc = "top" /\ ~ctl.done => stream.bytes <= Budget
    /\ send.pc = "send" => stream.bytes <= Budget + BlockSize * (Burst - send.left)
    /\ send.pc = "count" => stream.bytes <= Budget + BlockSize * (Burst - (send.left - 1))
    /\ send.pc = "send" /\ PerMessage /\ send.sent /\ ~ctl.done => stream.bytes <= Budget

\* A part that is not counted yet: of a call that is not over, or of a receiver.
Uncounted ==
  /\ send.pc = "count" => send.left > 0
  /\ send.pc = "received" => ~set.sender

RateInv == RateTypeOK /\ NotStarted /\ Uncounted /\ CallLimited /\ GreenMeansBehind /\ RateKept

----------------------------------------------------------------------------
\* The types of the fields, and of records with fields changed.
LEMMA RateFields ==
  ASSUME RateInv
  PROVE  /\ set.rate \in Nat /\ set.burst \in Nat /\ tick \in Nat \ {0} /\ "done" \in DOMAIN ctl
         /\ stream \in Streams /\ stream.bytes \in Nat /\ stream.interval \in Nat
         /\ stream.pending \in Nat /\ stream.green \in BOOLEAN
         /\ send \in Sends /\ send.left \in Nat /\ send.sent \in BOOLEAN /\ send.pc \in Positions
         /\ send.r \in 0 .. BlockSize /\ send.r \in Nat /\ BlockSize \in Nat \ {0}
BY RateAssumption DEF RateInv, RateTypeOK, Streams, Sends

\* A stream that has transferred more.
LEMMA StreamGrows ==
  ASSUME NEW s \in Streams, NEW b \in Nat, NEW i \in Nat
  PROVE  LET u == [s EXCEPT !.bytes = b, !.interval = i]
         IN u \in Streams /\ u.bytes = b /\ u.green = s.green
BY DEF Streams

\* A stream with another light.
LEMMA StreamLight ==
  ASSUME NEW s \in Streams, NEW g \in BOOLEAN
  PROVE  LET u == [s EXCEPT !.green = g]
         IN u \in Streams /\ u.bytes = s.bytes /\ u.green = g
BY DEF Streams

\* A stream whose interval or measured period begins.
LEMMA StreamCounted ==
  ASSUME NEW s \in Streams
  PROVE  LET u == [s EXCEPT !.interval = 0]
             v == [s EXCEPT !.omitted = s.bytes, !.interval = 0]
             w == [s EXCEPT !.bytes = 0, !.interval = 0]
         IN /\ u \in Streams /\ u.bytes = s.bytes /\ u.green = s.green
            /\ v \in Streams /\ v.bytes = s.bytes /\ v.green = s.green
            /\ w \in Streams
BY DEF Streams

\* A block more is a block more.
LEMMA OneMore ==
  ASSUME NEW b \in Nat, NEW k \in Nat, NEW l \in Nat, l > 0, l <= k
  PROVE  b * (k - (l - 1)) = b * (k - l) + b
OBVIOUS

\* Nothing left leaves the whole, and of something one can be taken.
LEMMA Differences ==
  /\ \A k \in Nat : \A l : l = 0 => k - l = k
  /\ \A l \in Nat : l > 0 => l - 1 \in Nat
OBVIOUS

\* Fewer blocks are not more.
LEMMA AtMost ==
  ASSUME NEW b \in Nat, NEW k \in Nat, NEW l \in Nat, l <= k
  PROVE  b * (k - l) <= b * k
<1>1. b * (k - l) = b * k - b * l
  OBVIOUS
<1>2. b * l \in Nat /\ b * k \in Nat
  OBVIOUS
<1> QED BY <1>1, <1>2

\* The rate in whole units is below the target: so is what was sent.
LEMMA BelowTarget ==
  ASSUME NEW a \in Nat, NEW t \in Nat \ {0}, NEW r \in Nat, r - a \div t > 0
  PROVE  a <= t * r
<1> DEFINE q == a \div t
<1>1. q \in Int /\ a < t * (q + 1)
  OBVIOUS
<1>2. q + 1 <= r
  BY <1>1
<1>3. t * (q + 1) <= t * r
  BY <1>1, <1>2
<1> QED BY <1>1, <1>3

\* A tick adds the rate to what may have been sent.
LEMMA TickAdds ==
  ASSUME NEW t \in Nat, NEW r \in Nat PROVE t * r \in Nat /\ t * r <= (t + 1) * r
<1>1. (t + 1) * r = t * r + r
  OBVIOUS
<1> QED BY <1>1

\* MultisendCount of a stream with a rate.
LEMMA BurstType == ASSUME RateInv, Paced PROVE Burst \in Nat \ {0} /\ MultisendCount = Burst
BY DEF RateInv, RateTypeOK, Burst, MultisendCount, Paced

\* The product of time and rate is a number.
LEMMA BudgetType == ASSUME RateInv PROVE Budget \in Nat
BY TickAdds DEF RateInv, RateTypeOK, Budget

----------------------------------------------------------------------------
\* Nothing has been sent yet.
LEMMA InitRateInv == RateInit => RateInv
<1> SUFFICES ASSUME RateInit PROVE RateInv
  OBVIOUS
<1>1. set.rate = 0 /\ set.burst = 0 /\ tick = 1
  BY DEF RateInit, NoSettings
<1>2. stream \in Streams /\ stream.bytes = 0
  BY DEF RateInit, Streams
<1>3. send \in Sends /\ send.pc = "new" /\ send.left = 0 /\ send.sent = FALSE
  BY RateAssumption DEF RateInit, Sends, Positions
<1>4. "done" \in DOMAIN ctl
  BY DEF RateInit
<1> QED BY <1>1, <1>2, <1>3, <1>4
        DEF RateInv, RateTypeOK, NotStarted, Uncounted, CallLimited, GreenMeansBehind, RateKept, Paced

\* The stream starts: with its settings, and nothing sent.
LEMMA StartStep == ASSUME RateInv, StartStream PROVE RateInv'
<1>1. send.pc = "new" /\ UNCHANGED <<tick, stream>>
  BY DEF StartStream
<1>2. send' = [send EXCEPT !.pc = "top"]
  BY DEF StartStream
<1>3. stream.bytes = 0 /\ send.left = 0 /\ send.sent = FALSE
  BY <1>1 DEF RateInv, NotStarted
<1>4. set'.rate \in Nat /\ set'.burst \in Nat
  BY RateAssumption DEF StartStream
<1>5. send' \in Sends /\ send'.pc = "top" /\ send'.left = 0 /\ send'.sent = FALSE
  BY <1>2, <1>3, RateFields DEF Sends, Positions
<1>6. "done" \in DOMAIN ctl'
  BY RateFields DEF StartStream
<1>7. RateTypeOK'
  BY <1>1, <1>4, <1>5, <1>6, RateFields DEF RateTypeOK
<1>8. tick * set'.rate \in Nat
  BY <1>4, RateFields, TickAdds
<1>9. Burst' \in Nat /\ BlockSize * Burst' \in Nat
  BY <1>4, RateAssumption DEF Burst
<1>10. NotStarted' /\ CallLimited'
  BY <1>5, <1>9 DEF NotStarted, CallLimited
<1>13. Uncounted'
  BY <1>5 DEF Uncounted
<1>11. GreenMeansBehind'
  BY <1>1, <1>3, <1>5, <1>8 DEF GreenMeansBehind, Budget
<1>12. RateKept'
  BY <1>1, <1>3, <1>8, <1>9 DEF RateKept, Burst
<1> QED BY <1>7, <1>10, <1>11, <1>12, <1>13 DEF RateInv

\* A call of iperf_send_mt begins.
LEMMA BeginStep == ASSUME RateInv, BeginSend PROVE RateInv'
<1>1. send.pc = "top" /\ ~ctl.done /\ UNCHANGED <<set, tick, stream, ctl>>
  BY DEF BeginSend
<1>2. send' = [pc |-> "send", left |-> MultisendCount, sent |-> FALSE, r |-> 0]
  BY DEF BeginSend
<1>3. send'.pc = "send" /\ send'.left = MultisendCount /\ send'.sent = FALSE
  BY <1>2
<1>4. MultisendCount \in Nat
  BY RateAssumption, RateFields DEF MultisendCount
<1>5. send' \in Sends
  BY <1>2, <1>4, RateAssumption DEF Sends, Positions
<1>6. RateTypeOK'
  BY <1>1, <1>5, RateFields DEF RateTypeOK
<1>7. Paced => send'.left = Burst /\ Burst \in Nat
  BY <1>3, BurstType
<1>8. CallLimited' /\ NotStarted' /\ Uncounted'
  BY <1>1, <1>3, <1>7 DEF CallLimited, NotStarted, Uncounted, Paced, Burst
<1>9. GreenMeansBehind'
  <2> SUFFICES ASSUME Paced, stream.green PROVE stream.bytes <= Budget + BlockSize * (Burst - Burst)
    BY <1>1, <1>3, <1>7 DEF GreenMeansBehind, Paced, Burst, Budget
  <2>1. stream.bytes <= Budget
    BY <1>1 DEF RateInv, GreenMeansBehind
  <2>2. BlockSize * (Burst - Burst) = 0
    BY <1>7, RateAssumption
  <2> QED BY <2>1, <2>2, BudgetType, RateFields
<1>10. RateKept'
  BY <1>1 DEF RateInv, RateKept
<1> QED BY <1>6, <1>8, <1>9, <1>10 DEF RateInv

\* A block, or a part of one, is written.
LEMMA WriteStep == ASSUME RateInv, NEW r \in 1 .. BlockSize, WritePart(r) PROVE RateInv'
<1> DEFINE block == IF stream.pending = 0 THEN BlockSize ELSE stream.pending
           ahead == BlockSize * (Burst - send.left)
<1>1. send.pc = "send" /\ stream.green /\ send.left > 0
  BY DEF WritePart, MaySend
<1>2. UNCHANGED <<set, tick, ctl>>
  BY DEF WritePart
<1>3. r \in Nat /\ r <= BlockSize /\ BlockSize \in Nat /\ r \in 0 .. BlockSize
  BY RateAssumption
<1>4. block - r \in Nat
  <2>1. r <= block
    BY DEF WritePart
  <2>2. block \in Nat
    BY RateAssumption, RateFields
  <2> QED BY <1>3, <2>1, <2>2
<1>5. stream' \in Streams /\ stream'.bytes = stream.bytes + r /\ stream'.green = stream.green
  <2>1. stream' = [stream EXCEPT !.bytes = stream.bytes + r, !.interval = stream.interval + r,
                                 !.pending = block - r]
    BY DEF WritePart
  <2>2. stream.bytes + r \in Nat /\ stream.interval + r \in Nat /\ stream \in Streams
    BY <1>3, RateFields
  <2> DEFINE b == stream.bytes + r
             i == stream.interval + r
             p == block - r
  <2>3. stream' = [stream EXCEPT !.bytes = b, !.interval = i, !.pending = p]
    BY <2>1
  <2>4. b \in Nat /\ i \in Nat /\ p \in Nat
    BY <1>4, <2>2
  <2> HIDE DEF block, b, i, p
  <2>5. stream' \in Streams /\ stream'.bytes = b /\ stream'.green = stream.green
    BY <2>2, <2>3, <2>4 DEF Streams
  <2> QED BY <2>5 DEF b
<1>6. send' = [send EXCEPT !.pc = "count", !.r = r]
  BY DEF WritePart
<1>7. /\ send' \in Sends /\ send'.pc = "count" /\ send'.left = send.left
      /\ send'.sent = send.sent
  <2>1. "count" \in Positions
    BY DEF Positions
  <2> QED BY <1>3, <1>6, <2>1, RateFields DEF Sends
<1>9. RateTypeOK'
  BY <1>2, <1>5, <1>7, RateFields DEF RateTypeOK
<1>10. NotStarted' /\ Uncounted'
  BY <1>1, <1>7 DEF NotStarted, Uncounted
<1>11. Paced => /\ Burst \in Nat /\ send.left \in Nat /\ send.left <= Burst
                /\ send.left - 1 \in Nat /\ send.left - 1 <= Burst
  <2> SUFFICES ASSUME Paced PROVE /\ Burst \in Nat /\ send.left \in Nat /\ send.left <= Burst
                                  /\ send.left - 1 \in Nat /\ send.left - 1 <= Burst
    OBVIOUS
  <2>1. send.left <= Burst /\ send.left \in Nat /\ Burst \in Nat
    BY BurstType, RateFields DEF RateInv, CallLimited
  <2> QED BY <1>1, <2>1
<1>12. PerMessage' = PerMessage /\ Burst' = Burst /\ Paced' = Paced /\ Budget' = Budget
  BY <1>2 DEF PerMessage, Burst, Paced, Budget
<1>13. CallLimited'
  BY <1>1, <1>7, <1>12 DEF RateInv, CallLimited
<1>14. Paced => stream'.bytes <= Budget + BlockSize * (Burst - (send.left - 1))
  <2> SUFFICES ASSUME Paced PROVE stream'.bytes <= Budget + BlockSize * (Burst - (send.left - 1))
    OBVIOUS
  <2>1. stream.bytes <= Budget + ahead
    BY <1>1 DEF RateInv, GreenMeansBehind
  <2>2. BlockSize * (Burst - (send.left - 1)) = ahead + BlockSize
    BY <1>1, <1>3, <1>11, OneMore
  <2>3. ahead \in Int /\ stream.bytes \in Nat /\ Budget \in Nat
    BY <1>3, <1>11, BudgetType, RateFields
  <2> HIDE DEF ahead
  <2>4. stream.bytes + r <= Budget + (ahead + BlockSize)
    BY <1>3, <2>1, <2>3
  <2> QED BY <1>5, <2>2, <2>4
<1>15. RateKept'
  <2> SUFFICES ASSUME Paced PROVE stream'.bytes <= Budget + BlockSize * Burst
    BY <1>2 DEF RateKept, Paced, Budget, Burst
  <2> DEFINE l == send.left - 1
  <2>1. Burst \in Nat /\ l \in Nat /\ l <= Burst
    BY <1>11
  <2>4. stream'.bytes \in Int /\ Budget \in Int
    BY <1>3, <1>5, BudgetType, RateFields
  <2>5. stream'.bytes <= Budget + BlockSize * (Burst - l)
    BY <1>14
  <2> HIDE DEF l
  <2>2. BlockSize * (Burst - l) <= BlockSize * Burst
    BY <1>3, <2>1, AtMost
  <2>3. BlockSize * (Burst - l) \in Int /\ BlockSize * Burst \in Int
    BY <1>3, <2>1
  <2> QED BY <2>2, <2>3, <2>4, <2>5
<1>16. GreenMeansBehind'
  BY <1>7, <1>12, <1>14 DEF GreenMeansBehind
<1> QED BY <1>9, <1>10, <1>13, <1>15, <1>16 DEF RateInv

\* What was written is counted.
LEMMA CountStep == ASSUME RateInv, CountPart PROVE RateInv'
<1>1. send.pc = "count" /\ UNCHANGED <<set, tick, stream, ctl>>
  BY DEF CountPart
<1>2. send' = [pc |-> IF PerMessage THEN "throttle message" ELSE "send",
               left |-> send.left - 1, sent |-> TRUE, r |-> 0]
  BY DEF CountPart
<1>3. /\ send'.left = send.left - 1 /\ send'.sent = TRUE
      /\ send'.pc \in {"throttle message", "send"}
      /\ send'.pc = "throttle message" <=> PerMessage
  BY <1>2
<1>4. PerMessage' = PerMessage /\ Burst' = Burst /\ Paced' = Paced /\ Budget' = Budget
  BY <1>1 DEF PerMessage, Burst, Paced, Budget
<1>5. send.left > 0 /\ send.left \in Nat /\ send.left - 1 \in Nat
  BY <1>1, RateFields DEF RateInv, Uncounted
<1>6. send' \in Sends
  <2>1. 0 \in 0 .. BlockSize
    BY RateAssumption
  <2> QED BY <1>2, <1>5, <2>1 DEF Sends, Positions
<1>7. RateTypeOK' /\ NotStarted' /\ Uncounted'
  BY <1>1, <1>3, <1>6, RateFields DEF RateTypeOK, NotStarted, Uncounted
<1>8. RateKept'
  BY <1>1 DEF RateInv, RateKept
<1>9. Paced => send.left - 1 <= Burst /\ (PerMessage => send.left - 1 = 0)
  <2> SUFFICES ASSUME Paced PROVE send.left - 1 <= Burst /\ (PerMessage => send.left - 1 = 0)
    OBVIOUS
  <2>1. send.left <= Burst /\ Burst \in Nat
    BY BurstType DEF RateInv, CallLimited
  <2>2. PerMessage => Burst = 1
    BY DEF PerMessage, Burst
  <2> QED BY <1>5, <2>1, <2>2
<1>10. CallLimited'
  BY <1>3, <1>4, <1>9 DEF CallLimited
<1>11. Paced /\ stream.green => stream.bytes <= Budget + BlockSize * (Burst - send'.left)
  BY <1>1, <1>3 DEF RateInv, GreenMeansBehind
<1>12. GreenMeansBehind'
  BY <1>1, <1>3, <1>4, <1>11 DEF GreenMeansBehind
<1> QED BY <1>7, <1>8, <1>10, <1>12 DEF RateInv

\* The call ends; without a look at the clock only after one since the last block.
LEMMA EndStep == ASSUME RateInv, EndSend PROVE RateInv'
<1>1. send.pc = "send" /\ UNCHANGED <<set, tick, stream, ctl>>
  BY DEF EndSend
<1>2. PICK p \in {"throttle call", "top"} :
        /\ send' = [send EXCEPT !.pc = p]
        /\ p = "top" => set.rate = 0 \/ (PerMessage /\ send.sent)
  BY DEF EndSend
<1>3. /\ send' \in Sends /\ send'.pc = p /\ send'.left = send.left /\ send'.sent = send.sent
  BY <1>2, RateFields DEF Sends, Positions
<1>4. RateTypeOK'
  BY <1>1, <1>3, RateFields DEF RateTypeOK
<1>5. NotStarted' /\ Uncounted' /\ RateKept'
  BY <1>1, <1>3 DEF RateInv, NotStarted, Uncounted, RateKept
<1>6. PerMessage' = PerMessage /\ Burst' = Burst /\ Paced' = Paced /\ Budget' = Budget
  BY <1>1 DEF PerMessage, Burst, Paced, Budget
<1>7. CallLimited'
  BY <1>3, <1>6 DEF RateInv, CallLimited
<1>8. GreenMeansBehind'
  <2> SUFFICES ASSUME Paced, stream.green, PerMessage, send.sent, ~ctl.done PROVE stream.bytes <= Budget
    BY <1>1, <1>2, <1>3, <1>6 DEF GreenMeansBehind, Paced
  <2> QED BY <1>1 DEF RateInv, GreenMeansBehind
<1> QED BY <1>4, <1>5, <1>7, <1>8 DEF RateInv

\* The look at the clock: the light follows the rate, unless the test is over.
LEMMA ThrottleStep == ASSUME RateInv, CheckThrottle PROVE RateInv'
<1>1. send.pc \in {"throttle message", "throttle call"} /\ UNCHANGED <<set, tick, ctl>>
  BY DEF CheckThrottle, Throttled
<1>2. PICK p \in {"sleep", "send", "top"} :
        /\ send' = [send EXCEPT !.pc = p]
        /\ p = "send" => send.pc = "throttle message"
  BY DEF CheckThrottle, Continue
<1>3. /\ send' \in Sends /\ send'.pc = p /\ send'.left = send.left /\ send'.sent = send.sent
  BY <1>2, RateFields DEF Sends, Positions
<1>4. PICK g \in BOOLEAN :
        /\ stream' = [stream EXCEPT !.green = g]
        /\ ~ctl.done /\ g => MissingRate > 0
  <2>1. CASE ctl.done
    <3>1. stream' = [stream EXCEPT !.green = stream.green]
      BY <2>1, RateFields DEF CheckThrottle, Streams
    <3> QED BY <2>1, <3>1, RateFields
  <2>2. CASE ~ctl.done /\ MissingRate > 0
    <3>1. stream' = [stream EXCEPT !.green = TRUE]
      BY <2>2 DEF CheckThrottle
    <3> QED BY <2>2, <3>1
  <2>3. CASE ~ctl.done /\ ~(MissingRate > 0)
    <3>1. stream' = [stream EXCEPT !.green = MissingRate > 0]
      BY <2>3 DEF CheckThrottle
    <3>2. (MissingRate > 0) = FALSE
      BY <2>3
    <3> QED BY <3>1, <3>2, Zenon
  <2> QED BY <2>1, <2>2, <2>3
<1>5. stream' \in Streams /\ stream'.bytes = stream.bytes /\ stream'.green = g
  BY <1>4, StreamLight, RateFields
<1>6. RateTypeOK'
  BY <1>1, <1>3, <1>5, RateFields DEF RateTypeOK
<1>7. PerMessage' = PerMessage /\ Burst' = Burst /\ Paced' = Paced /\ Budget' = Budget
  BY <1>1 DEF PerMessage, Burst, Paced, Budget
<1>8. NotStarted' /\ Uncounted' /\ RateKept'
  BY <1>1, <1>3, <1>5 DEF RateInv, NotStarted, Uncounted, RateKept
<1>9. CallLimited'
  BY <1>3, <1>7 DEF RateInv, CallLimited
<1>10. ~ctl.done /\ g => stream.bytes <= Budget
  <2> SUFFICES ASSUME MissingRate > 0 PROVE stream.bytes <= Budget
    BY <1>4
  <2>1. stream.bytes \in Nat /\ tick \in Nat \ {0} /\ set.rate \in Nat
    BY RateFields
  <2> QED BY <2>1, BelowTarget DEF MissingRate, Budget
<1>11. Paced /\ p = "send" => stream.bytes <= Budget + BlockSize * (Burst - send.left)
  <2> SUFFICES ASSUME Paced, send.pc = "throttle message"
               PROVE  stream.bytes <= Budget + BlockSize * (Burst - send.left)
    BY <1>2
  <2>1. send.left = 0
    BY DEF RateInv, CallLimited
  <2>2. Burst - send.left = Burst
    <3>1. Burst \in Nat
      BY BurstType
    <3> QED BY <2>1, <3>1, Differences
  <2>3. stream.bytes <= Budget + BlockSize * Burst
    BY DEF RateInv, RateKept, Budget, Burst, Paced
  <2> QED BY <2>2, <2>3
<1>12. GreenMeansBehind'
  BY <1>1, <1>3, <1>5, <1>7, <1>10, <1>11 DEF GreenMeansBehind
<1> QED BY <1>6, <1>8, <1>9, <1>12 DEF RateInv

\* The thread sleeps until the stream is no longer ahead.
LEMMA WakeStep == ASSUME RateInv, WakeUp PROVE RateInv'
<1>1. send.pc = "sleep" /\ tick * set.rate >= stream.bytes /\ UNCHANGED <<set, tick, ctl>>
  BY DEF WakeUp
<1>2. PICK p \in {"send", "top"} : send' = [send EXCEPT !.pc = p]
  BY DEF WakeUp
<1>3. /\ send' \in Sends /\ send'.pc = p /\ send'.left = send.left /\ send'.sent = send.sent
  BY <1>2, RateFields DEF Sends, Positions
<1>4. stream' = [stream EXCEPT !.green = TRUE]
  BY DEF WakeUp
<1>5. stream' \in Streams /\ stream'.bytes = stream.bytes
  BY <1>4, StreamLight, RateFields
<1>6. RateTypeOK'
  BY <1>1, <1>3, <1>5, RateFields DEF RateTypeOK
<1>7. PerMessage' = PerMessage /\ Burst' = Burst /\ Paced' = Paced /\ Budget' = Budget
  BY <1>1 DEF PerMessage, Burst, Paced, Budget
<1>8. NotStarted' /\ Uncounted' /\ RateKept'
  BY <1>1, <1>3, <1>5 DEF RateInv, NotStarted, Uncounted, RateKept
<1>9. CallLimited'
  BY <1>3, <1>7 DEF RateInv, CallLimited
<1>10. stream.bytes <= Budget
  BY <1>1, BudgetType, RateFields DEF Budget
<1>11. Paced => stream.bytes <= Budget + BlockSize * (Burst - send.left)
  <2> SUFFICES ASSUME Paced PROVE stream.bytes <= Budget + BlockSize * (Burst - send.left)
    OBVIOUS
  <2>1. Burst - send.left \in Nat
    <3>1. Burst \in Nat /\ send.left \in Nat /\ send.left <= Burst
      BY BurstType, RateFields DEF RateInv, CallLimited
    <3> QED BY <3>1
  <2>2. BlockSize * (Burst - send.left) \in Nat
    BY <2>1, RateAssumption
  <2> QED BY <1>10, <2>2, BudgetType, RateFields
<1>12. GreenMeansBehind'
  BY <1>3, <1>5, <1>7, <1>10, <1>11 DEF GreenMeansBehind
<1> QED BY <1>6, <1>8, <1>9, <1>12 DEF RateInv

\* A receiving stream is not held back, and nothing is said of it.
LEMMA ReadStep == ASSUME RateInv, NEW r \in 1 .. BlockSize, ReadPart(r) PROVE RateInv'
<1>1. send.pc = "top" /\ ~set.sender /\ UNCHANGED <<set, tick, ctl>>
  BY DEF ReadPart
<1>2. stream' = [stream EXCEPT !.bytes = @ + r, !.interval = @ + r]
  BY DEF ReadPart
<1>5. send' = [send EXCEPT !.pc = "received", !.r = r]
  BY DEF ReadPart
<1>6. send' \in Sends /\ send'.pc = "received"
  <2>1. r \in 0 .. BlockSize /\ "received" \in Positions
    BY RateAssumption DEF Positions
  <2> QED BY <1>5, <2>1, RateFields DEF Sends
<1>3. stream' \in Streams
  <2>1. stream.bytes + r \in Nat /\ stream.interval + r \in Nat /\ stream \in Streams
    BY RateFields, RateAssumption
  <2> QED BY <1>2, <2>1, StreamGrows
<1>4. RateTypeOK'
  BY <1>1, <1>3, <1>6, RateFields DEF RateTypeOK
<1> QED BY <1>1, <1>4, <1>6 DEF RateInv, NotStarted, Uncounted, CallLimited, GreenMeansBehind, RateKept, Paced

\* Nor of what it counts.
LEMMA CountReadStep == ASSUME RateInv, CountRead PROVE RateInv'
<1>1. send.pc = "received" /\ UNCHANGED <<set, tick, stream, ctl>>
  BY DEF CountRead
<1>2. send' = [send EXCEPT !.pc = "top", !.r = 0]
  BY DEF CountRead
<1>3. /\ send' \in Sends /\ send'.pc = "top" /\ send'.left = send.left
      /\ send'.sent = send.sent
  <2>1. 0 \in 0 .. BlockSize /\ "top" \in Positions
    BY RateAssumption DEF Positions
  <2> QED BY <1>2, <2>1, RateFields DEF Sends
<1>4. RateTypeOK'
  BY <1>1, <1>3, RateFields DEF RateTypeOK
<1>5. ~Paced
  BY <1>1 DEF RateInv, Uncounted, Paced
<1>6. Paced' = Paced
  BY <1>1 DEF Paced
<1> QED BY <1>1, <1>3, <1>4, <1>5, <1>6
        DEF RateInv, NotStarted, CallLimited, GreenMeansBehind, RateKept, Paced, Uncounted

\* The main thread counts, ends the omit period and the test; no bytes that were
\* sent change.
LEMMA MainStep ==
  ASSUME RateInv, TakeInterval \/ OmitOver \/ OmitStream \/ EndByQuota
  PROVE  RateInv'
<1>1. UNCHANGED <<set, tick, send>>
  BY DEF TakeInterval, OmitOver, OmitStream, EndByQuota
<1>2. \/ stream' = stream \/ stream' = [stream EXCEPT !.interval = 0]
      \/ stream' = [stream EXCEPT !.omitted = stream.bytes, !.interval = 0]
      \/ ~set.sender /\ ctl.resetting /\ stream' = [stream EXCEPT !.bytes = 0, !.interval = 0]
  BY DEF TakeInterval, OmitOver, OmitStream, EndByQuota
<1>3. /\ stream' \in Streams
      /\ set.sender => stream'.bytes = stream.bytes /\ stream'.green = stream.green
  BY <1>2, StreamCounted, RateFields
<1>4. "done" \in DOMAIN ctl' /\ (ctl.done => ctl'.done)
  <2>1. CASE TakeInterval BY <2>1, RateFields DEF TakeInterval, TotalRate
  <2>2. CASE OmitOver BY <2>2, RateFields DEF OmitOver
  <2>3. CASE OmitStream BY <2>3, RateFields DEF OmitStream
  <2>4. CASE EndByQuota BY <2>4, RateFields DEF EndByQuota
  <2> QED BY <2>1, <2>2, <2>3, <2>4
<1>5. RateTypeOK'
  BY <1>1, <1>3, <1>4, RateFields DEF RateTypeOK
<1>6. PerMessage' = PerMessage /\ Burst' = Burst /\ Paced' = Paced /\ Budget' = Budget
  BY <1>1 DEF PerMessage, Burst, Paced, Budget
<1>7. RateKept' /\ Uncounted'
  BY <1>1, <1>3 DEF RateInv, RateKept, Uncounted
<1>8. NotStarted'
  <2>1. send.pc = "new" => stream'.bytes = 0
    BY <1>2, StreamCounted, RateFields DEF RateInv, NotStarted, Streams
  <2> QED BY <1>1, <2>1 DEF RateInv, NotStarted
<1>9. CallLimited' /\ GreenMeansBehind'
  BY <1>1, <1>3, <1>4, <1>6 DEF RateInv, CallLimited, GreenMeansBehind, Paced
<1> QED BY <1>5, <1>7, <1>8, <1>9 DEF RateInv

\* Time passes: the budget grows.
LEMMA TickStep == ASSUME RateInv, RateTick PROVE RateInv'
<1>1. tick' = tick + 1 /\ UNCHANGED <<set, stream, send, ctl>>
  BY DEF RateTick
<1>2. RateTypeOK'
  BY <1>1, RateFields DEF RateTypeOK
<1>3. PerMessage' = PerMessage /\ Burst' = Burst /\ Paced' = Paced
  BY <1>1 DEF PerMessage, Burst, Paced
<1>4. NotStarted' /\ Uncounted' /\ CallLimited'
  BY <1>1, <1>3 DEF RateInv, NotStarted, Uncounted, CallLimited
<1>5. Budget \in Nat /\ Budget' \in Nat /\ Budget <= Budget'
  BY <1>1, TickAdds, BudgetType, RateFields DEF Budget
<1>6. stream.bytes \in Nat /\ Burst \in Nat /\ send.left \in Nat /\ BlockSize \in Nat
  BY RateAssumption, RateFields DEF Burst
<1>7. BlockSize * Burst \in Int /\ BlockSize * (Burst - send.left) \in Int
  BY <1>6
<1>8. RateKept'
  <2> SUFFICES ASSUME Paced PROVE stream.bytes <= Budget' + BlockSize * Burst
    BY <1>1 DEF RateKept, Paced, Budget, Burst
  <2>1. stream.bytes <= Budget + BlockSize * Burst
    BY DEF RateInv, RateKept, Paced, Budget, Burst
  <2> QED BY <1>5, <1>6, <1>7, <2>1
<1>9. GreenMeansBehind'
  <2> SUFFICES ASSUME Paced, stream.green
               PROVE  /\ send.pc = "top" /\ ~ctl.done => stream.bytes <= Budget'
                      /\ send.pc = "send" => stream.bytes <= Budget' + BlockSize * (Burst - send.left)
                      /\ send.pc = "count"
                           => stream.bytes <= Budget' + BlockSize * (Burst - (send.left - 1))
                      /\ send.pc = "send" /\ PerMessage /\ send.sent /\ ~ctl.done => stream.bytes <= Budget'
    BY <1>1, <1>3 DEF GreenMeansBehind
  <2> DEFINE ahead == BlockSize * (Burst - send.left)
             more == BlockSize * (Burst - (send.left - 1))
  <2>1. /\ send.pc = "top" /\ ~ctl.done => stream.bytes <= Budget
        /\ send.pc = "send" => stream.bytes <= Budget + ahead
        /\ send.pc = "count" => stream.bytes <= Budget + more
        /\ send.pc = "send" /\ PerMessage /\ send.sent /\ ~ctl.done => stream.bytes <= Budget
    BY DEF RateInv, GreenMeansBehind
  <2>2. ahead \in Int /\ more \in Int
    BY <1>6, <1>7
  <2> HIDE DEF ahead, more
  <2>3. /\ stream.bytes <= Budget => stream.bytes <= Budget'
        /\ stream.bytes <= Budget + ahead => stream.bytes <= Budget' + ahead
        /\ stream.bytes <= Budget + more => stream.bytes <= Budget' + more
    BY <1>5, <1>6, <2>2
  <2> QED BY <2>1, <2>3 DEF ahead, more
<1> QED BY <1>2, <1>4, <1>8, <1>9 DEF RateInv

\* A step that changes nothing.
LEMMA StutterStep == ASSUME RateInv, UNCHANGED rateVars PROVE RateInv'
BY DEF RateInv, RateTypeOK, NotStarted, Uncounted, CallLimited, GreenMeansBehind, RateKept, Paced,
       Burst, Budget, PerMessage, rateVars

\* Every step keeps the invariant.
LEMMA NextRateInv == ASSUME RateInv, [RateNext]_rateVars PROVE RateInv'
BY StartStep, BeginStep, WriteStep, CountStep, EndStep, ThrottleStep, WakeStep, ReadStep,
   CountReadStep, MainStep, TickStep, StutterStep DEF RateNext, SendThread

\* A sending stream with a target rate is never ahead of it by more than one
\* block or one burst, for every rate, burst, block size and cut of the blocks
\* (iperf_send_mt, iperf_check_throttle).
THEOREM RateKeptAlways == RateSpec => []RateKept
<1>1. RateInit => RateInv
  BY InitRateInv
<1>2. RateInv /\ [RateNext]_rateVars => RateInv'
  BY NextRateInv
<1>3. RateInv => RateKept
  BY DEF RateInv
<1> QED BY <1>1, <1>2, <1>3, PTL DEF RateSpec
----------------------------------------------------------------------------
(* A test of so many bytes or blocks.                                        *)

Quotas == [bytes_sent : Nat, blocks_sent : Nat, bytes_received : Nat, blocks_received : Nat]
Periods == [bytes : Nat, late : 0 .. BlockSize, omitted : Nat]

QuotaTypeOK ==
  /\ set.bytes \in Nat /\ set.blocks \in Nat
  /\ quota \in Quotas /\ period \in Periods /\ "omitting" \in DOMAIN ctl
  /\ stream.pending <= BlockSize

\* What was transferred since the omit period and before it was late, and how much of
\* the block under way was: all of it, while it is not counted.
Measured == period.bytes + period.late
Begun ==
  IF stream.pending = 0 THEN (IF send.pc = "count" THEN BlockSize ELSE 0)
  ELSE BlockSize - stream.pending

\* Between the write and the count there is a part, elsewhere there is none.
PartUnderWay ==
  /\ send.pc = "count" => send.r > 0
  /\ send.pc \notin {"count", "received"} => send.r = 0

\* A stream that sends: the quota has its bytes, but for the part not counted yet, and
\* its blocks are those completed, the one that was under way when the omit period
\* ended among them.
QuotaCounts ==
  send.pc = "new" \/ set.sender =>
    /\ quota.bytes_sent + send.r = Measured
    /\ quota.blocks_sent * BlockSize + Begun < Measured + BlockSize
    /\ quota.bytes_received = 0 /\ quota.blocks_received = 0

\* A test that is over has started and is not omitting: its quota is not cleared.
DoneMeasured == ctl.done => send.pc # "new" /\ ~ctl.omitting

\* The inductive invariant for the quota.
QInv == RateInv /\ QuotaTypeOK /\ PartUnderWay /\ QuotaCounts /\ DoneMeasured /\ SentQuotaIsMeasured

\* The types of the fields that matter here.
LEMMA QuotaFields ==
  ASSUME QInv
  PROVE  /\ RateInv /\ stream \in Streams /\ quota \in Quotas /\ period \in Periods
         /\ stream.bytes \in Nat /\ stream.omitted \in Nat /\ stream.interval \in Nat
         /\ stream.pending \in Nat /\ stream.pending <= BlockSize
         /\ quota.bytes_sent \in Nat /\ quota.blocks_sent \in Nat
         /\ quota.bytes_received \in Nat /\ quota.blocks_received \in Nat
         /\ period.bytes \in Nat /\ period.late \in 0 .. BlockSize /\ period.late \in Nat
         /\ period.omitted \in Nat
         /\ set.bytes \in Nat /\ set.blocks \in Nat
         /\ send \in Sends /\ send.r \in 0 .. BlockSize /\ send.r \in Nat
         /\ "done" \in DOMAIN ctl /\ "omitting" \in DOMAIN ctl
         /\ BlockSize \in Nat \ {0}
BY RateAssumption, RateFields DEF QInv, QuotaTypeOK, Quotas, Periods, Streams

\* What is under way of a block is at most a block, and less between the parts.
LEMMA BegunType ==
  ASSUME QInv
  PROVE  /\ Begun \in Nat /\ Begun <= BlockSize /\ (send.pc # "count" => Begun < BlockSize)
         /\ Measured \in Nat
BY QuotaFields DEF Begun, Measured

\* What was measured, in the property.
LEMMA QuotaIsMeasured ==
  QuotaMeasured <=> \/ set.bytes # 0 /\ Measured >= set.bytes
                    \/ set.blocks # 0 /\ Measured > (set.blocks - 1) * BlockSize
BY DEF QuotaMeasured, Measured

\* A step that leaves the quota alone and what it counts.
LEMMA QuotaKept ==
  ASSUME QInv, RateInv', UNCHANGED <<set, quota, period>>,
         stream'.pending = stream.pending, send'.r = send.r,
         ctl'.done = ctl.done, ctl'.omitting = ctl.omitting, "omitting" \in DOMAIN ctl',
         send'.pc = "new" <=> send.pc = "new",
         send'.pc \in {"count", "received"} <=> send.pc \in {"count", "received"},
         send'.pc = "count" <=> send.pc = "count"
  PROVE  QInv'
<1>1. Measured' = Measured /\ Begun' = Begun
  BY DEF Measured, Begun
<1>2. QuotaTypeOK' /\ QuotaCounts' /\ DoneMeasured'
  BY <1>1 DEF QInv, QuotaTypeOK, QuotaCounts, DoneMeasured
<1>3. PartUnderWay'
  BY DEF QInv, PartUnderWay
<1>4. SentQuotaIsMeasured'
  BY DEF QInv, SentQuotaIsMeasured, QuotaMeasured
<1> QED BY <1>2, <1>3, <1>4 DEF QInv

\* Nothing is counted, and the test is not over.
LEMMA InitQInv == RateInit => QInv
<1> SUFFICES ASSUME RateInit PROVE QInv
  OBVIOUS
<1>1. set.bytes = 0 /\ set.blocks = 0
  BY DEF RateInit, NoSettings
<1>2. /\ stream.pending = 0 /\ period \in Periods /\ period.bytes = 0 /\ period.late = 0
      /\ quota \in Quotas /\ quota.bytes_sent = 0 /\ quota.blocks_sent = 0
      /\ quota.bytes_received = 0 /\ quota.blocks_received = 0
  BY RateAssumption DEF RateInit, Quotas, Periods
<1>3. "omitting" \in DOMAIN ctl /\ ~ctl.done /\ send.pc = "new" /\ send.r = 0
  BY DEF RateInit
<1>4. QuotaTypeOK /\ PartUnderWay
  BY <1>1, <1>2, <1>3, RateAssumption DEF QuotaTypeOK, PartUnderWay
<1>5. Measured = 0 /\ Begun = 0
  BY <1>2, <1>3 DEF Measured, Begun
<1>6. QuotaCounts
  BY <1>2, <1>3, <1>5, RateAssumption DEF QuotaCounts
<1> QED BY <1>3, <1>4, <1>6, InitRateInv DEF QInv, DoneMeasured, SentQuotaIsMeasured

\* The stream starts with its settings; nothing has been counted.
LEMMA StartQuota == ASSUME QInv, RateInv', StartStream PROVE QInv'
<1>1. send.pc = "new" /\ UNCHANGED <<stream, quota, period>> /\ set' \in RateSettings
  BY DEF StartStream
<1>2. ~ctl.done
  BY <1>1 DEF QInv, DoneMeasured
<1>3. ctl'.done = ctl.done /\ "omitting" \in DOMAIN ctl'
  BY QuotaFields DEF StartStream
<1>4. QuotaTypeOK'
  BY <1>1, <1>3, RateAssumption DEF QInv, QuotaTypeOK
<1>5. send'.pc = "top" /\ send'.r = send.r /\ send.r = 0
  BY <1>1, QuotaFields DEF StartStream, Sends, QInv, PartUnderWay
<1>6. Measured' = Measured /\ Begun' = Begun
  BY <1>1, <1>5 DEF Measured, Begun
<1>7. QuotaCounts' /\ PartUnderWay'
  BY <1>1, <1>5, <1>6 DEF QInv, QuotaCounts, PartUnderWay
<1> QED BY <1>2, <1>3, <1>4, <1>7 DEF QInv, DoneMeasured, SentQuotaIsMeasured

\* A block, or a part of one, is written: it is measured, and not counted.
LEMMA WriteQuota == ASSUME QInv, RateInv', NEW r \in 1 .. BlockSize, WritePart(r) PROVE QInv'
<1> DEFINE block == IF stream.pending = 0 THEN BlockSize ELSE stream.pending
           b == stream.bytes + r
           i == stream.interval + r
           p == block - r
           m == period.bytes + r
<1>1. /\ r \in Nat \ {0} /\ r \in 0 .. BlockSize /\ BlockSize \in Nat \ {0} /\ r <= block
      /\ block \in Nat /\ block <= BlockSize
  <2>1. r <= block
    BY DEF WritePart
  <2> QED BY <2>1, QuotaFields
<1>2. b \in Nat /\ i \in Nat /\ p \in Nat /\ m \in Nat /\ p <= BlockSize
  BY <1>1, QuotaFields
<1>3. UNCHANGED <<set, ctl, quota>> /\ send.pc = "send"
  BY DEF WritePart
<1>4. stream'.pending = p
  <2>1. stream' = [stream EXCEPT !.bytes = b, !.interval = i, !.pending = p]
    BY DEF WritePart
  <2> HIDE DEF b, i, p
  <2> QED BY <2>1, QuotaFields DEF Streams
<1>5. period' \in Periods /\ period'.bytes = m /\ period'.late = period.late
  <2>1. period' = [period EXCEPT !.bytes = m]
    BY DEF WritePart
  <2> HIDE DEF m
  <2> QED BY <1>2, <2>1, QuotaFields DEF Periods
<1>6. send'.pc = "count" /\ send'.r = r /\ send.r = 0
  BY <1>3, QuotaFields DEF WritePart, Sends, QInv, PartUnderWay
<1>7. QuotaTypeOK' /\ PartUnderWay' /\ DoneMeasured'
  <2> HIDE DEF p
  <2> QED BY <1>1, <1>2, <1>3, <1>4, <1>5, <1>6
          DEF QInv, QuotaTypeOK, PartUnderWay, DoneMeasured
<1>8. Measured' = Measured + r /\ Measured \in Nat
  BY <1>1, <1>5, QuotaFields DEF Measured
<1>9. Begun' = Begun + r /\ Begun \in Nat
  <2>1. Begun = BlockSize - block /\ Begun \in Nat
    BY <1>3, QuotaFields DEF Begun
  <2>2. Begun' = BlockSize - p
    BY <1>1, <1>4, <1>6 DEF Begun
  <2> HIDE DEF block
  <2> QED BY <1>1, <2>1, <2>2
<1>10. QuotaCounts'
  <2> SUFFICES ASSUME set.sender PROVE QuotaCounts'
    BY <1>3, <1>6 DEF QuotaCounts
  <2>1. /\ quota.bytes_sent + 0 = Measured
        /\ quota.blocks_sent * BlockSize + Begun < Measured + BlockSize
        /\ quota.bytes_received = 0 /\ quota.blocks_received = 0
    BY <1>6 DEF QInv, QuotaCounts
  <2> DEFINE c == quota.blocks_sent * BlockSize
             u == Measured
             g == Begun
  <2>2. c \in Nat
    BY QuotaFields
  <2>3. quota.bytes_sent + r = u + r /\ c + (g + r) < (u + r) + BlockSize
    <3>1. u \in Nat /\ g \in Nat /\ c + g < u + BlockSize /\ quota.bytes_sent \in Nat
      BY <1>8, <1>9, <2>1, QuotaFields
    <3>2. quota.bytes_sent + 0 = u
      BY <2>1
    <3> HIDE DEF c, u, g
    <3> QED BY <1>1, <2>2, <3>1, <3>2
  <2> QED BY <1>3, <1>6, <1>8, <1>9, <2>1, <2>3 DEF QuotaCounts
<1>11. SentQuotaIsMeasured'
  <2> SUFFICES ASSUME ctl.done, set.sender PROVE QuotaMeasured' /\ period.late <= BlockSize
    BY <1>3, <1>5 DEF SentQuotaIsMeasured
  <2>1. QuotaMeasured /\ period.late <= BlockSize
    BY DEF QInv, SentQuotaIsMeasured
  <2>2. \/ set.bytes # 0 /\ Measured >= set.bytes
        \/ set.blocks # 0 /\ Measured > (set.blocks - 1) * BlockSize
    BY <2>1, QuotaIsMeasured
  <2> DEFINE u == Measured
             q == (set.blocks - 1) * BlockSize
  <2>3. u \in Int /\ q \in Int /\ set.bytes \in Nat
    BY <1>1, <1>8, QuotaFields
  <2>4. \/ set.bytes # 0 /\ u >= set.bytes
        \/ set.blocks # 0 /\ u > q
    BY <2>2
  <2> HIDE DEF u, q
  <2>5. \/ set.bytes # 0 /\ u + r >= set.bytes
        \/ set.blocks # 0 /\ u + r > q
    BY <1>1, <2>3, <2>4
  <2>6. QuotaMeasured' <=> \/ set.bytes # 0 /\ u + r >= set.bytes
                           \/ set.blocks # 0 /\ u + r > q
    BY <1>3, <1>8 DEF QuotaMeasured, Measured, u, q
  <2> QED BY <2>1, <2>5, <2>6
<1> QED BY <1>7, <1>10, <1>11 DEF QInv

\* It is counted; the block is, if that was all of it.
LEMMA CountQuota == ASSUME QInv, RateInv', CountPart PROVE QInv'
<1> DEFINE k == IF stream.pending = 0 THEN quota.blocks_sent + 1 ELSE quota.blocks_sent
           s == quota.bytes_sent + send.r
<1>1. UNCHANGED <<set, ctl, stream, period>> /\ send.pc = "count"
  BY DEF CountPart
<1>2. k \in Nat /\ s \in Nat
  BY QuotaFields
<1>3. /\ quota' \in Quotas /\ quota'.bytes_sent = s /\ quota'.blocks_sent = k
      /\ quota'.bytes_received = quota.bytes_received
      /\ quota'.blocks_received = quota.blocks_received
  <2>1. quota' = [quota EXCEPT !.bytes_sent = s, !.blocks_sent = k]
    BY DEF CountPart
  <2> HIDE DEF s, k
  <2> QED BY <1>2, <2>1, QuotaFields DEF Quotas
<1>4. send'.pc \in {"throttle message", "send"} /\ send'.r = 0
  BY DEF CountPart
<1>5. QuotaTypeOK' /\ PartUnderWay' /\ DoneMeasured'
  BY <1>1, <1>3, <1>4 DEF QInv, QuotaTypeOK, PartUnderWay, DoneMeasured
<1>6. Measured' = Measured /\ Measured \in Nat
  BY <1>1, BegunType DEF Measured
<1>7. k * BlockSize + Begun' = quota.blocks_sent * BlockSize + Begun
  <2>1. CASE stream.pending = 0
    <3>1. Begun = BlockSize /\ Begun' = 0 /\ k = quota.blocks_sent + 1
      BY <1>1, <1>4, <2>1 DEF Begun
    <3>2. (quota.blocks_sent + 1) * BlockSize = quota.blocks_sent * BlockSize + BlockSize
      BY QuotaFields
    <3>3. quota.blocks_sent * BlockSize \in Int
      BY QuotaFields
    <3> QED BY <3>1, <3>2, <3>3, QuotaFields
  <2>2. CASE stream.pending # 0
    BY <1>1, <1>4, <2>2 DEF Begun
  <2> QED BY <2>1, <2>2
<1>8. QuotaCounts'
  <2> SUFFICES ASSUME set.sender PROVE QuotaCounts'
    BY <1>1, <1>4 DEF QuotaCounts
  <2>1. /\ quota.bytes_sent + send.r = Measured
        /\ quota.blocks_sent * BlockSize + Begun < Measured + BlockSize
        /\ quota.bytes_received = 0 /\ quota.blocks_received = 0
    BY DEF QInv, QuotaCounts
  <2>2. s + 0 = Measured
    BY <1>6, <2>1
  <2> HIDE DEF s, k
  <2> QED BY <1>3, <1>4, <1>6, <1>7, <2>1, <2>2, QuotaFields DEF QuotaCounts
<1>9. SentQuotaIsMeasured'
  BY <1>1 DEF QInv, SentQuotaIsMeasured, QuotaMeasured
<1> QED BY <1>5, <1>8, <1>9 DEF QInv

\* A receiver: nothing is said of what it counts.
LEMMA ReadQuota == ASSUME QInv, RateInv', NEW r \in 1 .. BlockSize, ReadPart(r) PROVE QInv'
<1> DEFINE b == stream.bytes + r
           i == stream.interval + r
           m == period.bytes + r
<1>1. UNCHANGED <<set, quota, ctl>> /\ ~set.sender /\ send.pc = "top"
  BY DEF ReadPart
<1>2. b \in Nat /\ i \in Nat /\ m \in Nat
  BY RateAssumption, QuotaFields
<1>3. /\ stream' = [stream EXCEPT !.bytes = b, !.interval = i]
      /\ period' = [period EXCEPT !.bytes = m]
  BY DEF ReadPart
<1>4. stream'.pending = stream.pending /\ period' \in Periods
  <2> HIDE DEF b, i, m
  <2> QED BY <1>2, <1>3, QuotaFields DEF Periods, Streams
<1>5. send'.pc = "received"
  BY QuotaFields DEF ReadPart, Sends
<1>6. QuotaTypeOK' /\ PartUnderWay'
  BY <1>1, <1>4, <1>5 DEF QInv, QuotaTypeOK, PartUnderWay
<1> QED BY <1>1, <1>5, <1>6 DEF QInv, QuotaCounts, DoneMeasured, SentQuotaIsMeasured

LEMMA CountReadQuota == ASSUME QInv, RateInv', CountRead PROVE QInv'
<1> DEFINE s == quota.bytes_received + send.r
           k == quota.blocks_received + 1
<1>1. UNCHANGED <<set, stream, period, ctl>> /\ ~set.sender /\ send.pc = "received"
  BY QuotaFields DEF CountRead, RateInv, Uncounted
<1>2. s \in Nat /\ k \in Nat
  BY QuotaFields
<1>3. quota' \in Quotas
  <2>1. quota' = [quota EXCEPT !.bytes_received = s, !.blocks_received = k]
    BY DEF CountRead
  <2> HIDE DEF s, k
  <2> QED BY <1>2, <2>1, QuotaFields DEF Quotas
<1>4. send'.pc = "top" /\ send'.r = 0
  BY QuotaFields DEF CountRead, Sends
<1>5. QuotaTypeOK' /\ PartUnderWay'
  BY <1>1, <1>3, <1>4 DEF QInv, QuotaTypeOK, PartUnderWay
<1> QED BY <1>1, <1>4, <1>5 DEF QInv, QuotaCounts, DoneMeasured, SentQuotaIsMeasured

\* The omit period ends: what was counted in it is taken off; a block that is under way
\* counts when the rest of it is sent, and a part when the thread gets to it.
LEMMA OmitQuota == ASSUME QInv, RateInv', OmitOver PROVE QInv'
<1>1. ctl.omitting /\ UNCHANGED <<set, stream, send>>
  BY DEF OmitOver
<1>2. ~ctl.done
  BY <1>1 DEF QInv, DoneMeasured
<1>3. ctl'.done = ctl.done /\ "omitting" \in DOMAIN ctl'
  BY QuotaFields DEF OmitOver
<1>4. period' \in Periods /\ period'.bytes = 0 /\ period'.late = send.r
  BY QuotaFields DEF OmitOver, EndPeriod, Periods
<1>5. /\ quota' \in Quotas /\ quota'.bytes_sent = 0 /\ quota'.blocks_sent = 0
      /\ quota'.bytes_received = quota.bytes_received
      /\ quota'.blocks_received = quota.blocks_received
  BY QuotaFields DEF OmitOver, Quotas
<1>6. QuotaTypeOK' /\ PartUnderWay'
  BY <1>1, <1>3, <1>4, <1>5 DEF QInv, QuotaTypeOK, PartUnderWay
<1>7. Measured' = send.r /\ Begun' = Begun
  BY <1>1, <1>4, QuotaFields DEF Measured, Begun
<1>8. 0 * BlockSize + Begun < send.r + BlockSize
  <2>1. send.pc = "count" => send.r > 0
    BY DEF QInv, PartUnderWay
  <2> QED BY <2>1, BegunType, QuotaFields
<1>9. QuotaCounts'
  BY <1>1, <1>5, <1>7, <1>8, QuotaFields DEF QInv, QuotaCounts
<1> QED BY <1>2, <1>3, <1>6, <1>9 DEF QInv, DoneMeasured, SentQuotaIsMeasured

\* The streams are cleared: the quota is not.
LEMMA OmitStreamQuota == ASSUME QInv, RateInv', OmitStream PROVE QInv'
<1>1. UNCHANGED <<set, send, quota, period>>
  BY DEF OmitStream
<1>2. stream'.pending = stream.pending
  BY QuotaFields DEF OmitStream, Streams
<1>3. ctl'.done = ctl.done /\ ctl'.omitting = ctl.omitting /\ "omitting" \in DOMAIN ctl'
  BY QuotaFields DEF OmitStream
<1> QED BY <1>1, <1>2, <1>3, QuotaKept

\* The main thread finds the quota reached: so it is, in what was measured.
LEMMA EndQuota == ASSUME QInv, RateInv', EndByQuota PROVE QInv'
<1>1. /\ send.pc # "new" /\ ~ctl.omitting /\ QuotaReached
      /\ UNCHANGED <<set, stream, send, quota, period>>
  BY DEF EndByQuota
<1>2. ctl'.done = TRUE /\ ctl'.omitting = ctl.omitting /\ "omitting" \in DOMAIN ctl'
  BY QuotaFields DEF EndByQuota
<1>3. Measured' = Measured /\ Begun' = Begun
  BY <1>1 DEF Measured, Begun
<1>4. QuotaTypeOK' /\ PartUnderWay' /\ QuotaCounts' /\ DoneMeasured'
  BY <1>1, <1>2, <1>3 DEF QInv, QuotaTypeOK, PartUnderWay, QuotaCounts, DoneMeasured
<1>5. SentQuotaIsMeasured'
  <2> SUFFICES ASSUME set.sender PROVE QuotaMeasured /\ period.late <= BlockSize
    BY <1>1 DEF SentQuotaIsMeasured, QuotaMeasured
  <2>1. /\ quota.bytes_sent + send.r = Measured
        /\ quota.blocks_sent * BlockSize + Begun < Measured + BlockSize
        /\ quota.bytes_received = 0 /\ quota.blocks_received = 0
    BY DEF QInv, QuotaCounts
  <2>2. CASE set.bytes # 0 /\ quota.bytes_sent >= set.bytes
    <3>1. Measured >= set.bytes
      BY <2>1, <2>2, QuotaFields
    <3> QED BY <2>2, <3>1, QuotaIsMeasured, QuotaFields
  <2>3. CASE set.blocks # 0 /\ quota.blocks_sent >= set.blocks
    <3> DEFINE sent == quota.blocks_sent
               want == set.blocks
               m == Measured
               g == Begun
    <3>1. sent \in Nat /\ want \in Nat /\ sent >= want /\ g \in Nat /\ m \in Int
      BY <2>3, QuotaFields, BegunType
    <3>2. sent * BlockSize + g < m + BlockSize
      BY <2>1
    <3> HIDE DEF sent, want, m, g
    <3>3. want * BlockSize <= sent * BlockSize
      <4>1. PICK d \in Nat : sent = want + d
        BY <3>1
      <4>2. (want + d) * BlockSize = want * BlockSize + d * BlockSize
        BY <3>1, QuotaFields
      <4>3. d * BlockSize \in Nat /\ want * BlockSize \in Nat
        BY <3>1, QuotaFields
      <4> QED BY <4>1, <4>2, <4>3
    <3>4. (want - 1) * BlockSize = want * BlockSize - BlockSize
      BY <3>1, QuotaFields
    <3>5. want * BlockSize \in Int /\ sent * BlockSize \in Int /\ BlockSize \in Nat
      BY <3>1, QuotaFields
    <3>6. m > (want - 1) * BlockSize
      BY <3>1, <3>2, <3>3, <3>4, <3>5
    <3>7. Measured > (set.blocks - 1) * BlockSize
      BY <3>6 DEF want, m
    <3> QED BY <2>3, <3>7, QuotaIsMeasured, QuotaFields
  <2>4. ~(set.bytes # 0 /\ quota.bytes_received >= set.bytes)
        /\ ~(set.blocks # 0 /\ quota.blocks_received >= set.blocks)
    BY <2>1, QuotaFields
  <2> QED BY <1>1, <2>2, <2>3, <2>4 DEF QuotaReached
<1> QED BY <1>4, <1>5 DEF QInv

\* The other steps leave the quota alone.
LEMMA OtherQuota ==
  ASSUME QInv, RateInv',
         \/ BeginSend \/ EndSend \/ CheckThrottle \/ WakeUp \/ TakeInterval \/ RateTick
         \/ UNCHANGED rateVars
  PROVE  QInv'
<1>1. UNCHANGED <<set, quota, period>>
  BY DEF BeginSend, EndSend, CheckThrottle, WakeUp, TakeInterval, RateTick, rateVars
<1>2. stream'.pending = stream.pending
  <2>1. \/ UNCHANGED stream \/ \E g : stream' = [stream EXCEPT !.green = g]
        \/ stream' = [stream EXCEPT !.interval = 0]
    BY DEF BeginSend, EndSend, CheckThrottle, WakeUp, TakeInterval, RateTick, rateVars
  <2> QED BY <2>1, QuotaFields DEF Streams
<1>3. ctl'.done = ctl.done /\ ctl'.omitting = ctl.omitting /\ "omitting" \in DOMAIN ctl'
  <2>1. CASE UNCHANGED ctl
    BY <2>1, QuotaFields
  <2>2. CASE TakeInterval
    BY <2>2, QuotaFields DEF TakeInterval, TotalRate
  <2> QED BY <2>1, <2>2
          DEF BeginSend, EndSend, CheckThrottle, WakeUp, RateTick, rateVars
<1>4. \/ send' = send
      \/ /\ send.pc \notin {"new", "count", "received"}
         /\ send'.pc \notin {"new", "count", "received"} /\ send'.r = send.r
  <2>0. send \in Sends
    BY RateFields DEF QInv
  <2>1. CASE BeginSend
    <3>1. send.r = 0 /\ send.pc = "top"
      BY <2>1 DEF BeginSend, QInv, PartUnderWay
    <3>2. send' = [pc |-> "send", left |-> MultisendCount, sent |-> FALSE, r |-> 0]
      BY <2>1 DEF BeginSend
    <3>3. send'.pc = "send" /\ send'.r = 0
      BY ONLY <3>2
    <3> QED BY <3>1, <3>3
  <2>2. CASE EndSend
    <3>1. PICK p \in {"throttle call", "top"} : send' = [send EXCEPT !.pc = p]
      BY <2>2, Zenon DEF EndSend
    <3>2. send'.pc = p /\ send'.r = send.r
      BY <2>0, <3>1 DEF Sends
    <3> QED BY <2>2, <3>2 DEF EndSend
  <2>3. CASE CheckThrottle
    <3>1. PICK p \in {"sleep", "send", "top"} : send' = [send EXCEPT !.pc = p]
      BY <2>3 DEF CheckThrottle, Continue
    <3>2. send'.pc = p /\ send'.r = send.r
      BY <2>0, <3>1 DEF Sends
    <3>3. send.pc \in {"throttle message", "throttle call"}
      BY <2>3 DEF CheckThrottle, Throttled
    <3> QED BY <3>2, <3>3
  <2>4. CASE WakeUp
    <3>1. PICK p \in {"send", "top"} : send' = [send EXCEPT !.pc = p]
      BY <2>4 DEF WakeUp
    <3>2. send'.pc = p /\ send'.r = send.r
      BY <2>0, <3>1 DEF Sends
    <3> QED BY <2>4, <3>2 DEF WakeUp
  <2>5. CASE TakeInterval
    BY <2>5 DEF TakeInterval
  <2>6. CASE RateTick \/ UNCHANGED rateVars
    BY <2>6 DEF RateTick, rateVars
  <2> QED BY <2>1, <2>2, <2>3, <2>4, <2>5, <2>6
<1> QED BY <1>1, <1>2, <1>3, <1>4, QuotaKept

\* A stream that receives only takes reads: the quota has all of them, those of the omit
\* period too, but for the one not counted yet.
Transferred == period.bytes + period.omitted
ReadsCounted ==
  send.pc = "new" \/ ~set.sender =>
    /\ send.pc \in {"new", "top", "received"}
    /\ quota.bytes_received + send.r = Transferred
    /\ quota.blocks_received + (IF send.pc = "received" THEN 1 ELSE 0) <= Transferred
    /\ quota.bytes_sent = 0 /\ quota.blocks_sent = 0

\* The inductive invariant for the quota of either side.
SidesInv == QInv /\ ReadsCounted /\ ReceivedQuotaIsTransferred

\* Nothing has been transferred.
LEMMA InitSides == RateInit => SidesInv
<1> SUFFICES ASSUME RateInit PROVE SidesInv
  OBVIOUS
<1>1. QInv /\ ~ctl.done
  BY InitQInv DEF RateInit
<1>2. /\ quota.bytes_sent = 0 /\ quota.blocks_sent = 0
      /\ quota.bytes_received = 0 /\ quota.blocks_received = 0
      /\ period.bytes = 0 /\ period.omitted = 0 /\ send.pc = "new" /\ send.r = 0
  BY DEF RateInit
<1> QED BY <1>1, <1>2 DEF SidesInv, ReadsCounted, Transferred, ReceivedQuotaIsTransferred

\* A step that leaves the counters alone, and the position between two reads.
LEMMA SidesKept ==
  ASSUME SidesInv, UNCHANGED <<quota, period>>, ctl'.done = ctl.done,
         set' = set \/ ~ctl.done,
         \/ UNCHANGED <<set, send>>
         \/ send.pc = "new" /\ send'.pc = "top" /\ send'.r = send.r
         \/ set' = set /\ set.sender /\ send.pc # "new" /\ send'.pc # "new"
  PROVE  ReadsCounted' /\ ReceivedQuotaIsTransferred'
<1>1. Transferred' = Transferred
  BY DEF Transferred
<1>2. ReadsCounted'
  BY <1>1 DEF SidesInv, ReadsCounted
<1>3. ReceivedQuotaIsTransferred'
  <2>1. CASE ctl.done
    BY <2>1 DEF SidesInv, ReceivedQuotaIsTransferred
  <2>2. CASE ~ctl.done
    BY <2>2 DEF ReceivedQuotaIsTransferred
  <2> QED BY <2>1, <2>2
<1> QED BY <1>2, <1>3

\* A step of a sender is none of a receiver.
LEMMA SidesOfSender ==
  ASSUME SidesInv, BeginSend \/ EndSend \/ CountPart \/ CheckThrottle \/ WakeUp
                   \/ \E r \in 1 .. BlockSize : WritePart(r)
  PROVE  ReadsCounted' /\ ReceivedQuotaIsTransferred'
<1>1. set.sender
  BY DEF SidesInv, ReadsCounted, BeginSend, EndSend, CountPart, CheckThrottle, Throttled, WakeUp,
         WritePart
<1>2. set' = set
  BY DEF BeginSend, EndSend, CountPart, CheckThrottle, WakeUp, WritePart
<1>3. send'.pc # "new"
  <2>1. CASE BeginSend
    BY <2>1 DEF BeginSend
  <2>3. CASE CountPart
    <3>1. send'.pc = IF PerMessage THEN "throttle message" ELSE "send"
      BY <2>3 DEF CountPart
    <3> QED BY <3>1
  <2>2. CASE EndSend \/ CheckThrottle \/ WakeUp \/ \E r \in 1 .. BlockSize : WritePart(r)
    <3>1. PICK p \in {"throttle call", "top", "sleep", "send", "count"}, r \in {send.r} \cup Nat :
            send' = [send EXCEPT !.pc = p, !.r = r]
      <4>0. send = [send EXCEPT !.r = send.r]
        BY QuotaFields DEF SidesInv, Sends
      <4>1. CASE EndSend \/ CheckThrottle \/ WakeUp
        <5>1. PICK p \in {"throttle call", "top", "sleep", "send", "count"} :
                send' = [send EXCEPT !.pc = p]
          BY <4>1, Zenon DEF EndSend, CheckThrottle, WakeUp, Continue
        <5>2. send' = [send EXCEPT !.pc = p, !.r = send.r]
          BY <5>1, QuotaFields DEF SidesInv, Sends
        <5> QED BY <5>2
      <4>2. CASE \E r \in 1 .. BlockSize : WritePart(r)
        <5>1. PICK r \in 1 .. BlockSize : WritePart(r)
          BY <4>2
        <5>2. send' = [send EXCEPT !.pc = "count", !.r = r]
          BY <5>1 DEF WritePart
        <5>3. r \in {send.r} \cup Nat
          OBVIOUS
        <5> QED BY <5>2, <5>3
      <4> QED BY <2>2, <4>1, <4>2
    <3> QED BY <3>1, QuotaFields DEF SidesInv, Sends
  <2> QED BY <2>1, <2>2, <2>3
<1> QED BY <1>1, <1>2, <1>3 DEF ReadsCounted, ReceivedQuotaIsTransferred

\* A part is read: it is transferred, and not counted.
LEMMA SidesOfRead ==
  ASSUME SidesInv, NEW r \in 1 .. BlockSize, ReadPart(r)
  PROVE  ReadsCounted' /\ ReceivedQuotaIsTransferred'
<1> DEFINE m == period.bytes + r
<1>1. /\ UNCHANGED <<set, quota, ctl>> /\ ~set.sender /\ send.pc = "top" /\ ~ctl.done
      /\ period' = [period EXCEPT !.bytes = m]
  BY DEF ReadPart
<1>2. QInv /\ r \in Nat /\ r >= 1
  BY QuotaFields DEF SidesInv
<1>3. send'.pc = "received" /\ send'.r = r /\ send.r = 0
  BY <1>1, <1>2, QuotaFields DEF ReadPart, Sends, QInv, PartUnderWay
<1>4. period'.bytes = m /\ period'.omitted = period.omitted
  <2> HIDE DEF m
  <2> QED BY <1>1, <1>2, QuotaFields DEF Periods
<1>5. /\ Transferred' = Transferred + r /\ Transferred \in Nat
      /\ quota.bytes_received \in Nat /\ quota.blocks_received \in Nat
  BY <1>2, <1>4, QuotaFields DEF Transferred
<1>6. /\ quota.bytes_received + send.r = Transferred
      /\ quota.blocks_received + 0 <= Transferred
      /\ quota.bytes_sent = 0 /\ quota.blocks_sent = 0
  BY <1>1 DEF SidesInv, ReadsCounted
<1>7. ReadsCounted'
  BY <1>1, <1>2, <1>3, <1>5, <1>6 DEF ReadsCounted
<1> QED BY <1>1, <1>7 DEF ReceivedQuotaIsTransferred

\* It is counted.
LEMMA SidesOfCount ==
  ASSUME SidesInv, CountRead
  PROVE  ReadsCounted' /\ ReceivedQuotaIsTransferred'
<1> DEFINE s == quota.bytes_received + send.r
           k == quota.blocks_received + 1
<1>1. UNCHANGED <<set, period, ctl>> /\ send.pc = "received"
      /\ quota' = [quota EXCEPT !.bytes_received = s, !.blocks_received = k]
  BY DEF CountRead
<1>2. QInv
  BY DEF SidesInv
<1>3. ~set.sender
  BY <1>1, <1>2, QuotaFields DEF RateInv, Uncounted
<1>4. send'.pc = "top" /\ send'.r = 0
  BY <1>2, QuotaFields DEF CountRead, Sends
<1>5. /\ quota'.bytes_received = s /\ quota'.blocks_received = k
      /\ quota'.bytes_sent = quota.bytes_sent /\ quota'.blocks_sent = quota.blocks_sent
  <2> HIDE DEF s, k
  <2> QED BY <1>1, <1>2, QuotaFields DEF Quotas
<1>6. /\ quota.bytes_received + send.r = Transferred
      /\ quota.blocks_received + 1 <= Transferred
      /\ quota.bytes_sent = 0 /\ quota.blocks_sent = 0
  BY <1>1, <1>3 DEF SidesInv, ReadsCounted
<1>7. Transferred' = Transferred
  BY <1>1 DEF Transferred
<1>8. s + 0 = s /\ k + 0 = k
  BY <1>2, QuotaFields
<1>9. ReadsCounted'
  BY <1>4, <1>5, <1>6, <1>7, <1>8 DEF ReadsCounted
<1> QED BY <1>1, <1>9 DEF ReceivedQuotaIsTransferred, SidesInv

\* The end of the omit period does not touch what was received.
LEMMA SidesOfOmit ==
  ASSUME SidesInv, OmitOver
  PROVE  ReadsCounted' /\ ReceivedQuotaIsTransferred'
<1>1. ctl.omitting /\ UNCHANGED <<set, send>> /\ QInv
  BY DEF OmitOver, SidesInv
<1>2. ~ctl.done /\ ctl'.done = ctl.done
  BY <1>1, QuotaFields DEF OmitOver, QInv, DoneMeasured
<1>3. period'.bytes = 0 /\ period'.omitted = period.omitted + period.bytes
  BY DEF OmitOver, EndPeriod
<1>4. /\ quota'.bytes_sent = 0 /\ quota'.blocks_sent = 0
      /\ quota'.bytes_received = quota.bytes_received
      /\ quota'.blocks_received = quota.blocks_received
  BY <1>1, QuotaFields DEF OmitOver, Quotas
<1>5. Transferred' = Transferred
  BY <1>1, <1>3, QuotaFields DEF Transferred
<1>6. ReadsCounted'
  BY <1>1, <1>4, <1>5 DEF SidesInv, ReadsCounted
<1> QED BY <1>2, <1>6 DEF ReceivedQuotaIsTransferred

\* The main thread finds the quota of a receiver reached: so much was transferred.
LEMMA SidesOfEnd ==
  ASSUME SidesInv, EndByQuota
  PROVE  ReadsCounted' /\ ReceivedQuotaIsTransferred'
<1>1. QuotaReached /\ UNCHANGED <<set, send, quota, period>> /\ QInv
  BY DEF EndByQuota, SidesInv
<1>2. Transferred' = Transferred /\ Transferred \in Nat
  BY <1>1, QuotaFields DEF Transferred
<1>3. ReadsCounted'
  BY <1>1, <1>2 DEF SidesInv, ReadsCounted
<1>4. ASSUME ~set.sender
      PROVE  \/ set.bytes # 0 /\ Transferred >= set.bytes
             \/ set.blocks # 0 /\ Transferred >= set.blocks
  <2>1. /\ quota.bytes_received + send.r = Transferred
        /\ quota.blocks_received + (IF send.pc = "received" THEN 1 ELSE 0) <= Transferred
        /\ quota.bytes_sent = 0 /\ quota.blocks_sent = 0
    BY <1>4 DEF SidesInv, ReadsCounted
  <2>2. quota.bytes_received <= Transferred /\ quota.blocks_received <= Transferred
    BY <1>1, <1>2, <2>1, QuotaFields
  <2> QED BY <1>1, <1>2, <2>1, <2>2, QuotaFields DEF QuotaReached
<1>5. ReceivedQuotaIsTransferred'
  BY <1>1, <1>2, <1>4 DEF ReceivedQuotaIsTransferred, Transferred
<1> QED BY <1>3, <1>5

\* Every step keeps the invariant of the senders, and that of both sides.
LEMMA NextQInv == ASSUME QInv, [RateNext]_rateVars PROVE QInv'
<1>1. RateInv'
  BY NextRateInv DEF QInv
<1> QED BY <1>1, StartQuota, WriteQuota, CountQuota, ReadQuota, CountReadQuota, OmitQuota,
           OmitStreamQuota, EndQuota, OtherQuota DEF RateNext, SendThread

LEMMA NextSides == ASSUME SidesInv, [RateNext]_rateVars PROVE SidesInv'
<1> USE DEF SidesInv
<1>1. QInv'
  BY NextQInv
<1>2. CASE StartStream
  <2>1. /\ send.pc = "new" /\ send'.pc = "top" /\ send'.r = send.r /\ ~ctl.done
        /\ ctl'.done = ctl.done /\ UNCHANGED <<quota, period>>
    BY <1>2, QuotaFields DEF StartStream, Sends, QInv, DoneMeasured
  <2> QED BY <1>1, <2>1, SidesKept
<1>3. CASE TakeInterval \/ OmitStream \/ RateTick \/ UNCHANGED rateVars
  <2>1. UNCHANGED <<set, send, quota, period>>
    BY <1>3 DEF TakeInterval, OmitStream, RateTick, rateVars
  <2>2. ctl'.done = ctl.done
    <3>1. CASE UNCHANGED ctl
      BY <3>1
    <3>2. CASE TakeInterval
      BY <3>2, QuotaFields DEF TakeInterval, TotalRate
    <3>3. CASE OmitStream
      BY <3>3, QuotaFields DEF OmitStream
    <3> QED BY <1>3, <3>1, <3>2, <3>3 DEF RateTick, rateVars
  <2> QED BY <1>1, <2>1, <2>2, SidesKept
<1>4. CASE SendThread \/ OmitOver \/ EndByQuota
  BY <1>1, <1>4, SidesOfSender, SidesOfRead, SidesOfCount, SidesOfOmit, SidesOfEnd DEF SendThread
<1> QED BY <1>2, <1>3, <1>4 DEF RateNext

\* A test of so many bytes or blocks is over when that much was transferred, for every
\* number of them, every block size and cut of the blocks: by a client that sends, since
\* the omit period ended, but for one part that was not counted when it did, wherever in
\* a block, and between a write and its count, it ends; by one that receives, in the omit
\* period and since (iperf_reset_stats, iperf_send_mt, iperf_recv_mt, iperf_run_client).
THEOREM QuotaTransferred == RateSpec => []EndsWithQuota
<1>1. SidesInv /\ [RateNext]_rateVars => SidesInv'
  BY NextSides
<1>2. SidesInv => EndsWithQuota
  BY DEF SidesInv, QInv, EndsWithQuota
<1> QED BY <1>1, <1>2, InitSides, PTL DEF RateSpec

----------------------------------------------------------------------------
(* The limit of a server.  The ring of iperf_check_total_rate is summed up by *)
(* a recursive function, so first what such sums are: sets of numbers have a   *)
(* least element, and with it each fact is shown for a least counterexample.   *)

\* A set of numbers that is not empty has a least one.
LEMMA LeastNumber ==
  ASSUME NEW S, S \subseteq Nat, S # {}
  PROVE  \E m \in S : \A n \in S : m <= n
<1> DEFINE R == {ss \in Nat \X Nat : ss[1] < ss[2]}
<1>1. IsWellFoundedOn(R, Nat)
  BY NatLessThanWellFounded DEF OpToRel
<1>2. PICK m \in S : \A n \in S : <<n, m>> \notin R
  <2> HIDE DEF R
  <2> QED BY <1>1, WFMin
<1>3. \A n \in S : ~(n < m)
  BY <1>2
<1> QED BY <1>2, <1>3

\* Partial sums.
IsSum(f, n, s) == s = [k \in 0 .. n |-> IF k = 0 THEN 0 ELSE s[k - 1] + f[k - 1]]

LEMMA SumExists ==
  ASSUME NEW f, NEW w \in Nat
  PROVE  \E s : IsSum(f, w, s)
<1> DEFINE S == {n \in Nat : ~ \E s : IsSum(f, n, s)}
<1> SUFFICES ASSUME S # {} PROVE FALSE
  OBVIOUS
<1>1. PICK m \in S : \A n \in S : m <= n
  <2> HIDE DEF S
  <2>1. S \subseteq Nat
    BY DEF S
  <2> QED BY <2>1, LeastNumber
<1>2. CASE m = 0
  <2> DEFINE s == [k \in 0 .. 0 |-> 0]
  <2>1. IsSum(f, 0, s)
    BY DEF IsSum
  <2> QED BY <2>1, <1>1, <1>2
<1>3. CASE m # 0
  <2>1. m \in Nat /\ m - 1 \in Nat /\ m - 1 \notin S
    BY <1>1, <1>3
  <2>2. PICK s : IsSum(f, m - 1, s)
    BY <2>1
  <2> DEFINE u == [k \in 0 .. m |-> IF k = m THEN s[m - 1] + f[m - 1] ELSE s[k]]
  <2>3. IsSum(f, m, u)
    <3>1. \A k \in 0 .. m : u[k] = IF k = 0 THEN 0 ELSE u[k - 1] + f[k - 1]
      <4> TAKE k \in 0 .. m
      <4>1. CASE k = m
        BY <4>1, <1>3, <2>1
      <4>2. CASE k # m
        <5>1. k \in 0 .. m - 1 /\ (k # 0 => k - 1 \in 0 .. m - 1)
          BY <4>2, <2>1
        <5>2. s[k] = IF k = 0 THEN 0 ELSE s[k - 1] + f[k - 1]
          BY <5>1, <2>2 DEF IsSum
        <5> QED BY <5>1, <5>2, <4>2, <2>1
      <4> QED BY <4>1, <4>2
    <3> HIDE DEF u
    <3>2. u = [k \in 0 .. m |-> u[k]]
      BY DEF u
    <3> QED BY <3>1, <3>2 DEF IsSum
  <2> QED BY <2>3, <1>1
<1> QED BY <1>2, <1>3

\* SumTo is a value of partial sums.
LEMMA SumChosen ==
  ASSUME NEW f, NEW w \in Nat
  PROVE  \E s : IsSum(f, w, s) /\ SumTo(f, w) = s[w]
<1> DEFINE chosen == CHOOSE s : s = [k \in 0 .. w |-> IF k = 0 THEN 0 ELSE s[k - 1] + f[k - 1]]
<1>1. IsSum(f, w, chosen)
  BY SumExists, Zenon DEF IsSum
<1>2. SumTo(f, w) = chosen[w]
  BY DEF SumTo
<1> QED BY <1>1, <1>2

\* Partial sums of the same function agree.
LEMMA SumUnique ==
  ASSUME NEW f, NEW m \in Nat, NEW n \in Nat, m <= n, NEW s, NEW u,
         IsSum(f, m, s), IsSum(f, n, u)
  PROVE  \A k \in 0 .. m : s[k] = u[k]
<1> DEFINE S == {k \in 0 .. m : s[k] # u[k]}
<1> SUFFICES ASSUME S # {} PROVE FALSE
  OBVIOUS
<1>1. PICK k \in S : \A j \in S : k <= j
  <2>1. S \subseteq Nat
    OBVIOUS
  <2> HIDE DEF S
  <2> QED BY <2>1, LeastNumber
<1>2. /\ s[k] = IF k = 0 THEN 0 ELSE s[k - 1] + f[k - 1]
      /\ u[k] = IF k = 0 THEN 0 ELSE u[k - 1] + f[k - 1]
  BY DEF IsSum
<1>3. CASE k = 0
  BY <1>2, <1>3
<1>4. CASE k # 0
  <2>1. k - 1 \in 0 .. m /\ k - 1 \notin S
    BY <1>1, <1>4
  <2> QED BY <2>1, <1>2, <1>4
<1> QED BY <1>3, <1>4

\* A sum of n + 1 terms is that of n and the last one.
LEMMA SumStep ==
  ASSUME NEW f, NEW n \in Nat
  PROVE  SumTo(f, 0) = 0 /\ SumTo(f, n + 1) = SumTo(f, n) + f[n]
<1>1. PICK z : IsSum(f, 0, z) /\ SumTo(f, 0) = z[0]
  BY SumChosen
<1>2. PICK s : IsSum(f, n, s) /\ SumTo(f, n) = s[n]
  BY SumChosen
<1>3. PICK u : IsSum(f, n + 1, u) /\ SumTo(f, n + 1) = u[n + 1]
  BY SumChosen
<1>4. z[0] = 0
  BY <1>1 DEF IsSum
<1>5. u[n + 1] = u[n] + f[n]
  BY <1>3 DEF IsSum
<1>6. s[n] = u[n]
  BY <1>2, <1>3, SumUnique
<1> QED BY <1>1, <1>2, <1>3, <1>4, <1>5, <1>6

\* A sum of numbers is a number.
LEMMA SumIsNumber ==
  ASSUME NEW w \in Nat, NEW f, \A k \in 0 .. w - 1 : f[k] \in Nat
  PROVE  \A n \in 0 .. w : SumTo(f, n) \in Nat
<1> DEFINE S == {n \in 0 .. w : SumTo(f, n) \notin Nat}
<1> SUFFICES ASSUME S # {} PROVE FALSE
  OBVIOUS
<1>1. PICK n \in S : \A j \in S : n <= j
  <2>1. S \subseteq Nat
    OBVIOUS
  <2> HIDE DEF S
  <2> QED BY <2>1, LeastNumber
<1>2. CASE n = 0
  BY <1>2, SumStep
<1>3. CASE n # 0
  <2>1. n - 1 \in 0 .. w - 1 /\ n - 1 \notin S /\ SumTo(f, n - 1) \in Nat /\ f[n - 1] \in Nat
    BY <1>1, <1>3
  <2>2. SumTo(f, (n - 1) + 1) = SumTo(f, n - 1) + f[n - 1]
    BY <2>1, SumStep
  <2>3. (n - 1) + 1 = n
    OBVIOUS
  <2> QED BY <2>1, <2>2, <2>3
<1> QED BY <1>2, <1>3

\* A sum of zeros.
LEMMA SumOfZeros ==
  ASSUME NEW w \in Nat, NEW f, \A k \in 0 .. w - 1 : f[k] = 0
  PROVE  SumTo(f, w) = 0
<1> DEFINE S == {n \in 0 .. w : SumTo(f, n) # 0}
<1>1. S = {}
  <2> SUFFICES ASSUME S # {} PROVE FALSE
    OBVIOUS
  <2>1. PICK n \in S : \A j \in S : n <= j
    <3>1. S \subseteq Nat
      OBVIOUS
    <3> HIDE DEF S
    <3> QED BY <3>1, LeastNumber
  <2>2. CASE n = 0
    BY <2>1, <2>2, SumStep
  <2>3. CASE n # 0
    <3>1. n - 1 \in 0 .. w - 1 /\ n - 1 \notin S /\ SumTo(f, n - 1) = 0 /\ f[n - 1] = 0
      BY <2>1, <2>3
    <3>2. SumTo(f, (n - 1) + 1) = SumTo(f, n - 1) + f[n - 1]
      BY <3>1, SumStep
    <3>3. (n - 1) + 1 = n
      OBVIOUS
    <3> QED BY <2>1, <3>1, <3>2, <3>3
  <2> QED BY <2>2, <2>3
<1> QED BY <1>1

\* One term replaced.
LEMMA SumReplaced ==
  ASSUME NEW w \in Nat, NEW f, NEW g, NEW i \in 0 .. w - 1, NEW v \in Nat,
         \A k \in 0 .. w - 1 : f[k] \in Nat,
         g[i] = v, \A j \in 0 .. w - 1 : j # i => g[j] = f[j]
  PROVE  SumTo(g, w) + f[i] = SumTo(f, w) + v
<1> DEFINE Right(n) == SumTo(g, n) + (IF n <= i THEN 0 ELSE f[i])
                         = SumTo(f, n) + (IF n <= i THEN 0 ELSE v)
           S == {n \in 0 .. w : ~Right(n)}
<1>g. /\ \A k \in 0 .. w - 1 : f[k] \in Nat /\ g[k] \in Nat
      /\ g[i] = v /\ \A j \in 0 .. w - 1 : j # i => g[j] = f[j]
  OBVIOUS
<1>t. \A n \in 0 .. w : SumTo(f, n) \in Nat /\ SumTo(g, n) \in Nat
  BY <1>g, SumIsNumber
<1>1. \A n \in 0 .. w : Right(n)
  <2> SUFFICES ASSUME S # {} PROVE FALSE
    OBVIOUS
  <2>1. PICK n \in S : \A j \in S : n <= j
    <3>1. S \subseteq Nat
      OBVIOUS
    <3> HIDE DEF S
    <3> QED BY <3>1, LeastNumber
  <2>2. CASE n = 0
    BY <2>1, <2>2, SumStep
  <2>3. CASE n # 0
    <3> DEFINE m == n - 1
    <3>1. m \in 0 .. w - 1 /\ m \in Nat /\ n = m + 1
      BY <2>1, <2>3
    <3>5. Right(m)
      BY <2>1, <2>3
    <3>4. ~Right(n)
      BY <2>1
    <3> HIDE DEF m, S
    <3>2. /\ SumTo(f, n) = SumTo(f, m) + f[m] /\ SumTo(g, n) = SumTo(g, m) + g[m]
      BY ONLY <3>1, SumStep
    <3>t. /\ SumTo(f, m) \in Nat /\ SumTo(g, m) \in Nat
          /\ f[m] \in Nat /\ g[m] \in Nat /\ m \in Nat
      BY <3>1, <1>g, <1>t
    <3>3. f[i] \in Nat
      OBVIOUS
    <3>6. CASE m = i
      BY <3>1, <3>2, <3>t, <3>3, <3>4, <3>5, <3>6, <1>g
    <3>7. CASE m # i
      <4>1. g[m] = f[m]
        BY <3>1, <3>7, <1>g
      <4>2. (n <= i) = (m <= i)
        BY <3>1, <3>7
      <4>3. SumTo(f, n) = SumTo(f, m) + f[m] /\ SumTo(g, n) = SumTo(g, m) + f[m]
        BY <4>1, <3>2
      <4>4. Right(n)
        <5>1. CASE n <= i
          BY <5>1, <4>2, <4>3, <3>t, <3>5
        <5>2. CASE ~(n <= i)
          <6>1. SumTo(g, m) + f[i] = SumTo(f, m) + v
            BY <5>2, <4>2, <3>5
          <6>2. SumTo(g, n) + f[i] = SumTo(f, n) + v
            <7> DEFINE a == SumTo(f, m)  b == SumTo(g, m)  d == f[m]  e == f[i]
            <7>1. a \in Nat /\ b \in Nat /\ d \in Nat /\ e \in Nat
              BY <3>t, <3>3
            <7>2. b + e = a + v
              BY <6>1
            <7> HIDE DEF a, b, d, e
            <7>3. (b + d) + e = (a + d) + v
              BY <7>1, <7>2
            <7> QED BY <7>3, <4>3 DEF a, b, d, e
          <6> QED BY <5>2, <6>2
        <5> QED BY <5>1, <5>2
      <4> QED BY <4>4, <3>4
    <3> QED BY <3>6, <3>7
  <2> QED BY <2>2, <2>3
<1>2. Right(w)
  BY <1>1
<1>3. ~(w <= i)
  OBVIOUS
<1> QED BY <1>2, <1>3

\* One term in front, and the last one gone.
LEMMA SumShifted ==
  ASSUME NEW w \in Nat \ {0}, NEW f \in [0 .. w - 1 -> Nat], NEW g \in [0 .. w - 1 -> Nat],
         \A k \in 1 .. w - 1 : g[k] = f[k - 1]
  PROVE  SumTo(g, w) + f[w - 1] = SumTo(f, w) + g[0]
<1> DEFINE Right(n) == SumTo(g, n + 1) = SumTo(f, n) + g[0]
           S == {n \in 0 .. w - 1 : ~Right(n)}
<1>t. \A n \in 0 .. w : SumTo(f, n) \in Nat /\ SumTo(g, n) \in Nat
  BY SumIsNumber
<1>1. \A n \in 0 .. w - 1 : Right(n)
  <2> SUFFICES ASSUME S # {} PROVE FALSE
    OBVIOUS
  <2>1. PICK n \in S : \A j \in S : n <= j
    <3>1. S \subseteq Nat
      OBVIOUS
    <3> HIDE DEF S
    <3> QED BY <3>1, LeastNumber
  <2>2. CASE n = 0
    <3>1. SumTo(g, 0) = 0 /\ SumTo(g, 0 + 1) = SumTo(g, 0) + g[0] /\ SumTo(f, 0) = 0
      BY SumStep
    <3> QED BY <2>1, <2>2, <3>1
  <2>3. CASE n # 0
    <3> DEFINE m == n - 1
    <3>1. /\ m \in 0 .. w - 1 /\ m \in Nat /\ n = m + 1
          /\ n \in 0 .. w - 1 /\ n \in 1 .. w - 1 /\ n \in Nat
      BY <2>1, <2>3
    <3>5. Right(m)
      BY <2>1, <2>3
    <3>4. ~Right(n)
      BY <2>1
    <3> HIDE DEF m, S
    <3>2. /\ SumTo(f, n) = SumTo(f, m) + f[m] /\ SumTo(g, n + 1) = SumTo(g, n) + g[n]
      BY ONLY <3>1, SumStep
    <3>t. SumTo(f, m) \in Nat /\ f[m] \in Nat /\ g[0] \in Nat
      BY <3>1, <1>t
    <3>g. g[n] = f[m]
      <4>1. g[n] = f[n - 1] /\ n - 1 = m
        BY <3>1
      <4> QED BY <4>1
    <3> QED BY <3>1, <3>5, <3>2, <3>t, <3>g, <3>4
  <2> QED BY <2>2, <2>3
<1> DEFINE m == w - 1
<1>2. Right(m)
  <2>1. m \in 0 .. w - 1
    OBVIOUS
  <2> HIDE DEF m, Right
  <2> QED BY <2>1, <1>1
<1>m. m \in Nat /\ w = m + 1 /\ m \in 0 .. w /\ m \in 0 .. w - 1
  OBVIOUS
<1> HIDE DEF m
<1>3. SumTo(f, w) = SumTo(f, m) + f[m] /\ SumTo(f, m) \in Nat
  BY <1>m, <1>t, SumStep
<1>4. f[m] \in Nat /\ g[0] \in Nat
  BY <1>m
<1> QED BY <1>2, <1>m, <1>3, <1>4 DEF m

\* The bytes of the last intervals, the last one first, and where the ring has them.
Recent(k) == IF k < Len(totals) THEN totals[Len(totals) - k] ELSE 0
RingPlace(k) == IF k <= ctl.index THEN ctl.index - k ELSE ctl.index - k + set.window
Window == [k \in 0 .. set.window - 1 |-> Recent(k)]

LimitTypeOK ==
  /\ set.limit \in Nat /\ set.window \in Nat /\ totals \in Seq(Nat)
  /\ {"done", "omitting", "ring", "index", "count", "exceeded"} \subseteq DOMAIN ctl

\* Before the stream starts nothing was counted.
LimitUnused ==
  send.pc = "new" => /\ set.limit = 0 /\ totals = <<>> /\ ctl.index = 0 /\ ctl.count = 0
                     /\ ctl.exceeded = FALSE

\* A window that has entries, and no more of them than the ring.
Fits == set.limit # 0 /\ ~ctl.done /\ set.window \in 1 .. RingSize

\* The ring has the last intervals, and 0 for those that were not yet.
RingKeepsWindow ==
  send.pc # "new" /\ Fits =>
    /\ ctl.ring \in [0 .. RingSize - 1 -> Nat] /\ ctl.index \in 0 .. set.window - 1
    /\ ctl.count = Len(totals)
    /\ \A k \in 0 .. set.window - 1 : ctl.ring[RingPlace(k)] = Recent(k)
    /\ SumTo(ctl.ring, set.window) = SumTo(Window, set.window)

LimitInv == RateInv /\ LimitTypeOK /\ LimitUnused /\ RingKeepsWindow /\ RateLimitExact

\* The fields of ctl keep their values where a step does not change them.
LEMMA LimitKept ==
  ASSUME LimitInv, RateInv', UNCHANGED <<set, totals>>, LimitTypeOK',
         (send'.pc = "new") = (send.pc = "new"),
         (ctl'.done /\ send.pc # "new") \/ (/\ ctl'.ring = ctl.ring /\ ctl'.index = ctl.index
                       /\ ctl'.count = ctl.count /\ ctl'.exceeded = ctl.exceeded
                       /\ ctl'.done = ctl.done)
  PROVE  LimitInv'
<1>1. LimitUnused'
  BY DEF LimitInv, LimitUnused
<1>2. CASE ctl'.done
  BY <1>1, <1>2 DEF LimitInv, RingKeepsWindow, RateLimitExact, Fits
<1>3. CASE ~ctl'.done
  <2>1. /\ ctl'.ring = ctl.ring /\ ctl'.index = ctl.index
        /\ ctl'.count = ctl.count /\ ctl'.exceeded = ctl.exceeded /\ ctl'.done = ctl.done
    BY <1>3
  <2>2. Window' = Window
    BY DEF Window, Recent
  <2>3. RingKeepsWindow'
    BY <2>1, <2>2 DEF LimitInv, RingKeepsWindow, RingPlace, Recent, Fits
  <2>4. RateLimitExact'
    BY <2>1 DEF LimitInv, RateLimitExact
  <2> QED BY <1>1, <2>3, <2>4 DEF LimitInv
<1> QED BY <1>2, <1>3

\* Nothing counted, nothing exceeded.
LEMMA InitLimit == RateInit => LimitInv
<1> SUFFICES ASSUME RateInit PROVE LimitInv
  OBVIOUS
<1>1. RateInv
  BY InitRateInv
<1>2. LimitTypeOK
  BY DEF RateInit, NoSettings, LimitTypeOK
<1>3. LimitUnused /\ RingKeepsWindow
  BY DEF RateInit, NoSettings, LimitUnused, RingKeepsWindow, Fits
<1>4. RateLimitExact
  BY DEF RateInit, NoSettings, RateLimitExact
<1> QED BY <1>1, <1>2, <1>3, <1>4 DEF LimitInv

\* The test starts with an empty ring.
LEMMA StartLimit == ASSUME LimitInv, RateInv', StartStream PROVE LimitInv'
<1>1. PICK s \in RateSettings : set' = s
  BY DEF StartStream
<1>2. /\ set'.limit \in Nat /\ set'.window \in Nat /\ totals' = <<>> /\ totals' = totals
      /\ send.pc = "new" /\ totals = <<>> /\ ctl.index = 0 /\ ctl.count = 0 /\ ctl.exceeded = FALSE
  BY <1>1, RateAssumption DEF StartStream, LimitInv, LimitUnused
<1>3. send'.pc # "new"
  BY RateFields DEF StartStream, Sends, LimitInv
<1>4. /\ ctl'.ring = [i \in 0 .. RingSize - 1 |-> 0] /\ ctl'.index = 0 /\ ctl'.count = 0
      /\ ctl'.exceeded = FALSE
      /\ {"done", "omitting", "ring", "index", "count", "exceeded"} \subseteq DOMAIN ctl'
  BY <1>2 DEF StartStream, LimitInv, LimitTypeOK
<1>5. LimitTypeOK' /\ LimitUnused'
  BY <1>2, <1>3, <1>4 DEF LimitTypeOK, LimitUnused
<1>6. Window' = [i \in 0 .. set'.window - 1 |-> 0]
  BY <1>2 DEF Window, Recent
<1>7. RingKeepsWindow'
  <2> SUFFICES ASSUME Fits' PROVE RingKeepsWindow'
    BY DEF RingKeepsWindow
  <2>0. set'.window \in 1 .. RingSize /\ set'.window \in Nat \ {0} /\ RingSize \in Nat
    BY RateAssumption DEF Fits
  <2>1. ctl'.ring \in [0 .. RingSize - 1 -> Nat] /\ ctl'.index \in 0 .. set'.window - 1
    BY <1>2, <1>4, <2>0
  <2>2. ctl'.count = Len(totals')
    BY <1>2, <1>4
  <2>3. ASSUME NEW k \in 0 .. set'.window - 1 PROVE ctl'.ring[RingPlace(k)'] = Recent(k)'
    <3>1. RingPlace(k)' \in 0 .. set'.window - 1
      BY <1>2, <1>4, <2>0 DEF RingPlace
    <3>2. RingPlace(k)' \in 0 .. RingSize - 1
      BY <2>0, <3>1
    <3>3. Recent(k)' = 0
      BY <1>2 DEF Recent
    <3> QED BY <3>2, <3>3, <1>4
  <2>4. SumTo(ctl'.ring, set'.window) = SumTo(Window', set'.window)
    <3> DEFINE f == ctl'.ring
               g == Window'
               w == set'.window
    <3>1. \A k \in 0 .. w - 1 : f[k] = 0 /\ g[k] = 0
      <4>1. \A k \in 0 .. w - 1 : k \in 0 .. RingSize - 1
        BY <2>0
      <4> QED BY <4>1, <1>4, <1>6
    <3>2. w \in Nat
      BY <2>0
    <3> HIDE DEF f, g, w
    <3>3. SumTo(f, w) = 0 /\ SumTo(g, w) = 0
      BY <3>1, <3>2, SumOfZeros
    <3> QED BY <3>3 DEF f, g, w
  <2> QED BY <2>1, <2>2, <2>3, <2>4 DEF RingKeepsWindow
<1>8. RateLimitExact'
  <2> SUFFICES ASSUME set'.window \in 1 .. RingSize PROVE RateLimitExact'
    BY DEF RateLimitExact
  <2>1. ~ \E newest \in set'.window .. Len(totals') : TRUE
    BY <1>2
  <2> QED BY <2>1, <1>4 DEF RateLimitExact
<1> QED BY <1>5, <1>7, <1>8 DEF LimitInv

\* The ring takes an interval: the sum in it is that of the last intervals, and
\* an interval that ends is the last of one window more.
LEMMA IntervalLimit ==
  ASSUME LimitInv, RateInv', TakeInterval
  PROVE  LimitInv'
<1> DEFINE w == set.window
           n == stream.interval
           i == IF ctl.index + 1 >= w THEN 0 ELSE ctl.index + 1
           ring == [ctl.ring EXCEPT ![i] = n]
<1>1. /\ UNCHANGED set /\ send' = send /\ send.pc # "new" /\ totals' = Append(totals, n)
      /\ w \in Nat /\ n \in Nat /\ totals \in Seq(Nat) /\ set.limit \in Nat
  BY RateFields DEF TakeInterval, LimitInv, LimitTypeOK
<1>2. /\ totals' \in Seq(Nat) /\ Len(totals') = Len(totals) + 1 /\ Len(totals) \in Nat
      /\ totals'[Len(totals')] = n
      /\ \A j \in 1 .. Len(totals) : totals'[j] = totals[j]
  BY <1>1
<1>3. LimitTypeOK' /\ ctl'.done = ctl.done
  BY <1>1, <1>2 DEF LimitInv, LimitTypeOK, TakeInterval, TotalRate
<1>4. LimitUnused'
  BY <1>1 DEF LimitUnused
<1>5. CASE ~Fits
  BY <1>1, <1>3, <1>4, <1>5 DEF LimitInv, RingKeepsWindow, RateLimitExact, Fits
<1>6. CASE Fits
  <2>0. set.limit # 0 /\ ~ctl.done /\ w \in 1 .. RingSize /\ w \in Nat \ {0} /\ RingSize \in Nat
    BY <1>6, RateAssumption DEF Fits
  <2>1. /\ ctl.ring \in [0 .. RingSize - 1 -> Nat] /\ ctl.index \in 0 .. w - 1
        /\ ctl.count = Len(totals)
        /\ \A k \in 0 .. w - 1 : ctl.ring[RingPlace(k)] = Recent(k)
        /\ SumTo(ctl.ring, w) = SumTo(Window, w)
    BY <1>1, <1>6 DEF LimitInv, RingKeepsWindow
  <2>2. PICK any \in BOOLEAN : ctl' = TotalRate(n, any)
    BY <2>0 DEF TakeInterval
  <2>3. /\ ctl'.index = i /\ ctl'.ring = ring /\ ctl'.count = Len(totals) + 1
        /\ ctl'.done = ctl.done
        /\ ctl'.exceeded = (ctl.exceeded \/ (Len(totals) + 1 >= w /\ SumTo(ring, w) \div w > set.limit))
    <3>1. i < RingSize
      BY <2>0, <2>1
    <3>2. NextIndex = i /\ Written(n) = ring
      BY <3>1 DEF NextIndex, Written
    <3>3. MeanAbove(ring, any) = (SumTo(ring, w) \div w > set.limit)
      BY <2>0 DEF MeanAbove
    <3> HIDE DEF i, ring, w, n
    <3> QED BY <2>1, <2>2, <3>2, <3>3 DEF TotalRate, LimitInv, LimitTypeOK, w
  <2>4. i \in 0 .. w - 1 /\ ring \in [0 .. RingSize - 1 -> Nat]
    <3>1. i \in 0 .. w - 1
      <4>1. w \in Nat \ {0} /\ ctl.index \in 0 .. w - 1
        BY <2>0, <2>1
      <4> HIDE DEF w
      <4> QED BY <4>1
    <3> HIDE DEF i, w
    <3>2. i \in 0 .. RingSize - 1
      BY <3>1, <2>0
    <3>3. ring \in [0 .. RingSize - 1 -> Nat]
      BY <3>2, <1>1, <2>1
    <3> QED BY <3>1, <3>3
  <2>k. \A k \in 0 .. w - 1 : k \in 0 .. RingSize - 1
    BY <2>0
  <2>5. RingPlace(w - 1) = i
    BY <2>0, <2>1 DEF RingPlace
  <2>6. ASSUME NEW k \in 1 .. w - 1
        PROVE  /\ RingPlace(k)' = RingPlace(k - 1) /\ RingPlace(k - 1) # i
               /\ RingPlace(k - 1) \in 0 .. w - 1
    <3>1. k \in Nat /\ k >= 1 /\ k <= w - 1 /\ ctl.index \in Nat /\ ctl.index <= w - 1 /\ w \in Nat
      BY <2>0, <2>1
    <3>2. RingPlace(k)' = IF k <= i THEN i - k ELSE i - k + w
      BY <1>1, <2>3 DEF RingPlace
    <3>3. RingPlace(k - 1) = IF k - 1 <= ctl.index THEN ctl.index - (k - 1) ELSE ctl.index - (k - 1) + w
      BY DEF RingPlace
    <3>4. CASE ctl.index + 1 >= w
      <4>1. i = 0 /\ ctl.index = w - 1
        BY <3>1, <3>4
      <4> QED BY <4>1, <3>1, <3>2, <3>3
    <3>5. CASE ~(ctl.index + 1 >= w)
      <4>1. i = ctl.index + 1
        BY <3>5
      <4> HIDE DEF i
      <4> QED BY <4>1, <3>5, <3>1, <3>2, <3>3
    <3> QED BY <3>4, <3>5
  <2>7. RingPlace(0)' = i
    BY <1>1, <2>3, <2>4 DEF RingPlace
  <2>8. Recent(0)' = n
    BY <1>1, <1>2 DEF Recent
  <2>9. ASSUME NEW k \in 1 .. w - 1
        PROVE  Recent(k)' = Recent(k - 1)
    <3>1. CASE k - 1 < Len(totals)
      <4>1. Len(totals) - (k - 1) \in 1 .. Len(totals) /\ Len(totals') - k = Len(totals) - (k - 1)
        BY <3>1, <1>2
      <4>2. k < Len(totals')
        BY <3>1, <1>2
      <4>3. Recent(k)' = totals'[Len(totals') - k] /\ Recent(k - 1) = totals[Len(totals) - (k - 1)]
        BY <3>1, <4>2 DEF Recent
      <4> QED BY <4>1, <4>3, <1>2
    <3>2. CASE ~(k - 1 < Len(totals))
      BY <3>2, <1>2 DEF Recent
    <3> QED BY <3>1, <3>2
  <2>10. \A k \in 0 .. w - 1 : Recent(k) \in Nat /\ Recent(k)' \in Nat
    BY <1>1, <1>2 DEF Recent
  <2>11. /\ Window \in [0 .. w - 1 -> Nat] /\ Window' \in [0 .. w - 1 -> Nat]
         /\ \A k \in 0 .. w - 1 : Window[k] = Recent(k) /\ Window'[k] = Recent(k)'
    BY <1>1, <2>10 DEF Window
  <2> HIDE DEF w, n, i, ring
  <2>12. \A k \in 0 .. w - 1 : ring[RingPlace(k)'] = Recent(k)'
    <3> TAKE k \in 0 .. w - 1
    <3>1. CASE k = 0
      BY <3>1, <2>1, <2>4, <2>k, <2>7, <2>8 DEF ring
    <3>2. CASE k # 0
      <4>1. k \in 1 .. w - 1 /\ k - 1 \in 0 .. w - 1
        BY <3>2, <1>1
      <4>2. ring[RingPlace(k - 1)] = ctl.ring[RingPlace(k - 1)]
        BY <4>1, <2>1, <2>6, <2>k DEF ring
      <4> QED BY <4>1, <4>2, <2>1, <2>6, <2>9
    <3> QED BY <3>1, <3>2
  <2>13. SumTo(ring, w) = SumTo(Window', w)
    <3>1. SumTo(ring, w) + ctl.ring[i] = SumTo(ctl.ring, w) + n
      <4>1. w \in Nat /\ i \in 0 .. w - 1 /\ n \in Nat
        BY <1>1, <2>1, <2>4
      <4>2. \A k \in 0 .. w - 1 : ctl.ring[k] \in Nat
        BY <2>1, <2>k
      <4>3. ring[i] = n /\ \A j \in 0 .. w - 1 : j # i => ring[j] = ctl.ring[j]
        BY <2>1, <2>4, <2>k DEF ring
      <4> QED BY ONLY <4>1, <4>2, <4>3, SumReplaced
    <3>2. SumTo(Window', w) + Window[w - 1] = SumTo(Window, w) + Window'[0]
      <4>1. \A k \in 1 .. w - 1 : Window'[k] = Window[k - 1]
        <5> TAKE k \in 1 .. w - 1
        <5>1. k \in 0 .. w - 1 /\ k - 1 \in 0 .. w - 1
          BY <1>1
        <5> QED BY <5>1, <2>9, <2>11
      <4> QED BY <2>0, <2>11, <4>1, SumShifted
    <3>3. w - 1 \in 0 .. w - 1 /\ 0 \in 0 .. w - 1 /\ w \in 0 .. w /\ w \in Nat
      BY <2>0
    <3>4. Window[w - 1] = ctl.ring[i] /\ Window'[0] = n
      BY <3>3, <2>1, <2>5, <2>8, <2>11
    <3>5. /\ SumTo(ring, w) \in Nat /\ SumTo(Window', w) \in Nat
          /\ SumTo(ctl.ring, w) \in Nat /\ ctl.ring[i] \in Nat
      <4>1. \A k \in 0 .. w - 1 : /\ ring[k] \in Nat /\ ctl.ring[k] \in Nat
                                 /\ Window'[k] \in Nat
        BY <2>1, <2>4, <2>k, <2>11
      <4> QED BY <3>3, <4>1, <2>4, SumIsNumber
    <3> DEFINE a == SumTo(ring, w)  b == SumTo(Window', w)  c == SumTo(ctl.ring, w)  d == ctl.ring[i]
    <3>6. a + d = c + n /\ b + d = c + n /\ {a, b, c, d, n} \subseteq Nat
      BY <3>1, <3>2, <3>4, <3>5, <2>1, <1>1
    <3> HIDE DEF a, b, c, d
    <3>7. a = b
      BY <3>6
    <3> QED BY <3>7 DEF a, b
  <2>14. RingKeepsWindow'
    BY <1>1, <1>2, <2>3, <2>4, <2>12, <2>13 DEF RingKeepsWindow, Fits, w
  <2>15. RateLimitExact'
    <3> DEFINE Until(newest) == [k \in 0 .. set.window - 1 |-> totals[newest - k]]
               UntilNow(newest) == [k \in 0 .. set.window - 1 |-> totals'[newest - k]]
               Above(s) == SumTo(s, set.window) \div set.window > set.limit
    <3>1. ctl.exceeded <=> \E newest \in w .. Len(totals) : Above(Until(newest))
      BY <2>0 DEF LimitInv, RateLimitExact, w
    <3>2. ASSUME NEW newest \in w .. Len(totals)
          PROVE  UntilNow(newest) = Until(newest)
      <4>1. \A k \in 0 .. w - 1 : newest - k \in 1 .. Len(totals)
        BY <2>0, <1>2
      <4> QED BY <4>1, <1>1, <1>2 DEF w
    <3>3. ASSUME Len(totals') >= w
          PROVE  UntilNow(Len(totals')) = Window'
      <4>1. \A k \in 0 .. w - 1 : k < Len(totals')
        BY <3>3, <1>1, <1>2
      <4>2. \A k \in 0 .. w - 1 : Recent(k)' = totals'[Len(totals') - k]
        BY <4>1 DEF Recent
      <4>3. Window' = [k \in 0 .. w - 1 |-> Recent(k)']
        BY <1>1 DEF Window, w
      <4>4. UntilNow(Len(totals')) = [k \in 0 .. w - 1 |-> totals'[Len(totals') - k]]
        BY <1>1 DEF w
      <4> HIDE DEF UntilNow
      <4> QED BY <4>2, <4>3, <4>4
    <3>4. \A newest \in w .. Len(totals') : newest \in w .. Len(totals) \/ newest = Len(totals')
      BY <1>1, <1>2
    <3>5. \A newest \in w .. Len(totals) : newest \in w .. Len(totals')
      BY <1>1, <1>2
    <3>6. Len(totals') >= w <=> Len(totals') \in w .. Len(totals')
      BY <1>1, <1>2
    <3>7. ctl'.exceeded <=> ctl.exceeded \/ (Len(totals') >= w /\ Above(Window'))
      BY <2>3, <2>13, <1>2 DEF w
    <3>8. ctl'.exceeded <=> \E newest \in w .. Len(totals') : Above(UntilNow(newest))
      <4> DEFINE A(newest) == Above(Until(newest))  B(newest) == Above(UntilNow(newest))
      <4>1. \A newest \in w .. Len(totals) : B(newest) <=> A(newest)
        BY <3>2
      <4>2. Len(totals') >= w => (B(Len(totals')) <=> Above(Window'))
        BY <3>3
      <4>3. ctl.exceeded <=> \E newest \in w .. Len(totals) : A(newest)
        BY <3>1
      <4> HIDE DEF A, B, Above
      <4> QED BY <4>1, <4>2, <4>3, <3>4, <3>5, <3>6, <3>7 DEF B
    <3> QED BY <3>8, <1>1 DEF RateLimitExact, w
  <2> QED BY <1>3, <1>4, <2>14, <2>15 DEF LimitInv
<1> QED BY <1>5, <1>6

\* The limit and the sums hold for every window, limit and number of intervals.
LEMMA NextLimit == ASSUME LimitInv, [RateNext]_rateVars PROVE LimitInv'
<1>1. RateInv'
  BY NextRateInv DEF LimitInv
<1>2. CASE StartStream
  BY <1>1, <1>2, StartLimit
<1>3. CASE TakeInterval
  BY <1>1, <1>3, IntervalLimit
<1>4. CASE SendThread \/ RateTick
  <2>1. UNCHANGED <<set, ctl, totals>> /\ send.pc # "new" /\ send'.pc # "new"
    <3>1. RateInv /\ send \in Sends
      BY RateFields DEF LimitInv
    <3>2. CASE BeginSend BY <3>2 DEF BeginSend
    <3>3. CASE EndSend BY <3>1, <3>3 DEF EndSend, Sends
    <3>4. CASE CheckThrottle BY <3>1, <3>4 DEF CheckThrottle, Throttled, Continue, Sends
    <3>5. CASE WakeUp BY <3>1, <3>5 DEF WakeUp, Sends
    <3>6. CASE \E r \in 1 .. BlockSize : WritePart(r) BY <3>1, <3>6 DEF WritePart, Sends
    <3>7. CASE \E r \in 1 .. BlockSize : ReadPart(r) BY <3>1, <3>7 DEF ReadPart, Sends
    <3>8. CASE CountPart
      <4>1. UNCHANGED <<set, ctl, totals>> /\ send.pc = "count"
        BY <3>8 DEF CountPart
      <4>2. send' = [pc |-> IF PerMessage THEN "throttle message" ELSE "send",
                     left |-> send.left - 1, sent |-> TRUE, r |-> 0]
        BY <3>8 DEF CountPart
      <4>3. send'.pc = IF PerMessage THEN "throttle message" ELSE "send"
        BY ONLY <4>2
      <4> QED BY <4>1, <4>3
    <3>9. CASE CountRead BY <3>1, <3>9 DEF CountRead, Sends
    <3>10. CASE \E r \in 1 .. BlockSize : WritePart(r) \/ ReadPart(r) BY <3>6, <3>7, <3>10
    <3>11. CASE RateTick BY <3>11 DEF RateTick
    <3> QED BY <1>4, <3>2, <3>3, <3>4, <3>5, <3>8, <3>9, <3>10, <3>11 DEF SendThread
  <2> QED BY <1>1, <2>1, LimitKept DEF LimitInv, LimitTypeOK
<1>5. CASE OmitOver \/ OmitStream \/ EndByQuota
  <2>1. /\ UNCHANGED <<set, send, totals>>
        /\ \/ ctl' = [ctl EXCEPT !.omitting = FALSE, !.resetting = TRUE]
           \/ ctl' = [ctl EXCEPT !.resetting = FALSE]
           \/ ctl' = [ctl EXCEPT !.done = TRUE] /\ send.pc # "new"
    BY <1>5 DEF OmitOver, OmitStream, EndByQuota
  <2>2. LimitTypeOK'
    BY <2>1 DEF LimitInv, LimitTypeOK
  <2> QED BY <1>1, <2>1, <2>2, LimitKept DEF LimitInv, LimitTypeOK
<1>6. CASE UNCHANGED rateVars
  BY <1>1, <1>6 DEF rateVars, LimitInv, LimitTypeOK, LimitUnused, RingKeepsWindow, RateLimitExact,
     Fits, Window, Recent, RingPlace
<1> QED BY <1>2, <1>3, <1>4, <1>5, <1>6 DEF RateNext

\* The limit of a server is exceeded when, and only when, the mean of as many
\* consecutive intervals as the window has is above it (iperf_check_total_rate), for
\* every size of the ring and every window that fits in it.
THEOREM RateLimitExactAlways == RateSpec => []RateLimitExact
<1>1. LimitInv /\ [RateNext]_rateVars => LimitInv'
  BY NextLimit
<1>2. LimitInv => RateLimitExact
  BY DEF LimitInv
<1> QED BY InitLimit, <1>1, <1>2, PTL DEF RateSpec
----------------------------------------------------------------------------
(***************************************************************************)
(* What a receiving UDP stream counts as lost is lost, and stays omitted   *)
(* if it was lost in the omit period, for any number of datagrams, lost,   *)
(* reordered and duplicated in any way, and between any steps of the main  *)
(* thread; the intervals that thread reports add up to what was received.  *)
(***************************************************************************)
Counters == [packet_count : Nat, cnt_error : Nat, outoforder : Nat,
             omitted_packets : Nat, omitted_errors : Nat,
             bytes_received : Nat, this_interval : Nat]
Sender == [packet_count : Nat, bytes_sent : Nat]
Worker == [pc : {"recv", "interval", "sequence", "highest"}, n : Nat]

UdpTypeOK ==
  /\ snd \in Sender
  /\ rcv \in Counters /\ wrk \in Worker /\ dups \in Nat
  /\ got \subseteq 1 .. snd.packet_count

Lost == Cardinality(Missing(1, rcv.packet_count))

\* Between two datagrams: none is above the highest number.
Between ==
  wrk.pc = "recv" =>
    /\ got \subseteq 1 .. rcv.packet_count
    /\ rcv.cnt_error <= Lost /\ (dups = 0 => rcv.cnt_error = Lost)

\* A datagram was read, and not yet looked at: one from below the highest number
\* is still counted as lost, unless it came twice.
NotLookedAt ==
  wrk.pc \in {"interval", "sequence"} =>
    /\ wrk.n \in got /\ wrk.n # 0 /\ got \subseteq (1 .. rcv.packet_count) \cup {wrk.n}
    /\ wrk.n > rcv.packet_count =>
         rcv.cnt_error <= Lost /\ (dups = 0 => rcv.cnt_error = Lost)
    /\ wrk.n <= rcv.packet_count =>
         rcv.cnt_error <= Lost + 1 /\ (dups = 0 => rcv.cnt_error = Lost + 1)

\* The gap before it was counted, the highest number is not set.
GapCounted ==
  wrk.pc = "highest" =>
    /\ wrk.n \in got /\ wrk.n > rcv.packet_count
    /\ got \subseteq (1 .. rcv.packet_count) \cup {wrk.n}
    /\ rcv.cnt_error <= Cardinality(Missing(1, wrk.n))
    /\ dups = 0 => rcv.cnt_error = Cardinality(Missing(1, wrk.n))

UdpInv == UdpTypeOK /\ Between /\ NotLookedAt /\ GapCounted

----------------------------------------------------------------------------
(* The datagrams from f to k that are not among those in g.                  *)
Miss(g, f, k) == {n \in f .. k : n \notin g}

\* They can be counted.
LEMMA MissCount ==
  ASSUME NEW g, NEW f \in Nat, NEW k \in Nat
  PROVE  IsFiniteSet(Miss(g, f, k)) /\ Cardinality(Miss(g, f, k)) \in Nat
<1>1. IsFiniteSet(f .. k)
  BY FS_Interval
<1>2. Miss(g, f, k) \in SUBSET (f .. k)
  BY DEF Miss
<1>3. IsFiniteSet(Miss(g, f, k))
  BY <1>1, <1>2, FS_Subset
<1> QED BY <1>3, FS_CardinalityType

\* One that is not between them changes nothing, nor one that had arrived.
LEMMA MissSame ==
  ASSUME NEW g, NEW f \in Nat, NEW k \in Nat, NEW n \in Nat, n < f \/ n > k \/ n \in g
  PROVE  Miss(g \cup {n}, f, k) = Miss(g, f, k)
BY DEF Miss

\* A late one is missing no more.
LEMMA MissFound ==
  ASSUME NEW g, NEW f \in Nat, NEW k \in Nat, NEW n \in f .. k, n \notin g
  PROVE  Cardinality(Miss(g \cup {n}, f, k)) = Cardinality(Miss(g, f, k)) - 1
<1>1. Miss(g \cup {n}, f, k) = Miss(g, f, k) \ {n} /\ n \in Miss(g, f, k)
  BY DEF Miss
<1> QED BY <1>1, MissCount, FS_RemoveElement

\* Those between the highest one so far and a new one are missing as well.
LEMMA MissGap ==
  ASSUME NEW g, NEW f \in Nat, NEW k \in Nat, NEW n \in Nat, f <= k + 1,
         n > k, n \in g, g \subseteq (1 .. k) \cup {n}
  PROVE  Cardinality(Miss(g, f, n)) = Cardinality(Miss(g, f, k)) + (n - 1 - k)
<1> DEFINE gap == (k + 1) .. (n - 1)
<1>1. Miss(g, f, n) = Miss(g, f, k) \cup gap
  BY DEF Miss
<1>2. Miss(g, f, k) \cap gap = {}
  BY DEF Miss
<1>3. IsFiniteSet(gap) /\ Cardinality(gap) = n - 1 - k
  <2>1. /\ IsFiniteSet((k + 1) .. (n - 1))
        /\ Cardinality((k + 1) .. (n - 1)) = IF k + 1 > n - 1 THEN 0 ELSE (n - 1) - (k + 1) + 1
    BY FS_Interval
  <2> QED BY <2>1
<1>4. Cardinality(Miss(g, f, k) \cup gap)
        = Cardinality(Miss(g, f, k)) + Cardinality(gap) - Cardinality(Miss(g, f, k) \cap gap)
  BY <1>3, MissCount, FS_Union
<1>5. Cardinality(Miss(g, f, k) \cap gap) = 0
  BY <1>2, FS_EmptySet
<1> QED
  <2> HIDE DEF gap
  <2>1. Cardinality(Miss(g, f, k)) \in Nat
    BY MissCount
  <2> QED BY <1>1, <1>3, <1>4, <1>5, <2>1

----------------------------------------------------------------------------
\* The types of the fields.
LEMMA CounterFields ==
  ASSUME UdpInv
  PROVE  /\ snd \in Sender /\ snd.packet_count \in Nat /\ snd.bytes_sent \in Nat
         /\ rcv \in Counters /\ rcv.packet_count \in Nat /\ rcv.cnt_error \in Nat
         /\ rcv.bytes_received \in Nat /\ rcv.this_interval \in Nat /\ rcv.outoforder \in Nat
         /\ wrk \in Worker /\ wrk.n \in Nat
         /\ dups \in Nat /\ got \subseteq 1 .. snd.packet_count
         /\ Lost \in Nat /\ Lost = Cardinality(Miss(got, 1, rcv.packet_count))
<1>1. rcv.packet_count \in Nat
  BY DEF UdpInv, UdpTypeOK, Counters
<1>2. Lost = Cardinality(Miss(got, 1, rcv.packet_count))
  BY DEF Lost, Missing, Miss
<1> QED BY <1>1, <1>2, MissCount DEF UdpInv, UdpTypeOK, Counters, Sender, Worker

\* What keeps the counters of packets and losses, the datagrams and the thread
\* keeps the invariant.
LEMMA Kept ==
  ASSUME UdpInv, rcv' \in Counters, rcv'.packet_count = rcv.packet_count,
         rcv'.cnt_error = rcv.cnt_error, UNCHANGED <<got, dups, wrk>>,
         snd' \in Sender, snd'.packet_count >= snd.packet_count
  PROVE  UdpInv'
<1>1. got \subseteq 1 .. snd'.packet_count
  <2>1. snd'.packet_count \in Nat
    BY DEF Sender
  <2> QED BY <2>1, CounterFields
<1>2. UdpTypeOK'
  BY <1>1 DEF UdpInv, UdpTypeOK
<1>3. Lost' = Lost /\ \A k : Missing(1, k)' = Missing(1, k)
  BY DEF Lost, Missing
<1> QED BY <1>2, <1>3 DEF UdpInv, Between, NotLookedAt, GapCounted

\* Nothing has been sent or received.
LEMMA InitUdpInv == UdpInit => UdpInv
<1> SUFFICES ASSUME UdpInit PROVE UdpInv
  OBVIOUS
<1>1. UdpTypeOK
  BY DEF UdpInit, UdpTypeOK, Counters, Sender, Worker
<1>2. wrk.pc = "recv" /\ rcv.packet_count = 0 /\ rcv.cnt_error = 0 /\ got = {}
  BY DEF UdpInit
<1>3. Missing(1, rcv.packet_count) = {}
  BY <1>2 DEF Missing
<1>4. Lost = 0
  BY <1>3, FS_EmptySet DEF Lost
<1> QED BY <1>1, <1>2, <1>4 DEF UdpInv, Between, NotLookedAt, GapCounted

\* A datagram is sent, or cannot be written.
LEMMA SendStep == ASSUME UdpInv, NEW written \in BOOLEAN, UdpSend(written) PROVE UdpInv'
<1>1. UNCHANGED <<rcv, wrk, got, dups>>
  BY DEF UdpSend
<1>2. PICK p \in Nat, b \in Nat :
        snd' = [snd EXCEPT !.packet_count = p, !.bytes_sent = b] /\ p >= snd.packet_count
  <2> DEFINE p == IF written THEN snd.packet_count + 1 ELSE (snd.packet_count + 1) - 1
             b == IF written THEN snd.bytes_sent + 1 ELSE snd.bytes_sent
  <2>1. snd' = [snd EXCEPT !.packet_count = p, !.bytes_sent = b]
    BY DEF UdpSend
  <2>2. p \in Nat /\ b \in Nat /\ p >= snd.packet_count
    BY CounterFields
  <2> HIDE DEF p, b
  <2> QED BY <2>1, <2>2
<1>3. snd' \in Sender /\ snd'.packet_count = p
  BY <1>2, CounterFields DEF Sender
<1>4. snd'.packet_count >= snd.packet_count
  BY <1>2, <1>3
<1>5. rcv' \in Counters /\ rcv'.packet_count = rcv.packet_count /\ rcv'.cnt_error = rcv.cnt_error
  BY <1>1, CounterFields
<1> QED BY <1>1, <1>3, <1>4, <1>5, Kept

\* A datagram arrives.
LEMMA DatagramStep == ASSUME UdpInv, NEW n \in 1 .. MaxPackets, UdpReceive(n) PROVE UdpInv'
<1> DEFINE k == rcv.packet_count
<1>1. wrk.pc = "recv" /\ n \in 1 .. snd.packet_count /\ n \in Nat /\ UNCHANGED snd
  BY UdpAssumption DEF UdpReceive
<1>2. got' = got \cup {n} /\ IF n \in got THEN dups' = dups + 1 ELSE dups' = dups
  BY DEF UdpReceive
<1>3. wrk' = [pc |-> "interval", n |-> n]
  BY DEF UdpReceive
<1>4. rcv' = [rcv EXCEPT !.bytes_received = @ + 1]
  BY DEF UdpReceive
<1>5. rcv' \in Counters /\ rcv'.packet_count = k /\ rcv'.cnt_error = rcv.cnt_error
  BY <1>4, CounterFields DEF Counters
<1>6. wrk' \in Worker /\ wrk'.pc = "interval" /\ wrk'.n = n
  BY <1>1, <1>3 DEF Worker
<1>7. UdpTypeOK'
  BY <1>1, <1>2, <1>5, <1>6, CounterFields DEF UdpTypeOK
<1>8. got \subseteq 1 .. k /\ rcv.cnt_error <= Lost /\ (dups = 0 => rcv.cnt_error = Lost)
  BY <1>1 DEF UdpInv, Between
<1>9. Lost' = Cardinality(Miss(got \cup {n}, 1, k))
  BY <1>2, <1>5 DEF Lost, Missing, Miss
<1>10. Lost = Cardinality(Miss(got, 1, k)) /\ Lost \in Nat /\ k \in Nat /\ rcv.cnt_error \in Nat
       /\ dups \in Nat
  BY CounterFields
<1>11. n > k => rcv.cnt_error <= Lost' /\ (dups' = 0 => rcv.cnt_error = Lost')
  <2> SUFFICES ASSUME n > k PROVE rcv.cnt_error <= Lost' /\ (dups' = 0 => rcv.cnt_error = Lost')
    OBVIOUS
  <2>1. Lost' = Lost
    BY <1>1, <1>9, <1>10, MissSame
  <2>2. n \notin got
    BY <1>1, <1>8, <1>10
  <2> QED BY <1>2, <1>8, <2>1, <2>2
<1>12. n <= k => rcv.cnt_error <= Lost' + 1 /\ (dups' = 0 => rcv.cnt_error = Lost' + 1)
  <2> SUFFICES ASSUME n <= k
               PROVE rcv.cnt_error <= Lost' + 1 /\ (dups' = 0 => rcv.cnt_error = Lost' + 1)
    OBVIOUS
  <2>1. CASE n \in got
    <3>1. Lost' = Lost
      BY <1>1, <1>9, <1>10, <2>1, MissSame
    <3> QED BY <1>2, <1>8, <1>10, <2>1, <3>1
  <2>2. CASE n \notin got
    <3>1. Lost' = Lost - 1
      BY <1>1, <1>9, <1>10, <2>2, MissFound
    <3> QED BY <1>2, <1>8, <1>10, <2>2, <3>1
  <2> QED BY <2>1, <2>2
<1>13. NotLookedAt'
  BY <1>1, <1>2, <1>5, <1>6, <1>8, <1>11, <1>12 DEF NotLookedAt
<1> QED BY <1>6, <1>7, <1>13 DEF UdpInv, Between, GapCounted

\* The bytes of the interval.
LEMMA IntervalStep == ASSUME UdpInv, AddToInterval PROVE UdpInv'
<1>1. wrk.pc = "interval" /\ UNCHANGED <<snd, got, dups>>
  BY DEF AddToInterval
<1>2. rcv' = [rcv EXCEPT !.this_interval = @ + 1]
  BY DEF AddToInterval
<1>3. wrk' = [wrk EXCEPT !.pc = "sequence"]
  BY DEF AddToInterval
<1>4. rcv' \in Counters /\ rcv'.packet_count = rcv.packet_count /\ rcv'.cnt_error = rcv.cnt_error
  BY <1>2, CounterFields DEF Counters
<1>5. wrk' \in Worker /\ wrk'.pc = "sequence" /\ wrk'.n = wrk.n
  BY <1>3, CounterFields DEF Worker
<1>6. UdpTypeOK'
  BY <1>1, <1>4, <1>5, CounterFields DEF UdpTypeOK
<1>7. Lost' = Lost
  BY <1>1, <1>4 DEF Lost, Missing
<1>8. NotLookedAt'
  BY <1>1, <1>4, <1>5, <1>7 DEF UdpInv, NotLookedAt
<1> QED BY <1>5, <1>6, <1>8 DEF UdpInv, Between, GapCounted

\* A datagram above the highest: those skipped are lost for now.
LEMMA GapStep == ASSUME UdpInv, CountGap PROVE UdpInv'
<1> DEFINE n == wrk.n
           k == rcv.packet_count
           e == rcv.cnt_error + (n - 1 - k)
<1>1. wrk.pc = "sequence" /\ n >= k + 1 /\ UNCHANGED <<snd, got, dups>>
  BY DEF CountGap, Forward
<1>2. rcv' = [rcv EXCEPT !.cnt_error = e]
  BY DEF CountGap
<1>3. wrk' = [wrk EXCEPT !.pc = "highest"]
  BY DEF CountGap
<1>4. n \in Nat /\ k \in Nat /\ rcv.cnt_error \in Nat /\ e \in Nat /\ n > k
  BY <1>1, CounterFields
<1>5. rcv' \in Counters /\ rcv'.packet_count = k /\ rcv'.cnt_error = e
  BY <1>2, <1>4, CounterFields DEF Counters
<1>6. wrk' \in Worker /\ wrk'.pc = "highest" /\ wrk'.n = n
  BY <1>3, CounterFields DEF Worker
<1>7. UdpTypeOK'
  BY <1>1, <1>5, <1>6, CounterFields DEF UdpTypeOK
<1>8. /\ n \in got /\ got \subseteq (1 .. k) \cup {n}
      /\ rcv.cnt_error <= Lost /\ (dups = 0 => rcv.cnt_error = Lost)
  BY <1>1, <1>4 DEF UdpInv, NotLookedAt
<1>9. Cardinality(Miss(got, 1, n)) = Lost + (n - 1 - k) /\ Lost \in Nat
  <2>1. Lost = Cardinality(Miss(got, 1, k)) /\ Lost \in Nat
    BY CounterFields
  <2> HIDE DEF n, k
  <2>2. 1 \in Nat /\ 1 <= k + 1
    BY <1>4
  <2>3. Cardinality(Miss(got, 1, n)) = Cardinality(Miss(got, 1, k)) + (n - 1 - k)
    BY ZenonT(40), <1>4, <1>8, <2>2, MissGap
  <2> QED BY <2>1, <2>3
<1>10. Missing(1, wrk.n)' = Miss(got, 1, n)
  BY <1>1, <1>6 DEF Missing, Miss
<1>11. e <= Lost + (n - 1 - k) /\ (dups = 0 => e = Lost + (n - 1 - k))
  BY <1>4, <1>8, <1>9
<1>12. GapCounted'
  <2>1. Cardinality(Missing(1, wrk.n))' = Lost + (n - 1 - k)
    BY <1>9, <1>10
  <2> QED BY <1>1, <1>4, <1>5, <1>6, <1>8, <1>11, <2>1 DEF GapCounted
<1> QED BY <1>6, <1>7, <1>12 DEF UdpInv, Between, NotLookedAt

\* The highest number is set.
LEMMA HighestStep == ASSUME UdpInv, SetHighest PROVE UdpInv'
<1> DEFINE n == wrk.n
<1>1. wrk.pc = "highest" /\ UNCHANGED <<snd, got, dups>>
  BY DEF SetHighest
<1>2. rcv' = [rcv EXCEPT !.packet_count = n]
  BY DEF SetHighest
<1>3. wrk' = [pc |-> "recv", n |-> 0]
  BY DEF SetHighest
<1>4. rcv' \in Counters /\ rcv'.packet_count = n /\ rcv'.cnt_error = rcv.cnt_error
  BY <1>2, CounterFields DEF Counters
<1>5. wrk' \in Worker /\ wrk'.pc = "recv"
  BY <1>3 DEF Worker
<1>6. UdpTypeOK'
  BY <1>1, <1>4, <1>5, CounterFields DEF UdpTypeOK
<1>7. /\ n > rcv.packet_count /\ got \subseteq (1 .. rcv.packet_count) \cup {n}
      /\ rcv.cnt_error <= Cardinality(Missing(1, n))
      /\ dups = 0 => rcv.cnt_error = Cardinality(Missing(1, n))
  BY <1>1 DEF UdpInv, GapCounted
<1>8. got \subseteq 1 .. n
  BY <1>7, CounterFields
<1>9. Lost' = Cardinality(Missing(1, n))
  BY <1>1, <1>4 DEF Lost, Missing
<1>10. Between'
  BY <1>1, <1>4, <1>7, <1>8, <1>9 DEF Between
<1> QED BY <1>5, <1>6, <1>10 DEF UdpInv, NotLookedAt, GapCounted

\* A late datagram takes a loss back.
LEMMA LateStep == ASSUME UdpInv, CountOutOfOrder PROVE UdpInv'
<1> DEFINE n == wrk.n
           k == rcv.packet_count
           e == IF rcv.cnt_error > 0 THEN rcv.cnt_error - 1 ELSE rcv.cnt_error
<1>1. wrk.pc = "sequence" /\ ~(n >= k + 1) /\ UNCHANGED <<snd, got, dups>>
  BY DEF CountOutOfOrder, Forward
<1>2. rcv' = [rcv EXCEPT !.outoforder = @ + 1, !.cnt_error = e]
  BY DEF CountOutOfOrder
<1>3. wrk' = [pc |-> "recv", n |-> 0]
  BY DEF CountOutOfOrder
<1>4. n \in Nat /\ k \in Nat /\ rcv.cnt_error \in Nat /\ e \in Nat /\ n <= k
  BY <1>1, CounterFields
<1>5. rcv' \in Counters /\ rcv'.packet_count = k /\ rcv'.cnt_error = e
  <2>1. rcv.outoforder + 1 \in Nat /\ rcv \in Counters
    BY CounterFields
  <2> HIDE DEF e
  <2> QED BY <1>2, <1>4, <2>1 DEF Counters
<1>6. wrk' \in Worker /\ wrk'.pc = "recv"
  BY <1>3 DEF Worker
<1>7. UdpTypeOK'
  BY <1>1, <1>5, <1>6, CounterFields DEF UdpTypeOK
<1>8. /\ n # 0 /\ got \subseteq (1 .. k) \cup {n}
      /\ rcv.cnt_error <= Lost + 1 /\ (dups = 0 => rcv.cnt_error = Lost + 1)
  BY <1>1, <1>4 DEF UdpInv, NotLookedAt
<1>9. got \subseteq 1 .. k
  BY <1>4, <1>8
<1>10. Lost' = Lost /\ Lost \in Nat
  BY <1>1, <1>5, CounterFields DEF Lost, Missing
<1>11. e <= Lost /\ (dups = 0 => e = Lost)
  BY <1>4, <1>8, <1>10
<1>12. Between'
  BY <1>1, <1>5, <1>9, <1>10, <1>11 DEF Between
<1> QED BY <1>6, <1>7, <1>12 DEF UdpInv, NotLookedAt, GapCounted

\* The main thread changes other counters.
LEMMA ReportStep == ASSUME UdpInv, Reporting \/ TestRunning PROVE UdpInv'
<1>1. UNCHANGED <<snd, wrk, got, dups>>
  BY DEF Reporting, TestRunning, BeginInterval, TakeDifferences, TakeBase, EndInterval,
         OmitEnds, OmitErrors, OmitInterval
<1>2. \/ rcv' = rcv
      \/ rcv' = [rcv EXCEPT !.this_interval = 0]
      \/ rcv' = [rcv EXCEPT !.omitted_packets = rcv.packet_count]
      \/ rcv' = [rcv EXCEPT !.omitted_errors = rcv.cnt_error, !.bytes_received = 0]
  BY DEF Reporting, TestRunning, BeginInterval, TakeDifferences, TakeBase, EndInterval,
         OmitEnds, OmitErrors, OmitInterval
<1>3. rcv' \in Counters /\ rcv'.packet_count = rcv.packet_count /\ rcv'.cnt_error = rcv.cnt_error
  <2>1. rcv \in Counters
    BY CounterFields
  <2>2. CASE rcv' = rcv BY <2>1, <2>2
  <2>3. CASE rcv' = [rcv EXCEPT !.this_interval = 0] BY <2>1, <2>3 DEF Counters
  <2>4. CASE rcv' = [rcv EXCEPT !.omitted_packets = rcv.packet_count]
    BY <2>1, <2>4 DEF Counters
  <2>5. CASE rcv' = [rcv EXCEPT !.omitted_errors = rcv.cnt_error, !.bytes_received = 0]
    BY <2>1, <2>5 DEF Counters
  <2> QED BY <1>2, <2>2, <2>3, <2>4, <2>5
<1>4. snd' \in Sender /\ snd'.packet_count >= snd.packet_count
  BY <1>1, CounterFields
<1> QED BY <1>1, <1>3, <1>4, Kept

\* A step that changes nothing.
LEMMA IdleStep == ASSUME UdpInv, UNCHANGED udpVars PROVE UdpInv'
BY DEF UdpInv, UdpTypeOK, Between, NotLookedAt, GapCounted, Lost, Missing, udpVars

\* Every step keeps the invariant.
LEMMA NextUdpInv == ASSUME UdpInv, [UdpNext]_udpVars PROVE UdpInv'
BY SendStep, DatagramStep, IntervalStep, GapStep, HighestStep, LateStep, ReportStep, IdleStep
   DEF UdpNext, Counting

\* Every datagram counted as lost between two datagrams is one that has not
\* arrived, and if none came twice each one that has not is counted, for any
\* number of datagrams and intervals (iperf_udp_recv).
THEOREM LossIsRealAlways == UdpSpec => []LossIsReal
<1>1. UdpInit => UdpInv
  BY InitUdpInv
<1>2. UdpInv /\ [UdpNext]_udpVars => UdpInv'
  BY NextUdpInv
<1>3. UdpInv => LossIsReal
  BY CounterFields DEF UdpInv, Between, LossIsReal, Lost
<1> QED BY <1>1, <1>2, <1>3, PTL DEF UdpSpec
----------------------------------------------------------------------------
(* The omit period. *)

Report == [bytes : Nat, packets : Int, errors : Int]
MainThread == [pc : {"loop", "packets", "base", "clear", "omit errors", "omit interval"},
               temp : Report, omits : {0, 1}, intervals : Nat]
Base == [packet_count : Nat, cnt_error : Nat, taken : BOOLEAN]

MainTypeOK ==
  /\ main \in MainThread /\ irp \in Base /\ sum \in Report /\ raced \in BOOLEAN
  /\ main.pc \in {"omit errors", "omit interval"} => main.omits = 1

\* The omit period is over and its losses are noted.
Omitted == main.omits = 1 /\ main.pc # "omit errors"

\* The datagrams missing in the measured period, up to number k.
MissingSince(k) == Cardinality(Missing(rcv.omitted_packets + 1, k))

\* The losses counted since are missing since; one of them may have arrived and not
\* been looked at.
OmittedKept ==
  /\ rcv.omitted_packets <= rcv.packet_count
  /\ Omitted =>
       LET since == rcv.cnt_error - rcv.omitted_errors
       IN /\ \/ wrk.pc = "recv"
             \/ wrk.pc \in {"interval", "sequence"} /\ wrk.n > rcv.packet_count
             => since <= MissingSince(rcv.packet_count)
          /\ wrk.pc \in {"interval", "sequence"} /\ wrk.n <= rcv.packet_count =>
               since <= MissingSince(rcv.packet_count) + 1
          /\ wrk.pc = "highest" => since <= MissingSince(wrk.n)

----------------------------------------------------------------------------
(* The intervals. *)

\* A datagram that is in the bytes received and not yet in those of the interval.
Halfway == IF wrk.pc = "interval" THEN 1 ELSE 0

\* The omit timer has cleared the bytes received and not those of the interval.
Cleared == main.pc = "omit interval"

InCallback == main.pc \in {"packets", "base", "clear"}

\* What was reported and what will be is no more than what was received.
BytesBounded ==
  /\ ~Cleared =>
       sum.bytes + rcv.this_interval + Halfway <= rcv.bytes_received + main.omits
  /\ Cleared => sum.bytes = 0
  /\ InCallback => main.temp.bytes <= rcv.this_interval

\* As long as the threads have not met, one of them is at rest, and the reports
\* say what the counters say.
ExactIfNotRaced ==
  ~raced =>
    /\ wrk.pc = "recv" \/ main.pc = "loop"
    /\ ~Cleared => sum.bytes + rcv.this_interval + Halfway = rcv.bytes_received
    /\ Cleared => rcv.bytes_received = 0
    /\ InCallback => main.temp.bytes = rcv.this_interval
    /\ main.pc # "clear" => sum.packets = irp.packet_count /\ sum.errors = irp.cnt_error
    /\ main.pc = "base" => /\ main.temp.packets = rcv.packet_count - irp.packet_count
                           /\ main.temp.errors = rcv.cnt_error - irp.cnt_error
    /\ main.pc = "clear" => /\ sum.packets + main.temp.packets = irp.packet_count
                            /\ sum.errors + main.temp.errors = irp.cnt_error

\* The inductive invariant for what is omitted and what is reported.
OInv == UdpInv /\ MainTypeOK /\ OmittedKept /\ BytesBounded /\ ExactIfNotRaced

----------------------------------------------------------------------------
(* What each step does to the counters and to the main thread. *)

\* The receiving stream has these counters next: the highest number, the losses, what
\* was omitted of both, the bytes and those of the interval.
RcvNext(p, e, op, oe, b, i) ==
  /\ rcv'.packet_count = p /\ rcv'.cnt_error = e
  /\ rcv'.omitted_packets = op /\ rcv'.omitted_errors = oe
  /\ rcv'.bytes_received = b /\ rcv'.this_interval = i

\* The main thread stays where it is, with what it has noted.
MainSame == main' = main /\ sum' = sum /\ irp' = irp

\* The types of the fields of the receiver.
LEMMA RcvFields ==
  ASSUME UdpInv
  PROVE  /\ rcv \in Counters
         /\ rcv.packet_count \in Nat /\ rcv.cnt_error \in Nat
         /\ rcv.omitted_packets \in Nat /\ rcv.omitted_errors \in Nat
         /\ rcv.bytes_received \in Nat /\ rcv.this_interval \in Nat
         /\ wrk \in Worker /\ wrk.n \in Nat
         /\ wrk.pc \in {"recv", "interval", "sequence", "highest"}
  BY DEF UdpInv, UdpTypeOK, Counters, Worker

\* And of the main thread.
LEMMA MainFields ==
  ASSUME MainTypeOK
  PROVE  /\ main \in MainThread /\ main.temp \in Report /\ irp \in Base /\ sum \in Report
         /\ main.pc \in {"loop", "packets", "base", "clear", "omit errors", "omit interval"}
         /\ main.omits \in {0, 1} /\ main.intervals \in Nat
         /\ main.temp.bytes \in Nat /\ main.temp.packets \in Int /\ main.temp.errors \in Int
         /\ irp.packet_count \in Nat /\ irp.cnt_error \in Nat
         /\ sum.bytes \in Nat /\ sum.packets \in Int /\ sum.errors \in Int
         /\ raced \in BOOLEAN
  BY DEF MainTypeOK, MainThread, Report, Base

\* The steps of the receiving thread.
LEMMA WorkerEffects ==
  ASSUME UdpInv, Counting
  PROVE  /\ MainSame /\ Met
         /\ \/ \E n \in Nat :
                 /\ wrk.pc = "recv" /\ n \in 1 .. snd.packet_count /\ n # 0
                 /\ got' = got \cup {n} /\ wrk'.pc = "interval" /\ wrk'.n = n
                 /\ RcvNext(rcv.packet_count, rcv.cnt_error, rcv.omitted_packets,
                            rcv.omitted_errors, rcv.bytes_received + 1, rcv.this_interval)
            \/ /\ wrk.pc = "interval" /\ wrk'.pc = "sequence" /\ wrk'.n = wrk.n /\ got' = got
               /\ RcvNext(rcv.packet_count, rcv.cnt_error, rcv.omitted_packets,
                          rcv.omitted_errors, rcv.bytes_received, rcv.this_interval + 1)
            \/ /\ wrk.pc = "sequence" /\ wrk.n > rcv.packet_count
               /\ wrk'.pc = "highest" /\ wrk'.n = wrk.n /\ got' = got
               /\ RcvNext(rcv.packet_count, rcv.cnt_error + (wrk.n - 1 - rcv.packet_count),
                          rcv.omitted_packets, rcv.omitted_errors, rcv.bytes_received,
                          rcv.this_interval)
            \/ /\ wrk.pc = "highest" /\ wrk'.pc = "recv" /\ got' = got
               /\ RcvNext(wrk.n, rcv.cnt_error, rcv.omitted_packets, rcv.omitted_errors,
                          rcv.bytes_received, rcv.this_interval)
            \/ /\ wrk.pc = "sequence" /\ wrk.n <= rcv.packet_count
               /\ wrk'.pc = "recv" /\ got' = got
               /\ RcvNext(rcv.packet_count,
                          IF rcv.cnt_error > 0 THEN rcv.cnt_error - 1 ELSE rcv.cnt_error,
                          rcv.omitted_packets, rcv.omitted_errors, rcv.bytes_received,
                          rcv.this_interval)
<1>1. rcv \in Counters /\ wrk \in Worker
  BY RcvFields
<1>2. rcv.packet_count \in Nat /\ wrk.n \in Nat /\ rcv.cnt_error \in Nat
  BY RcvFields
<1>3. MainSame /\ Met
  BY DEF Counting, AddToInterval, CountGap, SetHighest, CountOutOfOrder, UdpReceive, MainSame
<1>4. CASE \E n \in 1 .. MaxPackets : UdpReceive(n)
  <2>1. PICK n \in 1 .. MaxPackets : UdpReceive(n)
    BY <1>4
  <2>2. /\ wrk.pc = "recv" /\ n \in 1 .. snd.packet_count /\ n \in Nat /\ n # 0
        /\ got' = got \cup {n} /\ wrk' = [pc |-> "interval", n |-> n]
    BY <2>1, UdpAssumption DEF UdpReceive
  <2>3. RcvNext(rcv.packet_count, rcv.cnt_error, rcv.omitted_packets,
                rcv.omitted_errors, rcv.bytes_received + 1, rcv.this_interval)
    BY <1>1, <2>1 DEF UdpReceive, RcvNext, Counters
  <2> QED BY <1>3, <2>2, <2>3
<1>5. CASE AddToInterval
  <2>1. RcvNext(rcv.packet_count, rcv.cnt_error, rcv.omitted_packets,
                rcv.omitted_errors, rcv.bytes_received, rcv.this_interval + 1)
    BY <1>1, <1>5 DEF AddToInterval, RcvNext, Counters
  <2>2. wrk.pc = "interval" /\ wrk'.pc = "sequence" /\ wrk'.n = wrk.n /\ got' = got
    BY <1>1, <1>5 DEF AddToInterval, Worker
  <2> QED BY <1>3, <2>1, <2>2
<1>6. CASE CountGap
  <2>1. RcvNext(rcv.packet_count, rcv.cnt_error + (wrk.n - 1 - rcv.packet_count),
                rcv.omitted_packets, rcv.omitted_errors, rcv.bytes_received,
                rcv.this_interval)
    BY <1>1, <1>6 DEF CountGap, RcvNext, Counters
  <2>2. /\ wrk.pc = "sequence" /\ wrk'.pc = "highest" /\ wrk'.n = wrk.n /\ got' = got
        /\ wrk.n >= rcv.packet_count + 1
    BY <1>1, <1>6 DEF CountGap, Worker, Forward
  <2>3. wrk.n > rcv.packet_count
    BY <1>2, <2>2
  <2> QED BY <1>3, <2>1, <2>2, <2>3
<1>7. CASE SetHighest
  <2>1. RcvNext(wrk.n, rcv.cnt_error, rcv.omitted_packets, rcv.omitted_errors,
                rcv.bytes_received, rcv.this_interval)
    BY <1>1, <1>7 DEF SetHighest, RcvNext, Counters
  <2>2. wrk.pc = "highest" /\ wrk'.pc = "recv" /\ got' = got
    BY <1>7 DEF SetHighest
  <2> QED BY <1>3, <2>1, <2>2
<1>8. CASE CountOutOfOrder
  <2> DEFINE e == IF rcv.cnt_error > 0 THEN rcv.cnt_error - 1 ELSE rcv.cnt_error
  <2>1. rcv' = [rcv EXCEPT !.outoforder = @ + 1, !.cnt_error = e]
    BY <1>8 DEF CountOutOfOrder
  <2>2. RcvNext(rcv.packet_count, e, rcv.omitted_packets, rcv.omitted_errors,
                rcv.bytes_received, rcv.this_interval)
    <3> HIDE DEF e
    <3> QED BY <1>1, <2>1 DEF RcvNext, Counters
  <2>3. /\ wrk.pc = "sequence" /\ wrk'.pc = "recv" /\ got' = got
        /\ ~(wrk.n >= rcv.packet_count + 1)
    BY <1>8 DEF CountOutOfOrder, Forward
  <2>4. wrk.n <= rcv.packet_count
    BY <1>2, <2>3
  <2> QED BY <1>3, <2>2, <2>3, <2>4
<1> QED BY <1>4, <1>5, <1>6, <1>7, <1>8 DEF Counting

\* The counters of the receiving stream are as they were.
RcvSame ==
  RcvNext(rcv.packet_count, rcv.cnt_error, rcv.omitted_packets, rcv.omitted_errors,
          rcv.bytes_received, rcv.this_interval)

\* The steps of an interval, in order.
LEMMA IntervalEffects ==
  ASSUME UdpInv, MainTypeOK, BeginInterval \/ TakeDifferences \/ TakeBase \/ EndInterval
  PROVE  /\ UNCHANGED <<wrk, got>> /\ Meets /\ main' \in MainThread /\ irp' \in Base /\ sum' \in Report
         /\ main'.omits = main.omits
         /\ \/ /\ main.pc = "loop" /\ main'.pc = "packets" /\ RcvSame
               /\ main'.temp.bytes = rcv.this_interval /\ sum' = sum /\ irp' = irp
            \/ /\ main.pc = "packets" /\ main'.pc = "base" /\ RcvSame
               /\ main'.temp.bytes = main.temp.bytes
               /\ main'.temp.packets = rcv.packet_count - irp.packet_count
               /\ main'.temp.errors = rcv.cnt_error - irp.cnt_error
               /\ sum' = sum /\ irp' = irp
            \/ /\ main.pc = "base" /\ main'.pc = "clear" /\ RcvSame
               /\ main'.temp = main.temp /\ sum' = sum
               /\ irp'.packet_count = rcv.packet_count /\ irp'.cnt_error = rcv.cnt_error
            \/ /\ main.pc = "clear" /\ main'.pc = "loop"
               /\ RcvNext(rcv.packet_count, rcv.cnt_error, rcv.omitted_packets,
                          rcv.omitted_errors, rcv.bytes_received, 0)
               /\ sum'.bytes = sum.bytes + main.temp.bytes
               /\ sum'.packets = sum.packets + main.temp.packets
               /\ sum'.errors = sum.errors + main.temp.errors
               /\ irp' = irp
<1>0. /\ rcv \in Counters /\ rcv.packet_count \in Nat /\ rcv.cnt_error \in Nat
      /\ rcv.this_interval \in Nat
  BY RcvFields
<1>1. main.intervals \in Nat /\ irp.packet_count \in Nat /\ irp.cnt_error \in Nat
  BY MainFields
<1>2. CASE BeginInterval
  <2> DEFINE r == [NoReport EXCEPT !.bytes = rcv.this_interval]
             k == main.intervals + 1
  <2>1. r \in Report /\ r.bytes = rcv.this_interval
    BY <1>0 DEF NoReport, Report
  <2>2. k \in Nat
    BY <1>1
  <2>3. /\ main.pc = "loop" /\ main' = [main EXCEPT !.pc = "packets", !.intervals = k, !.temp = r]
        /\ UNCHANGED <<rcv, wrk, irp, got, sum>> /\ Meets
    BY <1>2 DEF BeginInterval
  <2> HIDE DEF r, k
  <2>4. main' \in MainThread /\ main'.pc = "packets" /\ main'.temp = r /\ main'.omits = main.omits
    BY <2>1, <2>2, <2>3, MainFields DEF MainThread
  <2>5. RcvSame
    BY <2>3 DEF RcvSame, RcvNext
  <2> QED BY <2>1, <2>3, <2>4, <2>5, MainFields
<1>3. CASE TakeDifferences
  <2> DEFINE p == rcv.packet_count - irp.packet_count
             e == rcv.cnt_error - irp.cnt_error
  <2>1. p \in Int /\ e \in Int
    BY <1>0, <1>1
  <2>2. /\ main.pc = "packets"
        /\ main' = [main EXCEPT !.pc = "base", !.temp.packets = p, !.temp.errors = e]
        /\ UNCHANGED <<rcv, wrk, irp, got, sum>> /\ Meets
    BY <1>3 DEF TakeDifferences
  <2> DEFINE r == [main.temp EXCEPT !.packets = p, !.errors = e]
  <2>3. main' = [main EXCEPT !.pc = "base", !.temp = r]
    BY <2>2, MainFields DEF MainThread
  <2> HIDE DEF p, e
  <2>4. r \in Report /\ r.bytes = main.temp.bytes /\ r.packets = p /\ r.errors = e
    BY <2>1, MainFields DEF Report
  <2> HIDE DEF r
  <2>5. main' \in MainThread /\ main'.pc = "base" /\ main'.temp = r /\ main'.omits = main.omits
    BY <2>3, <2>4, MainFields DEF MainThread
  <2>6. RcvSame
    BY <2>2 DEF RcvSame, RcvNext
  <2> QED BY <2>2, <2>4, <2>5, <2>6, MainFields DEF p, e
<1>4. CASE TakeBase
  <2>1. /\ main.pc = "base" /\ main' = [main EXCEPT !.pc = "clear"]
        /\ irp' = [packet_count |-> rcv.packet_count, cnt_error |-> rcv.cnt_error, taken |-> TRUE]
        /\ UNCHANGED <<rcv, wrk, got, sum>> /\ Meets
    BY <1>4 DEF TakeBase
  <2>2. main' \in MainThread /\ main'.pc = "clear" /\ main'.temp = main.temp /\ main'.omits = main.omits
    BY <2>1, MainFields DEF MainThread
  <2>3. irp' \in Base /\ irp'.packet_count = rcv.packet_count /\ irp'.cnt_error = rcv.cnt_error
    BY <1>0, <2>1 DEF Base
  <2>4. RcvSame
    BY <2>1 DEF RcvSame, RcvNext
  <2> QED BY <2>1, <2>2, <2>3, <2>4, MainFields
<1>5. CASE EndInterval
  <2>1. /\ main.pc = "clear" /\ main' = [main EXCEPT !.pc = "loop", !.temp = NoReport]
        /\ rcv' = [rcv EXCEPT !.this_interval = 0]
        /\ sum' = [bytes |-> sum.bytes + main.temp.bytes,
                   packets |-> sum.packets + main.temp.packets,
                   errors |-> sum.errors + main.temp.errors]
        /\ UNCHANGED <<wrk, irp, got>> /\ Meets
    BY <1>5 DEF EndInterval
  <2>2. NoReport \in Report
    BY DEF NoReport, Report
  <2>3. main' \in MainThread /\ main'.pc = "loop" /\ main'.omits = main.omits
    <3> HIDE DEF NoReport
    <3> QED BY <2>1, <2>2, MainFields DEF MainThread
  <2>4. /\ sum' \in Report /\ sum'.bytes = sum.bytes + main.temp.bytes
        /\ sum'.packets = sum.packets + main.temp.packets
        /\ sum'.errors = sum.errors + main.temp.errors
    BY <2>1, MainFields DEF Report
  <2>5. RcvNext(rcv.packet_count, rcv.cnt_error, rcv.omitted_packets,
                rcv.omitted_errors, rcv.bytes_received, 0)
    BY <1>0, <2>1 DEF RcvNext, Counters
  <2> QED BY <2>1, <2>3, <2>4, <2>5, MainFields
<1> QED BY <1>2, <1>3, <1>4, <1>5

\* The steps of the omit timer, in order.
LEMMA OmitEffects ==
  ASSUME UdpInv, MainTypeOK, OmitEnds \/ OmitErrors \/ OmitInterval
  PROVE  /\ UNCHANGED <<wrk, got, irp>> /\ Meets /\ main' \in MainThread /\ sum' \in Report
         /\ main'.omits = 1
         /\ \/ /\ main.pc = "loop" /\ main.omits = 0 /\ main'.pc = "omit errors" /\ sum' = sum
               /\ RcvNext(rcv.packet_count, rcv.cnt_error, rcv.packet_count, rcv.omitted_errors,
                          rcv.bytes_received, rcv.this_interval)
            \/ /\ main.pc = "omit errors" /\ main'.pc = "omit interval" /\ main.omits = 1
               /\ sum'.bytes = 0 /\ sum'.packets = sum.packets /\ sum'.errors = sum.errors
               /\ RcvNext(rcv.packet_count, rcv.cnt_error, rcv.omitted_packets, rcv.cnt_error,
                          0, rcv.this_interval)
            \/ /\ main.pc = "omit interval" /\ main'.pc = "loop" /\ main.omits = 1 /\ sum' = sum
               /\ RcvNext(rcv.packet_count, rcv.cnt_error, rcv.omitted_packets,
                          rcv.omitted_errors, rcv.bytes_received, 0)
<1>0. rcv \in Counters
  BY RcvFields
<1>1. CASE OmitEnds
  <2>1. /\ main.pc = "loop" /\ main.omits = 0
        /\ main' = [main EXCEPT !.pc = "omit errors", !.omits = 1]
        /\ rcv' = [rcv EXCEPT !.omitted_packets = rcv.packet_count]
        /\ UNCHANGED <<wrk, irp, got, sum>> /\ Meets
    BY <1>1 DEF OmitEnds
  <2>2. main' \in MainThread /\ main'.pc = "omit errors" /\ main'.omits = 1
    BY <2>1, MainFields DEF MainThread
  <2>3. RcvNext(rcv.packet_count, rcv.cnt_error, rcv.packet_count, rcv.omitted_errors,
                rcv.bytes_received, rcv.this_interval)
    BY <1>0, <2>1 DEF RcvNext, Counters
  <2> QED BY <2>1, <2>2, <2>3, MainFields
<1>2. CASE OmitErrors
  <2>1. /\ main.pc = "omit errors" /\ main' = [main EXCEPT !.pc = "omit interval"]
        /\ rcv' = [rcv EXCEPT !.omitted_errors = rcv.cnt_error, !.bytes_received = 0]
        /\ sum' = [sum EXCEPT !.bytes = 0]
        /\ UNCHANGED <<wrk, irp, got>> /\ Meets
    BY <1>2 DEF OmitErrors
  <2>2. main.omits = 1
    BY <2>1 DEF MainTypeOK
  <2>3. main' \in MainThread /\ main'.pc = "omit interval" /\ main'.omits = 1
    BY <2>1, <2>2, MainFields DEF MainThread
  <2>4. RcvNext(rcv.packet_count, rcv.cnt_error, rcv.omitted_packets, rcv.cnt_error,
                0, rcv.this_interval)
    BY <1>0, <2>1 DEF RcvNext, Counters
  <2>5. /\ sum' \in Report /\ sum'.bytes = 0
        /\ sum'.packets = sum.packets /\ sum'.errors = sum.errors
    BY <2>1, MainFields DEF Report
  <2> QED BY <2>1, <2>2, <2>3, <2>4, <2>5
<1>3. CASE OmitInterval
  <2>1. /\ main.pc = "omit interval" /\ main' = [main EXCEPT !.pc = "loop"]
        /\ rcv' = [rcv EXCEPT !.this_interval = 0]
        /\ UNCHANGED <<wrk, irp, got, sum>> /\ Meets
    BY <1>3 DEF OmitInterval
  <2>2. main.omits = 1
    BY <2>1 DEF MainTypeOK
  <2>3. main' \in MainThread /\ main'.pc = "loop" /\ main'.omits = 1
    BY <2>1, <2>2, MainFields DEF MainThread
  <2>4. RcvNext(rcv.packet_count, rcv.cnt_error, rcv.omitted_packets, rcv.omitted_errors,
                rcv.bytes_received, 0)
    BY <1>0, <2>1 DEF RcvNext, Counters
  <2> QED BY <2>1, <2>2, <2>3, <2>4, MainFields
<1> QED BY <1>1, <1>2, <1>3

\* Every step is one of these, or changes none of it.
LEMMA StepKinds ==
  ASSUME [UdpNext]_udpVars
  PROVE  \/ Counting
         \/ BeginInterval \/ TakeDifferences \/ TakeBase \/ EndInterval
         \/ OmitEnds \/ OmitErrors \/ OmitInterval
         \/ UNCHANGED <<rcv, wrk, main, irp, sum, got, raced>>
  BY DEF UdpNext, Reporting, UdpSend, TestRunning, udpVars

\* The main thread keeps its types.
LEMMA MainTypeStep ==
  ASSUME UdpInv, MainTypeOK, [UdpNext]_udpVars
  PROVE  MainTypeOK'
<1>1. raced \in BOOLEAN
  BY DEF MainTypeOK
<1>2. CASE Counting
  <2>1. MainSame /\ Met
    BY <1>2, WorkerEffects
  <2>2. raced' \in BOOLEAN
    BY <1>1, <2>1 DEF Met
  <2> QED BY <2>1, <2>2 DEF MainTypeOK, MainSame
<1>3. CASE BeginInterval \/ TakeDifferences \/ TakeBase \/ EndInterval
  <2>1. /\ Meets /\ main' \in MainThread /\ irp' \in Base /\ sum' \in Report
        /\ main'.pc \notin {"omit errors", "omit interval"}
    BY <1>3, IntervalEffects
  <2>2. raced' \in BOOLEAN
    BY <1>1, <2>1 DEF Meets
  <2> QED BY <2>1, <2>2 DEF MainTypeOK
<1>4. CASE OmitEnds \/ OmitErrors \/ OmitInterval
  <2>1. Meets /\ main' \in MainThread /\ irp' = irp /\ sum' \in Report /\ main'.omits = 1
    BY <1>4, OmitEffects
  <2>2. raced' \in BOOLEAN
    BY <1>1, <2>1 DEF Meets
  <2> QED BY <2>1, <2>2 DEF MainTypeOK
<1>5. CASE UNCHANGED <<rcv, wrk, main, irp, sum, got, raced>>
  BY <1>5 DEF MainTypeOK
<1> QED BY <1>2, <1>3, <1>4, <1>5, StepKinds

----------------------------------------------------------------------------
(* The omit period. *)

\* What is missing in the measured period can be counted.
LEMMA MissingCount ==
  ASSUME UdpInv, NEW k \in Nat
  PROVE  /\ MissingSince(k) = Cardinality(Miss(got, rcv.omitted_packets + 1, k))
         /\ MissingSince(k) \in Nat
<1>1. MissingSince(k) = Cardinality(Miss(got, rcv.omitted_packets + 1, k))
  BY DEF MissingSince, Missing, Miss
<1>2. rcv.omitted_packets + 1 \in Nat
  BY RcvFields
<1> QED BY <1>1, <1>2, MissCount

\* A step that leaves the losses, the datagrams and the receiving thread alone.
LEMMA OmittedSame ==
  ASSUME UdpInv, OmittedKept, UNCHANGED <<wrk, got>>, Omitted' => Omitted,
         NEW b, NEW i,
         RcvNext(rcv.packet_count, rcv.cnt_error, rcv.omitted_packets, rcv.omitted_errors, b, i)
  PROVE  OmittedKept'
<1>1. \A k : MissingSince(k)' = MissingSince(k)
  BY DEF MissingSince, Missing, RcvNext
<1> QED BY <1>1 DEF OmittedKept, RcvNext

\* The receiving thread: a late datagram is looked at after it has arrived, and a
\* gap is counted before the highest number is set.
LEMMA OmittedCounting ==
  ASSUME UdpInv, OmittedKept, Counting
  PROVE  OmittedKept'
<1> DEFINE k == rcv.packet_count
           o == rcv.omitted_packets
           e == rcv.cnt_error
           since == rcv.cnt_error - rcv.omitted_errors
<1>1. /\ k \in Nat /\ o \in Nat /\ e \in Nat /\ rcv.omitted_errors \in Nat /\ wrk.n \in Nat
      /\ since \in Int /\ o + 1 \in Nat /\ o <= k
  BY RcvFields DEF OmittedKept
<1>2. MissingSince(k) = Cardinality(Miss(got, o + 1, k)) /\ MissingSince(k) \in Nat
  BY <1>1, MissingCount
<1>3. Omitted' = Omitted
  BY WorkerEffects DEF Omitted, MainSame
<1>4. ASSUME NEW n \in Nat, wrk.pc = "recv", n # 0, got' = got \cup {n},
             wrk'.pc = "interval", wrk'.n = n,
             RcvNext(k, e, o, rcv.omitted_errors, rcv.bytes_received + 1, rcv.this_interval)
      PROVE  OmittedKept'
  <2>1. MissingSince(k)' = Cardinality(Miss(got \cup {n}, o + 1, k))
    BY <1>4 DEF MissingSince, Missing, Miss, RcvNext
  <2>2. rcv'.packet_count = k /\ (rcv.cnt_error - rcv.omitted_errors)' = since
        /\ rcv'.omitted_packets = o
    BY <1>4 DEF RcvNext
  <2>3. Omitted => since <= MissingSince(k)
    BY <1>4 DEF OmittedKept
  <2>4. n > k => MissingSince(k)' = MissingSince(k)
    <3> HIDE DEF k, o
    <3> QED BY <1>1, <1>2, <2>1, MissSame
  <2>5. MissingSince(k)' \in {MissingSince(k), MissingSince(k) - 1}
    <3>1. CASE n \in (o + 1) .. k /\ n \notin got
      <4> HIDE DEF k, o
      <4> QED BY <1>1, <1>2, <2>1, <3>1, MissFound
    <3>2. CASE n < o + 1 \/ n > k \/ n \in got
      <4> HIDE DEF k, o
      <4> QED BY <1>1, <1>2, <2>1, <3>2, MissSame
    <3> QED BY <1>1, <3>1, <3>2
  <2>6. Omitted => /\ n > k => since <= MissingSince(k)'
                   /\ since <= MissingSince(k)' + 1
    <3> HIDE DEF k, o, since
    <3> QED BY <1>1, <1>2, <2>3, <2>4, <2>5
  <2>7. MissingSince(rcv.packet_count)' = MissingSince(k)'
    BY <2>2 DEF MissingSince
  <2> QED BY <1>1, <1>3, <1>4, <2>2, <2>6, <2>7 DEF OmittedKept
<1>5. ASSUME wrk.pc = "interval", wrk'.pc = "sequence", wrk'.n = wrk.n, got' = got,
             RcvNext(k, e, o, rcv.omitted_errors, rcv.bytes_received, rcv.this_interval + 1)
      PROVE  OmittedKept'
  <2>1. \A m : MissingSince(m)' = MissingSince(m)
    BY <1>5 DEF MissingSince, Missing, RcvNext
  <2> QED BY <1>3, <1>5, <2>1 DEF OmittedKept, RcvNext
<1>6. ASSUME wrk.pc = "sequence", wrk.n > k, wrk'.pc = "highest", wrk'.n = wrk.n, got' = got,
             RcvNext(k, e + (wrk.n - 1 - k), o, rcv.omitted_errors, rcv.bytes_received,
                     rcv.this_interval)
      PROVE  OmittedKept'
  <2>1. wrk.n \in got /\ got \subseteq (1 .. k) \cup {wrk.n}
    BY <1>6 DEF UdpInv, NotLookedAt
  <2>2. o + 1 <= k + 1
    BY <1>1
  <2>3. Cardinality(Miss(got, o + 1, wrk.n)) = MissingSince(k) + (wrk.n - 1 - k)
    <3>1. Cardinality(Miss(got, o + 1, wrk.n))
            = Cardinality(Miss(got, o + 1, k)) + (wrk.n - 1 - k)
      <4> DEFINE f == o + 1
                 n == wrk.n
      <4>1. f \in Nat /\ k \in Nat /\ n \in Nat /\ f <= k + 1 /\ n > k
        BY <1>1, <1>6, <2>2
      <4>2. n \in got /\ got \subseteq (1 .. k) \cup {n}
        BY <2>1
      <4> HIDE DEF k, f, n
      <4>3. Cardinality(Miss(got, f, n)) = Cardinality(Miss(got, f, k)) + (n - 1 - k)
        BY <4>1, <4>2, MissGap
      <4> QED BY <4>3 DEF f, n
    <3> QED BY <1>2, <3>1
  <2>4. MissingSince(wrk.n)' = MissingSince(k) + (wrk.n - 1 - k)
    <3>1. MissingSince(wrk.n)' = Cardinality(Miss(got, o + 1, wrk.n))
      BY <1>6 DEF MissingSince, Missing, Miss, RcvNext
    <3> QED BY <2>3, <3>1
  <2>5. Omitted => since <= MissingSince(k)
    BY <1>6 DEF OmittedKept
  <2>6. /\ rcv'.packet_count = k /\ rcv'.omitted_packets = o
        /\ (rcv.cnt_error - rcv.omitted_errors)' = since + (wrk.n - 1 - k)
    BY <1>1, <1>6 DEF RcvNext
  <2>7. Omitted => since + (wrk.n - 1 - k) <= MissingSince(wrk.n)'
    BY <1>1, <1>2, <2>4, <2>5
  <2> QED BY <1>1, <1>3, <1>6, <2>6, <2>7 DEF OmittedKept
<1>7. ASSUME wrk.pc = "highest", wrk'.pc = "recv", got' = got,
             RcvNext(wrk.n, e, o, rcv.omitted_errors, rcv.bytes_received, rcv.this_interval)
      PROVE  OmittedKept'
  <2>1. wrk.n > k
    BY <1>7 DEF UdpInv, GapCounted
  <2>2. \A m : MissingSince(m)' = MissingSince(m)
    BY <1>7 DEF MissingSince, Missing, RcvNext
  <2>3. o <= wrk.n
    BY <1>1, <2>1
  <2>4. Omitted => since <= MissingSince(wrk.n)
    BY <1>7 DEF OmittedKept
  <2> QED BY <1>3, <1>7, <2>2, <2>3, <2>4 DEF OmittedKept, RcvNext
<1>8. ASSUME wrk.pc = "sequence", wrk.n <= k, wrk'.pc = "recv", got' = got,
             RcvNext(k, IF e > 0 THEN e - 1 ELSE e, o, rcv.omitted_errors,
                     rcv.bytes_received, rcv.this_interval)
      PROVE  OmittedKept'
  <2>1. \A m : MissingSince(m)' = MissingSince(m)
    BY <1>8 DEF MissingSince, Missing, RcvNext
  <2>2. Omitted => since <= MissingSince(k) + 1
    BY <1>8 DEF OmittedKept
  <2>3. Omitted => (rcv.cnt_error - rcv.omitted_errors)' <= MissingSince(k)
    <3>1. /\ rcv'.omitted_errors = rcv.omitted_errors
          /\ rcv'.cnt_error = IF e > 0 THEN e - 1 ELSE e
      BY <1>8 DEF RcvNext
    <3>2. CASE e > 0
      BY <1>1, <1>2, <2>2, <3>1, <3>2
    <3>3. CASE ~(e > 0)
      BY <1>1, <1>2, <3>1, <3>3
    <3> QED BY <3>2, <3>3
  <2>4. rcv'.packet_count = k /\ rcv'.omitted_packets = o
    BY <1>8 DEF RcvNext
  <2> QED BY <1>1, <1>3, <1>8, <2>1, <2>3, <2>4 DEF OmittedKept
<1> HIDE DEF k, o, e, since
<1> QED BY <1>4, <1>5, <1>6, <1>7, <1>8, WorkerEffects DEF k, o, e

\* Every step keeps the losses of the measured period.
LEMMA OmittedStep ==
  ASSUME UdpInv, MainTypeOK, OmittedKept, [UdpNext]_udpVars
  PROVE  OmittedKept'
<1>1. CASE Counting
  BY <1>1, OmittedCounting
<1>2. CASE BeginInterval \/ TakeDifferences \/ TakeBase \/ EndInterval
  <2>1. /\ UNCHANGED <<wrk, got>>
        /\ main'.omits = main.omits /\ main.pc # "omit errors"
    BY <1>2, IntervalEffects
  <2>2. Omitted' => Omitted
    BY <2>1 DEF Omitted
  <2>3. \E b, i : RcvNext(rcv.packet_count, rcv.cnt_error, rcv.omitted_packets,
                          rcv.omitted_errors, b, i)
    BY <1>2, IntervalEffects DEF RcvSame
  <2> QED BY <2>1, <2>2, <2>3, OmittedSame
<1>3. CASE OmitEnds \/ OmitErrors \/ OmitInterval
  <2>1. UNCHANGED <<wrk, got>>
    BY <1>3, OmitEffects
  <2>2. CASE /\ main'.pc = "omit errors"
             /\ RcvNext(rcv.packet_count, rcv.cnt_error, rcv.packet_count, rcv.omitted_errors,
                        rcv.bytes_received, rcv.this_interval)
    <3>1. ~Omitted'
      BY <2>2 DEF Omitted
    <3>2. (rcv.omitted_packets <= rcv.packet_count)'
      <4>1. rcv'.omitted_packets = rcv.packet_count /\ rcv'.packet_count = rcv.packet_count
        BY <2>2 DEF RcvNext
      <4>2. rcv.packet_count \in Nat
        BY RcvFields
      <4> QED BY <4>1, <4>2
    <3> QED BY <3>1, <3>2 DEF OmittedKept
  <2>3. CASE RcvNext(rcv.packet_count, rcv.cnt_error, rcv.omitted_packets, rcv.cnt_error,
                     0, rcv.this_interval)
    <3>1. /\ rcv'.packet_count = rcv.packet_count /\ rcv'.omitted_packets = rcv.omitted_packets
          /\ (rcv.cnt_error - rcv.omitted_errors)' = 0
      BY <2>3, RcvFields DEF RcvNext
    <3>2. \A m : MissingSince(m)' = MissingSince(m)
      BY <2>1, <3>1 DEF MissingSince, Missing
    <3>3. MissingSince(rcv.packet_count) \in Nat /\ MissingSince(wrk.n) \in Nat
      BY RcvFields, MissingCount
    <3> QED BY <2>1, <3>1, <3>2, <3>3 DEF OmittedKept
  <2>4. CASE /\ main.pc = "omit interval" /\ main.omits = 1
             /\ RcvNext(rcv.packet_count, rcv.cnt_error, rcv.omitted_packets,
                        rcv.omitted_errors, rcv.bytes_received, 0)
    <3>1. Omitted
      BY <2>4 DEF Omitted
    <3> QED BY <2>1, <2>4, <3>1, OmittedSame
  <2> QED BY <1>3, <2>2, <2>3, <2>4, OmitEffects
<1>4. CASE UNCHANGED <<rcv, wrk, main, irp, sum, got, raced>>
  <2>1. RcvSame /\ UNCHANGED <<wrk, got>> /\ (Omitted' => Omitted)
    BY <1>4 DEF RcvSame, RcvNext, Omitted
  <2> QED BY <2>1, OmittedSame DEF RcvSame
<1> QED BY <1>1, <1>2, <1>3, <1>4, StepKinds

----------------------------------------------------------------------------
(* The intervals. *)

\* Halfway is the datagram the receiving thread is at.
LEMMA HalfwayRange == Halfway \in {0, 1}
  BY DEF Halfway

\* The receiving thread: the bytes received grow first.
LEMMA BytesCounting ==
  ASSUME UdpInv, MainTypeOK, BytesBounded, Counting
  PROVE  BytesBounded'
<1>1. MainSame
  BY WorkerEffects
<1>2. /\ rcv.bytes_received \in Nat /\ rcv.this_interval \in Nat /\ sum.bytes \in Nat
      /\ main.omits \in Nat /\ main.temp.bytes \in Nat /\ Halfway \in Nat
  <2>1. main.omits \in {0, 1} /\ main.temp.bytes \in Nat /\ sum.bytes \in Nat
    BY MainFields
  <2>2. Halfway \in {0, 1}
    BY HalfwayRange
  <2> QED BY <2>1, <2>2, RcvFields
<1>3. \/ /\ rcv'.bytes_received = rcv.bytes_received + 1 /\ rcv'.this_interval = rcv.this_interval
         /\ Halfway = 0 /\ Halfway' = 1
      \/ /\ rcv'.bytes_received = rcv.bytes_received /\ rcv'.this_interval = rcv.this_interval + 1
         /\ Halfway = 1 /\ Halfway' = 0
      \/ /\ rcv'.bytes_received = rcv.bytes_received /\ rcv'.this_interval = rcv.this_interval
         /\ Halfway = 0 /\ Halfway' = 0
  BY WorkerEffects DEF RcvNext, Halfway
<1>4. /\ rcv'.this_interval >= rcv.this_interval
      /\ rcv'.this_interval + Halfway' - rcv'.bytes_received
           <= rcv.this_interval + Halfway - rcv.bytes_received
      /\ rcv'.bytes_received \in Nat /\ rcv'.this_interval \in Nat /\ Halfway' \in Nat
  BY <1>2, <1>3
<1>5. InCallback' = InCallback /\ Cleared' = Cleared
  BY <1>1 DEF InCallback, Cleared, MainSame
<1>6. ~Cleared =>
        sum.bytes + rcv'.this_interval + Halfway' <= rcv'.bytes_received + main.omits
  BY <1>2, <1>4 DEF BytesBounded
<1>7. InCallback => main.temp.bytes <= rcv'.this_interval
  BY <1>2, <1>4 DEF BytesBounded
<1> QED BY <1>1, <1>5, <1>6, <1>7 DEF BytesBounded, MainSame

\* Every step keeps the reports within the bytes received.
LEMMA BytesStep ==
  ASSUME UdpInv, MainTypeOK, BytesBounded, [UdpNext]_udpVars
  PROVE  BytesBounded'
<1>1. /\ rcv.bytes_received \in Nat /\ rcv.this_interval \in Nat /\ sum.bytes \in Nat
      /\ main.omits \in Nat /\ main.temp.bytes \in Nat /\ Halfway \in {0, 1}
  <2>1. main.omits \in {0, 1} /\ main.temp.bytes \in Nat /\ sum.bytes \in Nat
    BY MainFields
  <2>2. Halfway \in {0, 1}
    BY HalfwayRange
  <2> QED BY <2>1, <2>2, RcvFields
<1>2. CASE Counting
  BY <1>2, BytesCounting
<1>3. CASE BeginInterval \/ TakeDifferences \/ TakeBase \/ EndInterval
  <2>1. Halfway' = Halfway /\ main'.omits = main.omits /\ ~Cleared /\ ~Cleared'
    BY <1>3, IntervalEffects DEF Halfway, Cleared
  <2>2. CASE /\ main.pc = "loop" /\ main'.pc = "packets" /\ RcvSame
             /\ main'.temp.bytes = rcv.this_interval /\ sum' = sum
    BY <1>1, <2>1, <2>2 DEF BytesBounded, InCallback, RcvSame, RcvNext
  <2>3. CASE /\ InCallback /\ main'.pc \in {"base", "clear"} /\ RcvSame
             /\ main'.temp.bytes = main.temp.bytes /\ sum' = sum
    BY <1>1, <2>1, <2>3 DEF BytesBounded, InCallback, RcvSame, RcvNext
  <2>4. CASE /\ main.pc = "clear" /\ main'.pc = "loop"
             /\ RcvNext(rcv.packet_count, rcv.cnt_error, rcv.omitted_packets,
                        rcv.omitted_errors, rcv.bytes_received, 0)
             /\ sum'.bytes = sum.bytes + main.temp.bytes
    BY <1>1, <2>1, <2>4 DEF BytesBounded, InCallback, RcvNext
  <2> QED BY <1>3, <2>2, <2>3, <2>4, IntervalEffects DEF InCallback
<1>4. CASE OmitEnds \/ OmitErrors \/ OmitInterval
  <2>1. Halfway' = Halfway /\ main'.omits = 1 /\ ~InCallback'
    BY <1>4, OmitEffects DEF Halfway, InCallback
  <2>2. CASE /\ ~Cleared /\ main.omits = 0 /\ ~Cleared' /\ sum' = sum
             /\ rcv'.bytes_received = rcv.bytes_received /\ rcv'.this_interval = rcv.this_interval
    BY <1>1, <2>1, <2>2 DEF BytesBounded
  <2>3. CASE Cleared' /\ sum'.bytes = 0
    BY <2>1, <2>3 DEF BytesBounded
  <2>4. CASE /\ Cleared /\ ~Cleared' /\ sum' = sum
             /\ rcv'.bytes_received = rcv.bytes_received /\ rcv'.this_interval = 0
    <3>1. sum.bytes = 0 /\ main'.omits = 1
      BY <2>1, <2>4 DEF BytesBounded
    <3>2. 0 + 0 + Halfway <= rcv.bytes_received + 1
      BY <1>1
    <3> QED BY <2>1, <2>4, <3>1, <3>2 DEF BytesBounded
  <2> QED BY <1>4, <2>2, <2>3, <2>4, OmitEffects DEF RcvNext, Cleared
<1>5. CASE UNCHANGED <<rcv, wrk, main, irp, sum, got, raced>>
  BY <1>5 DEF BytesBounded, InCallback, Cleared, Halfway
<1> QED BY <1>2, <1>3, <1>4, <1>5, StepKinds

\* Every step keeps the reports exact, or is one of two threads that meet.
LEMMA ExactStep ==
  ASSUME UdpInv, MainTypeOK, BytesBounded, ExactIfNotRaced, [UdpNext]_udpVars
  PROVE  ExactIfNotRaced'
<1>1. /\ rcv.packet_count \in Nat /\ rcv.cnt_error \in Nat
      /\ rcv.bytes_received \in Nat /\ rcv.this_interval \in Nat
  BY RcvFields
<1>2. /\ sum.bytes \in Nat /\ sum.packets \in Int /\ sum.errors \in Int
      /\ main.temp.bytes \in Nat /\ main.temp.packets \in Int /\ main.temp.errors \in Int
      /\ irp.packet_count \in Nat /\ irp.cnt_error \in Nat /\ raced \in BOOLEAN
  BY MainFields
<1>3. CASE Counting
  <2> SUFFICES ASSUME ~raced' PROVE ExactIfNotRaced'
    BY DEF ExactIfNotRaced
  <2>1. ~raced /\ main.pc = "loop" /\ MainSame
    BY <1>3, WorkerEffects DEF Met
  <2>2. ~Cleared /\ ~Cleared'
    BY <2>1 DEF Cleared, MainSame
  <2>3. /\ sum.bytes + rcv.this_interval + Halfway = rcv.bytes_received
        /\ sum.packets = irp.packet_count /\ sum.errors = irp.cnt_error
    BY <2>2, <2>1 DEF ExactIfNotRaced
  <2>4. \/ /\ rcv'.bytes_received = rcv.bytes_received + 1
           /\ rcv'.this_interval = rcv.this_interval /\ Halfway = 0 /\ Halfway' = 1
        \/ /\ rcv'.bytes_received = rcv.bytes_received
           /\ rcv'.this_interval = rcv.this_interval + 1 /\ Halfway = 1 /\ Halfway' = 0
        \/ /\ rcv'.bytes_received = rcv.bytes_received
           /\ rcv'.this_interval = rcv.this_interval /\ Halfway = 0 /\ Halfway' = 0
    BY <1>3, WorkerEffects DEF RcvNext, Halfway
  <2>5. sum.bytes + rcv'.this_interval + Halfway' = rcv'.bytes_received
    BY <1>1, <1>2, <2>3, <2>4
  <2> QED BY <2>2, <2>1, <2>3, <2>5 DEF ExactIfNotRaced, InCallback, MainSame
<1>4. CASE BeginInterval \/ TakeDifferences \/ TakeBase \/ EndInterval
  <2> SUFFICES ASSUME ~raced' PROVE ExactIfNotRaced'
    BY DEF ExactIfNotRaced
  <2>1. ~raced /\ wrk.pc = "recv" /\ wrk'.pc = "recv"
    BY <1>4, IntervalEffects DEF Meets
  <2>2. Halfway = 0 /\ Halfway' = 0 /\ ~Cleared /\ ~Cleared'
    BY <1>4, <2>1, IntervalEffects DEF Halfway, Cleared
  <2>3. CASE /\ main.pc = "loop" /\ main'.pc = "packets" /\ RcvSame
             /\ main'.temp.bytes = rcv.this_interval /\ sum' = sum /\ irp' = irp
    BY <2>1, <2>2, <2>3 DEF ExactIfNotRaced, InCallback, RcvSame, RcvNext
  <2>4. CASE /\ main.pc = "packets" /\ main'.pc = "base" /\ RcvSame
             /\ main'.temp.bytes = main.temp.bytes
             /\ main'.temp.packets = rcv.packet_count - irp.packet_count
             /\ main'.temp.errors = rcv.cnt_error - irp.cnt_error
             /\ sum' = sum /\ irp' = irp
    BY <2>1, <2>2, <2>4 DEF ExactIfNotRaced, InCallback, RcvSame, RcvNext
  <2>5. CASE /\ main.pc = "base" /\ main'.pc = "clear" /\ RcvSame
             /\ main'.temp = main.temp /\ sum' = sum
             /\ irp'.packet_count = rcv.packet_count /\ irp'.cnt_error = rcv.cnt_error
    <3>1. /\ sum.packets + main.temp.packets = rcv.packet_count
          /\ sum.errors + main.temp.errors = rcv.cnt_error
      BY <1>1, <1>2, <2>1, <2>5 DEF ExactIfNotRaced
    <3> QED BY <2>1, <2>2, <2>5, <3>1 DEF ExactIfNotRaced, InCallback, RcvSame, RcvNext
  <2>6. CASE /\ main.pc = "clear" /\ main'.pc = "loop"
             /\ RcvNext(rcv.packet_count, rcv.cnt_error, rcv.omitted_packets,
                        rcv.omitted_errors, rcv.bytes_received, 0)
             /\ sum'.bytes = sum.bytes + main.temp.bytes
             /\ sum'.packets = sum.packets + main.temp.packets
             /\ sum'.errors = sum.errors + main.temp.errors
             /\ irp' = irp
    <3>1. /\ sum.packets + main.temp.packets = irp.packet_count
          /\ sum.errors + main.temp.errors = irp.cnt_error
          /\ sum.bytes + main.temp.bytes + 0 + 0 = rcv.bytes_received
      BY <1>1, <1>2, <2>1, <2>2, <2>6 DEF ExactIfNotRaced, InCallback
    <3> QED BY <2>1, <2>2, <2>6, <3>1 DEF ExactIfNotRaced, InCallback, RcvNext
  <2> QED BY <1>4, <2>3, <2>4, <2>5, <2>6, IntervalEffects
<1>5. CASE OmitEnds \/ OmitErrors \/ OmitInterval
  <2> SUFFICES ASSUME ~raced' PROVE ExactIfNotRaced'
    BY DEF ExactIfNotRaced
  <2>1. /\ ~raced /\ wrk'.pc = "recv" /\ irp' = irp /\ ~InCallback'
        /\ main.pc \notin {"base", "clear"} /\ main'.pc \notin {"base", "clear"}
    BY <1>5, OmitEffects DEF Meets, InCallback
  <2>2. Halfway = 0 /\ Halfway' = 0
    BY <1>5, <2>1, OmitEffects DEF Halfway
  <2>3. CASE /\ ~Cleared /\ ~Cleared' /\ sum' = sum
             /\ rcv'.bytes_received = rcv.bytes_received /\ rcv'.this_interval = rcv.this_interval
    BY <2>1, <2>2, <2>3 DEF ExactIfNotRaced
  <2>4. CASE /\ Cleared' /\ rcv'.bytes_received = 0
             /\ sum'.packets = sum.packets /\ sum'.errors = sum.errors
    BY <2>1, <2>2, <2>4 DEF ExactIfNotRaced
  <2>5. CASE /\ Cleared /\ ~Cleared' /\ sum' = sum
             /\ rcv'.bytes_received = rcv.bytes_received /\ rcv'.this_interval = 0
    BY <2>1, <2>2, <2>5 DEF ExactIfNotRaced, BytesBounded
  <2> QED BY <1>5, <2>3, <2>4, <2>5, OmitEffects DEF RcvNext, Cleared
<1>6. CASE UNCHANGED <<rcv, wrk, main, irp, sum, got, raced>>
  BY <1>6 DEF ExactIfNotRaced, InCallback, Cleared, Halfway
<1> QED BY <1>3, <1>4, <1>5, <1>6, StepKinds

\* Nothing has been counted, reported or omitted.
LEMMA InitOInv == UdpInit => OInv
<1> SUFFICES ASSUME UdpInit PROVE OInv
  OBVIOUS
<1>1. UdpInv
  BY InitUdpInv
<1>2. /\ rcv.packet_count = 0 /\ rcv.omitted_packets = 0 /\ rcv.cnt_error = 0
      /\ rcv.bytes_received = 0 /\ rcv.this_interval = 0 /\ wrk.pc = "recv"
      /\ main.pc = "loop" /\ main.omits = 0
      /\ sum.bytes = 0 /\ sum.packets = 0 /\ sum.errors = 0
      /\ irp.packet_count = 0 /\ irp.cnt_error = 0
  BY DEF UdpInit, NoReport, NoInterval
<1>3. MainTypeOK
  <2>1. NoReport \in Report /\ NoInterval \in Base
    BY DEF Report, Base, NoReport, NoInterval
  <2>2. main \in MainThread
    BY <2>1 DEF UdpInit, MainThread
  <2> QED BY <2>1, <2>2 DEF UdpInit, MainTypeOK
<1>4. OmittedKept
  BY <1>2 DEF OmittedKept, Omitted
<1>5. Halfway = 0 /\ ~Cleared
  BY <1>2 DEF Halfway, Cleared
<1>6. BytesBounded
  BY <1>2, <1>5 DEF BytesBounded, InCallback
<1>7. ExactIfNotRaced
  BY <1>2, <1>5 DEF ExactIfNotRaced, InCallback
<1> QED BY <1>1, <1>3, <1>4, <1>6, <1>7 DEF OInv

\* OInv is an invariant.
LEMMA OInvHolds == UdpSpec => []OInv
<1>1. OInv /\ [UdpNext]_udpVars => OInv'
  <2> SUFFICES ASSUME OInv, [UdpNext]_udpVars PROVE OInv'
    OBVIOUS
  <2>1. UdpInv'
    BY NextUdpInv DEF OInv
  <2> QED BY <2>1, MainTypeStep, OmittedStep, BytesStep, ExactStep DEF OInv
<1> QED BY <1>1, InitOInv, PTL DEF UdpSpec

\* The losses of the measured period are missing in it, wherever the end of the
\* omit period falls between two updates of the receiving thread
\* (iperf_reset_stats), for any number of datagrams.
THEOREM OmittedStaysOmitted == UdpSpec => []OmittedLossStaysOmitted
<1>1. OInv => OmittedLossStaysOmitted
  BY DEF OInv, OmittedKept, Omitted, MissingSince, AtRest, OmittedLossStaysOmitted
<1> QED BY <1>1, OInvHolds, PTL

\* The interval reports add up to no more than was received and a datagram, and to
\* exactly that if the threads never met inside a callback (iperf_stats_callback),
\* for any number of datagrams and intervals.
THEOREM ReportsAddUp == UdpSpec => []IntervalsAddUp
<1>1. OInv => IntervalsAddUp
  <2> SUFFICES ASSUME OInv PROVE IntervalsAddUp
    OBVIOUS
  <2>1. Halfway \in Nat /\ (wrk.pc = "recv" => Halfway = 0)
    BY DEF Halfway
  <2>2. /\ rcv.bytes_received \in Nat /\ rcv.this_interval \in Nat
        /\ main.omits \in Nat /\ sum.bytes \in Nat
    <3>1. main.omits \in {0, 1} /\ sum.bytes \in Nat
      BY MainFields DEF OInv
    <3> QED BY <3>1, RcvFields DEF OInv
  <2>3. ~Cleared => sum.bytes + rcv.this_interval <= rcv.bytes_received + main.omits
    BY <2>1, <2>2 DEF OInv, BytesBounded
  <2>4. AtRest => ~Cleared /\ main.pc # "clear"
    BY DEF AtRest, Cleared
  <2>5. AtRest /\ ~raced =>
          /\ sum.bytes + rcv.this_interval = rcv.bytes_received
          /\ sum.packets = irp.packet_count /\ sum.errors = irp.cnt_error
    BY <2>1, <2>2, <2>4 DEF OInv, ExactIfNotRaced, AtRest
  <2> QED BY <2>3, <2>5 DEF IntervalsAddUp, Cleared
<1> QED BY <1>1, OInvHolds, PTL
----------------------------------------------------------------------------
(***************************************************************************)
(* Loads.  The strategies and the dialogs of a test keep the bandwidth of  *)
(* every iteration within its bounds.                                      *)
(***************************************************************************)
StrategyModes == [hybrid : BOOLEAN, ramp : BOOLEAN, smart : BOOLEAN]
Commands == [udp : BOOLEAN, b : Nat]
TrialPlaces == {"none", "estimate", "begin", "launched", "running", "joining", "store", "finished"}
Trials ==
  [pc : TrialPlaces, choice : Entries \cup {NoCommand}, iteration : Nat, args : Commands,
   original : Nat, step : Nat, next : Nat, estimate : Nat, losses : Seq(BOOLEAN), achieved : Nat,
   reported : BOOLEAN, reduced : BOOLEAN, failed : BOOLEAN, modes : StrategyModes \cup {NoCommand}]

StrategyTypeOK ==
  /\ modes \in StrategyModes /\ ~(modes.ramp /\ modes.smart)
  /\ trial \in Trials /\ command \in Commands /\ dialogs \in Nat
  /\ last \in [b : Nat, peak : Nat, share : 0 .. 100]
  /\ trial.pc # "none" =>
       /\ trial.choice \in Entries /\ trial.modes \in StrategyModes
       /\ ~(trial.modes.ramp /\ trial.modes.smart)

\* A load within bounds, given the bandwidth asked for and the one estimated, and one
\* that is not too small. The steps of the ramp begin at 50, and reductions end at 10.
UpTo(b, asked, estimate) == b <= asked \/ b <= estimate \/ b <= 50
AtLeast(b, asked, estimate) ==
  b = 0 \/ b >= 10 \/ (asked # 0 /\ b >= asked) \/ (estimate # 0 /\ b >= estimate)
LoadOK(b, asked, estimate) == UpTo(b, asked, estimate) /\ AtLeast(b, asked, estimate)
StepOK(b, asked) == b >= 10 /\ (b <= asked \/ b <= 50)

LoadsBounded ==
  /\ LoadOK(trial.args.b, trial.original, trial.estimate)
  /\ LoadOK(command.b, trial.original, trial.estimate)
  /\ StepOK(trial.step, trial.original)
  /\ trial.next = 0 \/ StepOK(trial.next, trial.original)

TrialBegun == trial.pc \in {"launched", "running", "joining", "store"}
Runs == trial.pc \in {"running", "joining", "store"}
Waiting == \/ trial.pc \in {"begin", "launched"}
           \/ trial.pc \in {"running", "joining"} /\ ~trial.reported
Ramping == trial.modes.ramp /\ trial.args.b # 0 /\ trial.original > 100

\* What a test without a strategy runs.
AsEntered ==
  /\ trial.original = ArgumentsFor(trial.choice).b
  /\ ~trial.reduced /\ trial.estimate = 0 /\ ~trial.modes.ramp /\ ~trial.modes.smart =>
       trial.args = ArgumentsFor(trial.choice)

\* Without the flags of a smart or a hybrid test nothing limits a TCP test; without that
\* of a hybrid one nothing offers to.
TcpUnlimited ==
  trial.choice.protocol = "TCP" /\ ~trial.modes.hybrid =>
    /\ ~trial.args.udp /\ ~command.udp /\ trial.losses = <<>> /\ dialogs = 0
    /\ ~trial.modes.smart => trial.args.b = 0 /\ command.b = 0

\* While nothing is reduced, each load is the next of its strategy.
NotBack ==
  ~trial.reduced =>
    /\ Runs => command = trial.args
    /\ trial.modes.smart =>
         /\ last.b <= trial.step
         /\ TrialBegun => trial.args.b = trial.step
         /\ trial.next = 0 \/ trial.next >= trial.step
    /\ ~trial.modes.smart /\ Ramping =>
         /\ last.b <= 50 * trial.iteration /\ last.b <= trial.original
         /\ TrialBegun => trial.args.b = RampStep
    /\ ~trial.modes.smart /\ ~Ramping => last.b <= trial.args.b

\* The smart ramp goes on from a load that some line showed.
GoesUpIfShown ==
  trial.modes.smart /\ ~trial.reduced =>
    /\ Waiting /\ trial.iteration > 0 /\ trial.step > last.b => last.peak >= 90
    /\ Waiting => trial.achieved = 0 \/ trial.pc = "begin"
    /\ /\ trial.pc \in {"running", "joining"} /\ trial.reported /\ ~trial.failed
       /\ 10 * trial.achieved >= 9 * trial.step
       => last.peak >= 90
    /\ trial.next > trial.step => last.peak >= 90

\* What holds in the positions of the loop.
TrialPhases ==
  /\ trial.pc = "estimate" =>
       /\ trial.modes.hybrid /\ trial.iteration = 0 /\ trial.estimate = 0
       /\ ~trial.reduced /\ dialogs = 0
  /\ trial.pc \in {"estimate", "begin"} /\ trial.iteration = 0 => last.b = 0
  /\ trial.pc = "launched" => ~trial.reported
  /\ trial.pc # "store" => trial.next = 0

SInv ==
  /\ StrategyTypeOK
  /\ trial.pc = "none" => dialogs = 0
  /\ trial.pc # "none" =>
       LoadsBounded /\ AsEntered /\ TcpUnlimited /\ NotBack /\ GoesUpIfShown /\ TrialPhases

----------------------------------------------------------------------------
\* The larger of two numbers, and the smaller.
LEMMA MaxTwo ==
  ASSUME NEW a \in Nat, NEW b \in Nat
  PROVE  Max({a, b}) \in {a, b} /\ Max({a, b}) >= a /\ Max({a, b}) >= b
<1>1. \E x \in {a, b} : \A y \in {a, b} : x >= y
  <2>1. CASE a >= b
    BY <2>1
  <2>2. CASE b >= a
    BY <2>2
  <2> QED BY <2>1, <2>2
<1> QED BY <1>1 DEF Max

LEMMA MinTwo ==
  ASSUME NEW a \in Nat, NEW b \in Nat
  PROVE  Min({a, b}) \in {a, b} /\ Min({a, b}) <= a /\ Min({a, b}) <= b
<1>1. \E x \in {a, b} : \A y \in {a, b} : x <= y
  <2>1. CASE a >= b
    BY <2>1
  <2>2. CASE b >= a
    BY <2>2
  <2> QED BY <2>1, <2>2
<1> QED BY <1>1 DEF Min

\* The largest of three numbers, and the smallest of three that are not 0.
LEMMA MaxThree ==
  ASSUME NEW a \in Nat, NEW b \in Nat, NEW c \in Nat
  PROVE  /\ Max({a, b, c}) \in Nat
         /\ Max({a, b, c}) >= a /\ Max({a, b, c}) >= b /\ Max({a, b, c}) >= c
<1>1. \E x \in {a, b, c} : \A y \in {a, b, c} : x >= y
  <2>1. CASE a >= b /\ a >= c
    BY <2>1
  <2>2. CASE b >= a /\ b >= c
    BY <2>2
  <2>3. CASE c >= a /\ c >= b
    BY <2>3
  <2> QED BY <2>1, <2>2, <2>3
<1> QED BY <1>1 DEF Max

LEMMA MinThree ==
  ASSUME NEW a \in Nat \ {0}, NEW b \in Nat, NEW c \in Nat
  PROVE  LET m == Min({a, b, c} \ {0})
         IN m \in Nat /\ m <= a /\ (b # 0 => m <= b) /\ (c # 0 => m <= c)
<1> DEFINE S == {a, b, c} \ {0}
<1>1. S \subseteq Nat /\ a \in S /\ (b # 0 => b \in S) /\ (c # 0 => c \in S)
  OBVIOUS
<1>2. \E x \in S : \A y \in S : x <= y
  <2> DEFINE l == IF b # 0 /\ b <= a THEN b ELSE a
             k == IF c # 0 /\ c <= l THEN c ELSE l
  <2>1. l \in S /\ l <= a /\ (b # 0 => l <= b)
    OBVIOUS
  <2>2. k \in S /\ k <= a /\ (b # 0 => k <= b) /\ (c # 0 => k <= c)
    BY <2>1
  <2>3. \A y \in S : k <= y
    BY <2>2
  <2> QED BY <2>2, <2>3
<1> HIDE DEF S
<1>3. Min(S) \in S /\ \A y \in S : Min(S) <= y
  BY <1>2 DEF Min
<1>4. Min(S) \in Nat /\ Min(S) <= a /\ (b # 0 => Min(S) <= b) /\ (c # 0 => Min(S) <= c)
  BY <1>1, <1>3
<1> QED BY <1>4 DEF S

----------------------------------------------------------------------------
\* The types of the variables.
LEMMA StrategyFields ==
  ASSUME StrategyTypeOK
  PROVE  /\ trial.pc \in TrialPlaces /\ trial.choice \in Entries \cup {NoCommand}
         /\ trial.iteration \in Nat /\ trial.args \in Commands /\ trial.args.b \in Nat
         /\ trial.args.udp \in BOOLEAN
         /\ trial.original \in Nat /\ trial.step \in Nat /\ trial.next \in Nat
         /\ trial.estimate \in Nat /\ trial.losses \in Seq(BOOLEAN) /\ trial.achieved \in Nat
         /\ trial.reported \in BOOLEAN /\ trial.reduced \in BOOLEAN /\ trial.failed \in BOOLEAN
         /\ trial.modes \in StrategyModes \cup {NoCommand}
         /\ command \in Commands /\ command.b \in Nat /\ command.udp \in BOOLEAN
         /\ last.b \in Nat /\ last.peak \in Nat /\ last.share \in 0 .. 100 /\ dialogs \in Nat
BY DEF StrategyTypeOK, Trials, Commands

\* What the steps compute.
LEMMA RampStepIs ==
  ASSUME StrategyTypeOK
  PROVE  /\ RampStep \in Nat /\ RampStep \in {50 * (trial.iteration + 1), trial.original}
         /\ RampStep <= 50 * (trial.iteration + 1) /\ RampStep <= trial.original
<1>1. trial.iteration \in Nat /\ trial.original \in Nat
  BY StrategyFields
<1>2. 50 * (trial.iteration + 1) \in Nat
  BY <1>1
<1> HIDE <1>1
<1> QED BY <1>1, <1>2, MinTwo DEF RampStep

LEMMA ReducedIs ==
  ASSUME NEW s \in Nat
  PROVE  Reduced(s) \in Nat /\ Reduced(s) >= 10 /\ (Reduced(s) <= s \/ Reduced(s) = 10)
<1>1. (s * 8) \div 10 \in Nat /\ (s * 8) \div 10 <= s
  OBVIOUS
<1> QED BY <1>1, MaxTwo DEF Reduced

LEMMA RampUpIs ==
  ASSUME StrategyTypeOK
  PROVE  /\ EvaluateBandwidthRampUp \in Nat /\ EvaluateBandwidthRampUp >= trial.step
         /\ EvaluateBandwidthRampUp # trial.step =>
              /\ EvaluateBandwidthRampUp <= trial.original
              /\ 10 * trial.achieved >= 9 * trial.step
<1>1. /\ trial.iteration \in Nat /\ trial.original \in Nat /\ trial.step \in Nat
      /\ trial.achieved \in Nat
  BY StrategyFields
<1> DEFINE up == trial.step + 50 * (trial.iteration + 1)
<1>2. up \in Nat /\ up >= trial.step
  BY <1>1
<1> HIDE DEF up
<1>3. /\ Min({up, trial.original}) \in {up, trial.original}
      /\ Min({up, trial.original}) <= up /\ Min({up, trial.original}) <= trial.original
  BY <1>1, <1>2, MinTwo
<1> DEFINE m == Min({up, trial.original})
<1>4. EvaluateBandwidthRampUp
        = IF 10 * trial.achieved >= 9 * trial.step /\ trial.step < trial.original
          THEN m ELSE trial.step
  BY DEF EvaluateBandwidthRampUp, up
<1>5. m \in Nat /\ m <= trial.original /\ (trial.step < trial.original => m >= trial.step)
  BY <1>1, <1>2, <1>3
<1> HIDE DEF m
<1> QED BY <1>1, <1>4, <1>5

----------------------------------------------------------------------------
\* Sequences of losses.
LEMMA LossSequences ==
  ASSUME NEW B, NEW x \in B, NEW y \in B
  PROVE  /\ (<<x>> \o <<y, x>>) \in Seq(B) /\ (<<>> \o <<y, x>>) \in Seq(B)
         /\ \A s, t \in Seq(B) : s \o t \in Seq(B)
         /\ \A s \in Seq(B) : Len(s) > 3 => SubSeq(s, Len(s) - 2, Len(s)) \in Seq(B)
<1>1. \A s, t \in Seq(B) : s \o t \in Seq(B)
  OBVIOUS
<1>2. <<x>> \in Seq(B) /\ <<>> \in Seq(B) /\ <<y, x>> \in Seq(B)
  OBVIOUS
<1>3. ASSUME NEW s \in Seq(B), Len(s) > 3 PROVE SubSeq(s, Len(s) - 2, Len(s)) \in Seq(B)
  BY <1>3
<1> QED BY <1>1, <1>2, <1>3

\* A test under way becomes this.
Becomes(pc, iteration, args, step, next, estimate, losses, achieved, reported, reduced, failed) ==
  trial' = [pc |-> pc, choice |-> trial.choice, iteration |-> iteration, args |-> args,
            original |-> trial.original, step |-> step, next |-> next, estimate |-> estimate,
            losses |-> losses, achieved |-> achieved, reported |-> reported,
            reduced |-> reduced, failed |-> failed, modes |-> trial.modes]

\* It keeps its types if its parts have them.
LEMMA TypesKept ==
  ASSUME StrategyTypeOK, trial.pc # "none", trial' \in Trials,
         trial'.choice = trial.choice, trial'.modes = trial.modes, modes' = modes,
         command' \in Commands, dialogs' \in Nat, last' \in [b : Nat, peak : Nat, share : 0 .. 100]
  PROVE  StrategyTypeOK'
BY DEF StrategyTypeOK

LEMMA BeginIterationKeeps == ASSUME SInv, BeginIteration PROVE SInv'
<1> DEFINE ramped == IF trial.modes.ramp /\ trial.args.b # 0 /\ trial.original > 100
                     THEN [trial.args EXCEPT !.b = RampStep] ELSE trial.args
           args == IF trial.modes.smart THEN [ramped EXCEPT !.b = trial.step] ELSE ramped
<1>1. StrategyTypeOK /\ trial.pc = "begin"
  BY DEF SInv, BeginIteration
<1>2. trial \in Trials /\ trial.args \in Commands /\ RampStep \in Nat /\ trial.step \in Nat
  BY <1>1, StrategyFields, RampStepIs DEF StrategyTypeOK
<1>3. args \in Commands /\ args.udp = trial.args.udp
      /\ args.b = (IF trial.modes.smart THEN trial.step
                   ELSE IF Ramping THEN RampStep ELSE trial.args.b)
      /\ (~trial.modes.smart /\ ~Ramping => args = trial.args)
  BY <1>2 DEF Commands, Ramping
<1>4. Becomes("launched", trial.iteration, args, trial.step, trial.next, trial.estimate, trial.losses,
              0, FALSE, trial.reduced, trial.failed)
  <2>1. trial' = [trial EXCEPT !.pc = "launched", !.achieved = 0, !.reported = FALSE, !.args = args]
    BY DEF BeginIteration
  <2> HIDE DEF args
  <2> QED BY <1>2, <2>1 DEF Becomes, Trials
<1>5. UNCHANGED <<modes, command, dialogs, last>>
  BY DEF BeginIteration
<1> HIDE DEF args
<1>6. /\ StrategyTypeOK'
      /\ trial'.pc = "launched" /\ trial'.choice = trial.choice
      /\ trial'.iteration = trial.iteration
      /\ trial'.args = args /\ trial'.original = trial.original /\ trial'.step = trial.step
      /\ trial'.next = trial.next /\ trial'.estimate = trial.estimate
      /\ trial'.losses = trial.losses
      /\ trial'.achieved = 0 /\ trial'.reported = FALSE
      /\ trial'.reduced = trial.reduced /\ trial'.failed = trial.failed
      /\ trial'.modes = trial.modes
  <2>1. trial' \in Trials
    BY <1>1, <1>3, <1>4 DEF Becomes, Trials, TrialPlaces, StrategyTypeOK
  <2>2. trial'.choice = trial.choice /\ trial'.modes = trial.modes
    BY <1>4 DEF Becomes
  <2>3. StrategyTypeOK'
    BY <1>1, <1>5, <2>1, <2>2 DEF StrategyTypeOK
  <2> QED BY <1>4, <2>3 DEF Becomes
<1>7. LoadsBounded /\ AsEntered /\ TcpUnlimited /\ NotBack /\ GoesUpIfShown /\ TrialPhases
  BY <1>1 DEF SInv
<1>8. LoadsBounded'
  <2>1. /\ trial.original \in Nat /\ trial.estimate \in Nat /\ trial.iteration \in Nat
        /\ trial.step \in Nat /\ RampStep \in Nat /\ trial.args.b \in Nat
    BY <1>1, StrategyFields, RampStepIs
  <2>2. Ramping => RampStep <= trial.original /\ RampStep >= 10
    BY <1>1, <2>1, RampStepIs DEF Ramping
  <2>3. LoadOK(args.b, trial.original, trial.estimate)
    BY <1>3, <1>7, <2>2 DEF LoadsBounded, LoadOK, UpTo, AtLeast, StepOK
  <2> QED BY <1>5, <1>6, <1>7, <2>3 DEF LoadsBounded
<1>9. AsEntered'
  BY <1>3, <1>6, <1>7 DEF AsEntered, Ramping
<1>10. TcpUnlimited'
  BY <1>3, <1>5, <1>6, <1>7 DEF TcpUnlimited, Ramping
<1>11. NotBack'
  <2>1. /\ trial.original \in Nat /\ trial.iteration \in Nat /\ last.b \in Nat
        /\ trial.step \in Nat /\ RampStep \in Nat /\ trial.args.b \in Nat
        /\ trial.modes \in StrategyModes
    BY <1>1, StrategyFields, RampStepIs DEF StrategyTypeOK
  <2>2. RampStep' = RampStep /\ ~Runs' /\ TrialBegun'
    BY <1>6 DEF RampStep, Runs, TrialBegun
  <2>3. Ramping => RampStep # 0
    BY <1>1, <2>1, RampStepIs DEF Ramping
  <2>4. Ramping' = Ramping \/ trial.modes.smart
    BY <1>3, <1>6, <2>3 DEF Ramping
  <2> QED BY <1>3, <1>5, <1>6, <1>7, <2>2, <2>4 DEF NotBack
<1>12. GoesUpIfShown'
  BY <1>1, <1>5, <1>6, <1>7 DEF GoesUpIfShown, Waiting
<1>13. TrialPhases'
  BY <1>1, <1>6, <1>7 DEF TrialPhases
<1> QED BY <1>6, <1>8, <1>9, <1>10, <1>11, <1>12, <1>13 DEF SInv

LEMMA EstimateKeeps == ASSUME SInv, NEW m \in Estimates, Estimate(m) PROVE SInv'
<1> DEFINE args == IF m > 0 THEN [udp |-> TRUE, b |-> m] ELSE trial.args
<1>1. StrategyTypeOK /\ trial.pc = "estimate"
  BY DEF SInv, Estimate
<1>2. /\ m \in Nat /\ args \in Commands
      /\ IF m > 0 THEN args.b = m ELSE args = trial.args
  BY <1>1, StrategyAssumption, StrategyFields DEF Commands
<1> HIDE DEF args
<1>3. Becomes("begin", trial.iteration, args, trial.step, trial.next, m,
              trial.losses, trial.achieved, trial.reported, trial.reduced, trial.failed)
  <2>1. trial \in Trials /\ trial' = [trial EXCEPT !.pc = "begin", !.estimate = m, !.args = args]
    BY <1>1 DEF StrategyTypeOK, Estimate, args
  <2> HIDE DEF args
  <2> QED BY <2>1 DEF Becomes, Trials
<1>4. UNCHANGED <<modes, command, dialogs, last>>
  BY DEF Estimate
<1>5. /\ trial'.choice = trial.choice /\ trial'.original = trial.original
      /\ trial'.modes = trial.modes
      /\ trial'.pc = "begin" /\ trial'.iteration = trial.iteration /\ trial'.args = args
      /\ trial'.step = trial.step /\ trial'.next = trial.next /\ trial'.estimate = m
      /\ trial'.losses = trial.losses /\ trial'.achieved = trial.achieved
      /\ trial'.reported = trial.reported
      /\ trial'.reduced = trial.reduced /\ trial'.failed = trial.failed
  BY <1>3 DEF Becomes
<1>6. LoadsBounded /\ AsEntered /\ TcpUnlimited /\ NotBack /\ GoesUpIfShown /\ TrialPhases
  BY <1>1 DEF SInv
<1>7. StrategyTypeOK'
  <2>1. trial' \in Trials
    BY <1>1, <1>2, <1>3 DEF Becomes, Trials, TrialPlaces, StrategyTypeOK
  <2> QED BY <1>1, <1>4, <1>5, <2>1 DEF StrategyTypeOK
<1>8. trial.modes \in StrategyModes /\ ~(trial.modes.ramp /\ trial.modes.smart)
  BY <1>1 DEF StrategyTypeOK
<1>9. LoadsBounded'
  BY <1>1, <1>2, <1>4, <1>5, <1>6, StrategyFields
     DEF LoadsBounded, LoadOK, UpTo, AtLeast, TrialPhases
<1>10. AsEntered'
  BY <1>1, <1>2, <1>5, <1>6 DEF AsEntered, TrialPhases
<1>11. TcpUnlimited'
  BY <1>1, <1>5, <1>6 DEF TcpUnlimited, TrialPhases
<1>12. NotBack'
  BY <1>1, <1>2, <1>4, <1>5, <1>6, StrategyFields DEF NotBack, TrialPhases, Runs, TrialBegun
<1>13. GoesUpIfShown'
  BY <1>1, <1>4, <1>5, <1>6 DEF GoesUpIfShown, TrialPhases
<1>14. TrialPhases'
  BY <1>1, <1>4, <1>5, <1>6 DEF TrialPhases
<1> QED BY <1>5, <1>7, <1>9, <1>10, <1>11, <1>12, <1>13, <1>14 DEF SInv

LEMMA RunIterationKeeps == ASSUME SInv, RunIteration PROVE SInv'
<1>1. StrategyTypeOK /\ trial.pc = "launched"
  BY DEF SInv, RunIteration
<1>2. command' = trial.args /\ trial.args \in Commands
  BY <1>1, StrategyFields DEF RunIteration
<1>3. Becomes("running", trial.iteration, trial.args, trial.step, trial.next, trial.estimate,
              trial.losses, trial.achieved, trial.reported, trial.reduced, trial.failed)
  <2>1. trial \in Trials /\ trial' = [trial EXCEPT !.pc = "running"]
    BY <1>1 DEF StrategyTypeOK, RunIteration
  <2> QED BY <2>1 DEF Becomes, Trials
<1>4. UNCHANGED <<modes, dialogs, last>>
  BY DEF RunIteration
<1>5. /\ trial'.choice = trial.choice /\ trial'.original = trial.original
      /\ trial'.modes = trial.modes
      /\ trial'.pc = "running" /\ trial'.iteration = trial.iteration /\ trial'.args = trial.args
      /\ trial'.step = trial.step /\ trial'.next = trial.next /\ trial'.estimate = trial.estimate
      /\ trial'.losses = trial.losses /\ trial'.achieved = trial.achieved
      /\ trial'.reported = trial.reported
      /\ trial'.reduced = trial.reduced /\ trial'.failed = trial.failed
  BY <1>3 DEF Becomes
<1>6. LoadsBounded /\ AsEntered /\ TcpUnlimited /\ NotBack /\ GoesUpIfShown /\ TrialPhases
  BY <1>1 DEF SInv
<1>7. StrategyTypeOK'
  <2>1. trial' \in Trials
    BY <1>1, <1>3 DEF Becomes, Trials, TrialPlaces, StrategyTypeOK
  <2> QED BY <1>1, <1>2, <1>4, <1>5, <2>1 DEF StrategyTypeOK
<1>8. trial.modes \in StrategyModes /\ ~(trial.modes.ramp /\ trial.modes.smart)
  BY <1>1 DEF StrategyTypeOK
<1>9. LoadsBounded'
  BY <1>2, <1>5, <1>6 DEF LoadsBounded
<1>10. AsEntered'
  BY <1>5, <1>6 DEF AsEntered
<1>11. TcpUnlimited'
  BY <1>2, <1>4, <1>5, <1>6 DEF TcpUnlimited
<1>12. NotBack'
  BY <1>1, <1>2, <1>4, <1>5, <1>6 DEF NotBack, TrialBegun, Ramping, RampStep
<1>13. GoesUpIfShown'
  BY <1>1, <1>4, <1>5, <1>6 DEF GoesUpIfShown, TrialPhases, Waiting
<1>14. TrialPhases'
  BY <1>1, <1>5, <1>6 DEF TrialPhases
<1> QED BY <1>5, <1>7, <1>9, <1>10, <1>11, <1>12, <1>13, <1>14 DEF SInv

LEMMA FailIterationKeeps == ASSUME SInv, FailIteration PROVE SInv'
<1>1. StrategyTypeOK /\ trial.pc \in {"running", "joining"} /\ ~trial.reported
  BY DEF SInv, FailIteration
<1>2. last' = [last EXCEPT !.peak = 0, !.share = 0]
  BY DEF FailIteration
<1>3. last'.b = last.b /\ last'.peak = 0 /\ last' \in [b : Nat, peak : Nat, share : 0 .. 100]
  <2>1. last \in [b : Nat, peak : Nat, share : 0 .. 100]
    BY <1>1 DEF StrategyTypeOK
  <2>2. last' = [b |-> last.b, peak |-> 0, share |-> 0]
    BY <1>2, <2>1
  <2> QED BY <2>1, <2>2
<1>4. Becomes(trial.pc, trial.iteration, trial.args, trial.step, trial.next, trial.estimate,
              trial.losses, trial.achieved, TRUE, trial.reduced, TRUE)
  <2>1. trial \in Trials /\ trial' = [trial EXCEPT !.reported = TRUE, !.failed = TRUE]
    BY <1>1 DEF StrategyTypeOK, FailIteration
  <2> QED BY <2>1 DEF Becomes, Trials
<1>5. UNCHANGED <<modes, command, dialogs>>
  BY DEF FailIteration
<1>6. /\ trial'.choice = trial.choice /\ trial'.original = trial.original
      /\ trial'.modes = trial.modes
      /\ trial'.pc = trial.pc /\ trial'.iteration = trial.iteration /\ trial'.args = trial.args
      /\ trial'.step = trial.step /\ trial'.next = trial.next /\ trial'.estimate = trial.estimate
      /\ trial'.losses = trial.losses /\ trial'.achieved = trial.achieved
      /\ trial'.reported = TRUE
      /\ trial'.reduced = trial.reduced /\ trial'.failed = TRUE
  BY <1>4 DEF Becomes
<1>7. LoadsBounded /\ AsEntered /\ TcpUnlimited /\ NotBack /\ GoesUpIfShown /\ TrialPhases
  BY <1>1 DEF SInv
<1>8. StrategyTypeOK'
  <2>1. trial' \in Trials
    BY <1>1, <1>4 DEF Becomes, Trials, StrategyTypeOK
  <2> QED BY <1>1, <1>3, <1>5, <1>6, <2>1 DEF StrategyTypeOK
<1>9. trial.modes \in StrategyModes /\ ~(trial.modes.ramp /\ trial.modes.smart)
  BY <1>1 DEF StrategyTypeOK
<1>10. LoadsBounded'
  BY <1>5, <1>6, <1>7 DEF LoadsBounded
<1>11. AsEntered'
  BY <1>6, <1>7 DEF AsEntered
<1>12. TcpUnlimited'
  BY <1>5, <1>6, <1>7 DEF TcpUnlimited
<1>13. NotBack'
  BY <1>3, <1>5, <1>6, <1>7 DEF NotBack, Runs, TrialBegun, Ramping, RampStep
<1>14. GoesUpIfShown'
  BY <1>1, <1>6, <1>7, StrategyFields DEF GoesUpIfShown, TrialPhases, Waiting
<1>15. TrialPhases'
  BY <1>1, <1>6, <1>7 DEF TrialPhases
<1> QED BY <1>1, <1>6, <1>8, <1>10, <1>11, <1>12, <1>13, <1>14, <1>15 DEF SInv

\* The highest rate of a line, in per cent, when the achieved rate is nine tenths of it.
LEMMA NinetyPercent ==
  ASSUME NEW step \in Nat, step >= 10, NEW peak \in Nat,
         10 * ((step * peak) \div 100) >= 9 * step
  PROVE  peak >= 90
<1> DEFINE x == step * peak
           q == x \div 100
<1>1. x \in Nat
  OBVIOUS
<1>2. 10 * q >= 9 * step
  OBVIOUS
<1> HIDE DEF x
<1>3. q \in Nat /\ 100 * q <= x
  BY <1>1
<1> HIDE DEF q
<1>4. x >= 90 * step
  BY <1>1, <1>2, <1>3
<1> SUFFICES ASSUME peak <= 89 PROVE FALSE
  OBVIOUS
<1>5. x <= step * 89
  BY DEF x
<1> QED BY <1>1, <1>4, <1>5

LEMMA EvaluateKeeps == ASSUME SInv, Evaluate PROVE SInv'
<1> DEFINE next == IF (trial.modes.smart \/ trial.reduced) /\ ~trial.failed
                   THEN EvaluateBandwidthRampUp ELSE 0
<1>1. StrategyTypeOK /\ trial.pc = "joining" /\ trial.reported
  BY DEF SInv, Evaluate
<1>2. /\ next \in Nat /\ (next = 0 \/ next >= trial.step)
      /\ trial.failed => next = 0
      /\ next > trial.step =>
           next <= trial.original /\ 10 * trial.achieved >= 9 * trial.step
  <2>1. /\ EvaluateBandwidthRampUp \in Nat /\ EvaluateBandwidthRampUp >= trial.step
        /\ EvaluateBandwidthRampUp # trial.step =>
             EvaluateBandwidthRampUp <= trial.original /\ 10 * trial.achieved >= 9 * trial.step
    BY <1>1, RampUpIs
  <2>2. (next = 0 \/ next = EvaluateBandwidthRampUp) /\ (trial.failed => next = 0)
    BY Zenon
  <2>3. trial.step \in Nat
    BY <1>1, StrategyFields
  <2> HIDE DEF next
  <2> QED BY <2>1, <2>2, <2>3
<1> HIDE DEF next
<1>3. Becomes("store", trial.iteration, trial.args, trial.step, next, trial.estimate,
              trial.losses, trial.achieved, trial.reported, trial.reduced, trial.failed)
  <2>1. trial \in Trials /\ trial' = [trial EXCEPT !.pc = "store", !.next = next]
    BY <1>1 DEF StrategyTypeOK, Evaluate, next
  <2> HIDE DEF next
  <2> QED BY <2>1 DEF Becomes, Trials
<1>4. UNCHANGED <<modes, command, dialogs, last>>
  BY DEF Evaluate
<1>5. /\ trial'.choice = trial.choice /\ trial'.original = trial.original
      /\ trial'.modes = trial.modes
      /\ trial'.pc = "store" /\ trial'.iteration = trial.iteration /\ trial'.args = trial.args
      /\ trial'.step = trial.step /\ trial'.next = next /\ trial'.estimate = trial.estimate
      /\ trial'.losses = trial.losses /\ trial'.achieved = trial.achieved
      /\ trial'.reported = trial.reported
      /\ trial'.reduced = trial.reduced /\ trial'.failed = trial.failed
  BY <1>3 DEF Becomes
<1>6. LoadsBounded /\ AsEntered /\ TcpUnlimited /\ NotBack /\ GoesUpIfShown /\ TrialPhases
  BY <1>1 DEF SInv
<1>7. StrategyTypeOK'
  <2>1. trial' \in Trials
    BY <1>1, <1>2, <1>3 DEF Becomes, Trials, TrialPlaces, StrategyTypeOK
  <2> QED BY <1>1, <1>4, <1>5, <2>1 DEF StrategyTypeOK
<1>8. trial.modes \in StrategyModes /\ ~(trial.modes.ramp /\ trial.modes.smart)
  BY <1>1 DEF StrategyTypeOK
<1>9. LoadsBounded'
  BY <1>1, <1>2, <1>4, <1>5, <1>6, StrategyFields DEF LoadsBounded, StepOK
<1>10. AsEntered'
  BY <1>5, <1>6 DEF AsEntered
<1>11. TcpUnlimited'
  BY <1>4, <1>5, <1>6 DEF TcpUnlimited
<1>12. NotBack'
  BY <1>1, <1>2, <1>4, <1>5, <1>6 DEF NotBack, Runs, TrialBegun, Ramping, RampStep
<1>13. GoesUpIfShown'
  BY <1>1, <1>2, <1>4, <1>5, <1>6 DEF GoesUpIfShown, TrialPhases, Waiting
<1>14. TrialPhases'
  BY <1>5 DEF TrialPhases
<1> QED BY <1>5, <1>7, <1>9, <1>10, <1>11, <1>12, <1>13, <1>14 DEF SInv

LEMMA ReportIterationKeeps == ASSUME SInv, NEW peak \in Peaks, NEW share \in Shares,
                                    ReportIteration(peak, share) PROVE SInv'
<1> DEFINE losses == IF command.udp THEN Latest3(trial.losses \o Losses(share)) ELSE trial.losses
           achieved == IF trial.modes.smart THEN Max({trial.achieved, (command.b * peak) \div 100})
                       ELSE trial.achieved
<1>1. StrategyTypeOK /\ trial.pc \in {"running", "joining"} /\ ~trial.reported
  BY DEF SInv, ReportIteration
<1>2. /\ losses \in Seq(BOOLEAN) /\ (~command.udp => losses = trial.losses)
      /\ achieved \in Nat /\ peak \in Nat /\ share \in 0 .. 100
      /\ trial.modes.smart => achieved \in {trial.achieved, (command.b * peak) \div 100}
  <2>1. peak \in Nat /\ share \in 0 .. 100 /\ trial.losses \in Seq(BOOLEAN)
    BY <1>1, StrategyAssumption, StrategyFields
  <2>2. Losses(share) \in Seq(BOOLEAN)
    <3> DEFINE h == High(share)
    <3>1. h \in BOOLEAN
      BY DEF High
    <3>2. Losses(share) = (IF trial.choice.reverse THEN <<h>> ELSE <<>>) \o <<FALSE, h>>
      BY DEF Losses
    <3> HIDE DEF h
    <3> QED BY <3>1, <3>2, LossSequences
  <2>3. \A s \in Seq(BOOLEAN) : Latest3(s) \in Seq(BOOLEAN)
    <3>1. TRUE \in BOOLEAN
      OBVIOUS
    <3> QED BY LossSequences DEF Latest3
  <2>4. losses \in Seq(BOOLEAN)
    <3>1. trial.losses \o Losses(share) \in Seq(BOOLEAN)
      BY <2>1, <2>2
    <3> QED BY <2>1, <2>3, <3>1
  <2> DEFINE p == command.b * peak
  <2>5. p \in Nat
    <3>1. command.b \in Nat /\ peak \in Nat
      BY <1>1, <2>1, StrategyFields
    <3> QED BY <3>1
  <2> HIDE DEF p
  <2>6. p \div 100 \in Nat /\ trial.achieved \in Nat
    BY <1>1, <2>5, StrategyFields
  <2>7. achieved \in Nat /\ (trial.modes.smart => achieved \in {trial.achieved, p \div 100})
    BY <2>6, MaxTwo DEF p
  <2> QED BY <2>1, <2>4, <2>7 DEF p
<1> HIDE DEF losses, achieved
<1>3. last' = [last EXCEPT !.peak = peak, !.share = share]
  BY DEF ReportIteration
<1>4. last'.b = last.b /\ last'.peak = peak /\ last' \in [b : Nat, peak : Nat, share : 0 .. 100]
  BY <1>1, <1>2, <1>3 DEF StrategyTypeOK
<1>5. Becomes(trial.pc, trial.iteration, trial.args, trial.step, trial.next, trial.estimate,
              losses, achieved, TRUE, trial.reduced, trial.failed)
  <2>1. /\ trial \in Trials
        /\ trial' = [trial EXCEPT !.reported = TRUE, !.losses = losses, !.achieved = achieved]
    BY <1>1 DEF StrategyTypeOK, ReportIteration, losses, achieved
  <2> HIDE DEF losses, achieved
  <2> QED BY <2>1 DEF Becomes, Trials
<1>6. UNCHANGED <<modes, command, dialogs>>
  BY DEF ReportIteration
<1>7. /\ trial'.choice = trial.choice /\ trial'.original = trial.original
      /\ trial'.modes = trial.modes
      /\ trial'.pc = trial.pc /\ trial'.iteration = trial.iteration /\ trial'.args = trial.args
      /\ trial'.step = trial.step /\ trial'.next = trial.next /\ trial'.estimate = trial.estimate
      /\ trial'.losses = losses /\ trial'.achieved = achieved /\ trial'.reported = TRUE
      /\ trial'.reduced = trial.reduced /\ trial'.failed = trial.failed
  BY <1>5 DEF Becomes
<1>8. LoadsBounded /\ AsEntered /\ TcpUnlimited /\ NotBack /\ GoesUpIfShown /\ TrialPhases
  BY <1>1 DEF SInv
<1>9. StrategyTypeOK'
  <2>1. trial' \in Trials
    BY <1>1, <1>2, <1>5 DEF Becomes, Trials, StrategyTypeOK
  <2> QED BY <1>1, <1>4, <1>6, <1>7, <2>1 DEF StrategyTypeOK
<1>10. trial.modes \in StrategyModes /\ ~(trial.modes.ramp /\ trial.modes.smart)
  BY <1>1 DEF StrategyTypeOK
<1>11. LoadsBounded'
  BY <1>6, <1>7, <1>8 DEF LoadsBounded
<1>12. AsEntered'
  BY <1>7, <1>8 DEF AsEntered
<1>13. TcpUnlimited'
  BY <1>2, <1>6, <1>7, <1>8 DEF TcpUnlimited
<1>14. NotBack'
  BY <1>4, <1>6, <1>7, <1>8 DEF NotBack, Runs, TrialBegun, Ramping, RampStep
<1>15. GoesUpIfShown'
  <2>1. /\ ~trial.reduced /\ trial.modes.smart => command.b = trial.step
        /\ trial.modes.smart /\ ~trial.reduced => trial.achieved = 0
    BY <1>1, <1>8 DEF NotBack, GoesUpIfShown, Runs, TrialBegun, Waiting
  <2>2. trial.step \in Nat /\ trial.step >= 10
    BY <1>1, <1>8, StrategyFields DEF LoadsBounded, StepOK
  <2>3. trial.modes.smart /\ ~trial.reduced /\ 10 * achieved >= 9 * trial.step => peak >= 90
    <3> SUFFICES ASSUME trial.modes.smart, ~trial.reduced, 10 * achieved >= 9 * trial.step
                 PROVE  peak >= 90
      OBVIOUS
    <3>1. achieved = (trial.step * peak) \div 100
      BY <1>2, <2>1, <2>2
    <3> QED BY <1>2, <2>2, <3>1, NinetyPercent
  <2>4. trial.next = 0 /\ ~Waiting'
    BY <1>1, <1>7, <1>8 DEF TrialPhases, Waiting
  <2>5. trial.modes.smart /\ ~trial.reduced =>
          (10 * trial'.achieved >= 9 * trial'.step => last'.peak >= 90)
    BY <1>4, <1>7, <2>3
  <2>6. ~(trial'.next > trial'.step)
    BY <1>7, <2>2, <2>4
  <2> QED BY <1>7, <2>4, <2>5, <2>6 DEF GoesUpIfShown
<1>16. TrialPhases'
  BY <1>1, <1>7, <1>8 DEF TrialPhases
<1> QED BY <1>1, <1>7, <1>9, <1>11, <1>12, <1>13, <1>14, <1>15, <1>16 DEF SInv

LEMMA GoOnKeeps == ASSUME SInv, GoOn PROVE SInv'
<1>1. StrategyTypeOK /\ trial.pc = "running"
  BY DEF SInv, GoOn
<1>2. dialogs' \in Nat /\ (trial.losses = <<>> => dialogs' = dialogs)
  <2>1. dialogs \in Nat
    BY <1>1, StrategyFields
  <2>2. trial.losses = <<>> => ~HighLoss
    BY DEF HighLoss
  <2> QED BY <2>1, <2>2 DEF GoOn
<1>3. Becomes("joining", trial.iteration, trial.args, trial.step, trial.next, trial.estimate,
              trial.losses, trial.achieved, trial.reported, trial.reduced, trial.failed)
  <2>1. trial \in Trials /\ trial' = [trial EXCEPT !.pc = "joining"]
    BY <1>1 DEF StrategyTypeOK, GoOn
  <2> QED BY <2>1 DEF Becomes, Trials
<1>4. UNCHANGED <<modes, command, last>>
  BY DEF GoOn
<1>5. /\ trial'.choice = trial.choice /\ trial'.original = trial.original
      /\ trial'.modes = trial.modes
      /\ trial'.pc = "joining" /\ trial'.iteration = trial.iteration /\ trial'.args = trial.args
      /\ trial'.step = trial.step /\ trial'.next = trial.next /\ trial'.estimate = trial.estimate
      /\ trial'.losses = trial.losses /\ trial'.achieved = trial.achieved
      /\ trial'.reported = trial.reported
      /\ trial'.reduced = trial.reduced /\ trial'.failed = trial.failed
  BY <1>3 DEF Becomes
<1>6. LoadsBounded /\ AsEntered /\ TcpUnlimited /\ NotBack /\ GoesUpIfShown /\ TrialPhases
  BY <1>1 DEF SInv
<1>7. StrategyTypeOK'
  <2>1. trial' \in Trials
    BY <1>1, <1>3 DEF Becomes, Trials, TrialPlaces, StrategyTypeOK
  <2> QED BY <1>1, <1>2, <1>4, <1>5, <2>1 DEF StrategyTypeOK
<1>8. trial.modes \in StrategyModes /\ ~(trial.modes.ramp /\ trial.modes.smart)
  BY <1>1 DEF StrategyTypeOK
<1>9. LoadsBounded'
  BY <1>4, <1>5, <1>6 DEF LoadsBounded
<1>10. AsEntered'
  BY <1>5, <1>6 DEF AsEntered
<1>11. TcpUnlimited'
  BY <1>2, <1>4, <1>5, <1>6 DEF TcpUnlimited
<1>12. NotBack'
  BY <1>1, <1>4, <1>5, <1>6 DEF NotBack, Runs, TrialBegun, Ramping, RampStep
<1>13. GoesUpIfShown'
  BY <1>1, <1>4, <1>5, <1>6 DEF GoesUpIfShown, Waiting
<1>14. TrialPhases'
  BY <1>1, <1>5, <1>6 DEF TrialPhases
<1> QED BY <1>5, <1>7, <1>9, <1>10, <1>11, <1>12, <1>13, <1>14 DEF SInv

LEMMA AnswerDialogKeeps == ASSUME SInv, NEW yes \in BOOLEAN, AnswerDialog(yes) PROVE SInv'
<1> DEFINE step == IF yes THEN Reduced(trial.step) ELSE trial.step
           args == IF yes THEN [trial.args EXCEPT !.b = Reduced(trial.step)] ELSE trial.args
           reduced == IF yes THEN TRUE ELSE trial.reduced
<1>1. StrategyTypeOK /\ trial.pc # "none" /\ dialogs > 0
  BY DEF SInv, AnswerDialog
<1>2. /\ step \in Nat /\ args \in Commands /\ reduced \in BOOLEAN /\ args.udp = trial.args.udp
      /\ reduced \/ (step = trial.step /\ args = trial.args /\ reduced = trial.reduced)
  <2>1. trial.step \in Nat /\ trial.args \in Commands /\ trial.reduced \in BOOLEAN
    BY <1>1, StrategyFields
  <2>2. CASE yes
    <3>1. Reduced(trial.step) \in Nat
      BY <2>1, ReducedIs
    <3> DEFINE r == Reduced(trial.step)
    <3>2. step = r /\ args = [trial.args EXCEPT !.b = r] /\ reduced /\ reduced \in BOOLEAN
      BY <2>2
    <3> HIDE DEF r, step, args, reduced
    <3>3. [trial.args EXCEPT !.b = r] \in Commands
          /\ [trial.args EXCEPT !.b = r].udp = trial.args.udp
      BY <2>1, <3>1 DEF Commands, r
    <3>4. step \in Nat /\ args \in Commands /\ args.udp = trial.args.udp
      BY <3>1, <3>2, <3>3 DEF r
    <3> QED BY <3>2, <3>4
  <2>3. CASE ~yes
    BY <2>1, <2>3
  <2> QED BY <2>2, <2>3
<1>3. StepOK(step, trial.original) /\ LoadOK(args.b, trial.original, trial.estimate)
  <2>1. /\ trial.step \in Nat /\ trial.args \in Commands /\ trial.original \in Nat
        /\ trial.estimate \in Nat
    BY <1>1, StrategyFields
  <2>2. LoadsBounded
    BY <1>1 DEF SInv
  <2>3. CASE yes
    <3> DEFINE r == Reduced(trial.step)
    <3>1. r \in Nat /\ r >= 10 /\ (r <= trial.step \/ r = 10)
      BY <2>1, ReducedIs
    <3>2. step = r /\ args.b = r
      BY <2>3
    <3> HIDE DEF r
    <3> QED BY <2>1, <2>2, <3>1, <3>2 DEF LoadsBounded, LoadOK, UpTo, AtLeast, StepOK
  <2>4. CASE ~yes
    BY <2>2, <2>4 DEF LoadsBounded
  <2> QED BY <2>3, <2>4
<1> HIDE DEF step, args, reduced
<1>4. dialogs > 0 /\ dialogs' = dialogs - 1 /\ dialogs' \in Nat
  BY <1>1, StrategyFields DEF AnswerDialog
<1>5. Becomes(trial.pc, trial.iteration, args, step, trial.next, trial.estimate,
              trial.losses, trial.achieved, trial.reported, reduced, trial.failed)
  <2>1. /\ trial \in Trials
        /\ trial' = [trial EXCEPT !.step = step, !.args = args, !.reduced = reduced]
    <3>1. trial \in Trials
      BY <1>1 DEF StrategyTypeOK
    <3>2. CASE yes
      BY <3>1 DEF AnswerDialog, Trials, step, args, reduced
    <3>3. CASE ~yes
      <4>1. trial' = trial /\ step = trial.step /\ args = trial.args /\ reduced = trial.reduced
        BY <3>3 DEF AnswerDialog, step, args, reduced
      <4> QED BY <3>1, <4>1 DEF Trials
    <3> QED BY <3>2, <3>3
  <2> HIDE DEF step, args, reduced
  <2> QED BY <2>1 DEF Becomes, Trials
<1>6. UNCHANGED <<modes, command, last>>
  BY DEF AnswerDialog
<1>7. /\ trial'.choice = trial.choice /\ trial'.original = trial.original
      /\ trial'.modes = trial.modes
      /\ trial'.pc = trial.pc /\ trial'.iteration = trial.iteration /\ trial'.args = args
      /\ trial'.step = step /\ trial'.next = trial.next /\ trial'.estimate = trial.estimate
      /\ trial'.losses = trial.losses /\ trial'.achieved = trial.achieved
      /\ trial'.reported = trial.reported
      /\ trial'.reduced = reduced /\ trial'.failed = trial.failed
  BY <1>5 DEF Becomes
<1>8. LoadsBounded /\ AsEntered /\ TcpUnlimited /\ NotBack /\ GoesUpIfShown /\ TrialPhases
  BY <1>1 DEF SInv
<1>9. StrategyTypeOK'
  <2>1. trial' \in Trials
    BY <1>1, <1>2, <1>5 DEF Becomes, Trials, StrategyTypeOK
  <2> QED BY <1>1, <1>4, <1>6, <1>7, <2>1 DEF StrategyTypeOK
<1>10. trial.modes \in StrategyModes /\ ~(trial.modes.ramp /\ trial.modes.smart)
  BY <1>1 DEF StrategyTypeOK
<1>11. LoadsBounded'
  BY <1>3, <1>6, <1>7, <1>8 DEF LoadsBounded
<1>12. AsEntered'
  BY <1>2, <1>7, <1>8 DEF AsEntered
<1>13. TcpUnlimited'
  BY <1>1, <1>7, <1>8 DEF TcpUnlimited
<1>14. NotBack'
  BY <1>2, <1>6, <1>7, <1>8 DEF NotBack, Runs, TrialBegun, Ramping, RampStep
<1>15. GoesUpIfShown'
  BY <1>2, <1>6, <1>7, <1>8 DEF GoesUpIfShown, Waiting
<1>16. TrialPhases'
  BY <1>1, <1>6, <1>7, <1>8 DEF TrialPhases
<1> QED BY <1>1, <1>7, <1>9, <1>11, <1>12, <1>13, <1>14, <1>15, <1>16 DEF SInv

LEMMA NextIterationKeeps == ASSUME SInv, NextIteration PROVE SInv'
<1> DEFINE pc == IF trial.iteration + 1 < trial.choice.iterations THEN "begin" ELSE "finished"
           step == IF trial.next # 0 THEN trial.next ELSE trial.step
<1>1. StrategyTypeOK /\ trial.pc = "store"
  BY DEF SInv, NextIteration
<1>2. /\ pc \in {"begin", "finished"} /\ step \in Nat
      /\ step = (IF trial.next # 0 THEN trial.next ELSE trial.step)
  BY <1>1, StrategyFields
<1> HIDE DEF pc, step
<1>3. last' = [last EXCEPT !.b = command.b]
  BY DEF NextIteration
<1>4. last'.b = command.b /\ last'.peak = last.peak /\ last' \in [b : Nat, peak : Nat, share : 0 .. 100]
  BY <1>1, <1>3, StrategyFields DEF StrategyTypeOK
<1>5. Becomes(pc, trial.iteration + 1, trial.args, step, 0, trial.estimate,
              trial.losses, trial.achieved, trial.reported, trial.reduced, FALSE)
  <2>1. /\ trial \in Trials
        /\ trial' = [trial EXCEPT !.pc = pc, !.step = step, !.next = 0, !.iteration = trial.iteration + 1, !.failed = FALSE]
    BY <1>1 DEF StrategyTypeOK, NextIteration, pc, step
  <2> HIDE DEF pc, step
  <2> QED BY <2>1 DEF Becomes, Trials
<1>6. UNCHANGED <<modes, command, dialogs>>
  BY DEF NextIteration
<1>7. /\ trial'.choice = trial.choice /\ trial'.original = trial.original
      /\ trial'.modes = trial.modes
      /\ trial'.pc = pc /\ trial'.iteration = trial.iteration + 1 /\ trial'.args = trial.args
      /\ trial'.step = step /\ trial'.next = 0 /\ trial'.estimate = trial.estimate
      /\ trial'.losses = trial.losses /\ trial'.achieved = trial.achieved
      /\ trial'.reported = trial.reported
      /\ trial'.reduced = trial.reduced /\ trial'.failed = FALSE
  BY <1>5 DEF Becomes
<1>8. LoadsBounded /\ AsEntered /\ TcpUnlimited /\ NotBack /\ GoesUpIfShown /\ TrialPhases
  BY <1>1 DEF SInv
<1>9. StrategyTypeOK'
  <2>1. trial' \in Trials
    BY <1>1, <1>2, <1>5 DEF Becomes, Trials, TrialPlaces, StrategyTypeOK
  <2> QED BY <1>1, <1>4, <1>6, <1>7, <2>1 DEF StrategyTypeOK
<1>10. trial.modes \in StrategyModes /\ ~(trial.modes.ramp /\ trial.modes.smart)
  BY <1>1 DEF StrategyTypeOK
<1>11. LoadsBounded'
  BY <1>2, <1>6, <1>7, <1>8 DEF LoadsBounded
<1>12. AsEntered'
  BY <1>7, <1>8 DEF AsEntered
<1>13. TcpUnlimited'
  BY <1>6, <1>7, <1>8 DEF TcpUnlimited
<1>14. NotBack'
  <2>1. /\ trial.iteration \in Nat /\ trial.original \in Nat /\ trial.step \in Nat
        /\ trial.next \in Nat /\ trial.args.b \in Nat /\ last.b \in Nat /\ command.b \in Nat
    BY <1>1, StrategyFields
  <2>2. Ramping' = Ramping /\ ~Runs' /\ ~TrialBegun'
    BY <1>2, <1>7 DEF Ramping, Runs, TrialBegun
  <2>3. ~trial.reduced => command = trial.args
    BY <1>1, <1>8 DEF NotBack, Runs
  <2>4. ~trial.reduced /\ trial.modes.smart =>
          trial.args.b = trial.step /\ (trial.next = 0 \/ trial.next >= trial.step)
    BY <1>1, <1>8 DEF NotBack, TrialBegun
  <2>5. ~trial.reduced /\ ~trial.modes.smart /\ Ramping =>
          /\ trial.args.b = RampStep
          /\ RampStep <= 50 * (trial.iteration + 1) /\ RampStep <= trial.original
    BY <1>1, <1>8, RampStepIs DEF NotBack, TrialBegun
  <2>6. ASSUME ~trial.reduced, trial.modes.smart PROVE NotBack'
    BY <1>2, <1>4, <1>7, <2>1, <2>2, <2>3, <2>4, <2>6 DEF NotBack
  <2>7. ASSUME ~trial.reduced, ~trial.modes.smart PROVE NotBack'
    BY <1>4, <1>7, <2>1, <2>2, <2>3, <2>5, <2>7 DEF NotBack
  <2> QED BY <1>7, <2>6, <2>7 DEF NotBack
<1>15. GoesUpIfShown'
  <2>1. /\ trial.iteration \in Nat /\ trial.step \in Nat /\ trial.next \in Nat
    BY <1>1, StrategyFields
  <2>2. ~trial.reduced /\ trial.modes.smart => command.b = trial.step
    BY <1>1, <1>8 DEF NotBack, Runs, TrialBegun
  <2>3. ~trial.reduced /\ trial.modes.smart /\ trial.next > trial.step => last.peak >= 90
    BY <1>8 DEF GoesUpIfShown
  <2> QED BY <1>2, <1>4, <1>7, <2>1, <2>2, <2>3 DEF GoesUpIfShown, Waiting
<1>16. TrialPhases'
  BY <1>1, <1>2, <1>4, <1>6, <1>7, <1>8, <1>10, StrategyFields DEF TrialPhases
<1> QED BY <1>1, <1>2, <1>7, <1>9, <1>11, <1>12, <1>13, <1>14, <1>15, <1>16 DEF SInv

LEMMA StartStrategyKeeps == ASSUME SInv, NEW c \in Entries, StartStrategy(c) PROVE SInv'
<1> DEFINE pc == IF ModesFor(c).hybrid THEN "estimate" ELSE "begin"
           args == ArgumentsFor(c)
           m == ModesFor(c)
<1>1. /\ m \in StrategyModes /\ ~(m.ramp /\ m.smart)
      /\ pc \in {"estimate", "begin"} /\ (pc = "estimate" => m.hybrid)
  <2>1. modes \in StrategyModes /\ ~(modes.ramp /\ modes.smart)
    BY DEF SInv, StrategyTypeOK
  <2>2. CASE c.protocol \in UdpProtocols
    <3> DEFINE ramp == c.protocol = "UDP Incremental Ramp-Up Test"
               smart == c.protocol = "Smart Ramp-Up Strategy"
    <3>1. ramp \in BOOLEAN /\ smart \in BOOLEAN /\ ~(ramp /\ smart)
      OBVIOUS
    <3>2. m = [modes EXCEPT !.ramp = ramp, !.smart = smart]
      BY <2>2 DEF ModesFor
    <3> HIDE DEF ramp, smart
    <3> QED BY <2>1, <3>1, <3>2 DEF StrategyModes
  <2>3. CASE c.protocol \notin UdpProtocols
    <3> DEFINE hybrid == modes.hybrid \/ c.protocol = "TCP + UDP Hybrid Strategy"
    <3>1. hybrid \in BOOLEAN
      OBVIOUS
    <3>2. m = [modes EXCEPT !.hybrid = hybrid]
      BY <2>3 DEF ModesFor
    <3> HIDE DEF hybrid
    <3> QED BY <2>1, <3>1, <3>2 DEF StrategyModes
  <2> QED BY <2>2, <2>3
<1>2. /\ args \in Commands /\ args.b \in Nat
      /\ c.protocol = "TCP" => args = NoCommand
  BY StrategyAssumption DEF ArgumentsFor, Commands, NoCommand, UdpProtocols
<1>3. trial' = [pc |-> pc, choice |-> c, iteration |-> 0, args |-> args, original |-> args.b,
                step |-> 50, next |-> 0, estimate |-> 0, losses |-> <<>>, achieved |-> 0,
                reported |-> FALSE, reduced |-> FALSE, failed |-> FALSE, modes |-> m]
  <2>1. modes' = m
    BY DEF StartStrategy
  <2>2. trial' = [NoTrial EXCEPT !.pc = pc, !.choice = c, !.args = args, !.original = args.b,
                                 !.modes = m]
    BY <2>1 DEF StartStrategy
  <2> HIDE DEF pc, args, m
  <2> QED BY <2>2 DEF NoTrial
<1>4. /\ modes' = m /\ command' = NoCommand /\ dialogs' = 0 /\ last' = NoIteration
  BY DEF StartStrategy
<1> HIDE DEF pc, args, m
<1>5. /\ trial'.pc = pc /\ trial'.choice = c /\ trial'.iteration = 0 /\ trial'.args = args
      /\ trial'.original = args.b /\ trial'.step = 50 /\ trial'.next = 0
      /\ trial'.estimate = 0 /\ trial'.losses = <<>> /\ trial'.achieved = 0
      /\ trial'.reported = FALSE /\ trial'.reduced = FALSE /\ trial'.modes = m
  BY <1>3
<1>6. last'.b = 0 /\ command'.b = 0 /\ command'.udp = FALSE
  BY <1>4 DEF NoIteration, NoCommand
<1>7. StrategyTypeOK'
  <2>1. trial' \in Trials
    <3>1. <<>> \in Seq(BOOLEAN) /\ pc \in TrialPlaces
      BY <1>1 DEF TrialPlaces
    <3> QED BY <1>1, <1>2, <1>3, <3>1 DEF Trials
  <2> QED BY <1>1, <1>4, <1>5, <2>1 DEF StrategyTypeOK, NoCommand, NoIteration, Commands
<1>8. LoadsBounded'
  BY <1>2, <1>5, <1>6 DEF LoadsBounded, LoadOK, UpTo, AtLeast, StepOK
<1>9. AsEntered'
  BY <1>5 DEF AsEntered, ArgumentsFor, args
<1>10. TcpUnlimited'
  BY <1>2, <1>4, <1>5, <1>6 DEF TcpUnlimited, NoCommand
<1>11. NotBack'
  BY <1>1, <1>2, <1>5, <1>6 DEF NotBack, Runs, TrialBegun, Ramping
<1>12. GoesUpIfShown'
  BY <1>1, <1>5 DEF GoesUpIfShown, Waiting
<1>13. TrialPhases'
  BY <1>1, <1>4, <1>5, <1>6 DEF TrialPhases
<1> QED BY <1>1, <1>5, <1>7, <1>8, <1>9, <1>10, <1>11, <1>12, <1>13 DEF SInv

LEMMA StrategyInitHolds == StrategyInit => SInv
<1> SUFFICES ASSUME StrategyInit PROVE SInv
  OBVIOUS
<1>1. trial = NoTrial /\ dialogs = 0
  BY DEF StrategyInit
<1>2. modes \in StrategyModes /\ ~(modes.ramp /\ modes.smart)
  BY DEF StrategyInit, StrategyModes
<1>3. trial \in Trials
  <2>1. <<>> \in Seq(BOOLEAN)
    OBVIOUS
  <2> QED BY <1>1, <2>1 DEF NoTrial, Trials, TrialPlaces, Commands, NoCommand
<1>4. command \in Commands /\ last \in [b : Nat, peak : Nat, share : 0 .. 100]
  BY DEF StrategyInit, Commands, NoCommand, NoIteration
<1>5. trial.pc = "none"
  BY <1>1 DEF NoTrial
<1> QED BY <1>1, <1>2, <1>3, <1>4, <1>5 DEF SInv, StrategyTypeOK

LEMMA StrategyStutter == ASSUME SInv, UNCHANGED strategyVars PROVE SInv'
<1>1. UNCHANGED <<modes, trial, command, dialogs, last>>
  BY DEF strategyVars
<1> QED BY <1>1 DEF SInv, StrategyTypeOK, LoadsBounded, AsEntered, ArgumentsFor, TcpUnlimited,
                    NotBack, GoesUpIfShown, TrialPhases, Runs, TrialBegun, Waiting, Ramping, RampStep

LEMMA StrategyStep == ASSUME SInv, [StrategyNext]_strategyVars PROVE SInv'
BY StartStrategyKeeps, EstimateKeeps, BeginIterationKeeps, RunIterationKeeps,
   ReportIterationKeeps,
   FailIterationKeeps, GoOnKeeps, AnswerDialogKeeps, EvaluateKeeps, NextIterationKeeps,
   StrategyStutter DEF StrategyNext

\* Whenever an iteration runs, its load is what the invariant says of it.
LEMMA LoadIsWithinBounds == ASSUME SInv PROVE LoadWithinBounds
<1> SUFFICES ASSUME Running PROVE LoadWithinBounds
  BY DEF LoadWithinBounds
<1>1. /\ StrategyTypeOK /\ trial.pc = "running" /\ ~trial.reported
      /\ LoadsBounded /\ AsEntered /\ TcpUnlimited /\ NotBack /\ GoesUpIfShown
  BY DEF SInv, Running
<1>2. /\ trial.original \in Nat /\ trial.estimate \in Nat /\ command.b \in Nat
      /\ last.b \in Nat /\ trial.step \in Nat /\ trial.args.b \in Nat /\ trial.iteration \in Nat
      /\ trial.modes \in StrategyModes
  BY <1>1, StrategyFields DEF StrategyTypeOK
<1>3. command.b <= Max({trial.original, trial.estimate, 50})
  <2> DEFINE m == Max({trial.original, trial.estimate, 50})
  <2>1. m \in Nat /\ m >= trial.original /\ m >= trial.estimate /\ m >= 50
    BY <1>2, MaxThree
  <2> HIDE DEF m
  <2>2. command.b <= m
    BY <1>1, <1>2, <2>1 DEF LoadsBounded, LoadOK, UpTo
  <2> QED BY <2>2 DEF m
<1>4. command.b # 0 => command.b >= Min({10, trial.original, trial.estimate} \ {0})
  <2> DEFINE m == Min({10, trial.original, trial.estimate} \ {0})
  <2>1. /\ m \in Nat /\ m <= 10 /\ (trial.original # 0 => m <= trial.original)
        /\ trial.estimate # 0 => m <= trial.estimate
    BY <1>2, MinThree
  <2> HIDE DEF m
  <2>2. command.b # 0 => command.b >= m
    BY <1>1, <1>2, <2>1 DEF LoadsBounded, LoadOK, AtLeast
  <2> QED BY <2>2 DEF m
<1>5. ~trial.reduced => command = trial.args
  BY <1>1 DEF NotBack, Runs
<1>6. command.b < last.b => trial.reduced
  <2>1. RampStep \in {50 * (trial.iteration + 1), trial.original}
    BY <1>1, RampStepIs
  <2> QED BY <1>1, <1>2, <1>5, <2>1 DEF NotBack, TrialBegun
<1>7. trial.modes.smart /\ ~trial.reduced /\ trial.iteration > 0 /\ command.b > last.b =>
        last.peak >= 90
  BY <1>1, <1>2, <1>5 DEF NotBack, TrialBegun, GoesUpIfShown, Waiting
<1>8. ~trial.reduced /\ trial.estimate = 0 /\ ~trial.modes.ramp /\ ~trial.modes.smart =>
        command = ArgumentsFor(trial.choice)
  BY <1>1, <1>5 DEF AsEntered
<1>9. trial.choice.protocol = "TCP" /\ command.b # 0 => trial.modes.smart \/ trial.modes.hybrid
  BY <1>1 DEF TcpUnlimited
<1> QED BY <1>3, <1>4, <1>6, <1>7, <1>8, <1>9 DEF LoadWithinBounds, RampsUp

\* Whatever is entered, sent, lost and answered, and whenever: the load stays within its
\* bounds, ramps do not go back, and nothing is limited that was not asked to be
\* (IperfTestManage.startTest).
THEOREM LoadBounded == StrategySpec => []LoadWithinBounds
<1>1. SInv /\ [StrategyNext]_strategyVars => SInv'
  BY StrategyStep
<1> QED BY <1>1, StrategyInitHolds, LoadIsWithinBounds, PTL DEF StrategySpec

=============================================================================
