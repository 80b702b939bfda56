------------------------- MODULE BandwidthStrategy -------------------------
(* What load a test puts on the network: the strategy chosen in the form     *)
(* (RunTestFragment), the ramps, the TCP estimate and the dialog that offers *)
(* to reduce the bandwidth while iterations go on (IperfTestManage.startTest).*)
(* Bandwidths are in Mbit/s, 0 is "no -b". An iteration reports its lines at *)
(* once; the highest rate among them and the share that arrives are chosen    *)
(* then.                                                                     *)
EXTENDS Integers, Sequences, FiniteSetsExt

CONSTANTS Entries,      \* forms as filled in: [protocol, bandwidth, iterations, reverse, auto]
          Peaks,        \* highest rates of a line, in per cent of the load
          Shares,       \* per cent of the packets that arrive
          Estimates,    \* results of the TCP estimate, 0 if it failed
          MaxStarts     \* bound: tests started
ASSUME StrategyAssumption ==
  /\ Peaks \subseteq Nat /\ Shares \subseteq 0 .. 100 /\ Estimates \subseteq Nat /\ MaxStarts \in Nat
  /\ \A c \in Entries : c.bandwidth \in Nat

VARIABLES modes,      \* the flags of the fragment: isHybridTest, ...
          trial,      \* the coroutine of the test and its variables
          command,    \* the arguments of the last iteration, as it began
          dialogs,    \* dialogs that wait for an answer
          starts, last    \* history: tests started; the iteration before

strategyVars == <<modes, trial, command, dialogs, starts, last>>

NoCommand == [udp |-> FALSE, b |-> 0]
NoTrial == [pc |-> "none", choice |-> NoCommand, iteration |-> 0, args |-> NoCommand, original |-> 0,
            step |-> 50, next |-> 0, estimate |-> 0, losses |-> <<>>, achieved |-> 0,
            reported |-> FALSE, reduced |-> FALSE, failed |-> FALSE, modes |-> NoCommand]
NoIteration == [b |-> 0, peak |-> 0, share |-> 100]

StrategyInit ==
  /\ modes = [hybrid |-> FALSE, ramp |-> FALSE, smart |-> FALSE]
  /\ trial = NoTrial /\ command = NoCommand /\ dialogs = 0 /\ starts = 0 /\ last = NoIteration

----------------------------------------------------------------------------
UdpProtocols == {"UDP", "UDP Incremental Ramp-Up Test", "Smart Ramp-Up Strategy"}

\* getIperfArguments sets the flags of the UDP protocols together, that of the
\* hybrid test never back, and none for TCP.
ModesFor(c) ==
  IF c.protocol \in UdpProtocols
  THEN [modes EXCEPT !.ramp = c.protocol = "UDP Incremental Ramp-Up Test",
                     !.smart = c.protocol = "Smart Ramp-Up Strategy"]
  ELSE [modes EXCEPT !.hybrid = @ \/ c.protocol = "TCP + UDP Hybrid Strategy"]

ArgumentsFor(c) ==
  IF c.protocol \in UdpProtocols THEN [udp |-> TRUE, b |-> c.bandwidth] ELSE NoCommand

StartStrategy(c) ==
  /\ trial.pc \in {"none", "finished"} /\ starts < MaxStarts
  /\ modes' = ModesFor(c)
  /\ trial' = [NoTrial EXCEPT !.pc = IF modes'.hybrid THEN "estimate" ELSE "begin",
                          !.choice = c, !.args = ArgumentsFor(c),
                          !.original = ArgumentsFor(c).b, !.modes = modes']
  /\ command' = NoCommand /\ dialogs' = 0 /\ last' = NoIteration
  /\ starts' = starts + 1

\* runTcpBidirAndGetBandwidth. A failed estimate leaves the arguments alone.
Estimate(m) ==
  /\ trial.pc = "estimate"
  /\ trial' = [trial EXCEPT !.pc = "begin", !.estimate = m,
                        !.args = IF m > 0 THEN [udp |-> TRUE, b |-> m] ELSE @]
  /\ UNCHANGED <<modes, command, dialogs, starts, last>>

\* The beginning of an iteration: the ramp steps by 50 if there is a -b and the
\* bandwidth first asked for is above 100, the smart one takes its step.
RampStep == Min({50 * (trial.iteration + 1), trial.original})

BeginIteration ==
  /\ trial.pc = "begin" /\ trial.iteration < trial.choice.iterations
  /\ LET ramped == IF trial.modes.ramp /\ trial.args.b # 0 /\ trial.original > 100
                   THEN [trial.args EXCEPT !.b = RampStep] ELSE trial.args
     IN trial' = [trial EXCEPT !.pc = "launched", !.achieved = 0, !.reported = FALSE,
                           !.args = IF trial.modes.smart THEN [ramped EXCEPT !.b = trial.step]
                                    ELSE ramped]
  /\ UNCHANGED <<modes, command, dialogs, starts, last>>

\* The job of the iteration reads currentArgs when it begins to run.
RunIteration ==
  /\ trial.pc = "launched"
  /\ command' = trial.args
  /\ trial' = [trial EXCEPT !.pc = "running"]
  /\ UNCHANGED <<modes, dialogs, starts, last>>

(* The lines of an iteration, onLine. The highest rate of any line counts:   *)
(* of an interval or of the whole, of a stream or of their sum, of the sender *)
(* or of the receiver. The line that sums up the sender shows no loss, that  *)
(* of the receiver the real one; a receiving client also shows the loss of   *)
(* each interval.                                                            *)
High(share) == 100 - share > 75
Losses(share) == (IF trial.choice.reverse THEN <<High(share)>> ELSE <<>>) \o <<FALSE, High(share)>>
Latest3(s) == IF Len(s) > 3 THEN SubSeq(s, Len(s) - 2, Len(s)) ELSE s

ReportIteration(peak, share) ==
  /\ trial.pc \in {"running", "joining"} /\ ~trial.reported
  /\ trial' = [trial EXCEPT !.reported = TRUE,
                        !.losses = IF command.udp THEN Latest3(@ \o Losses(share)) ELSE @,
                        !.achieved = IF trial.modes.smart THEN Max({@, (command.b * peak) \div 100})
                                     ELSE @]
  /\ last' = [last EXCEPT !.peak = peak, !.share = share]
  /\ UNCHANGED <<modes, command, dialogs, starts>>

FailIteration ==
  /\ trial.pc \in {"running", "joining"} /\ ~trial.reported
  /\ trial' = [trial EXCEPT !.reported = TRUE, !.failed = TRUE]
  /\ last' = [last EXCEPT !.peak = 0, !.share = 0]
  /\ UNCHANGED <<modes, command, dialogs, starts>>

\* The loop goes on when the iteration has ended or took too long, and asks
\* without waiting for the answer.
HighLoss == Len(trial.losses) = 3 /\ Cardinality({n \in 1 .. 3 : trial.losses[n]}) >= 2

GoOn ==
  /\ trial.pc = "running"
  /\ dialogs' = dialogs + (IF trial.choice.auto /\ HighLoss THEN 1 ELSE 0)
  /\ trial' = [trial EXCEPT !.pc = "joining"]
  /\ UNCHANGED <<modes, command, starts, last>>

\* The answer, or the confirmation after 15 seconds, at any time later.
Reduced(step) == Max({(step * 8) \div 10, 10})

AnswerDialog(yes) ==
  /\ dialogs > 0 /\ trial.pc # "finished"
  /\ dialogs' = dialogs - 1
  /\ trial' = IF yes THEN [trial EXCEPT !.step = Reduced(@), !.args.b = Reduced(trial.step),
                                    !.reduced = TRUE]
            ELSE trial
  /\ UNCHANGED <<modes, command, starts, last>>

\* Mutant of EvaluateBandwidthRampUp: the step may leave the target behind.
RampUpUncapped ==
  IF 10 * trial.achieved >= 9 * trial.step /\ trial.step < trial.original
  THEN trial.step + 50 * (trial.iteration + 1) ELSE trial.step

EvaluateBandwidthRampUp ==
  IF 10 * trial.achieved >= 9 * trial.step /\ trial.step < trial.original
  THEN Min({trial.step + 50 * (trial.iteration + 1), trial.original}) ELSE trial.step

\* currentStepBandwidth is read and stored by different threads.
Evaluate ==
  /\ trial.pc = "joining" /\ trial.reported
  /\ trial' = [trial EXCEPT !.pc = "store",
                        !.next = IF (trial.modes.smart \/ trial.reduced) /\ ~trial.failed
                                 THEN EvaluateBandwidthRampUp ELSE 0]
  /\ UNCHANGED <<modes, command, dialogs, starts, last>>

NextIteration ==
  /\ trial.pc = "store"
  /\ trial' = [trial EXCEPT !.pc = IF trial.iteration + 1 < trial.choice.iterations THEN "begin" ELSE "finished",
                        !.step = IF trial.next # 0 THEN trial.next ELSE @, !.next = 0,
                        !.iteration = @ + 1, !.failed = FALSE]
  /\ last' = [last EXCEPT !.b = command.b]
  /\ UNCHANGED <<modes, command, dialogs, starts>>

StrategyNext ==
  \/ \E c \in Entries : StartStrategy(c)
  \/ \E m \in Estimates : Estimate(m)
  \/ BeginIteration \/ RunIteration \/ FailIteration \/ GoOn \/ Evaluate \/ NextIteration
  \/ \E peak \in Peaks, share \in Shares : ReportIteration(peak, share)
  \/ \E yes \in BOOLEAN : AnswerDialog(yes)

StrategySpec == StrategyInit /\ [][StrategyNext]_strategyVars
----------------------------------------------------------------------------
Running == trial.pc = "running" /\ ~trial.reported

RampsUp == trial.modes.smart /\ ~trial.reduced /\ trial.iteration > 0 /\ command.b > last.b

\* No iteration puts more load on the network than was asked for or estimated,
\* except that ramps and reductions count from 50 Mbit/s, nor, if any limit, one
\* below 10 Mbit/s and both of these; a ramp never goes back unless a reduction was
\* agreed to, whenever it is answered; a smart one goes up only when some line of the
\* iteration before showed 90% of its load, that of the sender or of one interval
\* included (onLine keeps the highest; README.md:92 would have 90% of the packets
\* arrive, which no line is read for); and without ramp, estimate and reduction
\* every iteration runs as entered (startTest). A TCP test is limited only after a
\* test with the smart strategy, whose flag stays set.
LoadWithinBounds ==
  Running =>
    /\ command.b <= Max({trial.original, trial.estimate, 50})
    /\ command.b # 0 => command.b >= Min({10, trial.original, trial.estimate} \ {0})
    /\ command.b < last.b => trial.reduced
    /\ RampsUp => last.peak >= 90
    /\ ~trial.reduced /\ trial.estimate = 0 /\ ~trial.modes.ramp /\ ~trial.modes.smart =>
         command = ArgumentsFor(trial.choice)
    /\ trial.choice.protocol = "TCP" /\ command.b # 0 => trial.modes.smart \/ trial.modes.hybrid
=============================================================================
