------------------------------- MODULE MCParts -------------------------------
(* The parts of iperf and of the app that do not talk to each other, checked *)
(* in one run: every behaviour is a behaviour of one of them, the others stay *)
(* as they begin. The states of the run are the sum of the parts' states.    *)
EXTENDS TimerList, UdpCounters, SendRate, StreamSockets, IperfArguments,
        TestParameters, TestResults, BandwidthStrategy, LogHistory

LOCAL INSTANCE SequencesExt

VARIABLE part

\* Tests whose timers are run: client or server, with or without an end, an omit
\* period, interval reports (together or apart) and a bound on the interval.
MCSettings ==
  {[role |-> r, duration |-> d, omit |-> o, stats |-> i[1], reporter |-> i[2], capped |-> c] :
     r \in {"client", "server"}, d \in {0, 2}, o \in {0, 1},
     i \in {<<1, 1>>, <<1, 2>>, <<0, 0>>}, c \in BOOLEAN}

\* Streams with a rate, a burst, a quota of bytes or blocks, a limit of the server.
Stream == [rate |-> 0, burst |-> 0, bytes |-> 0, blocks |-> 0, limit |-> 0, window |-> 1,
           sender |-> TRUE, omit |-> FALSE]
MCRateSettings ==
  {[Stream EXCEPT !.rate = 1], [Stream EXCEPT !.rate = 2],
   [Stream EXCEPT !.rate = 1, !.burst = 2, !.omit = TRUE],
   [Stream EXCEPT !.bytes = 3, !.omit = TRUE], [Stream EXCEPT !.blocks = 2, !.omit = TRUE],
   [Stream EXCEPT !.limit = 1, !.window = 2],
   [Stream EXCEPT !.bytes = 3, !.limit = 1, !.window = 2, !.omit = TRUE, !.sender = FALSE],
   [Stream EXCEPT !.blocks = 3, !.omit = TRUE, !.sender = FALSE]}
  \cup {[Stream EXCEPT !.limit = 1, !.window = w, !.sender = FALSE] : w \in {0, 3}}

\* Two streams with options that make other calls on their sockets.
MCSocketSettings ==
  {[role |-> r, proto |-> "tcp", streams |-> 2, opts |-> o] :
     r \in {"client", "server"},
     o \in {{}, {"no_delay", "mss", "bufsize", "congestion", "tos"},
            {"local", "cport", "file"}, {"cport", "bufsize"}}}
  \cup {[role |-> r, proto |-> "udp", streams |-> 2, opts |-> o] :
          r \in {"client", "server"}, o \in {{}, {"small", "local"}, {"bufsize", "cport", "file"}}}

\* Every order of some sets of options, and some forms.
OptionSets ==
  {{O("c", 0), O("R", 0), O("u", 0), O("t", 5)}, {O("c", 0), O("bidir", 0), O("k", 2), O("l", 1000)},
   {O("c", 0), O("F", 1), O("n", 3), O("u", 0)}, {O("c", 0), O("p", 70000), O("R", 0)},
   {O("s", 0), O("1", 0), O("p", 5202)}, {O("s", 0), O("c", 0), O("N", 0)},
   {O("c", 0), O("F", 0), O("b/", 5)}, {O("R", 0), O("bidir", 0)}, {O("c", 0), O("l", 8), O("u", 0)},
   {O("c", 0), O("t", 1), O("n", 1)}, {O("c", 0), O("h", 0)}}
MCTyped == UNION {SetToSeqs(S) : S \in OptionSets}
MCForms ==
  [port : {5201, 70000}, duration : {1}, interval : {1}, parallel : {0, 2},
   direction : {"Upload", "Download (-R)"}, udp : BOOLEAN, bandwidth : {10}, debug : {FALSE}]

\* Clients of one server that set one parameter each.
Setting(p, k, v) == [protocol |-> p, set |-> [x \in {k} |-> v]]
MCClients ==
  {Setting("tcp", k, 1) : k \in Switches \cup {"zerocopy"}}
  \cup {Setting(p, k, v) : p \in {"tcp", "udp"}, v \in {0, 2},
                           k \in {"num", "TOS", "pacing_timer", "server_affinity"}}
  \cup {Setting("udp", "len", 2)}

\* Tests in every direction, with an omit period where the states allow it, the last
\* ones at a server that does not say what it omitted.
Exam(m, p, n, o, old, units) ==
  [mode |-> m, protocol |-> p, streams |-> n, omit |-> o, old |-> old, units |-> units]
MCTests ==
  {Exam(m, "udp", 1, TRUE, FALSE, 2) : m \in {"SENDER", "RECEIVER"}}
  \cup {Exam(m, "udp", 1, FALSE, FALSE, 3) : m \in {"SENDER", "RECEIVER"}}
  \cup {Exam(m, "tcp", 1, TRUE, FALSE, 3) : m \in {"SENDER", "RECEIVER"}}
  \cup {Exam("SENDER", p, 2, FALSE, FALSE, IF p = "tcp" THEN 2 ELSE 1) : p \in {"tcp", "udp"}}
  \cup {Exam("BIDIRECTIONAL", p, 1, FALSE, FALSE, IF p = "tcp" THEN 2 ELSE 1) : p \in {"tcp", "udp"}}
  \cup {Exam("SENDER", "udp", 1, o, TRUE, 2) : o \in BOOLEAN}

\* What users of the strategies enter.
Entry(p, b, n, r) == [protocol |-> p, bandwidth |-> b, iterations |-> n, reverse |-> r, auto |-> TRUE]
MCEntries ==
  {Entry("TCP", 0, 2, FALSE), Entry("TCP + UDP Hybrid Strategy", 0, 2, FALSE)}
  \cup {Entry("UDP", 5, 4, r) : r \in BOOLEAN}
  \cup {Entry(p, b, 4, FALSE) : b \in {80, 120},
           p \in {"UDP Incremental Ramp-Up Test", "Smart Ramp-Up Strategy"}}

\* One test whose log has two parts.
MCPlans == <<2>>
----------------------------------------------------------------------------

Init ==
  /\ part \in {"timers", "udp", "rate", "sockets", "arguments", "parameters", "results",
              "strategy", "history"}
  /\ TimerInit /\ UdpInit /\ RateInit /\ SocketInit
  /\ ArgumentsInit /\ ParametersInit /\ ResultsInit /\ StrategyInit
  /\ LogInit

\* The parts other than p keep their states.
Others(p) ==
  /\ p # "timers" => UNCHANGED timerVars
  /\ p # "udp" => UNCHANGED udpVars
  /\ p # "rate" => UNCHANGED rateVars
  /\ p # "sockets" => UNCHANGED socketVars
  /\ p # "arguments" => UNCHANGED argumentVars
  /\ p # "parameters" => UNCHANGED parameterVars
  /\ p # "results" => UNCHANGED resultVars
  /\ p # "strategy" => UNCHANGED strategyVars
  /\ p # "history" => UNCHANGED logVars

Only(p) == part = p /\ part' = part /\ Others(p)

Next ==
  \/ Only("timers") /\ TimerNext
  \/ Only("udp") /\ UdpNext
  \/ Only("rate") /\ RateNext
  \/ Only("sockets") /\ SocketNext
  \/ Only("arguments") /\ ArgumentsNext
  \/ Only("parameters") /\ ParametersNext
  \/ Only("results") /\ ResultsNext
  \/ Only("strategy") /\ StrategyNext
  \/ Only("history") /\ LogNext

Spec == Init /\ [][Next]_<<part, timerVars, udpVars, rateVars, socketVars,
                           argumentVars, parameterVars, resultVars, strategyVars, logVars>>
=============================================================================
