--------------------------- MODULE TestParameters ---------------------------
(* The parameters of one test after the other at the same server: a client   *)
(* sends what differs from nothing (send_parameters), the server stores what *)
(* it gets in its only struct iperf_test (get_parameters), runs the test,    *)
(* and resets the structure for the next one (iperf_reset_test). A value is  *)
(* 0 for not set; other numbers only differ from each other.                 *)
EXTENDS Naturals

CONSTANTS Clients,        \* the settings of the clients that may come
          MaxServed       \* bound: tests of one server

VARIABLES srvTest,     \* the server's struct iperf_test
          cliTest,     \* the client being served
          wire,        \* the JSON object under way, a function on its members
          stage,       \* "idle", "sent", "accepted"
          served,      \* history: tests begun
          earlier      \* history: what earlier clients asked for, per parameter

parameterVars == <<srvTest, cliTest, wire, stage, served, earlier>>

DefaultBlockSize == 1
DefaultPacing == 1

\* What is sent whatever its value, and what is sent when it is set.
AlwaysSent == {"omit", "time", "num", "blockcount", "parallel"}
SentWhenSet ==
  {"MSS", "nodelay", "reverse", "bidirectional", "window", "len", "bandwidth", "fqrate",
   "pacing_timer", "burst", "TOS", "title", "extra_data", "congestion", "congestion_used",
   "get_server_output", "udp_counters_64bit", "repeating_payload", "zerocopy", "skip_rx_copy",
   "flowlabel", "dont_fragment"}
Switches == {"get_server_output", "udp_counters_64bit", "repeating_payload",
             "nodelay", "reverse", "bidirectional"}
Parameters == AlwaysSent \cup SentWhenSet \cup {"server_affinity"}
NotPinned == 0                  \* -1 in the code

\* iperf_defaults, once per process.
DefaultParameters ==
  [k \in Parameters |-> CASE k = "time" -> 10 [] k = "parallel" -> 1
                          [] k = "len" -> DefaultBlockSize
                          [] k = "pacing_timer" -> DefaultPacing
                          [] k = "server_affinity" -> NotPinned
                          [] OTHER -> 0]

\* What iperf_reset_test gives back its default, and cleanup_server before it
\* (congestion_used).
ResetParameters ==
  {"omit", "time", "parallel", "server_affinity", "MSS", "nodelay", "reverse",
   "bidirectional", "window", "len", "bandwidth", "fqrate", "burst", "TOS", "title",
   "extra_data", "congestion", "congestion_used", "udp_counters_64bit", "zerocopy",
   "skip_rx_copy", "dont_fragment"}

\* The next get_parameters clears these before it looks for them.
ClearedOnArrival == {"num", "blockcount"}
Sticky == Parameters \ (ResetParameters \cup ClearedOnArrival)

\* Numbers; a switch is on or off; what has a default other than 0 (the block
\* size, the number of streams, ...) is never set to 0 unless it is sent anyway.
ASSUME ParametersAssumption ==
  /\ MaxServed \in Nat
  /\ \A c \in Clients :
       /\ c.protocol \in {"tcp", "udp"}
       /\ \A k \in DOMAIN c.set :
            /\ c.set[k] \in Nat
            /\ k \in Switches => c.set[k] \in {0, 1}
            /\ k \in SentWhenSet \ Sticky /\ c.set[k] = 0 => DefaultParameters[k] = 0

HasRetransmits(mode, protocol) == mode # "RECEIVER" /\ protocol = "tcp"
Fresh == [value |-> DefaultParameters, protocol |-> "tcp", mode |-> "RECEIVER",
          retransmits |-> FALSE, failed |-> FALSE]

ParametersInit ==
  /\ srvTest = Fresh /\ cliTest = Fresh /\ wire = [k \in {} |-> 0]
  /\ stage = "idle" /\ served = 0 /\ earlier = [k \in Parameters |-> {}]

----------------------------------------------------------------------------
ClientMode(v) == IF v.bidirectional # 0 THEN "BIDIRECTIONAL"
                 ELSE IF v.reverse # 0 THEN "RECEIVER" ELSE "SENDER"

\* send_parameters
ParametersOf(v, protocol) ==
  LET sent == AlwaysSent \cup {k \in SentWhenSet : v[k] # 0}
              \cup {k \in {"server_affinity"} : v[k] # NotPinned}
  IN [k \in sent \cup {protocol} |-> IF k = protocol THEN 1 ELSE v[k]]

SendParameters(c) ==
  /\ stage = "idle" /\ served < MaxServed
  /\ LET v == [k \in Parameters |-> IF k \in DOMAIN c.set THEN c.set[k] ELSE DefaultParameters[k]]
         mode == ClientMode(v)
     IN /\ cliTest' = [value |-> v, protocol |-> c.protocol, mode |-> mode,
                       retransmits |-> HasRetransmits(mode, c.protocol), failed |-> FALSE]
        /\ wire' = ParametersOf(v, c.protocol)
  /\ stage' = "sent" /\ served' = served + 1
  /\ UNCHANGED <<srvTest, earlier>>

\* get_parameters: what is missing keeps its value. Switches are set to 1, the
\* direction through iperf_set_test_reverse and iperf_set_test_bidirectional,
\* retransmissions only ever to 1.
ServerMode(mode, j) ==
  IF "bidirectional" \in DOMAIN j THEN "BIDIRECTIONAL"
  ELSE IF "reverse" \in DOMAIN j THEN "SENDER" ELSE mode

\* Mutant of StoreParameters: bytes and blocks stay when they are not sent for them.
StoredOver(v, j) ==
  [k \in Parameters |-> IF k \notin DOMAIN j \/ (k \in ClearedOnArrival /\ j[k] = 0) THEN v[k]
                        ELSE IF k \in Switches THEN 1 ELSE j[k]]

StoreParameters(v, j) ==
  [k \in Parameters |-> IF k \in DOMAIN j THEN (IF k \in Switches THEN 1 ELSE j[k])
                        ELSE IF k \in ClearedOnArrival THEN 0 ELSE v[k]]

ProtocolOf(protocol, j) ==
  IF "udp" \in DOMAIN j THEN "udp" ELSE IF "tcp" \in DOMAIN j THEN "tcp" ELSE protocol

GetParameters ==
  /\ stage = "sent"
  /\ LET mode == ServerMode(srvTest.mode, wire)
         protocol == ProtocolOf(srvTest.protocol, wire)
     IN srvTest' = [srvTest EXCEPT !.value = StoreParameters(@, wire), !.protocol = protocol,
                                   !.mode = mode, !.retransmits = HasRetransmits(mode, protocol)]
  /\ stage' = "accepted"
  /\ UNCHANGED <<cliTest, wire, served, earlier>>

\* The body is malformed, too long for the server, or does not come; or it comes
\* and the listener for the streams cannot be made (iperf_exchange_parameters).
ParametersFail ==
  /\ stage = "sent"
  /\ srvTest' = [srvTest EXCEPT !.failed = TRUE]
  /\ stage' = "accepted"
  /\ UNCHANGED <<cliTest, wire, served, earlier>>

ListenFails ==
  /\ stage = "accepted" /\ ~srvTest.failed
  /\ srvTest' = [srvTest EXCEPT !.failed = TRUE]
  /\ UNCHANGED <<cliTest, wire, stage, served, earlier>>

Reset(v) == [k \in Parameters |-> IF k \in ResetParameters THEN DefaultParameters[k] ELSE v[k]]

\* The test ends, well or not: cleanup_server, and iperf_reset_test before the
\* next one.
ResetTest ==
  /\ stage = "accepted"
  /\ srvTest' = [Fresh EXCEPT !.value = Reset(srvTest.value)]
  /\ earlier' = [k \in Parameters |-> earlier[k] \cup {cliTest.value[k]}]
  /\ cliTest' = Fresh /\ wire' = [k \in {} |-> 0] /\ stage' = "idle"
  /\ UNCHANGED served

ParametersNext ==
  \/ \E c \in Clients : SendParameters(c)
  \/ GetParameters \/ ParametersFail \/ ListenFails \/ ResetTest

ParametersSpec == ParametersInit /\ [][ParametersNext]_parameterVars
----------------------------------------------------------------------------
\* Once a server has accepted the parameters of a client it runs the test the
\* client asked for: the same values, the opposite direction, retransmissions
\* counted by a TCP sender. The only values it may have from another client are
\* those neither iperf_reset_test nor get_parameters clears, and only if this
\* client did not set them.
ServedAsAsked ==
  stage = "accepted" /\ ~srvTest.failed =>
    /\ \A k \in Parameters \ Sticky : srvTest.value[k] = cliTest.value[k]
    /\ \A k \in Sticky : IF cliTest.value[k] # 0 THEN srvTest.value[k] = cliTest.value[k]
                         ELSE srvTest.value[k] \in earlier[k] \cup {DefaultParameters[k]}
    /\ srvTest.protocol = cliTest.protocol
    /\ <<cliTest.mode, srvTest.mode>> \in {<<"SENDER", "RECEIVER">>, <<"RECEIVER", "SENDER">>,
                                           <<"BIDIRECTIONAL", "BIDIRECTIONAL">>}
    /\ (cliTest.retransmits \/ srvTest.retransmits) = (cliTest.protocol = "tcp")
=============================================================================
