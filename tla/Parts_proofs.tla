---------------------------- MODULE Parts_proofs ----------------------------
(***************************************************************************)
(* Three parts of a test, each by itself: its parameters, its timers, and  *)
(* its arguments.                                                          *)
(***************************************************************************)
EXTENDS TestParameters, TimerList, IperfArguments,
        FiniteSetTheorems, TLAPS

----------------------------------------------------------------------------
(***************************************************************************)
(* Parameters.  A server that runs any number of tests for any clients     *)
(* serves each one as it asked: what one client set never reaches the      *)
(* next, except through the parameters named Sticky.                       *)
(***************************************************************************)
Values == [Parameters -> Nat]
Modes == {"SENDER", "RECEIVER", "BIDIRECTIONAL"}
Protocols == {"tcp", "udp"}

TestType == [value : Values, protocol : Protocols, mode : Modes,
             retransmits : BOOLEAN, failed : BOOLEAN]

ParametersTypeOK ==
  /\ srvTest \in TestType /\ cliTest \in TestType
  /\ stage \in {"idle", "sent", "accepted"}
  /\ earlier \in [Parameters -> SUBSET Nat]

\* The client under way is one the assumption speaks of, and what it sends is
\* what it has.
ClientKnown ==
  stage # "idle" =>
    /\ \A k \in Switches : cliTest.value[k] \in {0, 1}
    /\ \A k \in SentWhenSet \ Sticky : cliTest.value[k] = 0 => DefaultParameters[k] = 0
    /\ cliTest.mode = ClientMode(cliTest.value)
    /\ cliTest.retransmits = HasRetransmits(cliTest.mode, cliTest.protocol)
    /\ stage = "sent" => wire = ParametersOf(cliTest.value, cliTest.protocol)

\* Between two tests the server has defaults, except for what is sticky or
\* cleared when the next parameters arrive.
ServerReset ==
  stage # "accepted" =>
    /\ \A k \in ResetParameters : srvTest.value[k] = DefaultParameters[k]
    /\ srvTest.mode = "RECEIVER" /\ ~srvTest.failed

\* A sticky value is the default or that of a client, this one included once its
\* parameters have arrived.
StickyKnown ==
  \A k \in Sticky :
    srvTest.value[k] \in earlier[k] \cup {DefaultParameters[k]}
                         \cup (IF stage = "accepted" THEN {cliTest.value[k]} ELSE {})

IInv == ParametersTypeOK /\ ClientKnown /\ ServerReset /\ StickyKnown /\ ServedAsAsked

----------------------------------------------------------------------------
\* iperf_defaults gives every parameter a number.
LEMMA DefaultsType == DefaultParameters \in Values
BY DEF DefaultParameters, Values, Parameters, AlwaysSent, SentWhenSet, DefaultBlockSize,
       DefaultPacing, NotPinned

\* iperf_set_test_role, with the options before it: a role for every settings.
LEMMA ModeType == ASSUME NEW v PROVE ClientMode(v) \in Modes
BY DEF ClientMode, Modes

\* What send_parameters sends: a parameter that is set arrives with its value,
\* and with it the name of the protocol.
LEMMA WireHas ==
  ASSUME NEW v \in Values, NEW pr \in Protocols
  PROVE  LET j == ParametersOf(v, pr)
         IN /\ pr \in DOMAIN j
            /\ \A q \in Protocols : q \in DOMAIN j => q = pr
            /\ \A k \in Parameters : k \in DOMAIN j => j[k] = v[k]
            /\ \A k \in Parameters : v[k] # 0 \/ k \in AlwaysSent => k \in DOMAIN j
            /\ \A k \in SentWhenSet : k \in DOMAIN j => v[k] # 0
<1> DEFINE sent == AlwaysSent \cup {k \in SentWhenSet : v[k] # 0}
                   \cup {k \in {"server_affinity"} : v[k] # NotPinned}
           j == ParametersOf(v, pr)
<1>1. j = [k \in sent \cup {pr} |-> IF k = pr THEN 1 ELSE v[k]]
  BY DEF ParametersOf
<1>2. DOMAIN j = sent \cup {pr}
  BY <1>1
<1>3. pr \notin Parameters /\ \A q \in Protocols : q \notin Parameters
  BY DEF Protocols, Parameters, AlwaysSent, SentWhenSet
<1>4. sent \subseteq Parameters
  BY DEF Parameters
<1>5. \A k \in Parameters : k \in DOMAIN j => j[k] = v[k]
  BY <1>1, <1>2, <1>3
<1>6. \A k \in Parameters : v[k] # 0 \/ k \in AlwaysSent => k \in DOMAIN j
  BY <1>2 DEF Parameters, NotPinned
<1>7. \A k \in SentWhenSet : k \in DOMAIN j => v[k] # 0
  <2> SUFFICES ASSUME NEW k \in SentWhenSet, k \in sent \cup {pr} PROVE v[k] # 0
    BY <1>2
  <2>1. k # pr
    BY <1>3 DEF Parameters
  <2>2. k \notin AlwaysSent /\ k # "server_affinity"
    BY DEF SentWhenSet, AlwaysSent
  <2> QED BY <2>1, <2>2
<1> QED BY <1>2, <1>3, <1>4, <1>5, <1>6, <1>7

\* get_parameters on what send_parameters sent, at a server that has been reset.
LEMMA Stored ==
  ASSUME NEW w \in Values, NEW v \in Values, NEW pr \in Protocols, NEW j,
         j = ParametersOf(v, pr),
         \A k \in Switches : v[k] \in {0, 1},
         \A k \in SentWhenSet \ Sticky : v[k] = 0 => DefaultParameters[k] = 0,
         \A k \in ResetParameters : w[k] = DefaultParameters[k]
  PROVE  LET u == StoreParameters(w, j)
         IN /\ u \in Values
            /\ \A k \in Parameters \ Sticky : u[k] = v[k]
            /\ \A k \in Sticky : u[k] = IF v[k] # 0 THEN v[k] ELSE w[k]
<1> DEFINE u == StoreParameters(w, j)
<1>1. \A k \in Parameters : u[k] = IF k \in DOMAIN j THEN (IF k \in Switches THEN 1 ELSE j[k])
                                   ELSE IF k \in ClearedOnArrival THEN 0 ELSE w[k]
  BY DEF StoreParameters
<1>2. /\ \A k \in Parameters : k \in DOMAIN j => j[k] = v[k]
      /\ \A k \in Parameters : v[k] # 0 \/ k \in AlwaysSent => k \in DOMAIN j
      /\ \A k \in SentWhenSet : k \in DOMAIN j => v[k] # 0
  BY WireHas
<1>3. Switches \subseteq SentWhenSet /\ Switches \subseteq Parameters
  BY DEF Switches, SentWhenSet, Parameters
<1>4. \A k \in Parameters : k \in DOMAIN j => u[k] = v[k]
  BY <1>1, <1>2, <1>3
<1>5. \A k \in Parameters : u[k] \in Nat
  <2> SUFFICES ASSUME NEW k \in Parameters PROVE u[k] \in Nat
    OBVIOUS
  <2>1. CASE k \in DOMAIN j BY <2>1, <1>4 DEF Values
  <2>2. CASE k \notin DOMAIN j BY <2>2, <1>1 DEF Values
  <2> QED BY <2>1, <2>2
<1>6. u \in Values
  <2>1. u = [k \in Parameters |-> u[k]]
    BY DEF StoreParameters
  <2> QED BY <2>1, <1>5 DEF Values
<1>7. \A k \in Parameters \ Sticky : u[k] = v[k]
  <2> SUFFICES ASSUME NEW k \in Parameters, k \notin Sticky, k \notin DOMAIN j PROVE u[k] = v[k]
    BY <1>4
  <2>1. v[k] = 0 /\ k \notin AlwaysSent
    BY <1>2
  <2>2. k \in ResetParameters /\ k \notin ClearedOnArrival
    BY <2>1 DEF Sticky, ClearedOnArrival, AlwaysSent
  <2>3. u[k] = DefaultParameters[k]
    BY <2>2, <1>1
  <2>4. CASE k \in SentWhenSet BY <2>1, <2>3, <2>4
  <2>5. CASE k \notin SentWhenSet
    <3>1. k = "server_affinity"
      BY <2>1, <2>5 DEF Parameters
    <3> QED BY <3>1, <2>1, <2>3 DEF DefaultParameters, Parameters, NotPinned
  <2> QED BY <2>4, <2>5
<1>8. \A k \in Sticky : u[k] = IF v[k] # 0 THEN v[k] ELSE w[k]
  <2> SUFFICES ASSUME NEW k \in Sticky PROVE u[k] = IF v[k] # 0 THEN v[k] ELSE w[k]
    OBVIOUS
  <2>1. k \in Parameters /\ k \in SentWhenSet /\ k \notin ClearedOnArrival
    BY DEF Sticky, Parameters, ResetParameters, ClearedOnArrival, AlwaysSent
  <2>2. CASE v[k] # 0 BY <2>1, <2>2, <1>2, <1>4
  <2>3. CASE v[k] = 0
    <3>1. k \notin DOMAIN j BY <2>1, <2>3, <1>2
    <3> QED BY <3>1, <2>1, <2>3, <1>1
  <2> QED BY <2>2, <2>3
<1> QED BY <1>6, <1>7, <1>8

----------------------------------------------------------------------------
\* A new server.
LEMMA InitIInv == ParametersInit => IInv
<1> SUFFICES ASSUME ParametersInit PROVE IInv
  OBVIOUS
<1>1. Fresh \in TestType
  BY DefaultsType DEF Fresh, TestType, Modes, Protocols
<1>2. Sticky \subseteq Parameters /\ ResetParameters \subseteq Parameters
  BY DEF Sticky, ResetParameters, Parameters, AlwaysSent, SentWhenSet
<1>3. ParametersTypeOK
  BY <1>1 DEF ParametersTypeOK, ParametersInit
<1> QED
  BY <1>2, <1>3 DEF ParametersInit, IInv, ClientKnown, ServerReset, StickyKnown, ServedAsAsked, Fresh

\* A client comes and sends its parameters.
LEMMA SendStep ==
  ASSUME IInv, NEW c \in Clients, SendParameters(c) PROVE IInv'
<1> DEFINE v == [k \in Parameters |-> IF k \in DOMAIN c.set THEN c.set[k] ELSE DefaultParameters[k]]
           mode == ClientMode(v)
<1>1. v \in Values
  BY DefaultsType, ParametersAssumption DEF Values
<1>2. /\ cliTest' = [value |-> v, protocol |-> c.protocol, mode |-> mode,
                     retransmits |-> HasRetransmits(mode, c.protocol), failed |-> FALSE]
      /\ wire' = ParametersOf(v, c.protocol)
      /\ stage = "idle" /\ stage' = "sent" /\ UNCHANGED <<srvTest, earlier>>
  BY DEF SendParameters
<1>3. HasRetransmits(mode, c.protocol) \in BOOLEAN
  BY DEF HasRetransmits
<1>4. cliTest' \in TestType
  BY <1>1, <1>2, <1>3, ModeType, ParametersAssumption DEF TestType, Protocols
<1>5. ParametersTypeOK'
  BY <1>2, <1>4 DEF IInv, ParametersTypeOK
<1>6. \A k \in Switches : v[k] \in {0, 1}
  <2> SUFFICES ASSUME NEW k \in Switches PROVE v[k] \in {0, 1}
    OBVIOUS
  <2>1. k \in Parameters /\ DefaultParameters[k] = 0
    BY DEF Switches, Parameters, SentWhenSet, DefaultParameters
  <2> QED BY <2>1, ParametersAssumption
<1>7. \A k \in SentWhenSet \ Sticky : v[k] = 0 => DefaultParameters[k] = 0
  BY ParametersAssumption DEF Parameters
<1>8. ClientKnown'
  BY <1>2, <1>6, <1>7 DEF ClientKnown
<1> QED BY <1>2, <1>5, <1>8 DEF IInv, ServerReset, StickyKnown, ServedAsAsked

\* They arrive: the server then has what the client has.
LEMMA GetStep == ASSUME IInv, GetParameters PROVE IInv'
<1> DEFINE v == cliTest.value
           pr == cliTest.protocol
           u == StoreParameters(srvTest.value, wire)
           mode == ServerMode(srvTest.mode, wire)
           protocol == ProtocolOf(srvTest.protocol, wire)
<1>1. /\ v \in Values /\ pr \in Protocols /\ srvTest.value \in Values
      /\ wire = ParametersOf(v, pr) /\ stage = "sent"
      /\ srvTest.mode = "RECEIVER" /\ srvTest.failed = FALSE
  BY DEF GetParameters, IInv, ParametersTypeOK, ClientKnown, ServerReset, TestType
<1>2. /\ u \in Values
      /\ \A k \in Parameters \ Sticky : u[k] = v[k]
      /\ \A k \in Sticky : u[k] = IF v[k] # 0 THEN v[k] ELSE srvTest.value[k]
  BY <1>1, Stored DEF IInv, ClientKnown, ServerReset
<1>3. /\ \A k \in SentWhenSet : k \in DOMAIN wire <=> v[k] # 0
      /\ pr \in DOMAIN wire /\ \A q \in Protocols : q \in DOMAIN wire => q = pr
  BY <1>1, WireHas DEF Parameters
<1>4. protocol = pr
  BY <1>1, <1>3 DEF ProtocolOf, Protocols
<1>5. "bidirectional" \in SentWhenSet /\ "reverse" \in SentWhenSet
  BY DEF SentWhenSet
<1>6. /\ cliTest.mode = ClientMode(v)
      /\ <<cliTest.mode, mode>> \in {<<"SENDER", "RECEIVER">>, <<"RECEIVER", "SENDER">>,
                                     <<"BIDIRECTIONAL", "BIDIRECTIONAL">>}
  BY <1>1, <1>3, <1>5 DEF IInv, ClientKnown, ClientMode, ServerMode
<1>7. srvTest' = [srvTest EXCEPT !.value = u, !.protocol = protocol, !.mode = mode,
                                 !.retransmits = HasRetransmits(mode, protocol)]
      /\ stage' = "accepted" /\ UNCHANGED <<cliTest, wire, served, earlier>>
  BY DEF GetParameters
<1>8. /\ srvTest'.value = u /\ srvTest'.protocol = pr /\ srvTest'.mode = mode
      /\ srvTest'.retransmits = HasRetransmits(mode, pr) /\ srvTest'.failed = FALSE
  BY <1>1, <1>4, <1>7 DEF IInv, ParametersTypeOK, TestType
<1>9. srvTest' \in TestType
  <2>1. mode \in Modes /\ HasRetransmits(mode, pr) \in BOOLEAN
    BY <1>6 DEF Modes, HasRetransmits
  <2> QED BY <2>1, <1>1, <1>2, <1>4, <1>7 DEF IInv, ParametersTypeOK, TestType
<1>10. ParametersTypeOK'
  BY <1>7, <1>9 DEF IInv, ParametersTypeOK
<1>11. ClientKnown' /\ ServerReset'
  BY <1>1, <1>7 DEF IInv, ClientKnown, ServerReset
<1>12. \A k \in Sticky : srvTest.value[k] \in earlier[k] \cup {DefaultParameters[k]}
  BY <1>1 DEF IInv, StickyKnown
<1>13. StickyKnown'
  BY <1>2, <1>7, <1>8, <1>12 DEF StickyKnown
<1>14. (cliTest.retransmits \/ srvTest'.retransmits) = (pr = "tcp")
  BY <1>1, <1>6, <1>8 DEF IInv, ClientKnown, HasRetransmits
<1>15. ServedAsAsked'
  <2> SUFFICES
        /\ \A k \in Parameters \ Sticky : u[k] = v[k]
        /\ \A k \in Sticky : IF v[k] # 0 THEN u[k] = v[k]
                             ELSE u[k] \in earlier[k] \cup {DefaultParameters[k]}
        /\ (cliTest.retransmits \/ srvTest'.retransmits) = (pr = "tcp")
    BY <1>6, <1>7, <1>8 DEF ServedAsAsked
  <2> QED BY <1>2, <1>12, <1>14
<1> QED BY <1>10, <1>11, <1>13, <1>15 DEF IInv

\* They do not, or the streams cannot be listened for.
LEMMA FailStep == ASSUME IInv, ParametersFail \/ ListenFails PROVE IInv'
<1>1. /\ srvTest' = [srvTest EXCEPT !.failed = TRUE] /\ stage' = "accepted"
      /\ stage # "idle" /\ UNCHANGED <<cliTest, wire, earlier>>
  BY DEF ParametersFail, ListenFails
<1>2. srvTest' \in TestType /\ srvTest'.value = srvTest.value /\ srvTest'.failed = TRUE
  BY <1>1 DEF IInv, ParametersTypeOK, TestType
<1> QED BY <1>1, <1>2 DEF IInv, ParametersTypeOK, ClientKnown, ServerReset, StickyKnown, ServedAsAsked

\* The test ends: what the reset leaves is sticky or cleared on arrival.
LEMMA ResetStep == ASSUME IInv, ResetTest PROVE IInv'
<1>1. /\ srvTest' = [Fresh EXCEPT !.value = Reset(srvTest.value)]
      /\ earlier' = [k \in Parameters |-> earlier[k] \cup {cliTest.value[k]}]
      /\ cliTest' = Fresh /\ stage = "accepted" /\ stage' = "idle"
  BY DEF ResetTest
<1>2. /\ srvTest.value \in Values /\ cliTest.value \in Values
      /\ earlier \in [Parameters -> SUBSET Nat]
  BY DEF IInv, ParametersTypeOK, TestType
<1>3. Fresh \in TestType
  BY DefaultsType DEF Fresh, TestType, Modes, Protocols
<1>4. Reset(srvTest.value) \in Values
  BY <1>2, DefaultsType DEF Reset, Values
<1>5. srvTest' = [value |-> Reset(srvTest.value), protocol |-> "tcp", mode |-> "RECEIVER",
                  retransmits |-> FALSE, failed |-> FALSE]
  BY <1>1 DEF Fresh
<1>6. srvTest' \in TestType
  BY <1>4, <1>5 DEF TestType, Modes, Protocols
<1>7. earlier' \in [Parameters -> SUBSET Nat]
  BY <1>1, <1>2 DEF Values
<1>8. ParametersTypeOK'
  BY <1>1, <1>3, <1>6, <1>7 DEF ParametersTypeOK
<1>9. Sticky \subseteq Parameters /\ ResetParameters \subseteq Parameters
      /\ \A k \in Sticky : k \notin ResetParameters
  BY DEF Sticky, ResetParameters, Parameters, AlwaysSent, SentWhenSet
<1>10. ServerReset'
  BY <1>5, <1>9 DEF ServerReset, Reset
<1>11. StickyKnown'
  <2> SUFFICES ASSUME NEW k \in Sticky
               PROVE  srvTest'.value[k] \in earlier'[k] \cup {DefaultParameters[k]}
    BY <1>1 DEF StickyKnown
  <2>1. srvTest'.value[k] = srvTest.value[k]
    BY <1>5, <1>9 DEF Reset
  <2>2. srvTest.value[k] \in earlier[k] \cup {DefaultParameters[k]} \cup {cliTest.value[k]}
    BY <1>1 DEF IInv, StickyKnown
  <2> QED BY <2>1, <2>2, <1>1, <1>9
<1> QED BY <1>1, <1>8, <1>10, <1>11 DEF IInv, ClientKnown, ServedAsAsked

\* A step that changes nothing.
LEMMA StutterStep == ASSUME IInv, UNCHANGED parameterVars PROVE IInv'
BY DEF IInv, ParametersTypeOK, ClientKnown, ServerReset, StickyKnown, ServedAsAsked, parameterVars

\* Whatever the clients of a server set, and however many it serves: a client whose
\* parameters were accepted gets the test it asked for, and only the sticky values
\* can come from an earlier client (send_parameters, get_parameters, iperf_reset_test).
THEOREM ServedAsAskedAlways == ParametersSpec => []ServedAsAsked
<1>1. ParametersInit => IInv
  BY InitIInv
<1>2. IInv /\ [ParametersNext]_parameterVars => IInv'
  BY SendStep, GetStep, FailStep, ResetStep, StutterStep DEF ParametersNext
<1>3. IInv => ServedAsAsked
  BY DEF IInv
<1> QED BY <1>1, <1>2, <1>3, PTL DEF ParametersSpec

----------------------------------------------------------------------------
(***************************************************************************)
(* Timers.  A test sets, moves and cancels timers in two linked lists,     *)
(* while tmr_run walks one of them. The proof gives each list a name, a    *)
(* sequence of cells: IsActive and IsFree say that the links are those of  *)
(* the sequence. First the sequences themselves: one cell more, one cell   *)
(* less.                                                                   *)
(***************************************************************************)
CellLinks == 0 .. MaxCells

CellType == [proc : TimerKinds \cup {"none"}, usecs : Nat, periodic : BOOLEAN, time : Nat,
             prev : CellLinks, next : CellLinks]
HeapType == [timers : CellLinks, free : CellLinks, made : CellLinks, cell : [Cells -> CellType]]

\* The element i of a list, NULL before and behind it.
Nth(s, i) == IF i \in 1 .. Len(s) THEN s[i] ELSE NoCell

Distinct(s) == \A i, j \in 1 .. Len(s) : s[i] = s[j] => i = j

\* s is what the links of the active list, of the free list, say.
IsActive(h, s) ==
  /\ s \in Seq(Cells) /\ Distinct(s)
  /\ h.timers = Nth(s, 1)
  /\ \A i \in 1 .. Len(s) : h.cell[s[i]].prev = Nth(s, i - 1) /\ h.cell[s[i]].next = Nth(s, i + 1)

IsFree(h, f) ==
  /\ f \in Seq(Cells) /\ Distinct(f)
  /\ h.free = Nth(f, 1)
  /\ \A i \in 1 .. Len(f) : h.cell[f[i]].next = Nth(f, i + 1)

Sorted(h, s) == \A i, j \in 1 .. Len(s) : i < j => h.cell[s[i]].time <= h.cell[s[j]].time

On(c, s) == \E i \in 1 .. Len(s) : s[i] = c
Precedes(s, c, d) == \E i, j \in 1 .. Len(s) : i < j /\ s[i] = c /\ s[j] = d

Inserted(s, n, t) ==
  [i \in 1 .. Len(s) + 1 |-> IF i < n THEN s[i] ELSE IF i = n THEN t ELSE s[i - 1]]
Without(s, n) == [i \in 1 .. Len(s) - 1 |-> IF i < n THEN s[i] ELSE s[i + 1]]

\* u has the cells of s, and those other than t in the same order.
SameOrder(s, u, t) ==
  \A c, d : c # t /\ d # t => (Precedes(u, c, d) <=> Precedes(s, c, d))

\* u is s, of length m, with t at the place n.
HasInserted(s, m, n, t, u) ==
  /\ u \in Seq(Cells) /\ Len(u) = m + 1 /\ Distinct(u)
  /\ \A i \in 1 .. m + 1 : u[i] = IF i < n THEN s[i] ELSE IF i = n THEN t ELSE s[i - 1]
  /\ \A c : On(c, u) <=> On(c, s) \/ c = t
  /\ SameOrder(s, u, t)

\* u is s, of length m, without t, which is at the place n.
HasRemoved(s, m, n, t, u) ==
  /\ u \in Seq(Cells) /\ Len(u) = m - 1 /\ Distinct(u)
  /\ \A i \in 1 .. m - 1 : u[i] = IF i < n THEN s[i] ELSE s[i + 1]
  /\ \A c : On(c, u) <=> On(c, s) /\ c # t
  /\ SameOrder(s, u, t)

\* A cell put into a list at the place n.
LEMMA InsertedIs ==
  ASSUME NEW s \in Seq(Cells), NEW m \in Nat, Len(s) = m, NEW n \in 1 .. m + 1, NEW t \in Cells,
         Distinct(s), ~On(t, s)
  PROVE  HasInserted(s, m, n, t, Inserted(s, n, t))
<1> DEFINE u == Inserted(s, n, t)
<1>1. \A i \in 1 .. m : s[i] \in Cells
  OBVIOUS
<1>2. \A i \in 1 .. m + 1 : i < n => i \in 1 .. m
  OBVIOUS
<1>3. \A i \in 1 .. m + 1 : ~(i < n) /\ i # n => i - 1 \in 1 .. m
  OBVIOUS
<1>4. u \in [1 .. m + 1 -> Cells]
  BY <1>1, <1>2, <1>3 DEF Inserted
<1>5. u \in Seq(Cells) /\ Len(u) = m + 1
  BY <1>4
<1>6. \A i \in 1 .. m + 1 : u[i] = IF i < n THEN s[i] ELSE IF i = n THEN t ELSE s[i - 1]
  BY DEF Inserted
<1> HIDE DEF u
<1>7. \A i \in 1 .. m : s[i] # t /\ (i < n => i \in 1 .. m + 1 /\ u[i] = s[i])
                                /\ (~(i < n) => i + 1 \in 1 .. m + 1 /\ u[i + 1] = s[i])
  <2> TAKE i \in 1 .. m
  <2>1. s[i] # t
    BY DEF On
  <2>2. ASSUME i < n PROVE i \in 1 .. m + 1 /\ u[i] = s[i]
    BY <2>2, <1>6
  <2>3. ASSUME ~(i < n) PROVE i + 1 \in 1 .. m + 1 /\ u[i + 1] = s[i]
    <3>1. i + 1 \in 1 .. m + 1 /\ ~(i + 1 < n) /\ i + 1 # n /\ (i + 1) - 1 = i
      BY <2>3
    <3> QED BY <3>1, <1>6
  <2> QED BY <2>1, <2>2, <2>3
<1>8. n \in 1 .. m + 1 /\ u[n] = t
  BY <1>6
<1>9. ASSUME NEW i \in 1 .. m + 1, NEW j \in 1 .. m + 1, u[i] = u[j] PROVE i = j
  <2>1. \A k \in 1 .. m + 1 : k # n => u[k] # t
    BY <1>6, <1>2, <1>3, <1>7
  <2>2. CASE i = n \/ j = n
    BY <2>1, <2>2, <1>8, <1>9
  <2>3. CASE i # n /\ j # n
    <3> DEFINE a == IF i < n THEN i ELSE i - 1
               b == IF j < n THEN j ELSE j - 1
    <3>1. a \in 1 .. m /\ b \in 1 .. m
      BY <1>2, <1>3, <2>3
    <3>2. u[i] = s[a] /\ u[j] = s[b]
      BY <1>6, <2>3
    <3>3. a = b
      <4> HIDE DEF a, b
      <4> QED BY <3>1, <3>2, <1>9 DEF Distinct
    <3> QED BY <3>3, <2>3
  <2> QED BY <2>2, <2>3
<1>10. \A c : On(c, u) <=> On(c, s) \/ c = t
  <2> TAKE c
  <2>1. ASSUME On(c, u) PROVE On(c, s) \/ c = t
    <3>1. PICK i \in 1 .. m + 1 : u[i] = c
      BY <2>1, <1>5 DEF On
    <3> QED BY <3>1, <1>2, <1>3, <1>6 DEF On
  <2>2. ASSUME On(c, s) PROVE On(c, u)
    <3>1. PICK i \in 1 .. m : s[i] = c
      BY <2>2 DEF On
    <3> QED BY <3>1, <1>7, <1>5 DEF On
  <2>3. On(t, u)
    BY <1>8, <1>5 DEF On
  <2> QED BY <2>1, <2>2, <2>3
<1>11. ASSUME NEW c, NEW d, c # t, d # t PROVE Precedes(u, c, d) <=> Precedes(s, c, d)
  <2>1. ASSUME Precedes(u, c, d) PROVE Precedes(s, c, d)
    <3>1. PICK i \in 1 .. m + 1, j \in 1 .. m + 1 : i < j /\ u[i] = c /\ u[j] = d
      BY <2>1, <1>5 DEF Precedes
    <3>2. i # n /\ j # n
      BY <3>1, <1>8, <1>11
    <3> DEFINE a == IF i < n THEN i ELSE i - 1
               b == IF j < n THEN j ELSE j - 1
    <3>3. a \in 1 .. m /\ b \in 1 .. m /\ a < b
      BY <1>2, <1>3, <3>1, <3>2
    <3>4. s[a] = c /\ s[b] = d
      BY <1>6, <3>1, <3>2
    <3> HIDE DEF a, b
    <3> QED BY <3>3, <3>4 DEF Precedes
  <2>2. ASSUME Precedes(s, c, d) PROVE Precedes(u, c, d)
    <3>1. PICK i \in 1 .. m, j \in 1 .. m : i < j /\ s[i] = c /\ s[j] = d
      BY <2>2 DEF Precedes
    <3> DEFINE a == IF i < n THEN i ELSE i + 1
               b == IF j < n THEN j ELSE j + 1
    <3>2. a \in 1 .. m + 1 /\ b \in 1 .. m + 1 /\ a < b
      BY <3>1
    <3>3. u[a] = c /\ u[b] = d
      BY <1>7, <3>1
    <3> HIDE DEF a, b
    <3> QED BY <3>2, <3>3, <1>5 DEF Precedes
  <2> QED BY <2>1, <2>2
<1>12. Distinct(u) /\ SameOrder(s, u, t)
  BY <1>5, <1>9, <1>11 DEF Distinct, SameOrder
<1> QED BY <1>5, <1>6, <1>10, <1>12 DEF u, HasInserted

\* A list without its element n.
LEMMA WithoutIs ==
  ASSUME NEW s \in Seq(Cells), NEW m \in Nat, Len(s) = m, NEW n \in 1 .. m, Distinct(s)
  PROVE  HasRemoved(s, m, n, s[n], Without(s, n))
<1> DEFINE u == Without(s, n)
<1>1. \A i \in 1 .. m : s[i] \in Cells
  OBVIOUS
<1>2. \A i \in 1 .. m - 1 : i \in 1 .. m /\ i + 1 \in 1 .. m
  OBVIOUS
<1>4. u \in [1 .. m - 1 -> Cells]
  BY <1>1, <1>2 DEF Without
<1>5. u \in Seq(Cells) /\ Len(u) = m - 1
  <2>1. m - 1 \in Nat
    OBVIOUS
  <2> QED BY <1>4, <2>1
<1>6. \A i \in 1 .. m - 1 : u[i] = IF i < n THEN s[i] ELSE s[i + 1]
  BY DEF Without
<1> HIDE DEF u
<1>7. ASSUME NEW i \in 1 .. m - 1, NEW j \in 1 .. m - 1, u[i] = u[j] PROVE i = j
  <2> DEFINE a == IF i < n THEN i ELSE i + 1
             b == IF j < n THEN j ELSE j + 1
  <2>1. a \in 1 .. m /\ b \in 1 .. m
    BY <1>2
  <2>2. u[i] = s[a] /\ u[j] = s[b]
    BY <1>6
  <2>3. a = b
    <3> HIDE DEF a, b
    <3> QED BY <2>1, <2>2, <1>7 DEF Distinct
  <2> QED BY <2>3
<1>8. \A i \in 1 .. m : i # n => LET a == IF i < n THEN i ELSE i - 1
                                 IN a \in 1 .. m - 1 /\ u[a] = s[i]
  <2> TAKE i \in 1 .. m
  <2> HAVE i # n
  <2>1. CASE i < n
    BY <2>1, <1>6
  <2>2. CASE ~(i < n)
    <3>1. i - 1 \in 1 .. m - 1 /\ ~(i - 1 < n) /\ (i - 1) + 1 = i
      BY <2>2
    <3> QED BY <3>1, <2>2, <1>6
  <2> QED BY <2>1, <2>2
<1>9. \A c : On(c, u) <=> On(c, s) /\ c # s[n]
  <2> TAKE c
  <2>1. ASSUME On(c, u) PROVE On(c, s) /\ c # s[n]
    <3>1. PICK i \in 1 .. m - 1 : u[i] = c
      BY <2>1, <1>5 DEF On
    <3> DEFINE a == IF i < n THEN i ELSE i + 1
    <3>2. a \in 1 .. m /\ a # n /\ s[a] = c
      BY <1>2, <1>6, <3>1
    <3> HIDE DEF a
    <3> QED BY <3>2 DEF On, Distinct
  <2>2. ASSUME On(c, s), c # s[n] PROVE On(c, u)
    <3>1. PICK i \in 1 .. m : s[i] = c
      BY <2>2 DEF On
    <3>2. \E a \in 1 .. m - 1 : u[a] = s[i]
      BY <3>1, <2>2, <1>8
    <3> QED BY <3>1, <3>2, <1>5 DEF On
  <2> QED BY <2>1, <2>2
<1>10. ASSUME NEW c, NEW d, c # s[n], d # s[n] PROVE Precedes(u, c, d) <=> Precedes(s, c, d)
  <2>1. ASSUME Precedes(u, c, d) PROVE Precedes(s, c, d)
    <3>1. PICK i \in 1 .. m - 1, j \in 1 .. m - 1 : i < j /\ u[i] = c /\ u[j] = d
      BY <2>1, <1>5 DEF Precedes
    <3> DEFINE a == IF i < n THEN i ELSE i + 1
               b == IF j < n THEN j ELSE j + 1
    <3>2. a \in 1 .. m /\ b \in 1 .. m /\ a < b
      BY <1>2, <3>1
    <3>3. s[a] = c /\ s[b] = d
      BY <1>6, <3>1
    <3> HIDE DEF a, b
    <3> QED BY <3>2, <3>3 DEF Precedes
  <2>2. ASSUME Precedes(s, c, d) PROVE Precedes(u, c, d)
    <3>1. PICK i \in 1 .. m, j \in 1 .. m : i < j /\ s[i] = c /\ s[j] = d
      BY <2>2 DEF Precedes
    <3>2. i # n /\ j # n
      BY <3>1, <1>10
    <3> DEFINE a == IF i < n THEN i ELSE i - 1
               b == IF j < n THEN j ELSE j - 1
    <3>3. a < b
      BY <3>1, <3>2
    <3>4. a \in 1 .. m - 1 /\ b \in 1 .. m - 1 /\ u[a] = c /\ u[b] = d
      BY <1>8, <3>1, <3>2
    <3> HIDE DEF a, b
    <3> QED BY <3>3, <3>4, <1>5 DEF Precedes
  <2> QED BY <2>1, <2>2
<1>11. Distinct(u) /\ SameOrder(s, u, s[n])
  BY <1>5, <1>7, <1>10 DEF Distinct, SameOrder
<1> QED BY <1>5, <1>6, <1>9, <1>11 DEF u, HasRemoved

----------------------------------------------------------------------------
(***************************************************************************)
(* Links.  What list_add, list_remove and list_resort do to the links is   *)
(* what putting a cell into the sequence, taking it out or moving it does. *)
(* A list is at most as long as there are cells, so Chain, which follows   *)
(* the links, finds all of it.                                             *)
(***************************************************************************)
SameData(h, g) ==
  \A c \in Cells : /\ g.cell[c].proc = h.cell[c].proc /\ g.cell[c].usecs = h.cell[c].usecs
                   /\ g.cell[c].periodic = h.cell[c].periodic /\ g.cell[c].time = h.cell[c].time

\* Cells and links are small numbers; NULL is no cell.
LEMMA CellNumbers == Cells = 1 .. 4 /\ CellLinks = 0 .. 4 /\ NoCell = 0 /\ Cells \subseteq CellLinks /\ NoCell \notin Cells
BY DEF Cells, CellLinks, MaxCells, NoCell

\* Elements of a list are cells, what is before and behind them is NULL.
LEMMA NthIs ==
  ASSUME NEW s \in Seq(Cells), NEW i \in Int
  PROVE  Nth(s, i) \in CellLinks /\ (i \in 1 .. Len(s) => Nth(s, i) = s[i] /\ s[i] \in Cells)
                            /\ (i \notin 1 .. Len(s) => Nth(s, i) = NoCell)
<1>1. \A j \in 1 .. Len(s) : s[j] \in Cells
  OBVIOUS
<1> QED BY <1>1, CellNumbers DEF Nth

\* Chain follows the links of a list that is no longer than the cells allow.
LEMMA ChainIs ==
  ASSUME NEW h, NEW s \in Seq(Cells), NEW m \in 0 .. 4, Len(s) = m, NEW c1, c1 = Nth(s, 1),
         \A i \in 1 .. m : h.cell[s[i]].next = Nth(s, i + 1)
  PROVE  Chain(h, c1) = s
<1>1. ASSUME NEW i \in 1 .. 4 PROVE Follows(h, Nth(s, i)) = Nth(s, i + 1)
  <2>1. CASE i \in 1 .. m
    <3>1. Nth(s, i) = s[i] /\ s[i] \in Cells
      BY <2>1, NthIs
    <3> QED BY <2>1, <3>1, CellNumbers DEF Follows
  <2>2. CASE i \notin 1 .. m
    <3>1. i + 1 \notin 1 .. m
      BY <2>2
    <3>2. Nth(s, i) = NoCell /\ Nth(s, i + 1) = NoCell
      BY <2>2, <3>1, NthIs
    <3> QED BY <3>2 DEF Follows
  <2> QED BY <2>1, <2>2
<1> DEFINE c2 == Follows(h, c1)
           c3 == Follows(h, c2)
           c4 == Follows(h, c3)
           c5 == Follows(h, c4)
           cells == <<c1, c2, c3, c4, c5>>
<1>2. c2 = Nth(s, 2) /\ c3 = Nth(s, 3) /\ c4 = Nth(s, 4) /\ c5 = Nth(s, 5)
  <2>1. Follows(h, Nth(s, 1)) = Nth(s, 2)
    BY <1>1
  <2>2. Follows(h, Nth(s, 2)) = Nth(s, 3)
    BY <1>1
  <2>3. Follows(h, Nth(s, 3)) = Nth(s, 4)
    BY <1>1
  <2>4. Follows(h, Nth(s, 4)) = Nth(s, 5)
    BY <1>1
  <2> QED BY <2>1, <2>2, <2>3, <2>4
<1> HIDE DEF c2, c3, c4, c5
<1>3. \A n \in 1 .. 5 : cells[n] = Nth(s, n)
  BY <1>2
<1>4. {n \in 1 .. 5 : cells[n] # NoCell} = 1 .. m
  <2>1. ASSUME NEW n \in 1 .. 5 PROVE cells[n] # NoCell <=> n \in 1 .. m
    BY <1>3, NthIs, CellNumbers
  <2>2. 1 .. m \subseteq 1 .. 5
    OBVIOUS
  <2> HIDE DEF cells
  <2> QED BY <2>1, <2>2
<1>5. Cardinality(1 .. m) = m
  BY FS_Interval
<1>6. Chain(h, c1) = SubSeq(cells, 1, m)
  BY <1>4, <1>5 DEF Chain, c2, c3, c4, c5
<1>7. SubSeq(cells, 1, m) = s
  <2>1. \A n \in 1 .. m : cells[n] = s[n] /\ s[n] \in Cells
    <3> TAKE n \in 1 .. m
    <3>1. n \in 1 .. 5
      OBVIOUS
    <3> HIDE DEF cells
    <3> QED BY <3>1, <1>3, NthIs
  <2> HIDE DEF cells
  <2>2. SubSeq(cells, 1, m) = [n \in 1 .. m |-> cells[n]]
    <3>1. SubSeq(cells, 1, m) = [n \in 1 .. (1 + m) - 1 |-> cells[(1 + n) - 1]]
      OBVIOUS
    <3> QED BY <3>1
  <2>3. s = [n \in 1 .. m |-> s[n]]
    OBVIOUS
  <2> QED BY <2>1, <2>2, <2>3
<1> QED BY <1>6, <1>7

\* A heap with other fields.
LEMMA HeapChanges ==
  ASSUME NEW h, NEW x, NEW y, h = [timers |-> h.timers, free |-> h.free, made |-> h.made, cell |-> h.cell]
  PROVE  /\ [h EXCEPT !.timers = x, !.cell = y]
              = [timers |-> x, free |-> h.free, made |-> h.made, cell |-> y]
         /\ [h EXCEPT !.cell = y]
              = [timers |-> h.timers, free |-> h.free, made |-> h.made, cell |-> y]
         /\ [h EXCEPT !.cell = y, !.free = x]
              = [timers |-> h.timers, free |-> x, made |-> h.made, cell |-> y]
         /\ [h EXCEPT !.free = x]
              = [timers |-> h.timers, free |-> x, made |-> h.made, cell |-> h.cell]
         /\ [h EXCEPT !.made = x]
              = [timers |-> h.timers, free |-> h.free, made |-> x, cell |-> h.cell]
<1> DEFINE a == h.timers
           b == h.free
           c == h.made
           d == h.cell
<1>1. h = [timers |-> a, free |-> b, made |-> c, cell |-> d]
  OBVIOUS
<1> HIDE DEF a, b, c, d
<1>2. [h EXCEPT !.timers = x, !.cell = y] = [timers |-> x, free |-> b, made |-> c, cell |-> y]
  <2> DEFINE v == [timers |-> x, free |-> b, made |-> c, cell |-> d]
  <2>1. [h EXCEPT !.timers = x] = v
    BY <1>1
  <2>2. [v EXCEPT !.cell = y] = [timers |-> x, free |-> b, made |-> c, cell |-> y]
    OBVIOUS
  <2>3. [h EXCEPT !.timers = x, !.cell = y] = [[h EXCEPT !.timers = x] EXCEPT !.cell = y]
    BY Zenon
  <2> HIDE DEF v
  <2> QED BY <2>1, <2>2, <2>3, Zenon
<1>3. [h EXCEPT !.cell = y] = [timers |-> a, free |-> b, made |-> c, cell |-> y]
  BY <1>1
<1>4. [h EXCEPT !.cell = y, !.free = x] = [timers |-> a, free |-> x, made |-> c, cell |-> y]
  <2> DEFINE v == [timers |-> a, free |-> b, made |-> c, cell |-> y]
  <2>1. [h EXCEPT !.cell = y] = v
    BY <1>3
  <2>2. [v EXCEPT !.free = x] = [timers |-> a, free |-> x, made |-> c, cell |-> y]
    OBVIOUS
  <2>3. [h EXCEPT !.cell = y, !.free = x] = [[h EXCEPT !.cell = y] EXCEPT !.free = x]
    BY Zenon
  <2> HIDE DEF v
  <2> QED BY <2>1, <2>2, <2>3, Zenon
<1>5. [h EXCEPT !.free = x] = [timers |-> a, free |-> x, made |-> c, cell |-> d]
  BY <1>1
<1>6. [h EXCEPT !.made = x] = [timers |-> a, free |-> b, made |-> x, cell |-> d]
  BY <1>1
<1> QED BY <1>2, <1>3, <1>4, <1>5, <1>6 DEF a, b, c, d

\* Linking a cell between two neighbours.
LEMMA LinkedIs ==
  ASSUME NEW h \in HeapType, NEW t \in Cells, NEW p \in CellLinks, NEW n \in CellLinks,
         p # t, n # t, p = NoCell \/ p # n
  PROVE  LET g == Linked(h, p, t, n)
         IN /\ g \in HeapType /\ SameData(h, g)
            /\ g.timers = (IF p = NoCell THEN t ELSE h.timers)
            /\ g.free = h.free /\ g.made = h.made
            /\ g.cell[t].prev = p /\ g.cell[t].next = n
            /\ \A c \in Cells \ {t} :
                 /\ g.cell[c].next = IF c = p THEN t ELSE h.cell[c].next
                 /\ g.cell[c].prev = IF c = n THEN t ELSE h.cell[c].prev
<1> DEFINE g == Linked(h, p, t, n)
<1>1. /\ g.timers = (IF p = NoCell THEN t ELSE h.timers)
      /\ g.free = h.free /\ g.made = h.made
      /\ DOMAIN g.cell = Cells
  BY DEF Linked, HeapType
<1>2. ASSUME NEW c \in Cells
      PROVE  /\ g.cell[c] \in CellType
             /\ g.cell[c].proc = h.cell[c].proc /\ g.cell[c].usecs = h.cell[c].usecs
             /\ g.cell[c].periodic = h.cell[c].periodic /\ g.cell[c].time = h.cell[c].time
             /\ g.cell[c].next = (IF c = t THEN n ELSE IF c = p THEN t ELSE h.cell[c].next)
             /\ g.cell[c].prev = (IF c = t THEN p ELSE IF c = n THEN t ELSE h.cell[c].prev)
  <2> DEFINE x == h.cell[c]
  <2>1. x \in CellType /\ t \in CellLinks
    BY CellNumbers DEF HeapType
  <2>2. c # NoCell
    BY CellNumbers
  <2>3. g.cell[c] = CASE c = t -> [x EXCEPT !.prev = p, !.next = n]
                [] c = p -> [x EXCEPT !.next = t]
                [] c = n -> [x EXCEPT !.prev = t]
                [] OTHER -> x
    BY DEF Linked, HeapType
  <2> HIDE DEF x, g
  <2>4. CASE c = t
    <3>1. g.cell[c] = [x EXCEPT !.prev = p, !.next = n]
      BY <2>3, <2>4
    <3> QED BY <3>1, <2>1, <2>4 DEF CellType, x
  <2>5. CASE c = p
    <3>1. g.cell[c] = [x EXCEPT !.next = t]
      BY <2>3, <2>5, <2>2
    <3> QED BY <3>1, <2>1, <2>2, <2>5 DEF CellType, x
  <2>6. CASE c = n /\ c # p
    <3>1. g.cell[c] = [x EXCEPT !.prev = t]
      BY <2>3, <2>6, <2>2
    <3> QED BY <3>1, <2>1, <2>2, <2>6 DEF CellType, x
  <2>7. CASE c \notin {t, p, n}
    <3>1. g.cell[c] = x
      BY <2>3, <2>7
    <3> QED BY <3>1, <2>1, <2>7 DEF CellType, x
  <2> QED BY <2>4, <2>5, <2>6, <2>7
<1>3. g \in HeapType
  <2>1. g.cell \in [Cells -> CellType]
    <3>1. g.cell = [c \in Cells |-> g.cell[c]]
      BY DEF Linked, HeapType
    <3> HIDE DEF g
    <3> QED BY <3>1, <1>2
  <2>2. g = [timers |-> g.timers, free |-> g.free, made |-> g.made, cell |-> g.cell]
    <3>1. h = [timers |-> h.timers, free |-> h.free, made |-> h.made, cell |-> h.cell]
      BY DEF HeapType
    <3>2. PICK x, y : g = [h EXCEPT !.timers = x, !.cell = y]
      BY Zenon DEF Linked
    <3>3. g = [timers |-> x, free |-> h.free, made |-> h.made, cell |-> y]
      BY <3>1, <3>2, HeapChanges, Zenon
    <3> HIDE DEF g
    <3> QED BY <3>3
  <2>3. g.timers \in CellLinks /\ g.free \in CellLinks /\ g.made \in CellLinks
    BY <1>1, CellNumbers DEF HeapType
  <2> HIDE DEF g
  <2> QED BY <2>1, <2>2, <2>3 DEF HeapType
<1> HIDE DEF g
<1>4. SameData(h, g)
  BY <1>2 DEF SameData
<1>5. /\ g.cell[t].prev = p /\ g.cell[t].next = n
      /\ \A c \in Cells \ {t} :
           /\ g.cell[c].next = IF c = p THEN t ELSE h.cell[c].next
           /\ g.cell[c].prev = IF c = n THEN t ELSE h.cell[c].prev
  BY <1>2
<1> QED BY <1>1, <1>3, <1>4, <1>5 DEF g

\* Removing a cell: its own links stay.
LEMMA RemovedIs ==
  ASSUME NEW h \in HeapType, NEW t \in Cells, h.cell[t].prev # t, h.cell[t].next # t,
         h.cell[t].prev = NoCell \/ h.cell[t].prev # h.cell[t].next
  PROVE  LET g == ListRemove(h, t)
             p == h.cell[t].prev
             n == h.cell[t].next
         IN /\ g \in HeapType /\ SameData(h, g)
            /\ g.timers = (IF p = NoCell THEN n ELSE h.timers)
            /\ g.free = h.free /\ g.made = h.made
            /\ \A c \in Cells :
                 /\ g.cell[c].next = IF c = p THEN n ELSE h.cell[c].next
                 /\ g.cell[c].prev = IF c = n THEN p ELSE h.cell[c].prev
<1> DEFINE g == ListRemove(h, t)
           p == h.cell[t].prev
           n == h.cell[t].next
<1>0. p \in CellLinks /\ n \in CellLinks
  BY DEF HeapType, CellType
<1>1. /\ g.timers = (IF p = NoCell THEN n ELSE h.timers)
      /\ g.free = h.free /\ g.made = h.made
      /\ DOMAIN g.cell = Cells
  BY DEF ListRemove, HeapType
<1>2. ASSUME NEW c \in Cells
      PROVE  /\ g.cell[c] \in CellType
             /\ g.cell[c].proc = h.cell[c].proc /\ g.cell[c].usecs = h.cell[c].usecs
             /\ g.cell[c].periodic = h.cell[c].periodic /\ g.cell[c].time = h.cell[c].time
             /\ g.cell[c].next = (IF c = p THEN n ELSE h.cell[c].next)
             /\ g.cell[c].prev = (IF c = n THEN p ELSE h.cell[c].prev)
  <2> DEFINE x == h.cell[c]
  <2>1. x \in CellType
    BY DEF HeapType
  <2>2. c # NoCell
    BY CellNumbers
  <2>3. g.cell[c] = CASE c = p -> [x EXCEPT !.next = n]
                [] c = n -> [x EXCEPT !.prev = p]
                [] OTHER -> x
    BY DEF ListRemove, HeapType
  <2>4. p # n \/ p = NoCell
    OBVIOUS
  <2> HIDE DEF x, g, p, n
  <2>5. CASE c = p
    <3>1. g.cell[c] = [x EXCEPT !.next = n]
      BY <2>3, <2>5, <2>2, <2>4
    <3> QED BY <3>1, <2>1, <2>2, <2>4, <2>5, <1>0 DEF CellType, x
  <2>6. CASE c = n /\ c # p
    <3>1. g.cell[c] = [x EXCEPT !.prev = p]
      BY <2>3, <2>6, <2>2
    <3> QED BY <3>1, <2>1, <2>2, <2>6, <1>0 DEF CellType, x
  <2>7. CASE c \notin {p, n}
    <3>1. g.cell[c] = x
      BY <2>3, <2>7
    <3> QED BY <3>1, <2>1, <2>7 DEF CellType, x
  <2> QED BY <2>5, <2>6, <2>7
<1>3. g \in HeapType
  <2>1. g.cell \in [Cells -> CellType]
    <3>1. g.cell = [c \in Cells |-> g.cell[c]]
      BY DEF ListRemove, HeapType
    <3> HIDE DEF g
    <3> QED BY <3>1, <1>2
  <2>2. g = [timers |-> g.timers, free |-> g.free, made |-> g.made, cell |-> g.cell]
    <3>1. h = [timers |-> h.timers, free |-> h.free, made |-> h.made, cell |-> h.cell]
      BY DEF HeapType
    <3>2. PICK x, y : g = [h EXCEPT !.timers = x, !.cell = y]
      BY Zenon DEF ListRemove
    <3>3. g = [timers |-> x, free |-> h.free, made |-> h.made, cell |-> y]
      BY <3>1, <3>2, HeapChanges, Zenon
    <3> HIDE DEF g
    <3> QED BY <3>3
  <2>3. g.timers \in CellLinks /\ g.free \in CellLinks /\ g.made \in CellLinks
    BY <1>0, <1>1 DEF HeapType
  <2> HIDE DEF g
  <2> QED BY <2>1, <2>2, <2>3 DEF HeapType
<1> HIDE DEF g
<1>4. SameData(h, g)
  BY <1>2 DEF SameData
<1> QED BY <1>1, <1>2, <1>3, <1>4 DEF g

\* A set of places in a list that is not empty has a first one.
LEMMA FirstPlace ==
  ASSUME NEW S, S \subseteq 1 .. 4, S # {}
  PROVE  \E i \in S : \A j \in S : i <= j
<1>1. CASE 1 \in S
  BY <1>1
<1>2. CASE 1 \notin S /\ 2 \in S
  BY <1>2
<1>3. CASE 1 \notin S /\ 2 \notin S /\ 3 \in S
  BY <1>3
<1>4. CASE 1 \notin S /\ 2 \notin S /\ 3 \notin S
  <2>1. \A i \in S : i \in 1 .. 4 /\ i # 1 /\ i # 2 /\ i # 3
    BY <1>4
  <2>2. \A i \in S : i = 4
    BY <2>1
  <2>3. PICK i : i \in S
    OBVIOUS
  <2>4. \A j \in S : 4 <= j
    BY <2>2
  <2> QED BY <2>2, <2>3, <2>4
<1> QED BY <1>1, <1>2, <1>3, <1>4

\* A cell is in one place only.
LEMMA NthPlace ==
  ASSUME NEW s \in Seq(Cells), Distinct(s), NEW i \in 1 .. Len(s), NEW j \in Int, s[i] = Nth(s, j)
  PROVE  i = j
<1>1. s[i] # NoCell
  BY NthIs, CellNumbers
<1>2. j \in 1 .. Len(s) /\ Nth(s, j) = s[j]
  BY <1>1, NthIs
<1> QED BY <1>2 DEF Distinct

\* The elements of a list with a cell more.
LEMMA NthInserted ==
  ASSUME NEW s \in Seq(Cells), NEW m \in Nat, Len(s) = m, NEW n \in 1 .. m + 1, NEW t \in Cells,
         Distinct(s), ~On(t, s), NEW i \in Int
  PROVE  Nth(Inserted(s, n, t), i) = IF i < n THEN Nth(s, i) ELSE IF i = n THEN t ELSE Nth(s, i - 1)
<1> DEFINE u == Inserted(s, n, t)
<1>0. /\ u \in Seq(Cells) /\ Len(u) = m + 1
      /\ \A j \in 1 .. m + 1 : u[j] = IF j < n THEN s[j] ELSE IF j = n THEN t ELSE s[j - 1]
  BY InsertedIs DEF HasInserted
<1> SUFFICES Nth(u, i) = IF i < n THEN Nth(s, i) ELSE IF i = n THEN t ELSE Nth(s, i - 1)
  OBVIOUS
<1> HIDE DEF u
<1>1. CASE i < n
  <2>1. i \in 1 .. m + 1 <=> i \in 1 .. m
    BY <1>1
  <2> QED BY <1>0, <2>1, <1>1 DEF Nth
<1>2. CASE i = n
  BY <1>0, <1>2 DEF Nth
<1>3. CASE ~(i < n) /\ i # n
  <2>1. i \in 1 .. m + 1 <=> i - 1 \in 1 .. m
    BY <1>3
  <2>2. CASE i \in 1 .. m + 1
    <3>1. Nth(u, i) = s[i - 1]
      BY <1>0, <2>2, <1>3 DEF Nth
    <3> QED BY <1>0, <3>1, <2>1, <2>2, <1>3 DEF Nth
  <2>3. CASE i \notin 1 .. m + 1
    BY <1>0, <2>1, <2>3, <1>3 DEF Nth
  <2> QED BY <2>2, <2>3
<1> QED BY <1>1, <1>2, <1>3

\* The elements of a list with a cell less.
LEMMA NthWithout ==
  ASSUME NEW s \in Seq(Cells), NEW m \in Nat, Len(s) = m, NEW n \in 1 .. m,
         Distinct(s), NEW i \in Int
  PROVE  Nth(Without(s, n), i) = IF i < n THEN Nth(s, i) ELSE Nth(s, i + 1)
<1> DEFINE u == Without(s, n)
<1>0. /\ u \in Seq(Cells) /\ Len(u) = m - 1
      /\ \A j \in 1 .. m - 1 : u[j] = IF j < n THEN s[j] ELSE s[j + 1]
  <2>1. u \in Seq(Cells) /\ Len(u) = m - 1
    BY WithoutIs DEF HasRemoved
  <2>2. \A j \in 1 .. m - 1 : u[j] = IF j < n THEN s[j] ELSE s[j + 1]
    BY DEF Without
  <2> QED BY <2>1, <2>2
<1> SUFFICES Nth(u, i) = IF i < n THEN Nth(s, i) ELSE Nth(s, i + 1)
  OBVIOUS
<1> HIDE DEF u
<1>1. CASE i < n
  <2>1. i \in 1 .. m - 1 <=> i \in 1 .. m
    BY <1>1
  <2>2. CASE i \in 1 .. m - 1
    BY <1>0, <2>1, <2>2, <1>1 DEF Nth
  <2>3. CASE i \notin 1 .. m - 1
    BY <1>0, <2>1, <2>3, <1>1 DEF Nth
  <2> QED BY <2>2, <2>3
<1>2. CASE ~(i < n)
  <2>1. i \in 1 .. m - 1 <=> i + 1 \in 1 .. m
    BY <1>2
  <2>2. CASE i \in 1 .. m - 1
    <3>1. Nth(u, i) = s[i + 1]
      BY <1>0, <2>2, <1>2 DEF Nth
    <3> QED BY <1>0, <3>1, <2>1, <2>2, <1>2 DEF Nth
  <2>3. CASE i \notin 1 .. m - 1
    BY <1>0, <2>1, <2>3, <1>2 DEF Nth
  <2> QED BY <2>2, <2>3
<1> QED BY <1>1, <1>2

\* ListAdd, when its list is known.
AddTo(h, list, t) ==
  LET later == {n \in DOMAIN list : h.cell[t].time < h.cell[list[n]].time}
      n == IF later = {} THEN Len(list) + 1
           ELSE CHOOSE i \in later : \A j \in later : i <= j
  IN Linked(h, IF n = 1 THEN NoCell ELSE list[n - 1], t,
            IF n > Len(list) THEN NoCell ELSE list[n])

\* Where ListAdd puts a cell: behind those that are not due later.
LEMMA AddPlace ==
  ASSUME NEW h \in HeapType, NEW s, IsActive(h, s), NEW m \in 0 .. 4, Len(s) = m, NEW t \in Cells
  PROVE  \E n \in 1 .. m + 1 :
           /\ \A i \in 1 .. m : i < n => h.cell[s[i]].time <= h.cell[t].time
           /\ n <= m => h.cell[t].time <= h.cell[s[n]].time
           /\ ListAdd(h, t) = Linked(h, Nth(s, n - 1), t, Nth(s, n))
<1>1. s \in Seq(Cells) /\ Active(h) = s /\ DOMAIN s = 1 .. m
  <2>1. s \in Seq(Cells) /\ h.timers = Nth(s, 1)
    BY DEF IsActive
  <2>2. \A i \in 1 .. m : h.cell[s[i]].next = Nth(s, i + 1)
    BY DEF IsActive
  <2>3. Chain(h, h.timers) = s
    BY <2>1, <2>2, ChainIs, Zenon
  <2> QED BY <2>1, <2>3 DEF Active
<1>2. h.cell[t].time \in Nat /\ \A i \in 1 .. m : h.cell[s[i]].time \in Nat
  <2>1. \A i \in 1 .. m : s[i] \in Cells
    BY <1>1
  <2>2. \A c \in Cells : h.cell[c].time \in Nat
    BY DEF HeapType, CellType
  <2> QED BY <2>1, <2>2
<1> DEFINE later == {n \in DOMAIN s : h.cell[t].time < h.cell[s[n]].time}
           n == IF later = {} THEN Len(s) + 1 ELSE CHOOSE i \in later : \A j \in later : i <= j
           before == IF n = 1 THEN NoCell ELSE s[n - 1]
           after == IF n > Len(s) THEN NoCell ELSE s[n]
<1>3. ListAdd(h, t) = Linked(h, before, t, after)
  <2>1. ListAdd(h, t) = AddTo(h, Active(h), t)
    BY Zenon DEF ListAdd, AddTo
  <2>2. ListAdd(h, t) = AddTo(h, s, t)
    BY <1>1, <2>1, Zenon
  <2>3. AddTo(h, s, t) = Linked(h, before, t, after)
    BY Zenon DEF AddTo
  <2> QED BY <2>2, <2>3, Zenon
<1>4. /\ n \in 1 .. m + 1
      /\ \A i \in 1 .. m : i < n => i \notin later
      /\ n <= m => n \in later
  <2>1. CASE later = {}
    BY <1>1, <2>1
  <2>2. CASE later # {}
    <3>1. later \subseteq 1 .. m /\ 1 .. m \subseteq 1 .. 4
      BY <1>1
    <3> HIDE DEF later
    <3>2. \E i \in later : \A j \in later : i <= j
      <4>1. later \subseteq 1 .. 4
        BY <3>1
      <4> QED BY <4>1, <2>2, FirstPlace
    <3>3. n \in later /\ \A j \in later : n <= j
      BY <2>2, <3>2
    <3> HIDE DEF n
    <3> QED BY <3>1, <3>3
  <2> QED BY <2>1, <2>2
<1> HIDE DEF n
<1>5. before = Nth(s, n - 1) /\ after = Nth(s, n)
  BY <1>1, <1>4 DEF Nth
<1>6. \A i \in 1 .. m : i < n => h.cell[s[i]].time <= h.cell[t].time
  BY <1>2, <1>4
<1>7. n <= m => h.cell[t].time <= h.cell[s[n]].time
  <2> HAVE n <= m
  <2>1. n \in 1 .. m /\ n \in later
    BY <1>4
  <2> QED BY <2>1, <1>2
<1> HIDE DEF before, after
<1>8. ListAdd(h, t) = Linked(h, Nth(s, n - 1), t, Nth(s, n))
  BY <1>3, <1>5
<1> QED BY <1>4, <1>6, <1>7, <1>8

\* What ListAdd does to the lists.
Added(h, g, s, t) ==
  /\ g \in HeapType /\ SameData(h, g) /\ g.free = h.free /\ g.made = h.made
  /\ \A c \in Cells : ~On(c, s) /\ c # t => g.cell[c].next = h.cell[c].next
  /\ \E u : /\ IsActive(g, u) /\ Len(u) = Len(s) + 1 /\ Sorted(g, u)
            /\ \A c : On(c, u) <=> On(c, s) \/ c = t
            /\ SameOrder(s, u, t)

\* ListAdd adds the cell to the list.
LEMMA AddList ==
  ASSUME NEW h \in HeapType, NEW s, IsActive(h, s), NEW m \in 0 .. 4, Len(s) = m, Sorted(h, s),
         NEW t \in Cells, ~On(t, s)
  PROVE  Added(h, ListAdd(h, t), s, t)
<1>1. PICK n \in 1 .. m + 1 :
           /\ \A i \in 1 .. m : i < n => h.cell[s[i]].time <= h.cell[t].time
           /\ n <= m => h.cell[t].time <= h.cell[s[n]].time
           /\ ListAdd(h, t) = Linked(h, Nth(s, n - 1), t, Nth(s, n))
  BY AddPlace
<1> DEFINE g == ListAdd(h, t)
           p == Nth(s, n - 1)
           q == Nth(s, n)
           u == Inserted(s, n, t)
<1>2. s \in Seq(Cells) /\ Distinct(s)
  BY DEF IsActive
<1>3. p \in CellLinks /\ q \in CellLinks /\ p # t /\ q # t /\ (p = NoCell \/ p # q)
  <2>1. p \in CellLinks /\ q \in CellLinks
    BY <1>2, NthIs
  <2>2. p # t /\ q # t
    BY CellNumbers DEF Nth, On
  <2>3. p = NoCell \/ p # q
    <3> SUFFICES ASSUME p # NoCell, p = q PROVE FALSE
      OBVIOUS
    <3>1. n - 1 \in 1 .. m /\ p = s[n - 1]
      BY <1>2, NthIs
    <3>2. n - 1 = n
      BY <1>2, <3>1, NthPlace
    <3> QED BY <3>2
  <2> QED BY <2>1, <2>2, <2>3
<1>4. /\ g \in HeapType /\ SameData(h, g)
      /\ g.timers = (IF p = NoCell THEN t ELSE h.timers)
      /\ g.free = h.free /\ g.made = h.made
      /\ g.cell[t].prev = p /\ g.cell[t].next = q
      /\ \A c \in Cells \ {t} :
           /\ g.cell[c].next = IF c = p THEN t ELSE h.cell[c].next
           /\ g.cell[c].prev = IF c = q THEN t ELSE h.cell[c].prev
  <2> HIDE DEF p, q
  <2>1. g = Linked(h, p, t, q)
    BY <1>1 DEF p, q
  <2> HIDE DEF g
  <2> QED BY <2>1, <1>3, LinkedIs
<1>5. /\ u \in Seq(Cells) /\ Len(u) = m + 1 /\ Distinct(u)
      /\ \A i \in 1 .. m + 1 : u[i] = IF i < n THEN s[i] ELSE IF i = n THEN t ELSE s[i - 1]
      /\ \A c : On(c, u) <=> On(c, s) \/ c = t
      /\ SameOrder(s, u, t)
  <2>1. HasInserted(s, m, n, t, Inserted(s, n, t))
    BY <1>2, InsertedIs
  <2>2. HasInserted(s, m, n, t, u)
    BY <2>1 DEF u
  <2> HIDE DEF u
  <2> QED BY <2>2 DEF HasInserted
<1> HIDE DEF g, u
<1>6. \A i \in Int : Nth(u, i) = IF i < n THEN Nth(s, i) ELSE IF i = n THEN t ELSE Nth(s, i - 1)
  BY <1>2, NthInserted DEF u
<1>7. \A i \in 1 .. m : s[i] \in Cells \ {t} /\ h.cell[s[i]].prev = Nth(s, i - 1) /\ h.cell[s[i]].next = Nth(s, i + 1)
  <2>1. \A i \in 1 .. m : s[i] \in Cells
    BY <1>2
  <2> QED BY <2>1 DEF IsActive, On
<1>8. \A i \in 1 .. m : /\ g.cell[s[i]].prev = (IF i = n THEN t ELSE Nth(s, i - 1))
                        /\ g.cell[s[i]].next = (IF i = n - 1 THEN t ELSE Nth(s, i + 1))
  <2> TAKE i \in 1 .. m
  <2>1. s[i] = p => i = n - 1
    BY <1>2, NthPlace
  <2>2. s[i] = q => i = n
    BY <1>2, NthPlace
  <2>3. i = n - 1 => s[i] = p
    BY <1>2, NthIs
  <2>4. i = n => s[i] = q
    BY <1>2, NthIs
  <2> HIDE DEF p, q
  <2>5. s[i] \in Cells \ {t} /\ h.cell[s[i]].prev = Nth(s, i - 1) /\ h.cell[s[i]].next = Nth(s, i + 1)
    BY <1>7
  <2>6. /\ g.cell[s[i]].next = IF s[i] = p THEN t ELSE h.cell[s[i]].next
        /\ g.cell[s[i]].prev = IF s[i] = q THEN t ELSE h.cell[s[i]].prev
    BY <2>5, <1>4
  <2> QED BY <2>1, <2>2, <2>3, <2>4, <2>5, <2>6
<1> HIDE DEF p, q
<1>9. g.timers = Nth(u, 1)
  <2>1. CASE n = 1
    <3>1. p = NoCell
      BY <2>1 DEF Nth, p
    <3>2. Nth(u, 1) = t
      BY <2>1, <1>6
    <3> QED BY <3>1, <3>2, <1>4
  <2>2. CASE n # 1
    <3>1. n - 1 \in 1 .. m
      BY <2>2
    <3>2. p # NoCell
      BY <3>1, <1>2, NthIs, CellNumbers DEF p
    <3>3. Nth(u, 1) = Nth(s, 1)
      BY <2>2, <1>6
    <3> QED BY <3>2, <3>3, <1>4 DEF IsActive
  <2> QED BY <2>1, <2>2
<1>10. ASSUME NEW i \in 1 .. m + 1
       PROVE  g.cell[u[i]].prev = Nth(u, i - 1) /\ g.cell[u[i]].next = Nth(u, i + 1)
  <2>1. CASE i = n
    <3>1. u[i] = t /\ Nth(u, i - 1) = p /\ Nth(u, i + 1) = q
      BY <2>1, <1>5, <1>6 DEF p, q
    <3> QED BY <3>1, <1>4
  <2>2. CASE i < n
    <3>1. i \in 1 .. m /\ u[i] = s[i]
      BY <2>2, <1>5
    <3>2. Nth(u, i - 1) = Nth(s, i - 1)
      BY <2>2, <1>6
    <3>3. g.cell[u[i]].prev = Nth(s, i - 1)
      BY <3>1, <1>8, <2>2
    <3>4. CASE i = n - 1
      <4>1. Nth(u, i + 1) = t
        BY <3>4, <1>6
      <4>2. g.cell[u[i]].next = t
        BY <3>1, <3>4, <1>8
      <4> QED BY <4>1, <4>2, <3>2, <3>3
    <3>5. CASE i # n - 1
      <4>1. Nth(u, i + 1) = Nth(s, i + 1)
        BY <2>2, <3>5, <1>6
      <4>2. g.cell[u[i]].next = Nth(s, i + 1)
        BY <3>1, <3>5, <1>8
      <4> QED BY <4>1, <4>2, <3>2, <3>3
    <3> QED BY <3>4, <3>5
  <2>3. CASE ~(i < n) /\ i # n
    <3>1. PICK j \in 1 .. m : i = j + 1
      <4>1. i - 1 \in 1 .. m /\ i = (i - 1) + 1
        BY <2>3
      <4> QED BY <4>1
    <3>2. u[i] = s[j] /\ j # n - 1 /\ ~(j < n)
      BY <2>3, <3>1, <1>5
    <3>3. Nth(u, i + 1) = Nth(s, j + 1)
      BY <2>3, <3>1, <1>6
    <3>4. g.cell[u[i]].next = Nth(s, j + 1)
      BY <3>2, <1>8
    <3>5. CASE j = n
      <4>1. Nth(u, i - 1) = t
        BY <3>1, <3>5, <1>6
      <4>2. g.cell[u[i]].prev = t
        BY <3>2, <3>5, <1>8
      <4> QED BY <4>1, <4>2, <3>3, <3>4
    <3>6. CASE j # n
      <4>1. Nth(u, i - 1) = Nth(s, j - 1)
        BY <3>1, <3>2, <3>6, <1>6
      <4>2. g.cell[u[i]].prev = Nth(s, j - 1)
        BY <3>2, <3>6, <1>8
      <4> QED BY <4>1, <4>2, <3>3, <3>4
    <3> QED BY <3>5, <3>6
  <2> QED BY <2>1, <2>2, <2>3
<1>11. IsActive(g, u)
  BY <1>5, <1>9, <1>10 DEF IsActive
<1>12. Sorted(g, u)
  <2> SUFFICES ASSUME NEW i \in 1 .. m + 1, NEW j \in 1 .. m + 1, i < j
               PROVE  h.cell[u[i]].time <= h.cell[u[j]].time
    <3>1. \A i \in 1 .. m + 1 : u[i] \in Cells
      BY <1>5
    <3> QED BY <3>1, <1>4, <1>5 DEF Sorted, SameData
  <2>1. \A a, b \in 1 .. m : a < b => h.cell[s[a]].time <= h.cell[s[b]].time
    BY DEF Sorted
  <2>2. h.cell[t].time \in Nat /\ \A a \in 1 .. m : h.cell[s[a]].time \in Nat
    BY <1>7 DEF HeapType, CellType
  <2>3. \A b \in 1 .. m : ~(b < n) => h.cell[t].time <= h.cell[s[b]].time
    <3> TAKE b \in 1 .. m
    <3> HAVE ~(b < n)
    <3>1. n \in 1 .. m /\ h.cell[t].time <= h.cell[s[n]].time
      BY <1>1
    <3>2. CASE b = n
      BY <3>1, <3>2
    <3>3. CASE n < b
      <4>1. h.cell[s[n]].time <= h.cell[s[b]].time
        BY <3>1, <3>3, <2>1
      <4> QED BY <3>1, <4>1, <2>2
    <3> QED BY <3>2, <3>3
  <2>4. CASE i < n /\ j < n
    <3>1. i \in 1 .. m /\ j \in 1 .. m /\ u[i] = s[i] /\ u[j] = s[j]
      BY <2>4, <1>5
    <3> QED BY <3>1, <2>1
  <2>5. CASE i < n /\ j = n
    <3>1. i \in 1 .. m /\ u[i] = s[i] /\ u[j] = t
      BY <2>5, <1>5
    <3> QED BY <3>1, <2>5, <1>1
  <2>6. CASE i < n /\ j > n
    <3>1. i \in 1 .. m /\ j - 1 \in 1 .. m /\ i < j - 1 /\ u[i] = s[i] /\ u[j] = s[j - 1]
      BY <2>6, <1>5
    <3> QED BY <3>1, <2>1
  <2>7. CASE i = n
    <3>1. j - 1 \in 1 .. m /\ ~(j - 1 < n) /\ u[i] = t /\ u[j] = s[j - 1]
      BY <2>7, <1>5
    <3> QED BY <3>1, <2>3
  <2>8. CASE i > n
    <3>1. i - 1 \in 1 .. m /\ j - 1 \in 1 .. m /\ i - 1 < j - 1 /\ u[i] = s[i - 1] /\ u[j] = s[j - 1]
      BY <2>8, <1>5
    <3> QED BY <3>1, <2>1
  <2> QED BY <2>4, <2>5, <2>6, <2>7, <2>8
<1>13. \A c \in Cells : ~On(c, s) /\ c # t => g.cell[c].next = h.cell[c].next
  <2> TAKE c \in Cells
  <2> HAVE ~On(c, s) /\ c # t
  <2>1. c # p
    BY CellNumbers DEF Nth, On, p
  <2> QED BY <2>1, <1>4
<1>14. Added(h, g, s, t)
  <2>1. Len(u) = Len(s) + 1
    BY <1>5
  <2> QED BY <2>1, <1>4, <1>5, <1>11, <1>12, <1>13 DEF Added
<1> QED BY <1>14 DEF g

\* s is sorted but for the timer t.
SortedBut(h, s, t) ==
  \A i, j \in 1 .. Len(s) :
    i < j /\ s[i] # t /\ s[j] # t => h.cell[s[i]].time <= h.cell[s[j]].time

\* What ListRemove does to the lists.
Removed(h, g, s, t) ==
  /\ g \in HeapType /\ SameData(h, g) /\ g.free = h.free /\ g.made = h.made
  /\ \A c \in Cells : ~On(c, s) => g.cell[c].next = h.cell[c].next
  /\ \E u : /\ IsActive(g, u) /\ Len(u) = Len(s) - 1 /\ Sorted(g, u)
            /\ \A c : On(c, u) <=> On(c, s) /\ c # t
            /\ SameOrder(s, u, t)

\* ListRemove takes it out.
LEMMA RemoveList ==
  ASSUME NEW h \in HeapType, NEW s, IsActive(h, s), NEW m \in 0 .. 4, Len(s) = m,
         NEW t \in Cells, On(t, s), SortedBut(h, s, t)
  PROVE  Removed(h, ListRemove(h, t), s, t)
<1>0. PICK k \in 1 .. m : s[k] = t
  BY DEF On
<1> DEFINE g == ListRemove(h, t)
           p == Nth(s, k - 1)
           q == Nth(s, k + 1)
           u == Without(s, k)
<1>1. s \in Seq(Cells) /\ Distinct(s)
  BY DEF IsActive
<1>2. \A i \in 1 .. m : s[i] \in Cells /\ h.cell[s[i]].prev = Nth(s, i - 1) /\ h.cell[s[i]].next = Nth(s, i + 1)
  <2>1. \A i \in 1 .. m : s[i] \in Cells
    BY <1>1
  <2> QED BY <2>1 DEF IsActive
<1>3. t \in Cells /\ h.cell[t].prev = p /\ h.cell[t].next = q
  BY <1>0, <1>2
<1>4. \A i \in 1 .. m : (s[i] = p <=> i = k - 1) /\ (s[i] = q <=> i = k + 1)
  <2> TAKE i \in 1 .. m
  <2>1. s[i] = p => i = k - 1
    BY <1>1, NthPlace
  <2>2. s[i] = q => i = k + 1
    BY <1>1, NthPlace
  <2>3. i = k - 1 => s[i] = p
    BY <1>1, NthIs
  <2>4. i = k + 1 => s[i] = q
    BY <1>1, NthIs
  <2> QED BY <2>1, <2>2, <2>3, <2>4
<1>5. p # t /\ q # t /\ (p = NoCell \/ p # q)
  <2>1. p # t /\ q # t
    BY <1>0, <1>4
  <2>2. ASSUME p # NoCell, p = q PROVE FALSE
    <3>1. k - 1 \in 1 .. m /\ p = s[k - 1]
      BY <1>1, <2>2, NthIs
    <3>2. k - 1 = k + 1
      BY <3>1, <1>4, <2>2
    <3> QED BY <3>2
  <2> QED BY <2>1, <2>2
<1>6. /\ g \in HeapType /\ SameData(h, g)
      /\ g.timers = (IF p = NoCell THEN q ELSE h.timers)
      /\ g.free = h.free /\ g.made = h.made
      /\ \A c \in Cells :
           /\ g.cell[c].next = IF c = p THEN q ELSE h.cell[c].next
           /\ g.cell[c].prev = IF c = q THEN p ELSE h.cell[c].prev
  <2> HIDE DEF p, q
  <2> QED BY <1>3, <1>5, RemovedIs
<1>7. /\ u \in Seq(Cells) /\ Len(u) = m - 1 /\ Distinct(u)
      /\ \A c : On(c, u) <=> On(c, s) /\ c # t
      /\ SameOrder(s, u, t)
  <2>1. HasRemoved(s, m, k, s[k], Without(s, k))
    BY <1>1, WithoutIs
  <2>2. HasRemoved(s, m, k, t, u)
    BY <2>1, <1>0 DEF u
  <2> HIDE DEF u
  <2> QED BY <2>2 DEF HasRemoved
<1>8. \A i \in 1 .. m - 1 : u[i] = IF i < k THEN s[i] ELSE s[i + 1]
  BY DEF Without
<1>9. \A i \in Int : Nth(u, i) = IF i < k THEN Nth(s, i) ELSE Nth(s, i + 1)
  <2> TAKE i \in Int
  <2> HIDE DEF u, g, p, q
  <2> QED BY <1>1, NthWithout DEF u
<1> HIDE DEF u, g
<1>10. \A i \in 1 .. m : /\ g.cell[s[i]].next = (IF i = k - 1 THEN q ELSE Nth(s, i + 1))
                         /\ g.cell[s[i]].prev = (IF i = k + 1 THEN p ELSE Nth(s, i - 1))
  <2> TAKE i \in 1 .. m
  <2> HIDE DEF p, q
  <2>1. s[i] \in Cells /\ h.cell[s[i]].prev = Nth(s, i - 1) /\ h.cell[s[i]].next = Nth(s, i + 1)
    BY <1>2
  <2>2. /\ g.cell[s[i]].next = IF s[i] = p THEN q ELSE h.cell[s[i]].next
        /\ g.cell[s[i]].prev = IF s[i] = q THEN p ELSE h.cell[s[i]].prev
    BY <2>1, <1>6
  <2>3. (s[i] = p <=> i = k - 1) /\ (s[i] = q <=> i = k + 1)
    BY <1>4
  <2> QED BY <2>1, <2>2, <2>3
<1>11. g.timers = Nth(u, 1)
  <2>1. CASE k = 1
    <3>1. p = NoCell
      BY <2>1 DEF Nth
    <3>2. Nth(u, 1) = q
      BY <2>1, <1>9
    <3> QED BY <3>1, <3>2, <1>6
  <2>2. CASE k # 1
    <3>1. k - 1 \in 1 .. m
      BY <2>2
    <3>2. p # NoCell
      BY <3>1, <1>1, NthIs, CellNumbers
    <3>3. Nth(u, 1) = Nth(s, 1)
      BY <2>2, <1>9
    <3> QED BY <3>2, <3>3, <1>6 DEF IsActive
  <2> QED BY <2>1, <2>2
<1> HIDE DEF p, q
<1>12. ASSUME NEW i \in 1 .. m - 1
       PROVE  g.cell[u[i]].prev = Nth(u, i - 1) /\ g.cell[u[i]].next = Nth(u, i + 1)
  <2>1. CASE i < k
    <3>1. i \in 1 .. m /\ u[i] = s[i]
      BY <2>1, <1>8
    <3>2. Nth(u, i - 1) = Nth(s, i - 1)
      BY <2>1, <1>9
    <3>3. g.cell[u[i]].prev = Nth(s, i - 1)
      BY <3>1, <1>10, <2>1
    <3>4. CASE i = k - 1
      <4>1. Nth(u, i + 1) = q
        BY <3>4, <1>9 DEF q
      <4>2. g.cell[u[i]].next = q
        BY <3>1, <3>4, <1>10
      <4> QED BY <4>1, <4>2, <3>2, <3>3
    <3>5. CASE i # k - 1
      <4>1. Nth(u, i + 1) = Nth(s, i + 1)
        BY <2>1, <3>5, <1>9
      <4>2. g.cell[u[i]].next = Nth(s, i + 1)
        BY <3>1, <3>5, <1>10
      <4> QED BY <4>1, <4>2, <3>2, <3>3
    <3> QED BY <3>4, <3>5
  <2>2. CASE ~(i < k)
    <3>1. PICK j \in 1 .. m : j = i + 1
      OBVIOUS
    <3>2. u[i] = s[j] /\ j # k - 1 /\ j > k
      BY <2>2, <3>1, <1>8
    <3>3. Nth(u, i + 1) = Nth(s, j + 1)
      BY <2>2, <3>1, <1>9
    <3>4. g.cell[u[i]].next = Nth(s, j + 1)
      BY <3>2, <1>10
    <3>5. CASE j = k + 1
      <4>1. Nth(u, i - 1) = p
        BY <3>1, <3>5, <1>9 DEF p
      <4>2. g.cell[u[i]].prev = p
        BY <3>2, <3>5, <1>10
      <4> QED BY <4>1, <4>2, <3>3, <3>4
    <3>6. CASE j # k + 1
      <4>1. Nth(u, i - 1) = Nth(s, j - 1)
        BY <3>1, <3>2, <3>6, <1>9
      <4>2. g.cell[u[i]].prev = Nth(s, j - 1)
        BY <3>2, <3>6, <1>10
      <4> QED BY <4>1, <4>2, <3>3, <3>4
    <3> QED BY <3>5, <3>6
  <2> QED BY <2>1, <2>2
<1>13. IsActive(g, u)
  BY <1>7, <1>11, <1>12 DEF IsActive
<1>14. Sorted(g, u)
  <2> SUFFICES ASSUME NEW i \in 1 .. m - 1, NEW j \in 1 .. m - 1, i < j
               PROVE  h.cell[u[i]].time <= h.cell[u[j]].time
    <3>1. \A i \in 1 .. m - 1 : u[i] \in Cells
      BY <1>7
    <3> QED BY <3>1, <1>6, <1>7 DEF Sorted, SameData
  <2> DEFINE a == IF i < k THEN i ELSE i + 1
             b == IF j < k THEN j ELSE j + 1
  <2>1. a \in 1 .. m /\ b \in 1 .. m /\ a < b /\ a # k /\ b # k
    OBVIOUS
  <2>2. u[i] = s[a] /\ u[j] = s[b]
    BY <1>8
  <2> HIDE DEF a, b
  <2>3. s[a] # t /\ s[b] # t
    BY <2>1, <1>0, <1>1 DEF Distinct
  <2> QED BY <2>1, <2>2, <2>3 DEF SortedBut
<1>15. \A c \in Cells : ~On(c, s) => g.cell[c].next = h.cell[c].next
  <2> TAKE c \in Cells
  <2> HAVE ~On(c, s)
  <2>1. c # p
    BY CellNumbers DEF Nth, On, p
  <2> QED BY <2>1, <1>6
<1>16. Removed(h, g, s, t)
  <2>1. Len(u) = Len(s) - 1
    BY <1>7
  <2> QED BY <2>1, <1>6, <1>7, <1>13, <1>14, <1>15 DEF Removed
<1> QED BY <1>16 DEF g

\* The timer t is due at x, all else of the cells is the same.
Retimed(h, g, t, x) ==
  \A c \in Cells : /\ g.cell[c].proc = h.cell[c].proc /\ g.cell[c].usecs = h.cell[c].usecs
                   /\ g.cell[c].periodic = h.cell[c].periodic
                   /\ g.cell[c].time = IF c = t THEN x ELSE h.cell[c].time

\* A timer gets another due time.
LEMMA TimeSet ==
  ASSUME NEW h \in HeapType, NEW t \in Cells, NEW x \in Nat
  PROVE  LET g == [h EXCEPT !.cell[t].time = x]
         IN /\ g \in HeapType /\ Retimed(h, g, t, x)
            /\ g.timers = h.timers /\ g.free = h.free /\ g.made = h.made
            /\ \A c \in Cells : g.cell[c].prev = h.cell[c].prev /\ g.cell[c].next = h.cell[c].next
<1> DEFINE y == [h.cell EXCEPT ![t].time = x]
           g == [h EXCEPT !.cell[t].time = x]
<1>1. g = [h EXCEPT !.cell = y]
  BY Zenon
<1>2. h = [timers |-> h.timers, free |-> h.free, made |-> h.made, cell |-> h.cell]
  BY DEF HeapType
<1>3. g = [timers |-> h.timers, free |-> h.free, made |-> h.made, cell |-> y]
  <2> HIDE DEF g, y
  <2> QED BY <1>1, <1>2, HeapChanges, Zenon
<1>4. y \in [Cells -> CellType]
  <2>1. h.cell \in [Cells -> CellType]
    BY DEF HeapType
  <2> QED BY <2>1 DEF CellType
<1>5. \A c \in Cells :
        /\ y[c].proc = h.cell[c].proc /\ y[c].usecs = h.cell[c].usecs
        /\ y[c].periodic = h.cell[c].periodic
        /\ y[c].prev = h.cell[c].prev /\ y[c].next = h.cell[c].next
        /\ y[c].time = IF c = t THEN x ELSE h.cell[c].time
  <2>1. h.cell \in [Cells -> CellType]
    BY DEF HeapType
  <2> TAKE c \in Cells
  <2> DEFINE z == h.cell[c]
  <2>2. z \in CellType
    BY <2>1
  <2>3. y[c] = IF c = t THEN [z EXCEPT !.time = x] ELSE z
    BY <2>1
  <2> HIDE DEF y, z
  <2> QED BY <2>2, <2>3 DEF CellType, z
<1>6. h.timers \in CellLinks /\ h.free \in CellLinks /\ h.made \in CellLinks
  BY DEF HeapType
<1> HIDE DEF g, y
<1>7. g \in HeapType
  BY <1>3, <1>4, <1>6 DEF HeapType
<1>8. g.cell = y /\ g.timers = h.timers /\ g.free = h.free /\ g.made = h.made
  BY <1>3
<1>9. Retimed(h, g, t, x)
  BY <1>5, <1>8 DEF Retimed
<1> QED BY <1>5, <1>7, <1>8, <1>9 DEF g

\* What a new due time and ListResort do to the lists.
Resorted(h, g, s, t, x) ==
  /\ g \in HeapType /\ Retimed(h, g, t, x) /\ g.free = h.free /\ g.made = h.made
  /\ \A c \in Cells : ~On(c, s) => g.cell[c].next = h.cell[c].next
  /\ \E u : /\ IsActive(g, u) /\ Len(u) = Len(s) /\ Sorted(g, u)
            /\ \A c : On(c, u) <=> On(c, s)
            /\ SameOrder(s, u, t)

\* A new due time and ListResort keep the list sorted.
LEMMA ResortList ==
  ASSUME NEW h \in HeapType, NEW s, IsActive(h, s), NEW m \in 0 .. 4, Len(s) = m, Sorted(h, s),
         NEW t \in Cells, On(t, s), NEW x \in Nat
  PROVE  Resorted(h, ListResort([h EXCEPT !.cell[t].time = x], t), s, t, x)
<1> DEFINE h1 == [h EXCEPT !.cell[t].time = x]
           h2 == ListRemove(h1, t)
           g == ListAdd(h2, t)
<1>2. /\ h1 \in HeapType /\ Retimed(h, h1, t, x)
      /\ h1.timers = h.timers /\ h1.free = h.free /\ h1.made = h.made
      /\ \A c \in Cells : h1.cell[c].prev = h.cell[c].prev /\ h1.cell[c].next = h.cell[c].next
  BY TimeSet
<1>3. ListResort([h EXCEPT !.cell[t].time = x], t) = g
  BY DEF ListResort
<1> HIDE DEF h1
<1>4. s \in Seq(Cells) /\ \A i \in 1 .. m : s[i] \in Cells
  <2>1. s \in Seq(Cells)
    BY DEF IsActive
  <2> QED BY <2>1
<1>5. IsActive(h1, s) /\ SortedBut(h1, s, t)
  <2>1. IsActive(h1, s)
    BY <1>2, <1>4 DEF IsActive
  <2>2. \A i \in 1 .. m : s[i] # t => h1.cell[s[i]].time = h.cell[s[i]].time
    BY <1>2, <1>4 DEF Retimed
  <2>3. SortedBut(h1, s, t)
    BY <2>2 DEF SortedBut, Sorted
  <2> QED BY <2>1, <2>3
<1>6. Removed(h1, h2, s, t)
  BY <1>2, <1>5, RemoveList
<1> HIDE DEF h2
<1>7. PICK u : /\ IsActive(h2, u) /\ Len(u) = Len(s) - 1 /\ Sorted(h2, u)
               /\ \A c : On(c, u) <=> On(c, s) /\ c # t
               /\ SameOrder(s, u, t)
  BY <1>6 DEF Removed
<1>8. Added(h2, g, u, t)
  <2> DEFINE n == m - 1
  <2>1. ~On(t, u) /\ n \in 0 .. 4 /\ Len(u) = n /\ h2 \in HeapType
    <3>1. m # 0
      BY DEF On
    <3> QED BY <3>1, <1>6, <1>7 DEF Removed
  <2> HIDE DEF n
  <2> QED BY <1>7, <2>1, AddList
<1> HIDE DEF g
<1>9. PICK v : /\ IsActive(g, v) /\ Len(v) = Len(u) + 1 /\ Sorted(g, v)
               /\ \A c : On(c, v) <=> On(c, u) \/ c = t
               /\ SameOrder(u, v, t)
  BY <1>8 DEF Added
<1>10. Len(v) = Len(s)
  BY <1>7, <1>9
<1>11. \A c : On(c, v) <=> On(c, s)
  BY <1>7, <1>9
<1>12. SameOrder(s, v, t)
  BY <1>7, <1>9 DEF SameOrder
<1>13. Retimed(h, g, t, x)
  BY <1>2, <1>6, <1>8 DEF Retimed, SameData, Removed, Added
<1>14. \A c \in Cells : ~On(c, s) => g.cell[c].next = h.cell[c].next
  BY <1>2, <1>6, <1>7, <1>8 DEF Removed, Added
<1>15. g \in HeapType /\ g.free = h.free /\ g.made = h.made
  BY <1>2, <1>6, <1>8 DEF Removed, Added
<1>16. Resorted(h, g, s, t, x)
  BY <1>9, <1>10, <1>11, <1>12, <1>13, <1>14, <1>15 DEF Resorted
<1> QED BY <1>3, <1>16

----------------------------------------------------------------------------
(***************************************************************************)
(* Operations.  tmr_create, tmr_cancel and tmr_reset keep Lists: both      *)
(* sequences together hold each cell ever made once, and the active one is *)
(* sorted.                                                                 *)
(***************************************************************************)
\* The active list s and the free list f hold each cell ever made once.
Lists(h, s, f) ==
  /\ h \in HeapType /\ IsActive(h, s) /\ IsFree(h, f) /\ Sorted(h, s)
  /\ Len(s) + Len(f) = h.made
  /\ \A c : On(c, s) \/ On(c, f) <=> c \in 1 .. h.made
  /\ \A c : ~(On(c, s) /\ On(c, f))

\* The lists are no longer than there are cells, and Active and Free find them.
LEMMA ListsFacts ==
  ASSUME NEW h, NEW s, NEW f, Lists(h, s, f)
  PROVE  /\ Len(s) \in 0 .. 4 /\ Len(f) \in 0 .. 4 /\ h.made \in 0 .. 4
         /\ s \in Seq(Cells) /\ f \in Seq(Cells)
         /\ Active(h) = s /\ Free(h) = f
<1>1. s \in Seq(Cells) /\ f \in Seq(Cells) /\ h.timers = Nth(s, 1) /\ h.free = Nth(f, 1)
  BY DEF Lists, IsActive, IsFree
<1>2. h.made \in 0 .. 4 /\ Len(s) \in Nat /\ Len(f) \in Nat /\ Len(s) + Len(f) = h.made
  BY <1>1, CellNumbers DEF Lists, HeapType
<1>3. Len(s) \in 0 .. 4 /\ Len(f) \in 0 .. 4
  <2> DEFINE m == Len(s)
             n == Len(f)
  <2>1. m \in Nat /\ n \in Nat /\ h.made \in 0 .. 4 /\ m + n = h.made
    BY <1>2
  <2> HIDE DEF m, n
  <2>2. m \in 0 .. 4 /\ n \in 0 .. 4
    BY <2>1
  <2> QED BY <2>2 DEF m, n
<1>4. \A i \in 1 .. Len(s) : h.cell[s[i]].next = Nth(s, i + 1)
  BY DEF Lists, IsActive
<1>5. \A i \in 1 .. Len(f) : h.cell[f[i]].next = Nth(f, i + 1)
  BY DEF Lists, IsFree
<1>6. Active(h) = s
  <2>1. s \in Seq(Cells) /\ h.timers = Nth(s, 1) /\ Len(s) \in 0 .. 4
    BY <1>1, <1>3
  <2>2. Chain(h, h.timers) = s
    BY <2>1, <1>4, ChainIs, Zenon
  <2> QED BY <2>2 DEF Active
<1>7. Free(h) = f
  <2>1. f \in Seq(Cells) /\ h.free = Nth(f, 1) /\ Len(f) \in 0 .. 4
    BY <1>1, <1>3
  <2>2. Chain(h, h.free) = f
    BY <2>1, <1>5, ChainIs, Zenon
  <2> QED BY <2>2 DEF Free
<1> QED BY <1>1, <1>2, <1>3, <1>6, <1>7

\* Another cell in place of t.
LEMMA PutCell ==
  ASSUME NEW h \in HeapType, NEW t \in Cells, NEW b \in CellType
  PROVE  LET g == [h EXCEPT !.cell[t] = b]
         IN /\ g \in HeapType
            /\ g.timers = h.timers /\ g.free = h.free /\ g.made = h.made
            /\ \A c \in Cells : g.cell[c] = IF c = t THEN b ELSE h.cell[c]
<1> DEFINE y == [h.cell EXCEPT ![t] = b]
           g == [h EXCEPT !.cell[t] = b]
<1>1. g = [h EXCEPT !.cell = y]
  BY Zenon
<1>2. h = [timers |-> h.timers, free |-> h.free, made |-> h.made, cell |-> h.cell]
  BY DEF HeapType
<1>3. g = [timers |-> h.timers, free |-> h.free, made |-> h.made, cell |-> y]
  <2> HIDE DEF g, y
  <2> QED BY <1>1, <1>2, HeapChanges, Zenon
<1>4. y \in [Cells -> CellType] /\ \A c \in Cells : y[c] = IF c = t THEN b ELSE h.cell[c]
  <2>1. h.cell \in [Cells -> CellType]
    BY DEF HeapType
  <2> QED BY <2>1
<1>5. h.timers \in CellLinks /\ h.free \in CellLinks /\ h.made \in CellLinks
  BY DEF HeapType
<1> HIDE DEF g, y
<1>6. g \in HeapType
  BY <1>3, <1>4, <1>5 DEF HeapType
<1>7. g.cell = y /\ g.timers = h.timers /\ g.free = h.free /\ g.made = h.made
  BY <1>3
<1> QED BY <1>4, <1>6, <1>7 DEF g

\* Cells that agree with those of s and f keep the lists.
LEMMA KeepLists ==
  ASSUME NEW h \in HeapType, NEW g \in HeapType, NEW s, IsActive(h, s), Sorted(h, s),
         g.timers = h.timers, \A c \in Cells : On(c, s) => g.cell[c] = h.cell[c]
  PROVE  IsActive(g, s) /\ Sorted(g, s)
<1>1. \A i \in 1 .. Len(s) : s[i] \in Cells
  BY DEF IsActive
<1>2. \A i \in 1 .. Len(s) : g.cell[s[i]] = h.cell[s[i]]
  BY <1>1 DEF On
<1>3. IsActive(g, s)
  BY <1>2 DEF IsActive
<1>4. Sorted(g, s)
  BY <1>2 DEF Sorted
<1> QED BY <1>3, <1>4

\* g has a timer more, in the cell t.
Created(h, g, s, t, b) ==
  /\ t \in Cells /\ ~On(t, s)
  /\ \A c \in Cells \ {t} : /\ g.cell[c].proc = h.cell[c].proc /\ g.cell[c].usecs = h.cell[c].usecs
                            /\ g.cell[c].periodic = h.cell[c].periodic /\ g.cell[c].time = h.cell[c].time
  /\ g.cell[t].proc = b.proc /\ g.cell[t].usecs = b.usecs
  /\ g.cell[t].periodic = b.periodic /\ g.cell[t].time = b.time
  /\ \E u, f : Lists(g, u, f) /\ \A c : On(c, u) <=> On(c, s) \/ c = t

\* tmr_create: a freed cell or a new one, put where its due time belongs.
LEMMA CreateLists ==
  ASSUME NEW h, NEW s, NEW f, Lists(h, s, f), NEW proc \in TimerKinds, NEW usecs \in Nat,
         NEW periodic \in BOOLEAN, NEW now \in Nat, h.free # NoCell \/ h.made < 4
  PROVE  Created(h, TmrCreate(h, now, proc, usecs, periodic), s, TmrCell(h),
                 [proc |-> proc, usecs |-> usecs, periodic |-> periodic, time |-> now + usecs,
                  prev |-> NoCell, next |-> NoCell])
<1> DEFINE t == TmrCell(h)
           b == [proc |-> proc, usecs |-> usecs, periodic |-> periodic, time |-> now + usecs,
                 prev |-> NoCell, next |-> NoCell]
           g0 == IF h.free # NoCell THEN [h EXCEPT !.free = h.cell[t].next]
                 ELSE [h EXCEPT !.made = t]
           g1 == [g0 EXCEPT !.cell[t] = b]
           g == ListAdd(g1, t)
<1>0. TmrCreate(h, now, proc, usecs, periodic) = g
  BY Zenon DEF TmrCreate
<1>1. /\ Len(s) \in 0 .. 4 /\ Len(f) \in 0 .. 4 /\ h.made \in 0 .. 4
      /\ s \in Seq(Cells) /\ f \in Seq(Cells)
  BY ListsFacts
<1>2. b \in CellType
  BY CellNumbers DEF CellType
<1>3. /\ h \in HeapType /\ IsActive(h, s) /\ Sorted(h, s) /\ IsFree(h, f)
      /\ Len(s) + Len(f) = h.made
      /\ \A c : On(c, s) \/ On(c, f) <=> c \in 1 .. h.made
      /\ \A c : ~(On(c, s) /\ On(c, f))
  BY DEF Lists
<1>4. h.free = Nth(f, 1)
  BY <1>3 DEF IsFree
<1>5. /\ t \in Cells /\ ~On(t, s)
      /\ g0 \in HeapType /\ g0.timers = h.timers /\ g0.cell = h.cell
      /\ \E f2 : /\ f2 \in Seq(Cells) /\ Distinct(f2) /\ g0.free = Nth(f2, 1)
                 /\ \A i \in 1 .. Len(f2) : h.cell[f2[i]].next = Nth(f2, i + 1)
                 /\ Len(s) + 1 + Len(f2) = g0.made
                 /\ \A c : On(c, f2) => c # t /\ ~On(c, s)
                 /\ \A c : On(c, s) \/ c = t \/ On(c, f2) <=> c \in 1 .. g0.made
  <2>0. h = [timers |-> h.timers, free |-> h.free, made |-> h.made, cell |-> h.cell]
        /\ h.timers \in CellLinks /\ h.free \in CellLinks /\ h.made \in CellLinks
        /\ h.cell \in [Cells -> CellType]
    BY <1>3 DEF HeapType
  <2>1. CASE h.free # NoCell
    <3>1. t = h.free /\ g0 = [h EXCEPT !.free = h.cell[t].next]
      BY <2>1 DEF TmrCell
    <3> DEFINE m == Len(f)
               f2 == Without(f, 1)
    <3>2. 1 \in 1 .. m /\ t = f[1] /\ t \in Cells
      BY <3>1, <2>1, <1>1, <1>4, NthIs
    <3>3. h.cell[t].next = Nth(f, 2)
      <4>1. h.cell[f[1]].next = Nth(f, 1 + 1)
        BY <1>3, <3>2 DEF IsFree
      <4> QED BY <4>1, <3>2
    <3>4. h.cell[t].next \in CellLinks
      BY <2>0, <3>2 DEF CellType
    <3>5. g0 = [timers |-> h.timers, free |-> h.cell[t].next, made |-> h.made, cell |-> h.cell]
      BY <2>0, <3>1, HeapChanges, Zenon
    <3>6. g0 \in HeapType /\ g0.timers = h.timers /\ g0.cell = h.cell /\ g0.made = h.made
          /\ g0.free = Nth(f, 2)
      <4> HIDE DEF g0, t
      <4> QED BY <3>3, <3>4, <3>5, <2>0 DEF HeapType
    <3>7. Distinct(f)
      BY <1>3 DEF IsFree
    <3>8. HasRemoved(f, m, 1, f[1], f2)
      <4>1. m \in Nat /\ f \in Seq(Cells) /\ Len(f) = m
        BY <1>1
      <4> HIDE DEF m
      <4>2. HasRemoved(f, m, 1, f[1], Without(f, 1))
        BY <4>1, <3>2, <3>7, WithoutIs
      <4> QED BY <4>2
    <3>9. \A i \in Int : Nth(f2, i) = IF i < 1 THEN Nth(f, i) ELSE Nth(f, i + 1)
      <4> TAKE i \in Int
      <4> QED BY <1>1, <3>2, <3>7, NthWithout
    <3> HIDE DEF f2, g0, t
    <3>10. /\ f2 \in Seq(Cells) /\ Len(f2) = m - 1 /\ Distinct(f2)
           /\ \A c : On(c, f2) <=> On(c, f) /\ c # f[1]
      BY <3>8 DEF HasRemoved
    <3>11. \A i \in 1 .. m - 1 : f2[i] = f[i + 1]
      BY <3>8, <3>2 DEF HasRemoved
    <3>12. Nth(f2, 1) = Nth(f, 2)
      BY <3>9
    <3>13. \A i \in 1 .. Len(f2) : h.cell[f2[i]].next = Nth(f2, i + 1)
      <4> TAKE i \in 1 .. Len(f2)
      <4>1. i + 1 \in 1 .. m /\ f2[i] = f[i + 1]
        BY <3>10, <3>11, <1>1
      <4>2. h.cell[f[i + 1]].next = Nth(f, (i + 1) + 1)
        BY <4>1, <1>3 DEF IsFree
      <4>3. Nth(f2, i + 1) = Nth(f, (i + 1) + 1)
        BY <3>9
      <4> QED BY <4>1, <4>2, <4>3
    <3>14. On(t, f)
      BY <3>2 DEF On
    <3>15. Len(s) + 1 + Len(f2) = g0.made
      BY <1>1, <1>3, <3>6, <3>10
    <3>16. \A c : On(c, f2) => c # t /\ ~On(c, s)
      BY <1>3, <3>2, <3>10
    <3>17. \A c : On(c, s) \/ c = t \/ On(c, f2) <=> c \in 1 .. g0.made
      BY <1>3, <3>2, <3>6, <3>10, <3>14
    <3>18. ~On(t, s)
      BY <1>3, <3>14
    <3> QED BY <3>2, <3>6, <3>10, <3>12, <3>13, <3>15, <3>16, <3>17, <3>18
  <2>2. CASE h.free = NoCell
    <3>1. t = h.made + 1 /\ g0 = [h EXCEPT !.made = t]
      BY <2>2 DEF TmrCell
    <3>2. Len(f) = 0
      <4>1. \A i \in 1 .. Len(f) : f[i] \in Cells
        BY <1>1
      <4>2. 1 \notin 1 .. Len(f)
        BY <4>1, <2>2, <1>4, CellNumbers DEF Nth
      <4> QED BY <4>2, <1>1
    <3>3. t \in Cells /\ t \in CellLinks
      BY <3>1, <1>1, <2>2, CellNumbers
    <3>4. g0 = [timers |-> h.timers, free |-> h.free, made |-> t, cell |-> h.cell]
      BY <2>0, <3>1, HeapChanges, Zenon
    <3>5. g0 \in HeapType /\ g0.timers = h.timers /\ g0.cell = h.cell /\ g0.made = t
          /\ g0.free = h.free
      <4> HIDE DEF g0, t
      <4> QED BY <3>3, <3>4, <2>0 DEF HeapType
    <3>6. \A c : ~On(c, f)
      BY <3>2 DEF On
    <3>7. ~On(t, s)
      BY <1>1, <1>3, <3>1
    <3>8. \A c : On(c, s) \/ c = t \/ On(c, f) <=> c \in 1 .. g0.made
      BY <1>1, <1>3, <3>1, <3>5, <3>6
    <3>9. Len(s) + 1 + Len(f) = g0.made
      BY <1>1, <1>3, <3>1, <3>5
    <3>10. f \in Seq(Cells) /\ Distinct(f) /\ g0.free = Nth(f, 1)
           /\ \A i \in 1 .. Len(f) : h.cell[f[i]].next = Nth(f, i + 1)
      BY <1>3, <3>5 DEF IsFree
    <3> HIDE DEF g0, t
    <3> QED BY <3>3, <3>5, <3>6, <3>7, <3>8, <3>9, <3>10
  <2> QED BY <2>1, <2>2
<1> HIDE DEF b, g0, t
<1>6. /\ g1 \in HeapType /\ g1.timers = g0.timers /\ g1.free = g0.free /\ g1.made = g0.made
      /\ \A c \in Cells : g1.cell[c] = IF c = t THEN b ELSE h.cell[c]
  <2>1. /\ g1 \in HeapType /\ g1.timers = g0.timers /\ g1.free = g0.free /\ g1.made = g0.made
        /\ \A c \in Cells : g1.cell[c] = IF c = t THEN b ELSE g0.cell[c]
    BY <1>2, <1>5, PutCell
  <2> HIDE DEF g1
  <2> QED BY <2>1, <1>5
<1> HIDE DEF g1
<1>7. IsActive(g1, s) /\ Sorted(g1, s)
  <2>1. \A c \in Cells : On(c, s) => g1.cell[c] = h.cell[c]
    BY <1>5, <1>6
  <2>2. g1.timers = h.timers
    BY <1>5, <1>6
  <2> QED BY <2>1, <2>2, <1>3, <1>6, KeepLists
<1>8. Added(g1, g, s, t)
  <2> DEFINE m == Len(s)
  <2>1. m \in 0 .. 4 /\ Len(s) = m
    BY <1>1
  <2> HIDE DEF m
  <2> QED BY <2>1, <1>5, <1>6, <1>7, AddList
<1> HIDE DEF g
<1>9. PICK f2 : /\ f2 \in Seq(Cells) /\ Distinct(f2) /\ g0.free = Nth(f2, 1)
                /\ \A i \in 1 .. Len(f2) : h.cell[f2[i]].next = Nth(f2, i + 1)
                /\ Len(s) + 1 + Len(f2) = g0.made
                /\ \A c : On(c, f2) => c # t /\ ~On(c, s)
                /\ \A c : On(c, s) \/ c = t \/ On(c, f2) <=> c \in 1 .. g0.made
  BY <1>5
<1>10. PICK u : /\ IsActive(g, u) /\ Len(u) = Len(s) + 1 /\ Sorted(g, u)
                /\ \A c : On(c, u) <=> On(c, s) \/ c = t
  BY <1>8 DEF Added
<1>11. IsFree(g, f2)
  <2>1. \A i \in 1 .. Len(f2) : f2[i] \in Cells /\ On(f2[i], f2)
    BY <1>9 DEF On
  <2>2. \A i \in 1 .. Len(f2) : g.cell[f2[i]].next = h.cell[f2[i]].next
    BY <2>1, <1>6, <1>8, <1>9 DEF Added
  <2>3. g.free = Nth(f2, 1)
    BY <1>6, <1>8, <1>9 DEF Added
  <2> QED BY <2>2, <2>3, <1>9 DEF IsFree
<1>12. Lists(g, u, f2)
  <2>1. g \in HeapType /\ g.made = g0.made
    BY <1>6, <1>8 DEF Added
  <2>2. Len(u) + Len(f2) = g.made
    BY <2>1, <1>9, <1>10
  <2>3. \A c : ~(On(c, u) /\ On(c, f2))
    BY <1>9, <1>10
  <2>4. \A c : On(c, u) \/ On(c, f2) <=> c \in 1 .. g.made
    BY <2>1, <1>9, <1>10
  <2> QED BY <2>1, <2>2, <2>3, <2>4, <1>10, <1>11 DEF Lists
<1>13. \A c \in Cells \ {t} :
          /\ g.cell[c].proc = h.cell[c].proc /\ g.cell[c].usecs = h.cell[c].usecs
          /\ g.cell[c].periodic = h.cell[c].periodic /\ g.cell[c].time = h.cell[c].time
  BY <1>6, <1>8 DEF Added, SameData
<1>14. g.cell[t].proc = b.proc /\ g.cell[t].usecs = b.usecs
       /\ g.cell[t].periodic = b.periodic /\ g.cell[t].time = b.time
  BY <1>5, <1>6, <1>8 DEF Added, SameData
<1>15. Created(h, g, s, t, b)
  BY <1>5, <1>10, <1>12, <1>13, <1>14 DEF Created
<1> QED BY <1>0, <1>15 DEF t, b

SameButFor(h, g, t) ==
  \A c \in Cells \ {t} : /\ g.cell[c].proc = h.cell[c].proc /\ g.cell[c].usecs = h.cell[c].usecs
                         /\ g.cell[c].periodic = h.cell[c].periodic /\ g.cell[c].time = h.cell[c].time

\* g has a timer less, that of the cell t.
Cancelled(h, g, s, t) ==
  /\ SameButFor(h, g, t) /\ g.cell[t].proc = "none"
  /\ \E u, f : /\ Lists(g, u, f) /\ SameOrder(s, u, t)
               /\ \A c : On(c, u) <=> On(c, s) /\ c # t

\* tmr_cancel: the cell is taken out and is the first of the free ones.
LEMMA CancelLists ==
  ASSUME NEW h, NEW s, NEW f, Lists(h, s, f), NEW t \in Cells, On(t, s)
  PROVE  Cancelled(h, TmrCancel(h, t), s, t)
<1> DEFINE g1 == ListRemove(h, t)
           b == FreeCell(g1.free)
           g2 == [g1 EXCEPT !.cell[t] = b]
           g == [g2 EXCEPT !.free = t]
           f2 == Inserted(f, 1, t)
           m == Len(f)
<1>1. /\ Len(s) \in 0 .. 4 /\ m \in 0 .. 4 /\ h.made \in 0 .. 4
      /\ s \in Seq(Cells) /\ f \in Seq(Cells)
  BY ListsFacts
<1>2. /\ h \in HeapType /\ IsActive(h, s) /\ Sorted(h, s) /\ IsFree(h, f)
      /\ Len(s) + m = h.made
      /\ \A c : On(c, s) \/ On(c, f) <=> c \in 1 .. h.made
      /\ \A c : ~(On(c, s) /\ On(c, f))
  BY DEF Lists
<1>3. TmrCancel(h, t) = g
  BY Zenon DEF TmrCancel
<1>4. Removed(h, g1, s, t)
  <2> DEFINE n == Len(s)
  <2>1. n \in 0 .. 4 /\ Len(s) = n
    BY <1>1
  <2>2. SortedBut(h, s, t)
    BY <1>2 DEF Sorted, SortedBut
  <2> HIDE DEF n
  <2> QED BY <2>1, <2>2, <1>2, RemoveList
<1> HIDE DEF g1
<1>5. PICK u : /\ IsActive(g1, u) /\ Len(u) = Len(s) - 1 /\ Sorted(g1, u)
               /\ \A c : On(c, u) <=> On(c, s) /\ c # t
               /\ SameOrder(s, u, t)
  BY <1>4 DEF Removed
<1>6. /\ g1 \in HeapType /\ SameData(h, g1) /\ g1.free = h.free /\ g1.made = h.made
      /\ \A c \in Cells : ~On(c, s) => g1.cell[c].next = h.cell[c].next
  BY <1>4 DEF Removed
<1>7. h.free = Nth(f, 1) /\ Distinct(f) /\ ~On(t, f)
      /\ \A i \in 1 .. m : h.cell[f[i]].next = Nth(f, i + 1)
  BY <1>2 DEF IsFree
<1>8. b \in CellType /\ b.next = g1.free /\ b.proc = "none"
  <2>1. g1.free \in CellLinks
    BY <1>6 DEF HeapType
  <2> QED BY <2>1, CellNumbers DEF CellType, FreeCell
<1> HIDE DEF b
<1>9. /\ g2 \in HeapType
      /\ g2.timers = g1.timers /\ g2.made = g1.made
      /\ \A c \in Cells : g2.cell[c] = IF c = t THEN b ELSE g1.cell[c]
  BY <1>6, <1>8, PutCell
<1> HIDE DEF g2
<1>10. /\ g \in HeapType /\ g.timers = g1.timers /\ g.made = h.made /\ g.free = t
       /\ \A c \in Cells : g.cell[c] = IF c = t THEN b ELSE g1.cell[c]
  <2>1. g2 = [timers |-> g2.timers, free |-> g2.free, made |-> g2.made, cell |-> g2.cell]
    BY <1>9 DEF HeapType
  <2>2. g = [timers |-> g2.timers, free |-> t, made |-> g2.made, cell |-> g2.cell]
    BY <2>1, HeapChanges, Zenon
  <2>3. g2.timers \in CellLinks /\ g2.made \in CellLinks /\ t \in CellLinks /\ g2.cell \in [Cells -> CellType]
    BY <1>9, CellNumbers DEF HeapType
  <2> HIDE DEF g
  <2>4. g \in HeapType
    BY <2>2, <2>3 DEF HeapType
  <2> QED BY <2>2, <2>4, <1>6, <1>9
<1> HIDE DEF g
<1>11. IsActive(g, u) /\ Sorted(g, u)
  <2>1. \A c \in Cells : On(c, u) => g.cell[c] = g1.cell[c]
    BY <1>5, <1>10
  <2> QED BY <2>1, <1>5, <1>6, <1>10, KeepLists
<1>12. /\ f2 \in Seq(Cells) /\ Len(f2) = m + 1 /\ Distinct(f2)
       /\ \A i \in 1 .. m + 1 : f2[i] = IF i < 1 THEN f[i] ELSE IF i = 1 THEN t ELSE f[i - 1]
       /\ \A c : On(c, f2) <=> On(c, f) \/ c = t
  <2>1. HasInserted(f, m, 1, t, f2)
    <3>1. m \in Nat /\ Len(f) = m /\ 1 \in 1 .. m + 1
      BY <1>1
    <3> HIDE DEF m
    <3>2. HasInserted(f, m, 1, t, Inserted(f, 1, t))
      BY <3>1, <1>1, <1>7, InsertedIs
    <3> QED BY <3>2
  <2> HIDE DEF f2
  <2> QED BY <2>1 DEF HasInserted
<1>13. \A i \in Int : Nth(f2, i) = IF i < 1 THEN Nth(f, i) ELSE IF i = 1 THEN t ELSE Nth(f, i - 1)
  <2>1. m \in Nat /\ Len(f) = m /\ 1 \in 1 .. m + 1
    BY <1>1
  <2> HIDE DEF m
  <2> QED BY <2>1, <1>1, <1>7, NthInserted
<1> HIDE DEF f2
<1>14. IsFree(g, f2)
  <2>1. g.free = Nth(f2, 1)
    BY <1>10, <1>13
  <2>2. ASSUME NEW i \in 1 .. m + 1 PROVE g.cell[f2[i]].next = Nth(f2, i + 1)
    <3>1. Nth(f2, i + 1) = Nth(f, i)
      BY <1>1, <1>13
    <3>2. CASE i = 1
      <4>1. f2[i] = t
        BY <3>2, <1>12
      <4> QED BY <4>1, <3>1, <3>2, <1>6, <1>7, <1>8, <1>10
    <3>3. CASE i # 1
      <4>1. i - 1 \in 1 .. m /\ f2[i] = f[i - 1]
        BY <3>3, <1>1, <1>12
      <4>2. f[i - 1] \in Cells /\ On(f[i - 1], f)
        <5>1. i - 1 \in 1 .. Len(f) BY <4>1
        <5>2. \A j \in 1 .. Len(f) : f[j] \in Cells /\ On(f[j], f) BY <1>1 DEF On
        <5> QED BY <5>1, <5>2, Zenon
      <4>3. g.cell[f[i - 1]].next = h.cell[f[i - 1]].next
        BY <4>2, <1>2, <1>6, <1>7, <1>10
      <4>4. h.cell[f[i - 1]].next = Nth(f, (i - 1) + 1)
        BY <4>1, <1>7
      <4> QED BY <4>1, <4>3, <4>4, <3>1
    <3> QED BY <3>2, <3>3
  <2> QED BY <2>1, <2>2, <1>12 DEF IsFree
<1>15. Lists(g, u, f2)
  <2>1. Len(u) + Len(f2) = g.made
    BY <1>1, <1>2, <1>5, <1>10, <1>12
  <2>2. \A c : ~(On(c, u) /\ On(c, f2))
    BY <1>2, <1>5, <1>12
  <2>3. \A c : On(c, u) \/ On(c, f2) <=> c \in 1 .. g.made
    BY <1>2, <1>5, <1>10, <1>12
  <2> QED BY <2>1, <2>2, <2>3, <1>10, <1>11, <1>14 DEF Lists
<1>16. SameButFor(h, g, t)
  BY <1>6, <1>10 DEF SameButFor, SameData
<1>17. g.cell[t].proc = "none"
  BY <1>8, <1>10
<1>18. Cancelled(h, g, s, t)
  BY <1>5, <1>15, <1>16, <1>17 DEF Cancelled
<1> QED BY <1>3, <1>18

\* In g the timer t is due at x.
Rescheduled(h, g, s, t, x) ==
  /\ Retimed(h, g, t, x)
  /\ \E u, f : /\ Lists(g, u, f) /\ SameOrder(s, u, t)
               /\ \A c : On(c, u) <=> On(c, s)

\* A due time and list_resort: the same timers, sorted again.
LEMMA ResortLists ==
  ASSUME NEW h, NEW s, NEW f, Lists(h, s, f), NEW t \in Cells, On(t, s), NEW x \in Nat
  PROVE  Rescheduled(h, ListResort([h EXCEPT !.cell[t].time = x], t), s, t, x)
<1> DEFINE g == ListResort([h EXCEPT !.cell[t].time = x], t)
<1>1. /\ Len(s) \in 0 .. 4 /\ h.made \in 0 .. 4
      /\ s \in Seq(Cells) /\ f \in Seq(Cells)
  BY ListsFacts
<1>2. /\ h \in HeapType /\ IsActive(h, s) /\ Sorted(h, s) /\ IsFree(h, f)
      /\ Len(s) + Len(f) = h.made
      /\ \A c : On(c, s) \/ On(c, f) <=> c \in 1 .. h.made
      /\ \A c : ~(On(c, s) /\ On(c, f))
  BY DEF Lists
<1>3. Resorted(h, g, s, t, x)
  <2> DEFINE n == Len(s)
  <2>1. n \in 0 .. 4 /\ Len(s) = n
    BY <1>1
  <2> HIDE DEF n
  <2> QED BY <2>1, <1>2, ResortList
<1> HIDE DEF g
<1>4. /\ g \in HeapType /\ Retimed(h, g, t, x) /\ g.free = h.free /\ g.made = h.made
      /\ \A c \in Cells : ~On(c, s) => g.cell[c].next = h.cell[c].next
  BY <1>3 DEF Resorted
<1>5. PICK u : /\ IsActive(g, u) /\ Len(u) = Len(s) /\ Sorted(g, u)
               /\ \A c : On(c, u) <=> On(c, s)
               /\ SameOrder(s, u, t)
  BY <1>3 DEF Resorted
<1>6. IsFree(g, f)
  <2>1. \A i \in 1 .. Len(f) : f[i] \in Cells /\ On(f[i], f)
    BY <1>1 DEF On
  <2>2. \A i \in 1 .. Len(f) : g.cell[f[i]].next = h.cell[f[i]].next
    BY <2>1, <1>2, <1>4
  <2> QED BY <2>2, <1>2, <1>4 DEF IsFree
<1>7. Lists(g, u, f)
  BY <1>2, <1>4, <1>5, <1>6 DEF Lists
<1>8. Rescheduled(h, g, s, t, x)
  BY <1>4, <1>5, <1>7 DEF Rescheduled
<1> QED BY <1>8 DEF g

----------------------------------------------------------------------------
(***************************************************************************)
(* Timers and pointers.  Named: a pointer is NULL or names the active      *)
(* timer of its kind, so there is never more than one timer of a kind, and *)
(* no more timers than cells. WalkOK says how far a pass has come:         *)
(* whatever comes before the next timer to look at has fired, unless a     *)
(* timer that fired moved others. A turn of the walk keeps both, for each  *)
(* kind of timer.                                                          *)
(***************************************************************************)
\* The active timers are those the pointers name; the other cells are for nothing.
Named(h, p, s) ==
  /\ p \in [TimerKinds -> CellLinks]
  /\ \A c \in Cells : On(c, s) =>
       /\ h.cell[c].proc \in TimerKinds /\ p[h.cell[c].proc] = c
       /\ h.cell[c].usecs > 0
       /\ h.cell[c].periodic <=> h.cell[c].proc \in {"stats", "reporter"}
  /\ \A c \in Cells : ~On(c, s) => h.cell[c].proc = "none"
  /\ \A k \in TimerKinds : p[k] # NoCell => On(p[k], s) /\ h.cell[p[k]].proc = k

\* The walk over the list: where it goes on, and what has fired when.
WalkOK(h, s, t, now, F) ==
  /\ t # NoCell => On(t, s)
  /\ t # NoCell /\ h.cell[t].time <= now => \A c \in Cells : Precedes(s, c, t) => h.cell[c].proc \in F
  /\ "omit" \notin F => \A c \in Cells : On(c, s) /\ (t = NoCell \/ Precedes(s, c, t)) => h.cell[c].proc \in F

\* The kinds of timers; a free cell is of none.
LEMMA KindNames ==
  /\ "none" \notin TimerKinds /\ "timer" \in TimerKinds /\ "stats" \in TimerKinds
  /\ "reporter" \in TimerKinds /\ "omit" \in TimerKinds
  /\ \A k \in TimerKinds : k \in {"timer", "stats", "reporter", "omit"}
BY DEF TimerKinds

\* What precedes is on the list.
LEMMA PrecedesIn ==
  ASSUME NEW s, NEW c, NEW d, Precedes(s, c, d) PROVE On(c, s) /\ On(d, s)
BY DEF Precedes, On

\* A timer more has its pointer.
LEMMA NamedCreate ==
  ASSUME NEW h, NEW g, NEW p, NEW s, NEW t, NEW b, NEW k \in TimerKinds, Named(h, p, s),
         Created(h, g, s, t, b), p[k] = NoCell, b.proc = k, b.usecs > 0,
         b.periodic <=> k \in {"stats", "reporter"},
         NEW u, \A c : On(c, u) <=> On(c, s) \/ c = t
  PROVE  Named(g, [p EXCEPT ![k] = t], u)
<1> DEFINE q == [p EXCEPT ![k] = t]
<1>1. p \in [TimerKinds -> CellLinks] /\ t \in Cells /\ ~On(t, s)
  BY DEF Named, Created
<1>2. q \in [TimerKinds -> CellLinks] /\ q[k] = t /\ \A j \in TimerKinds \ {k} : q[j] = p[j]
  BY <1>1, CellNumbers
<1> HIDE DEF q
<1>3. ASSUME NEW c \in Cells, On(c, u)
      PROVE  /\ g.cell[c].proc \in TimerKinds /\ q[g.cell[c].proc] = c
             /\ g.cell[c].usecs > 0
             /\ g.cell[c].periodic <=> g.cell[c].proc \in {"stats", "reporter"}
  <2>1. CASE c = t
    BY <2>1, <1>2 DEF Created
  <2>2. CASE c # t
    <3>1. /\ On(c, s) /\ g.cell[c].proc = h.cell[c].proc /\ g.cell[c].usecs = h.cell[c].usecs
          /\ g.cell[c].periodic = h.cell[c].periodic
      BY <2>2, <1>3 DEF Created
    <3>2. h.cell[c].proc \in TimerKinds /\ p[h.cell[c].proc] = c
      BY <3>1 DEF Named
    <3>3. h.cell[c].proc # k
      BY <3>2, CellNumbers
    <3> QED BY <3>1, <3>2, <3>3, <1>2 DEF Named
  <2> QED BY <2>1, <2>2
<1>4. \A c \in Cells : ~On(c, u) => g.cell[c].proc = "none"
  BY DEF Named, Created
<1>5. ASSUME NEW j \in TimerKinds, q[j] # NoCell PROVE On(q[j], u) /\ g.cell[q[j]].proc = j
  <2>1. CASE j = k
    BY <2>1, <1>2 DEF Created
  <2>2. CASE j # k
    <3>1. q[j] = p[j]
      BY <2>2, <1>2
    <3>2. On(p[j], s) /\ h.cell[p[j]].proc = j /\ p[j] \in Cells
      BY <3>1, <1>1, <1>5, CellNumbers DEF Named
    <3>3. p[j] # t
      BY <3>2, <1>1
    <3> QED BY <3>1, <3>2, <3>3 DEF Created
  <2> QED BY <2>1, <2>2
<1> QED BY <1>2, <1>3, <1>4, <1>5 DEF Named, q

\* A timer less has none.
LEMMA NamedCancel ==
  ASSUME NEW h, NEW g, NEW p, NEW s, NEW t \in Cells, On(t, s), Named(h, p, s),
         SameButFor(h, g, t), g.cell[t].proc = "none",
         NEW k \in TimerKinds, h.cell[t].proc = k,
         NEW u, \A c : On(c, u) <=> On(c, s) /\ c # t
  PROVE  Named(g, [p EXCEPT ![k] = NoCell], u)
<1> DEFINE q == [p EXCEPT ![k] = NoCell]
<1>1. p \in [TimerKinds -> CellLinks] /\ p[k] = t
  BY DEF Named
<1>2. q \in [TimerKinds -> CellLinks] /\ q[k] = NoCell /\ \A j \in TimerKinds \ {k} : q[j] = p[j]
  BY <1>1, CellNumbers
<1> HIDE DEF q
<1>3. ASSUME NEW c \in Cells, On(c, u)
      PROVE  /\ g.cell[c].proc \in TimerKinds /\ q[g.cell[c].proc] = c
             /\ g.cell[c].usecs > 0
             /\ g.cell[c].periodic <=> g.cell[c].proc \in {"stats", "reporter"}
  <2>1. /\ On(c, s) /\ c # t /\ g.cell[c].proc = h.cell[c].proc /\ g.cell[c].usecs = h.cell[c].usecs
        /\ g.cell[c].periodic = h.cell[c].periodic
    BY <1>3 DEF SameButFor
  <2>2. h.cell[c].proc \in TimerKinds /\ p[h.cell[c].proc] = c
    BY <2>1 DEF Named
  <2>3. h.cell[c].proc # k
    BY <2>1, <2>2, <1>1
  <2> QED BY <2>1, <2>2, <2>3, <1>2 DEF Named
<1>4. \A c \in Cells : ~On(c, u) => g.cell[c].proc = "none"
  BY DEF Named, SameButFor
<1>5. ASSUME NEW j \in TimerKinds, q[j] # NoCell PROVE On(q[j], u) /\ g.cell[q[j]].proc = j
  <2>1. j # k /\ q[j] = p[j]
    BY <1>2, <1>5
  <2>2. On(p[j], s) /\ h.cell[p[j]].proc = j /\ p[j] \in Cells
    BY <2>1, <1>1, <1>5, CellNumbers DEF Named
  <2>3. p[j] # t
    BY <2>1, <2>2
  <2> QED BY <2>1, <2>2, <2>3 DEF SameButFor
<1> QED BY <1>2, <1>3, <1>4, <1>5 DEF Named, q

\* Moving timers leaves their names.
LEMMA NamedSame ==
  ASSUME NEW h, NEW g, NEW p, NEW s, Named(h, p, s),
         \A c \in Cells : g.cell[c].proc = h.cell[c].proc /\ g.cell[c].usecs = h.cell[c].usecs
                          /\ g.cell[c].periodic = h.cell[c].periodic,
         NEW u, \A c : On(c, u) <=> On(c, s)
  PROVE  Named(g, p, u)
<1>1. \A j \in TimerKinds : p[j] # NoCell => p[j] \in Cells
  BY CellNumbers DEF Named
<1> QED BY <1>1 DEF Named

\* The cells before the next one of t.
LEMMA NextIs ==
  ASSUME NEW h, NEW s, NEW f, Lists(h, s, f), NEW t \in Cells, On(t, s)
  PROVE  LET n == h.cell[t].next
         IN /\ n \in CellLinks /\ n # t
            /\ n # NoCell => On(n, s) /\ n \in Cells /\ h.cell[t].time <= h.cell[n].time
            /\ n # NoCell => \A c : Precedes(s, c, n) => c = t \/ Precedes(s, c, t)
            /\ n = NoCell => \A c : On(c, s) => c = t \/ Precedes(s, c, t)
            /\ \A c : On(c, s) => c = t \/ Precedes(s, c, t) \/ h.cell[t].time <= h.cell[c].time
<1>1. s \in Seq(Cells) /\ Distinct(s) /\ Sorted(h, s)
      /\ \A i \in 1 .. Len(s) : h.cell[s[i]].next = Nth(s, i + 1)
  BY DEF Lists, IsActive
<1> DEFINE m == Len(s)
<1>2. m \in Nat /\ Len(s) = m
  BY <1>1
<1>3. PICK i \in 1 .. m : s[i] = t
  BY DEF On
<1> HIDE DEF m
<1> DEFINE n == h.cell[t].next
<1>4. n = Nth(s, i + 1)
  BY <1>1, <1>2, <1>3
<1>5. n \in CellLinks
  BY <1>1, <1>2, <1>4, NthIs
<1>6. n # t
  <2> SUFFICES ASSUME n = t PROVE FALSE
    OBVIOUS
  <2>1. s[i] = Nth(s, i + 1)
    BY <1>3, <1>4
  <2>2. i = i + 1
    <3>1. i \in 1 .. Len(s) /\ i + 1 \in Int
      BY <1>2
    <3> QED BY <3>1, <2>1, <1>1, NthPlace
  <2> QED BY <2>2
<1>7. ASSUME n # NoCell
      PROVE  i + 1 \in 1 .. m /\ n = s[i + 1] /\ n \in Cells
  BY <1>1, <1>2, <1>4, <1>7, NthIs
<1>8. n = NoCell => i = m
  <2> HAVE n = NoCell
  <2>1. ASSUME i + 1 \in 1 .. m PROVE FALSE
    <3>1. Nth(s, i + 1) = s[i + 1]
      BY <2>1, <1>2 DEF Nth
    <3>2. s[i + 1] \in Cells
      BY <2>1, <1>1, <1>2
    <3> QED BY <3>1, <3>2, <1>4, CellNumbers
  <2> QED BY <2>1, <1>2
<1> HIDE DEF n
<1>9. \A a, b \in 1 .. m : a < b => h.cell[s[a]].time <= h.cell[s[b]].time
  BY <1>1, <1>2 DEF Sorted
<1>10. n # NoCell => On(n, s) /\ n \in Cells /\ h.cell[t].time <= h.cell[n].time
  <2> HAVE n # NoCell
  <2>1. i + 1 \in 1 .. m /\ n = s[i + 1] /\ n \in Cells /\ i < i + 1
    BY <1>2, <1>7
  <2>2. On(n, s)
    BY <2>1, <1>2 DEF On
  <2>3. h.cell[s[i]].time <= h.cell[s[i + 1]].time
    BY <2>1, <1>9
  <2> QED BY <2>1, <2>2, <2>3, <1>3
<1>11. ASSUME n # NoCell, NEW c, Precedes(s, c, n) PROVE c = t \/ Precedes(s, c, t)
  <2>1. PICK a \in 1 .. m, b \in 1 .. m : a < b /\ s[a] = c /\ s[b] = n
    BY <1>2, <1>11 DEF Precedes
  <2>2. b = i + 1
    BY <2>1, <1>1, <1>2, <1>7, <1>11 DEF Distinct
  <2>3. a = i \/ a < i
    BY <2>1, <2>2
  <2> QED BY <2>1, <2>3, <1>2, <1>3 DEF Precedes
<1>12. ASSUME NEW c, On(c, s)
       PROVE  c = t \/ Precedes(s, c, t) \/ (i # m /\ h.cell[t].time <= h.cell[c].time)
  <2>1. PICK a \in 1 .. m : s[a] = c
    BY <1>2, <1>12 DEF On
  <2>2. CASE a <= i
    <3>1. a = i \/ a < i
      BY <2>2
    <3> QED BY <2>1, <3>1, <1>2, <1>3 DEF Precedes
  <2>3. CASE i < a
    <3>1. h.cell[s[i]].time <= h.cell[s[a]].time
      BY <2>3, <1>9
    <3> QED BY <2>1, <2>3, <3>1, <1>2, <1>3
  <2> QED BY <2>2, <2>3
<1>13. n = NoCell => \A c : On(c, s) => c = t \/ Precedes(s, c, t)
  BY <1>8, <1>12
<1> QED BY <1>5, <1>6, <1>10, <1>11, <1>12, <1>13 DEF n

\* What firing the timer t, of kind k, does to the cells.
Effects(h, g, s, t, k, now) ==
  /\ \A c \in Cells \ {t} :
       /\ g.cell[c].proc = h.cell[c].proc
       /\ g.cell[c].time = h.cell[c].time \/ (k = "omit" /\ On(c, s) /\ g.cell[c].time > now)
  /\ \/ g.cell[t].proc = "none"
     \/ g.cell[t].proc = k /\ g.cell[t].time > h.cell[t].time

FiredOK(h, g, s, t, k, q, now, F) ==
  /\ Effects(h, g, s, t, k, now)
  /\ \E u, f : Lists(g, u, f) /\ Named(g, q, u) /\ WalkOK(g, u, h.cell[t].next, now, F \cup {k})

\* The types of the cells.
LEMMA CellFacts ==
  ASSUME NEW h, NEW s, NEW f, Lists(h, s, f)
  PROVE  /\ h \in HeapType
         /\ \A c \in Cells : h.cell[c].time \in Nat /\ h.cell[c].usecs \in Nat
                             /\ h.cell[c].next \in CellLinks /\ h.cell[c].periodic \in BOOLEAN
         /\ \A c : On(c, s) => c \in Cells
         /\ \A i, j \in 1 .. Len(s) : i < j => h.cell[s[i]].time <= h.cell[s[j]].time
<1>1. h \in HeapType /\ s \in Seq(Cells) /\ Sorted(h, s)
  BY DEF Lists, IsActive
<1>2. \A c \in Cells : h.cell[c] \in CellType
  BY <1>1 DEF HeapType
<1>3. \A c : On(c, s) => c \in Cells
  BY <1>1 DEF On
<1> QED BY <1>1, <1>2, <1>3 DEF CellType, Sorted

\* What precedes is due no later.
LEMMA SortedPrecedes ==
  ASSUME NEW h, NEW s, NEW f, Lists(h, s, f), NEW c, NEW d, Precedes(s, c, d)
  PROVE  h.cell[c].time <= h.cell[d].time
BY CellFacts DEF Precedes

\* The timer of the test ends it and is gone.
LEMMA FireOnce ==
  ASSUME NEW h, NEW p, NEW s, NEW f, Lists(h, s, f), Named(h, p, s), NEW t \in Cells, On(t, s),
         NEW now \in Nat, h.cell[t].time <= now, NEW F, WalkOK(h, s, t, now, F),
         h.cell[t].proc = "timer"
  PROVE  FiredOK(h, TmrCancel(h, t), s, t, "timer", [p EXCEPT !["timer"] = NoCell], now, F)
<1> DEFINE g == TmrCancel(h, t)
           n == h.cell[t].next
           q == [p EXCEPT !["timer"] = NoCell]
<1>1. Cancelled(h, g, s, t)
  BY CancelLists
<1>2. /\ n \in CellLinks /\ n # t
      /\ n # NoCell => On(n, s) /\ n \in Cells /\ h.cell[t].time <= h.cell[n].time
      /\ n # NoCell => \A c : Precedes(s, c, n) => c = t \/ Precedes(s, c, t)
      /\ n = NoCell => \A c : On(c, s) => c = t \/ Precedes(s, c, t)
  BY NextIs
<1> HIDE DEF g, n, q
<1>3. PICK u, e : /\ Lists(g, u, e) /\ SameOrder(s, u, t)
                  /\ \A c : On(c, u) <=> On(c, s) /\ c # t
  BY <1>1 DEF Cancelled
<1>4. SameButFor(h, g, t) /\ g.cell[t].proc = "none"
  BY <1>1 DEF Cancelled
<1>5. Named(g, q, u)
  BY <1>3, <1>4, KindNames, NamedCancel DEF q
<1>6. \A c \in Cells : Precedes(s, c, t) => h.cell[c].proc \in F
  BY CellNumbers DEF WalkOK
<1>7. WalkOK(g, u, n, now, F \cup {"timer"})
  <2>1. n # NoCell => On(n, u)
    BY <1>2, <1>3
  <2>2. \A c \in Cells : c # t /\ Precedes(s, c, t) => g.cell[c].proc \in F
    BY <1>4, <1>6 DEF SameButFor
  <2>3. n # NoCell => \A c \in Cells : Precedes(u, c, n) => g.cell[c].proc \in F
    <3> SUFFICES ASSUME n # NoCell, NEW c \in Cells, Precedes(u, c, n) PROVE g.cell[c].proc \in F
      OBVIOUS
    <3>1. On(c, u)
      BY PrecedesIn
    <3>2. c # t /\ n # t
      BY <3>1, <1>2, <1>3
    <3>3. Precedes(s, c, n)
      BY <3>2, <1>3 DEF SameOrder
    <3> QED BY <3>2, <3>3, <1>2, <2>2
  <2>4. n = NoCell => \A c \in Cells : On(c, u) => g.cell[c].proc \in F
    BY <1>2, <1>3, <2>2
  <2> QED BY <2>1, <2>3, <2>4 DEF WalkOK
<1>8. Effects(h, g, s, t, "timer", now)
  BY <1>4 DEF Effects, SameButFor
<1>9. FiredOK(h, g, s, t, "timer", q, now, F)
  BY <1>3, <1>5, <1>7, <1>8 DEF FiredOK, n
<1> QED BY <1>9 DEF g, q

\* A periodic timer moves behind those that are due before it is again.
LEMMA FirePeriodic ==
  ASSUME NEW h, NEW p, NEW s, NEW f, Lists(h, s, f), Named(h, p, s), NEW t \in Cells, On(t, s),
         NEW now \in Nat, h.cell[t].time <= now, NEW F, WalkOK(h, s, t, now, F),
         NEW k \in {"stats", "reporter"}, h.cell[t].proc = k
  PROVE  FiredOK(h, Reschedule(h, t), s, t, k, p, now, F)
<1> DEFINE g == Reschedule(h, t)
           n == h.cell[t].next
           x == h.cell[t].time + h.cell[t].usecs
<1>0. h.cell[t].time \in Nat /\ h.cell[t].usecs \in Nat /\ h.cell[t].usecs > 0
  BY CellFacts DEF Named
<1>1. x \in Nat /\ x > h.cell[t].time
  BY <1>0
<1>2. g = ListResort([h EXCEPT !.cell[t].time = x], t)
  <2>1. h \in HeapType
    BY CellFacts
  <2>2. h = [timers |-> h.timers, free |-> h.free, made |-> h.made, cell |-> h.cell]
        /\ h.cell \in [Cells -> CellType]
    BY <2>1 DEF HeapType
  <2>3. [h EXCEPT !.cell[t].time = @ + h.cell[t].usecs] = [h EXCEPT !.cell[t].time = x]
    BY Zenon
  <2> QED BY <2>3, Zenon DEF Reschedule
<1> HIDE DEF x
<1>3. Rescheduled(h, g, s, t, x)
  <2> HIDE DEF g
  <2> QED BY <1>1, <1>2, ResortLists
<1>4. /\ n \in CellLinks /\ n # t
      /\ n # NoCell => On(n, s) /\ n \in Cells /\ h.cell[t].time <= h.cell[n].time
      /\ n # NoCell => \A c : Precedes(s, c, n) => c = t \/ Precedes(s, c, t)
      /\ n = NoCell => \A c : On(c, s) => c = t \/ Precedes(s, c, t)
  BY NextIs
<1> HIDE DEF g, n
<1>5. PICK u, e : /\ Lists(g, u, e) /\ SameOrder(s, u, t)
                  /\ \A c : On(c, u) <=> On(c, s)
  BY <1>3 DEF Rescheduled
<1>6. Retimed(h, g, t, x)
  BY <1>3 DEF Rescheduled
<1>7. Named(g, p, u)
  BY <1>5, <1>6, NamedSame DEF Retimed
<1>8. \A c \in Cells : Precedes(s, c, t) \/ c = t => g.cell[c].proc \in F \cup {k}
  BY <1>6, CellNumbers DEF WalkOK, Retimed
<1>9. WalkOK(g, u, n, now, F \cup {k})
  <2>1. n # NoCell => On(n, u)
    BY <1>4, <1>5
  <2>2. n # NoCell => \A c \in Cells : Precedes(u, c, n) => g.cell[c].proc \in F \cup {k}
    <3> SUFFICES ASSUME n # NoCell, NEW c \in Cells, Precedes(u, c, n)
                 PROVE  g.cell[c].proc \in F \cup {k}
      OBVIOUS
    <3>1. CASE c = t
      BY <3>1, <1>8
    <3>2. CASE c # t
      <4>1. Precedes(s, c, n)
        BY <3>2, <1>4, <1>5 DEF SameOrder
      <4> QED BY <4>1, <1>4, <1>8
    <3> QED BY <3>1, <3>2
  <2>3. n = NoCell => \A c \in Cells : On(c, u) => g.cell[c].proc \in F \cup {k}
    BY <1>4, <1>5, <1>8
  <2> QED BY <2>1, <2>2, <2>3 DEF WalkOK
<1>10. Effects(h, g, s, t, k, now)
  BY <1>1, <1>6 DEF Effects, Retimed
<1>11. FiredOK(h, g, s, t, k, p, now, F)
  BY <1>5, <1>7, <1>9, <1>10 DEF FiredOK, n
<1> QED BY <1>11 DEF g

\* The timers in M are due after now, those not in M keep their place.
Shifted(h, g, s, u, M, now) ==
  /\ \A c \in Cells : /\ g.cell[c].proc = h.cell[c].proc /\ g.cell[c].usecs = h.cell[c].usecs
                      /\ g.cell[c].periodic = h.cell[c].periodic
                      /\ c \notin M => g.cell[c].time = h.cell[c].time
                      /\ c \in M => g.cell[c].time > now
  /\ \A c : On(c, u) <=> On(c, s)
  /\ \A c, d : c \notin M /\ d \notin M => (Precedes(u, c, d) <=> Precedes(s, c, d))

ResetAt(h, t, now) == IF t = NoCell THEN h ELSE TmrReset(h, now, t)

\* tmr_reset of a timer that may be set.
LEMMA ResetShifts ==
  ASSUME NEW h, NEW g, NEW p, NEW s, NEW u, NEW f, NEW M, NEW now \in Nat, NEW t,
         Lists(g, u, f), Named(g, p, u), Shifted(h, g, s, u, M, now), t # NoCell => On(t, u)
  PROVE  \E v, e : /\ Lists(ResetAt(g, t, now), v, e) /\ Named(ResetAt(g, t, now), p, v)
                   /\ Shifted(h, ResetAt(g, t, now), s, v, IF t = NoCell THEN M ELSE M \cup {t}, now)
<1>1. CASE t = NoCell
  <2>1. ResetAt(g, t, now) = g
    BY <1>1 DEF ResetAt
  <2> QED BY <2>1, <1>1
<1>2. CASE t # NoCell
  <2> DEFINE x == now + g.cell[t].usecs
             g2 == ResetAt(g, t, now)
             M2 == M \cup {t}
  <2>1. t \in Cells /\ On(t, u)
    BY <1>2, CellFacts
  <2>2. x \in Nat /\ x > now
    <3>1. g.cell[t].usecs \in Nat /\ g.cell[t].usecs > 0
      BY <2>1, CellFacts DEF Named
    <3> QED BY <3>1
  <2>3. g2 = ListResort([g EXCEPT !.cell[t].time = x], t)
    BY <1>2, Zenon DEF ResetAt, TmrReset
  <2> HIDE DEF x
  <2>4. Rescheduled(g, g2, u, t, x)
    <3> HIDE DEF g2
    <3> QED BY <2>1, <2>2, <2>3, ResortLists
  <2> HIDE DEF g2
  <2>5. PICK v, e : /\ Lists(g2, v, e) /\ SameOrder(u, v, t)
                    /\ \A c : On(c, v) <=> On(c, u)
    BY <2>4 DEF Rescheduled
  <2>6. Retimed(g, g2, t, x)
    BY <2>4 DEF Rescheduled
  <2>7. Named(g2, p, v)
    BY <2>5, <2>6, NamedSame DEF Retimed
  <2>8. Shifted(h, g2, s, v, M2, now)
    <3>1. \A c \in Cells : /\ g2.cell[c].proc = h.cell[c].proc /\ g2.cell[c].usecs = h.cell[c].usecs
                           /\ g2.cell[c].periodic = h.cell[c].periodic
                           /\ c \notin M2 => g2.cell[c].time = h.cell[c].time
                           /\ c \in M2 => g2.cell[c].time > now
      BY <2>2, <2>6 DEF Shifted, Retimed
    <3>2. \A c : On(c, v) <=> On(c, s)
      BY <2>5 DEF Shifted
    <3>3. \A c, d : c \notin M2 /\ d \notin M2 => (Precedes(v, c, d) <=> Precedes(s, c, d))
      BY <2>5 DEF Shifted, SameOrder
    <3> QED BY <3>1, <3>2, <3>3 DEF Shifted
  <2> QED BY <1>2, <2>5, <2>7, <2>8 DEF g2
<1> QED BY <1>1, <1>2

\* The end of the omit period starts the statistics and the reports anew.
LEMMA FireOmit ==
  ASSUME NEW h, NEW p, NEW s, NEW f, Lists(h, s, f), Named(h, p, s), NEW t \in Cells, On(t, s),
         NEW now \in Nat, h.cell[t].time <= now, NEW F, WalkOK(h, s, t, now, F),
         h.cell[t].proc = "omit"
  PROVE  LET h2 == ResetAt(ResetAt(h, p["stats"], now), p["reporter"], now)
         IN FiredOK(h, TmrCancel(h2, t), s, t, "omit", [p EXCEPT !["omit"] = NoCell], now, F)
            /\ h2.cell[t].periodic = h.cell[t].periodic
<1> DEFINE a == p["stats"]
           b == p["reporter"]
           h1 == ResetAt(h, a, now)
           h2 == ResetAt(h1, b, now)
           g == TmrCancel(h2, t)
           n == h.cell[t].next
           q == [p EXCEPT !["omit"] = NoCell]
           M1 == IF a = NoCell THEN {} ELSE {} \cup {a}
           M2 == IF b = NoCell THEN M1 ELSE M1 \cup {b}
<1>1. /\ a # NoCell => On(a, s) /\ h.cell[a].proc = "stats"
      /\ b # NoCell => On(b, s) /\ h.cell[b].proc = "reporter"
  BY KindNames DEF Named
<1> HIDE DEF a, b
<1>2. Shifted(h, h, s, s, {}, now)
  BY DEF Shifted
<1>3. PICK s1, f1 : Lists(h1, s1, f1) /\ Named(h1, p, s1) /\ Shifted(h, h1, s, s1, M1, now)
  BY <1>1, <1>2, ResetShifts
<1> HIDE DEF h1
<1>4. b # NoCell => On(b, s1)
  BY <1>1, <1>3 DEF Shifted
<1> HIDE DEF M1
<1>5. PICK s2, f2 : Lists(h2, s2, f2) /\ Named(h2, p, s2) /\ Shifted(h, h2, s, s2, M2, now)
  BY <1>3, <1>4, ResetShifts
<1> HIDE DEF h2
<1>6. t \notin M2 /\ \A c \in M2 : On(c, s) /\ c \in Cells
  BY <1>1, CellFacts DEF M1, M2
<1> HIDE DEF M2
<1>7. On(t, s2)
  BY <1>5 DEF Shifted
<1>8. Cancelled(h2, g, s2, t)
  BY <1>5, <1>7, CancelLists
<1> HIDE DEF g
<1>9. PICK u, e : /\ Lists(g, u, e) /\ SameOrder(s2, u, t)
                  /\ \A c : On(c, u) <=> On(c, s2) /\ c # t
  BY <1>8 DEF Cancelled
<1>10. SameButFor(h2, g, t) /\ g.cell[t].proc = "none"
  BY <1>8 DEF Cancelled
<1>11. h2.cell[t].proc = "omit" /\ h2.cell[t].periodic = h.cell[t].periodic
  BY <1>5 DEF Shifted
<1>12. Named(g, q, u)
  BY <1>5, <1>7, <1>9, <1>10, <1>11, KindNames, NamedCancel DEF q
<1>13. /\ n \in CellLinks /\ n # t
       /\ n # NoCell => On(n, s) /\ n \in Cells /\ h.cell[t].time <= h.cell[n].time
       /\ n # NoCell => \A c : Precedes(s, c, n) => c = t \/ Precedes(s, c, t)
  BY NextIs
<1> HIDE DEF n, q
<1>14. \A c \in Cells \ {t} :
         /\ g.cell[c].proc = h.cell[c].proc
         /\ c \notin M2 => g.cell[c].time = h.cell[c].time
         /\ c \in M2 => g.cell[c].time > now
  BY <1>5, <1>10 DEF Shifted, SameButFor
<1>15. \A c \in Cells : Precedes(s, c, t) => h.cell[c].proc \in F
  BY CellNumbers DEF WalkOK
<1>16. WalkOK(g, u, n, now, F \cup {"omit"})
  <2>1. n # NoCell => On(n, u)
    BY <1>5, <1>9, <1>13 DEF Shifted
  <2>2. ASSUME n # NoCell, g.cell[n].time <= now, NEW c \in Cells, Precedes(u, c, n)
        PROVE  g.cell[c].proc \in F
    <3>1. On(c, u) /\ c # t /\ n # t
      BY <2>2, <1>9, <1>13, PrecedesIn
    <3>2. g.cell[c].time <= g.cell[n].time
      BY <2>2, <1>9, SortedPrecedes
    <3>3. g.cell[c].time \in Nat /\ g.cell[n].time \in Nat
      BY <2>2, <1>9, <1>13, CellFacts
    <3>4. c \notin M2 /\ n \notin M2
      BY <2>2, <3>1, <3>2, <3>3, <1>13, <1>14
    <3>5. Precedes(s, c, n)
      BY <2>2, <3>1, <3>4, <1>5, <1>9 DEF Shifted, SameOrder
    <3> QED BY <2>2, <3>1, <3>5, <1>13, <1>14, <1>15
  <2> QED BY <2>1, <2>2 DEF WalkOK
<1>17. Effects(h, g, s, t, "omit", now)
  BY <1>6, <1>10, <1>14 DEF Effects
<1>18. FiredOK(h, g, s, t, "omit", q, now, F)
  BY <1>9, <1>12, <1>16, <1>17 DEF FiredOK, n
<1> QED BY <1>11, <1>18 DEF g, q, h1, h2, a, b

----------------------------------------------------------------------------
(***************************************************************************)
(* The invariant.  Between two tests no timer is set, while a test starts  *)
(* those still to be made are not; the lists are in order in every state,  *)
(* and during a pass WalkOK holds.                                         *)
(***************************************************************************)
TestFields == {"role", "duration", "omit", "stats", "reporter", "capped", "done", "omitting"}
LoopPlaces == {"idle", "timer", "stats", "reporter", "omit", "top", "select", "walk", "cancel"}

TimerTypes ==
  /\ clock \in Nat /\ tests \in Nat /\ fired \subseteq TimerKinds
  /\ DOMAIN tst = TestFields
  /\ tst.duration \in Nat /\ tst.omit \in Nat /\ tst.stats \in Nat /\ tst.reporter \in Nat
  /\ DOMAIN loop = {"at", "until"} /\ loop.at \in LoopPlaces
  /\ walk \in [t : CellLinks, now : Nat]

\* A timer that is still to be made is not set; nothing has fired between two passes.
TimerPlaces ==
  /\ loop.at \in {"idle", "timer"} => ptr["timer"] = NoCell
  /\ loop.at \in {"idle", "timer", "stats"} => ptr["stats"] = NoCell
  /\ loop.at \in {"idle", "timer", "stats", "reporter"} => ptr["reporter"] = NoCell
  /\ loop.at \in {"idle", "timer", "stats", "reporter", "omit"} => ptr["omit"] = NoCell
  /\ loop.at # "walk" => fired = {} /\ walk.now = 0

TimerLists ==
  \E s, f : /\ Lists(heap, s, f) /\ Named(heap, ptr, s)
            /\ loop.at = "walk" => WalkOK(heap, s, walk.t, walk.now, fired)

TimerInv == TimerTypes /\ TimerPlaces /\ TimerLists

\* Before the first test both lists are empty.
LEMMA NoneLists ==
  LET h == [timers |-> NoCell, free |-> NoCell, made |-> 0,
            cell |-> [c \in Cells |-> FreeCell(NoCell)]]
  IN Lists(h, <<>>, <<>>) /\ Named(h, [k \in TimerKinds |-> NoCell], <<>>)
<1> DEFINE h == [timers |-> NoCell, free |-> NoCell, made |-> 0,
                 cell |-> [c \in Cells |-> FreeCell(NoCell)]]
<1>1. FreeCell(NoCell) \in CellType /\ FreeCell(NoCell).proc = "none"
  BY CellNumbers DEF FreeCell, CellType
<1>2. h \in HeapType
  BY <1>1, CellNumbers DEF HeapType
<1>3. h.timers = NoCell /\ h.free = NoCell /\ h.made = 0 /\ \A c \in Cells : h.cell[c].proc = "none"
  BY <1>1
<1> HIDE DEF h
<1>4. <<>> \in Seq(Cells) /\ Len(<<>>) = 0 /\ 1 .. 0 = {}
  OBVIOUS
<1>5. Distinct(<<>>) /\ Nth(<<>>, 1) = NoCell /\ Sorted(h, <<>>) /\ \A c : ~On(c, <<>>)
  BY DEF Distinct, Nth, Sorted, On
<1>6. IsActive(h, <<>>) /\ IsFree(h, <<>>)
  BY <1>3, <1>4, <1>5 DEF IsActive, IsFree
<1>7. Lists(h, <<>>, <<>>)
  BY <1>2, <1>3, <1>4, <1>5, <1>6 DEF Lists
<1>8. Named(h, [k \in TimerKinds |-> NoCell], <<>>)
  BY <1>3, <1>5, CellNumbers DEF Named
<1> QED BY <1>7, <1>8 DEF h

\* The invariant holds at the start.
LEMMA InitTimerInv == TimerInit => TimerInv
<1> SUFFICES ASSUME TimerInit PROVE TimerInv
  OBVIOUS
<1>1. TimerTypes
  BY CellNumbers DEF TimerInit, TimerTypes, NoTest, TestFields, LoopPlaces
<1>2. TimerPlaces
  BY KindNames DEF TimerInit, TimerPlaces
<1>3. TimerLists
  <2>1. loop.at = "idle"
    BY DEF TimerInit
  <2>2. Lists(heap, <<>>, <<>>) /\ Named(heap, ptr, <<>>)
    BY NoneLists DEF TimerInit
  <2> QED BY <2>1, <2>2 DEF TimerLists
<1> QED BY <1>1, <1>2, <1>3 DEF TimerInv

\* TLists for a step that leaves the list and the pass alone.
LEMMA KeepTimerLists ==
  ASSUME TimerLists, UNCHANGED <<heap, ptr, walk, fired>>, loop'.at = "walk" => loop.at = "walk"
  PROVE  TimerLists'
<1>1. PICK s, f : /\ Lists(heap, s, f) /\ Named(heap, ptr, s)
                  /\ loop.at = "walk" => WalkOK(heap, s, walk.t, walk.now, fired)
  BY DEF TimerLists
<1>2. /\ Lists(heap', s, f) /\ Named(heap', ptr', s)
      /\ (loop.at = "walk" => WalkOK(heap', s, (walk.t)', (walk.now)', fired'))
  BY <1>1
<1> QED BY <1>2 DEF TimerLists

\* A test begins: its pointers are NULL already.
LEMMA BeginKeeps == ASSUME TimerAssumption, TimerInv, BeginTest PROVE TimerInv'
<1>0. TimerTypes /\ TimerPlaces /\ TimerLists
  BY DEF TimerInv
<1>1. PICK s \in Settings :
        tst' = [k \in DOMAIN NoTest |-> IF k \in {"done", "omitting"} THEN FALSE ELSE s[k]]
  BY DEF BeginTest
<1>2. DOMAIN NoTest = TestFields
  BY DEF NoTest, TestFields
<1>3. /\ DOMAIN tst' = TestFields /\ tst'["duration"] = s["duration"]
      /\ tst'["omit"] = s["omit"] /\ tst'["stats"] = s["stats"]
      /\ tst'["reporter"] = s["reporter"]
  BY <1>1, <1>2 DEF TestFields
<1>4. s.duration \in Nat /\ s.omit \in Nat /\ s.stats \in Nat /\ s.reporter \in Nat
  BY DEF TimerAssumption
<1>5. DOMAIN loop' = {"at", "until"} /\ loop'.at = "timer" /\ loop.at = "idle"
  BY <1>0 DEF TimerTypes, BeginTest
<1>6. ptr \in [TimerKinds -> CellLinks]
  BY <1>0 DEF TimerLists, Named
<1>7. ptr' = ptr
  <2>1. \A k \in TimerKinds : ptr[k] = NoCell
    BY <1>0, <1>5, KindNames DEF TimerPlaces
  <2>2. ptr = [k \in TimerKinds |-> NoCell]
    BY <1>6, <2>1
  <2> QED BY <2>2 DEF BeginTest
<1>8. UNCHANGED <<heap, walk, fired, clock>>
  BY DEF BeginTest
<1>9. TimerTypes'
  <2>1. tests' \in Nat
    BY <1>0 DEF TimerTypes, BeginTest
  <2>2. loop'.at \in LoopPlaces
    BY <1>5 DEF LoopPlaces
  <2> QED BY <2>1, <2>2, <1>0, <1>3, <1>4, <1>5, <1>8 DEF TimerTypes
<1>10. TimerPlaces'
  BY <1>0, <1>5, <1>7, <1>8 DEF TimerPlaces
<1>11. TimerLists'
  BY <1>0, <1>5, <1>7, <1>8, KeepTimerLists
<1> QED BY <1>9, <1>10, <1>11 DEF TimerInv

\* The order in which timers are made.
LEMMA AfterKinds ==
  /\ After("timer") = "stats" /\ After("stats") = "reporter"
  /\ After("reporter") = "omit" /\ After("omit") = "top"
<1> DEFINE I(k) == CHOOSE i \in 1 .. 4 : CreationOrder[i] = k
<1>1. /\ CreationOrder[1] = "timer" /\ CreationOrder[2] = "stats" /\ CreationOrder[3] = "reporter"
      /\ CreationOrder[4] = "omit" /\ CreationOrder[5] = "top"
  BY DEF CreationOrder
<1>2. \A i \in 1 .. 4 : i = 1 \/ i = 2 \/ i = 3 \/ i = 4
  OBVIOUS
<1>3. I("timer") = 1
  BY <1>1, <1>2
<1>4. I("stats") = 2
  BY <1>1, <1>2
<1>5. I("reporter") = 3
  BY <1>1, <1>2
<1>6. I("omit") = 4
  BY <1>1, <1>2
<1>7. \A k : After(k) = CreationOrder[1 + I(k)]
  BY DEF After
<1> HIDE DEF I
<1>8. 1 + 1 = 2 /\ 1 + 2 = 3 /\ 1 + 3 = 4 /\ 1 + 4 = 5
  OBVIOUS
<1> QED BY <1>1, <1>3, <1>4, <1>5, <1>6, <1>7, <1>8

\* There is a cell for a timer that is not set.
LEMMA RoomForTimer ==
  ASSUME NEW h, NEW p, NEW s, NEW f, Lists(h, s, f), Named(h, p, s),
         NEW k \in TimerKinds, p[k] = NoCell
  PROVE  h.free # NoCell \/ h.made < 4
<1> SUFFICES ASSUME h.free = NoCell, h.made = 4 PROVE FALSE
  <2>1. h.made \in 0 .. 4
    BY ListsFacts
  <2> QED BY <2>1
<1>1. f \in Seq(Cells) /\ h.free = Nth(f, 1)
  BY ListsFacts DEF Lists, IsFree
<1>2. \A c : ~On(c, f)
  <2>1. Len(f) \in Nat /\ 1 \notin 1 .. Len(f)
    BY <1>1, NthIs, CellNumbers
  <2> QED BY <2>1 DEF On
<1>3. On(1, s) /\ On(2, s) /\ On(3, s) /\ On(4, s)
  BY <1>2 DEF Lists
<1> DEFINE P(c) == h.cell[c].proc
<1>4. \A c \in {1, 2, 3, 4} : P(c) \in TimerKinds /\ P(c) # k /\ p[P(c)] = c
  BY <1>3, CellNumbers DEF Named
<1> HIDE DEF P
<1>5. p[P(1)] = 1 /\ p[P(2)] = 2 /\ p[P(3)] = 3 /\ p[P(4)] = 4
      /\ P(1) \in TimerKinds \ {k} /\ P(2) \in TimerKinds \ {k}
      /\ P(3) \in TimerKinds \ {k} /\ P(4) \in TimerKinds \ {k}
  BY <1>4
<1>6. P(1) # P(2) /\ P(1) # P(3) /\ P(1) # P(4) /\ P(2) # P(3) /\ P(2) # P(4) /\ P(3) # P(4)
  BY <1>5
<1> QED BY <1>5, <1>6 DEF TimerKinds

\* What making a timer does.
LEMMA CreateEffects ==
  ASSUME TimerAssumption, TimerInv, NEW k \in TimerKinds, CreateTimer(k), Interval(k) # 0
  PROVE  /\ Interval(k) \in Nat /\ Interval(k) > 0 /\ ptr[k] = NoCell
         /\ \E s, b : /\ Named(heap, ptr, s) /\ Created(heap, heap', s, ptr'[k], b)
                      /\ b.proc = k /\ b.time = clock + Interval(k)
         /\ ptr' = [ptr EXCEPT ![k] = TmrCell(heap)]
         /\ \E u, f : Lists(heap', u, f) /\ Named(heap', ptr', u)
<1>0. TimerTypes /\ TimerPlaces /\ TimerLists /\ loop.at = k
  BY DEF TimerInv, CreateTimer
<1>1. ptr[k] = NoCell
  BY <1>0, KindNames DEF TimerPlaces
<1>2. Interval(k) \in Nat /\ Interval(k) > 0
  <2>1. tst.duration \in Nat /\ tst.omit \in Nat /\ tst.stats \in Nat /\ tst.reporter \in Nat /\ Grace \in Nat
    BY <1>0 DEF TimerTypes, TimerAssumption
  <2>2. Interval("timer") \in Nat
    BY <2>1 DEF Interval
  <2>3. Interval("stats") \in Nat /\ Interval("reporter") \in Nat /\ Interval("omit") \in Nat
    BY <2>1 DEF Interval
  <2>4. Interval(k) \in Nat
    BY <2>2, <2>3, KindNames
  <2> QED BY <2>4
<1>3. /\ heap' = TmrCreate(heap, clock, k, Interval(k), k \in {"stats", "reporter"})
      /\ ptr' = [ptr EXCEPT ![k] = TmrCell(heap)]
  BY DEF CreateTimer
<1>4. PICK s, f : Lists(heap, s, f) /\ Named(heap, ptr, s)
  BY <1>0 DEF TimerLists
<1> DEFINE usecs == Interval(k)
           periodic == k \in {"stats", "reporter"}
           b == [proc |-> k, usecs |-> usecs, periodic |-> periodic, time |-> clock + usecs,
                 prev |-> NoCell, next |-> NoCell]
           t == TmrCell(heap)
<1>5. clock \in Nat /\ usecs \in Nat /\ periodic \in BOOLEAN
  BY <1>0, <1>2 DEF TimerTypes
<1>6. heap.free # NoCell \/ heap.made < 4
  BY <1>1, <1>4, RoomForTimer
<1>7. heap' = TmrCreate(heap, clock, k, usecs, periodic)
  BY <1>3
<1> HIDE DEF usecs, periodic
<1>8. Created(heap, heap', s, t, b)
  BY <1>4, <1>5, <1>6, <1>7, CreateLists
<1>9. b.proc = k /\ b.usecs > 0 /\ (b.periodic <=> k \in {"stats", "reporter"})
      /\ b.time = clock + Interval(k)
  BY <1>2 DEF usecs, periodic
<1> HIDE DEF b, t
<1>10. PICK u, e : Lists(heap', u, e) /\ \A c : On(c, u) <=> On(c, s) \/ c = t
  BY <1>8 DEF Created
<1>11. Named(heap', [ptr EXCEPT ![k] = t], u)
  BY <1>1, <1>4, <1>8, <1>9, <1>10, NamedCreate
<1>12. ptr' = [ptr EXCEPT ![k] = t]
  BY <1>3 DEF t
<1>13. ptr'[k] = t
  BY <1>4, <1>12 DEF Named
<1>14. Named(heap, ptr, s) /\ Created(heap, heap', s, ptr'[k], b)
  BY <1>4, <1>8, <1>13
<1>15. Lists(heap', u, e) /\ Named(heap', ptr', u)
  BY <1>10, <1>11, <1>12
<1> QED BY <1>1, <1>2, <1>3, <1>9, <1>14, <1>15, Zenon

\* Making a timer keeps the invariant.
LEMMA CreateKeeps == ASSUME TimerAssumption, TimerInv, NEW k \in TimerKinds, CreateTimer(k) PROVE TimerInv'
<1>0. TimerTypes /\ TimerPlaces /\ TimerLists /\ loop.at = k /\ UNCHANGED <<clock, walk, fired, tests>>
      /\ loop' = [loop EXCEPT !.at = After(k)]
  BY DEF TimerInv, CreateTimer
<1>1. ptr \in [TimerKinds -> CellLinks]
  BY <1>0 DEF TimerLists, Named
<1>2. DOMAIN loop' = {"at", "until"} /\ loop'.at = After(k)
  BY <1>0 DEF TimerTypes
<1>3. loop'.at \in LoopPlaces \ {"walk", "idle", "timer"} /\ loop.at # "walk"
  BY <1>0, <1>2, AfterKinds, KindNames DEF LoopPlaces
<1>4. TimerTypes'
  <2>1. DOMAIN tst' = TestFields /\ tst'.duration \in Nat /\ tst'.omit \in Nat
        /\ tst'.stats \in Nat /\ tst'.reporter \in Nat
    <3>1. tst' = tst \/ \E x : tst' = [tst EXCEPT !.omitting = x]
      BY DEF CreateTimer
    <3> QED BY <3>1, <1>0 DEF TimerTypes, TestFields
  <2> QED BY <2>1, <1>0, <1>2, <1>3 DEF TimerTypes
<1>5. \A j \in TimerKinds \ {k} : ptr'[j] = ptr[j]
  BY <1>1 DEF CreateTimer
<1>6. TimerPlaces'
  <2>1. k \in {"timer", "stats", "reporter", "omit"}
    BY KindNames
  <2>2. \A j \in TimerKinds \ {k} : ptr[j] = NoCell => ptr'[j] = NoCell
    BY <1>5
  <2>3. loop.at = "timer" => loop'.at = "stats"
    BY <1>0, <1>2, AfterKinds
  <2>4. loop.at = "stats" => loop'.at = "reporter"
    BY <1>0, <1>2, AfterKinds
  <2>5. loop.at = "reporter" => loop'.at = "omit"
    BY <1>0, <1>2, AfterKinds
  <2>6. loop.at = "omit" => loop'.at = "top"
    BY <1>0, <1>2, AfterKinds
  <2> QED BY <2>1, <2>2, <2>3, <2>4, <2>5, <2>6, <1>0, <1>3, KindNames DEF TimerPlaces
<1>7. TimerLists'
  <2>1. CASE Interval(k) = 0
    <3>1. UNCHANGED <<heap, ptr>>
      BY <2>1 DEF CreateTimer
    <3> QED BY <3>1, <1>0, <1>3, KeepTimerLists
  <2>2. CASE Interval(k) # 0
    <3>1. PICK u, f : Lists(heap', u, f) /\ Named(heap', ptr', u)
      BY <2>2, CreateEffects
    <3> QED BY <3>1, <1>3 DEF TimerLists
  <2> QED BY <2>1, <2>2
<1> QED BY <1>4, <1>6, <1>7 DEF TimerInv

\* Steps that leave the list alone and end at no place of the pass.
LEMMA QuietKeeps ==
  ASSUME TimerInv, UNCHANGED <<heap, ptr, walk, fired, tests, tst>>, clock' \in Nat,
         DOMAIN loop' = {"at", "until"}, loop'.at \in LoopPlaces,
         loop' = loop \/ (loop.at # "walk" /\ loop'.at \in {"top", "select", "cancel"})
  PROVE  TimerInv'
<1>0. TimerTypes /\ TimerPlaces /\ TimerLists
  BY DEF TimerInv
<1>1. TimerTypes'
  BY <1>0 DEF TimerTypes
<1>2. TimerPlaces'
  BY <1>0 DEF TimerPlaces
<1>3. TimerLists'
  BY <1>0, KeepTimerLists
<1> QED BY <1>1, <1>2, <1>3 DEF TimerInv

\* Steps that only move the loop or the clock.
LEMMA QuietStepsKeep ==
  ASSUME TimerInv, NEW k \in TimerKinds, CreateFails(k) \/ AwaitTimer \/ TestOver \/ Tick
  PROVE  TimerInv'
<1>0. TimerTypes
  BY DEF TimerInv
<1>1. CASE CreateFails(k) \/ TestOver
  <2>1. loop' = [loop EXCEPT !.at = "cancel"] /\ loop.at # "walk"
    BY <1>1, KindNames DEF CreateFails, TestOver
  <2>2. DOMAIN loop' = {"at", "until"} /\ loop'.at = "cancel"
    BY <2>1, <1>0 DEF TimerTypes
  <2>3. UNCHANGED <<heap, ptr, walk, fired, tests, tst, clock>>
    BY <1>1 DEF CreateFails, TestOver
  <2> QED BY <2>1, <2>2, <2>3, <1>0, QuietKeeps DEF TimerTypes, LoopPlaces
<1>2. CASE AwaitTimer
  <2>1. DOMAIN loop' = {"at", "until"} /\ loop'.at = "select" /\ loop.at # "walk"
    BY <1>2 DEF AwaitTimer
  <2>2. UNCHANGED <<heap, ptr, walk, fired, tests, tst, clock>>
    BY <1>2 DEF AwaitTimer
  <2> QED BY <2>1, <2>2, <1>0, QuietKeeps DEF TimerTypes, LoopPlaces
<1>3. CASE Tick
  <2>1. UNCHANGED <<heap, ptr, loop, walk, tst, fired, tests>> /\ (clock' = clock + 1 \/ clock' = 0)
    BY <1>3 DEF Tick
  <2>2. clock' \in Nat
    BY <2>1, <1>0 DEF TimerTypes
  <2> QED BY <2>1, <2>2, <1>0, QuietKeeps DEF TimerTypes
<1> QED BY <1>1, <1>2, <1>3

\* A pass begins at the first timer.
LEMMA SelectKeeps == ASSUME TimerInv, NEW message, SelectReturns(message) PROVE TimerInv'
<1>0. TimerTypes /\ TimerPlaces /\ TimerLists /\ loop.at = "select"
      /\ UNCHANGED <<heap, ptr, clock, tst, fired, tests>>
  BY DEF TimerInv, SelectReturns
<1>1. fired = {}
  BY <1>0 DEF TimerPlaces
<1>2. CASE RunsTimers(message)
  <2>1. walk' = [t |-> heap.timers, now |-> clock] /\ loop' = [at |-> "walk", until |-> NoTime]
    BY <1>2 DEF SelectReturns
  <2>2. DOMAIN loop' = {"at", "until"} /\ loop'.at = "walk"
    BY <2>1
  <2>3. PICK s, f : Lists(heap, s, f) /\ Named(heap, ptr, s)
    BY <1>0 DEF TimerLists
  <2>4. heap.timers \in CellLinks /\ heap.timers = Nth(s, 1) /\ s \in Seq(Cells)
    BY <2>3 DEF Lists, IsActive, HeapType
  <2>5. TimerTypes'
    BY <1>0, <2>1, <2>2, <2>4 DEF TimerTypes, LoopPlaces
  <2>6. TimerPlaces'
    BY <1>0, <2>2 DEF TimerPlaces
  <2>7. WalkOK(heap, s, heap.timers, clock, {})
    <3>1. heap.timers # NoCell => 1 \in 1 .. Len(s) /\ heap.timers = s[1]
      BY <2>4, NthIs
    <3>2. heap.timers # NoCell => On(heap.timers, s)
      BY <3>1 DEF On
    <3>3. heap.timers # NoCell => \A c : ~Precedes(s, c, heap.timers)
      <4> SUFFICES ASSUME heap.timers # NoCell, NEW c, Precedes(s, c, heap.timers) PROVE FALSE
        OBVIOUS
      <4>1. PICK i, j \in 1 .. Len(s) : i < j /\ s[i] = c /\ s[j] = heap.timers
        BY DEF Precedes
      <4>2. j = 1
        BY <4>1, <3>1, <2>3 DEF Lists, IsActive, Distinct
      <4> QED BY <4>1, <4>2
    <3>4. heap.timers = NoCell => \A c : ~On(c, s)
      <4> HAVE heap.timers = NoCell
      <4>1. 1 \notin 1 .. Len(s) /\ Len(s) \in Nat
        BY <2>4, NthIs, CellNumbers
      <4> QED BY <4>1 DEF On
    <3> QED BY <3>2, <3>3, <3>4 DEF WalkOK
  <2>8. (walk.t)' = heap.timers /\ (walk.now)' = clock
    BY <2>1
  <2>9. TimerLists'
    BY <1>0, <1>1, <2>2, <2>3, <2>7, <2>8 DEF TimerLists
  <2> QED BY <2>5, <2>6, <2>9 DEF TimerInv
<1>3. CASE ~RunsTimers(message)
  <2>1. walk' = walk /\ loop' = [at |-> "top", until |-> NoTime]
    BY <1>3 DEF SelectReturns
  <2>2. DOMAIN loop' = {"at", "until"} /\ loop'.at = "top"
    BY <2>1
  <2> QED BY <1>0, <2>1, <2>2, QuietKeeps DEF TimerTypes, LoopPlaces
<1> QED BY <1>2, <1>3

\* A pass ends.
LEMMA EndsKeep == ASSUME TimerInv, WalkEnds PROVE TimerInv'
<1>0. TimerTypes /\ TimerPlaces /\ TimerLists /\ loop.at = "walk"
      /\ UNCHANGED <<heap, ptr, clock, tst, tests>>
      /\ walk' = [t |-> NoCell, now |-> 0] /\ fired' = {}
  BY DEF TimerInv, WalkEnds
<1>1. DOMAIN loop' = {"at", "until"} /\ loop'.at \in {"cancel", "top"}
  BY <1>0 DEF TimerTypes, WalkEnds
<1>2. TimerTypes'
  BY <1>0, <1>1, CellNumbers DEF TimerTypes, LoopPlaces
<1>3. TimerPlaces'
  BY <1>0, <1>1 DEF TimerPlaces
<1>4. TimerLists'
  BY <1>0, <1>1 DEF TimerLists
<1> QED BY <1>2, <1>3, <1>4 DEF TimerInv

\* The timer that fires, and what it does.
LEMMA FireEffects ==
  ASSUME TimerInv, FireTimer
  PROVE  \E s, f, k : /\ Lists(heap, s, f) /\ Named(heap, ptr, s) /\ On(walk.t, s) /\ walk.t \in Cells
                      /\ WalkOK(heap, s, walk.t, walk.now, fired)
                      /\ heap.cell[walk.t].time <= walk.now
                      /\ k \in TimerKinds /\ k = heap.cell[walk.t].proc
                      /\ fired' = fired \cup {k}
                      /\ FiredOK(heap, heap', s, walk.t, k, ptr', walk.now, fired)
                      /\ \A j \in TimerKinds \ {k} : ptr'[j] = ptr[j]
                      /\ ptr'[k] = ptr[k] \/ ptr'[k] = NoCell
<1> DEFINE t == walk.t
           k == heap.cell[t].proc
           h == ProcHeap(k)
<1>0. TimerTypes /\ TimerPlaces /\ TimerLists /\ loop.at = "walk" /\ t # NoCell
      /\ heap.cell[t].time <= walk.now /\ walk.now \in Nat
  BY DEF TimerInv, FireTimer, TimerTypes
<1>1. PICK s, f : Lists(heap, s, f) /\ Named(heap, ptr, s) /\ WalkOK(heap, s, t, walk.now, fired)
  BY <1>0 DEF TimerLists
<1>2. On(t, s) /\ t \in Cells
  BY <1>0, <1>1, CellFacts DEF WalkOK
<1>3. k \in TimerKinds /\ (heap.cell[t].periodic <=> k \in {"stats", "reporter"})
      /\ ptr \in [TimerKinds -> CellLinks]
  BY <1>1, <1>2 DEF Named
<1>4. /\ TimerProc(k) /\ fired' = fired \cup {k}
      /\ heap' = IF h.cell[t].periodic THEN Reschedule(h, t) ELSE TmrCancel(h, t)
  BY DEF FireTimer
<1> HIDE DEF t, k
<1>5. FiredOK(heap, heap', s, t, k, ptr', walk.now, fired)
      /\ (\A j \in TimerKinds \ {k} : ptr'[j] = ptr[j])
      /\ (ptr'[k] = ptr[k] \/ ptr'[k] = NoCell)
  <2>1. CASE k = "timer"
    <3>1. h = heap /\ ptr' = [ptr EXCEPT !["timer"] = NoCell]
      BY <2>1, <1>4 DEF ProcHeap, TimerProc
    <3>2. heap' = TmrCancel(heap, t)
      BY <3>1, <2>1, <1>3, <1>4
    <3>3. FiredOK(heap, TmrCancel(heap, t), s, t, "timer", [ptr EXCEPT !["timer"] = NoCell], walk.now, fired)
      BY <2>1, <1>0, <1>1, <1>2, FireOnce DEF k
    <3> QED BY <3>1, <3>2, <3>3, <2>1, <1>3
  <2>2. CASE k \in {"stats", "reporter"}
    <3>1. h = heap /\ ptr' = ptr
      BY <2>2, <1>4 DEF ProcHeap, TimerProc
    <3>2. heap' = Reschedule(heap, t)
      BY <3>1, <2>2, <1>3, <1>4
    <3>3. FiredOK(heap, Reschedule(heap, t), s, t, k, ptr, walk.now, fired)
      BY <2>2, <1>0, <1>1, <1>2, FirePeriodic DEF k
    <3> QED BY <3>1, <3>2, <3>3
  <2>3. CASE k = "omit"
    <3>1. ptr' = [ptr EXCEPT !["omit"] = NoCell]
      BY <2>3, <1>4 DEF TimerProc
    <3> DEFINE h2 == ResetAt(ResetAt(heap, ptr["stats"], walk.now), ptr["reporter"], walk.now)
    <3>2. h = h2
      BY <2>3, Zenon DEF ProcHeap, ResetIf, ResetAt
    <3>3. FiredOK(heap, TmrCancel(h2, t), s, t, "omit", [ptr EXCEPT !["omit"] = NoCell], walk.now, fired)
          /\ h2.cell[t].periodic = heap.cell[t].periodic
      BY <2>3, <1>0, <1>1, <1>2, FireOmit DEF k
    <3> HIDE DEF h2
    <3>4. heap' = TmrCancel(h2, t)
      BY <3>2, <3>3, <2>3, <1>3, <1>4
    <3> QED BY <3>1, <3>3, <3>4, <2>3, <1>3
  <2> QED BY <2>1, <2>2, <2>3, <1>3, KindNames
<1> QED BY <1>0, <1>1, <1>2, <1>3, <1>4, <1>5, Zenon DEF t, k

\* Firing a timer keeps the invariant.
LEMMA FireKeeps == ASSUME TimerInv, FireTimer PROVE TimerInv'
<1>0. TimerTypes /\ TimerPlaces /\ loop.at = "walk" /\ UNCHANGED <<clock, loop, tests>>
  BY DEF TimerInv, FireTimer
<1>1. PICK s, f, k : /\ Lists(heap, s, f) /\ On(walk.t, s) /\ walk.t \in Cells
                     /\ k \in TimerKinds /\ k = heap.cell[walk.t].proc
                     /\ fired' = fired \cup {k}
                     /\ FiredOK(heap, heap', s, walk.t, k, ptr', walk.now, fired)
  BY FireEffects
<1> DEFINE n == heap.cell[walk.t].next
<1>2. walk' = [walk EXCEPT !.t = n]
  BY DEF FireTimer
<1>3. n \in CellLinks
  BY <1>1, CellFacts
<1> HIDE DEF n
<1>4. walk' \in [t : CellLinks, now : Nat] /\ (walk.t)' = n /\ (walk.now)' = walk.now
  BY <1>0, <1>2, <1>3 DEF TimerTypes
<1>5. DOMAIN tst' = TestFields /\ tst'.duration \in Nat /\ tst'.omit \in Nat
      /\ tst'.stats \in Nat /\ tst'.reporter \in Nat
  <2>1. TimerProc(k)
    BY <1>1, Zenon DEF FireTimer
  <2>2. tst' = tst \/ tst' = [tst EXCEPT !.done = TRUE] \/ tst' = [tst EXCEPT !.omitting = FALSE]
    BY <2>1, <1>1, KindNames DEF TimerProc
  <2> QED BY <2>2, <1>0 DEF TimerTypes, TestFields
<1>6. TimerTypes'
  BY <1>0, <1>1, <1>4, <1>5 DEF TimerTypes
<1>7. TimerPlaces'
  BY <1>0 DEF TimerPlaces
<1>8. TimerLists'
  <2>1. PICK u, e : Lists(heap', u, e) /\ Named(heap', ptr', u)
                    /\ WalkOK(heap', u, n, walk.now, fired \cup {k})
    BY <1>1 DEF FiredOK, n
  <2> QED BY <2>1, <1>1, <1>4 DEF TimerLists
<1> QED BY <1>6, <1>7, <1>8 DEF TimerInv

GoodHeap(h, p) == \E s, f : Lists(h, s, f) /\ Named(h, p, s)

CancelAt(h, t) == IF t = NoCell THEN h ELSE TmrCancel(h, t)

\* One of the four timers is cancelled, if it is set.
LEMMA CancelOne ==
  ASSUME NEW h, NEW p, GoodHeap(h, p), NEW k \in TimerKinds
  PROVE  GoodHeap(CancelAt(h, p[k]), [p EXCEPT ![k] = NoCell])
<1> DEFINE q == [p EXCEPT ![k] = NoCell]
<1>1. PICK s, f : Lists(h, s, f) /\ Named(h, p, s)
  BY DEF GoodHeap
<1>2. p \in [TimerKinds -> CellLinks]
  BY <1>1 DEF Named
<1>3. CASE p[k] = NoCell
  <2>1. CancelAt(h, p[k]) = h /\ q = p
    BY <1>2, <1>3 DEF CancelAt
  <2> QED BY <2>1, <1>1 DEF GoodHeap
<1>4. CASE p[k] # NoCell
  <2> DEFINE t == p[k]
             g == TmrCancel(h, t)
  <2>1. CancelAt(h, p[k]) = g
    BY <1>4 DEF CancelAt
  <2>2. t \in Cells /\ On(t, s) /\ h.cell[t].proc = k
    BY <1>1, <1>4, CellFacts DEF Named
  <2> HIDE DEF t
  <2>3. Cancelled(h, g, s, t)
    BY <1>1, <2>2, CancelLists
  <2> HIDE DEF g
  <2>4. PICK u, e : Lists(g, u, e) /\ \A c : On(c, u) <=> On(c, s) /\ c # t
    BY <2>3 DEF Cancelled
  <2>5. SameButFor(h, g, t) /\ g.cell[t].proc = "none"
    BY <2>3 DEF Cancelled
  <2>6. Named(g, q, u)
    BY <1>1, <2>2, <2>4, <2>5, NamedCancel
  <2> QED BY <2>1, <2>4, <2>6 DEF GoodHeap
<1> QED BY <1>3, <1>4

\* The four timers are cancelled one after the other.
LEMMA CancelAll ==
  ASSUME TimerInv, CancelTimers
  PROVE  GoodHeap(heap', ptr') /\ ptr' = [k \in TimerKinds |-> NoCell]
<1> DEFINE o == CancelOrder
           h0 == heap
           h1 == CancelAt(h0, ptr[o[1]])
           h2 == CancelAt(h1, ptr[o[2]])
           h3 == CancelAt(h2, ptr[o[3]])
           h4 == CancelAt(h3, ptr[o[4]])
           Body(z) == [n \in 0 .. 4 |-> IF n = 0 THEN heap ELSE CancelAt(z[n - 1], ptr[o[n]])]
           chosen == CHOOSE z : z = Body(z)
           w == [n \in 0 .. 4 |-> IF n = 0 THEN h0 ELSE IF n = 1 THEN h1 ELSE IF n = 2 THEN h2
                                  ELSE IF n = 3 THEN h3 ELSE h4]
<1>1. heap' = chosen[4] /\ ptr' = [k \in TimerKinds |-> NoCell]
  BY Zenon DEF CancelTimers, CancelAt
<1>2. w = Body(w)
  <2> HIDE DEF h1, h2, h3, h4, o
  <2>1. w[0] = h0 /\ w[1] = h1 /\ w[2] = h2 /\ w[3] = h3 /\ w[4] = h4
    OBVIOUS
  <2>2. h1 = CancelAt(w[0], ptr[o[1]]) /\ h2 = CancelAt(w[1], ptr[o[2]])
        /\ h3 = CancelAt(w[2], ptr[o[3]]) /\ h4 = CancelAt(w[3], ptr[o[4]])
    BY <2>1 DEF h1, h2, h3, h4
  <2>3. ASSUME NEW n \in 0 .. 4
        PROVE  w[n] = IF n = 0 THEN heap ELSE CancelAt(w[n - 1], ptr[o[n]])
    <3>1. n = 0 \/ n = 1 \/ n = 2 \/ n = 3 \/ n = 4
      OBVIOUS
    <3> HIDE DEF w
    <3>2. 1 - 1 = 0 /\ 2 - 1 = 1 /\ 3 - 1 = 2 /\ 4 - 1 = 3
      OBVIOUS
    <3> QED BY <3>1, <3>2, <2>1, <2>2
  <2>4. w = [n \in 0 .. 4 |-> w[n]]
    OBVIOUS
  <2> HIDE DEF w
  <2> QED BY <2>3, <2>4
<1> HIDE DEF w
<1>3. chosen = Body(chosen)
  <2>1. \E z : z = Body(z)
    BY <1>2
  <2> HIDE DEF Body
  <2> QED BY <2>1
<1> HIDE DEF chosen
<1>4. chosen[4] = h4
  <2>1. \A n \in 0 .. 4 : chosen[n] = IF n = 0 THEN heap ELSE CancelAt(chosen[n - 1], ptr[o[n]])
    BY <1>3
  <2> HIDE DEF Body, o
  <2>2. chosen[0] = heap
    BY <2>1
  <2>3. chosen[1] = CancelAt(chosen[0], ptr[o[1]])
    <3>1. 1 \in 0 .. 4 /\ 1 # 0 /\ 1 - 1 = 0
      OBVIOUS
    <3> QED BY <2>1, <3>1
  <2>4. chosen[2] = CancelAt(chosen[1], ptr[o[2]])
    <3>1. 2 \in 0 .. 4 /\ 2 # 0 /\ 2 - 1 = 1
      OBVIOUS
    <3> QED BY <2>1, <3>1
  <2>5. chosen[3] = CancelAt(chosen[2], ptr[o[3]])
    <3>1. 3 \in 0 .. 4 /\ 3 # 0 /\ 3 - 1 = 2
      OBVIOUS
    <3> QED BY <2>1, <3>1
  <2>6. chosen[4] = CancelAt(chosen[3], ptr[o[4]])
    <3>1. 4 \in 0 .. 4 /\ 4 # 0 /\ 4 - 1 = 3
      OBVIOUS
    <3> QED BY <2>1, <3>1
  <2> QED BY <2>2, <2>3, <2>4, <2>5, <2>6, Zenon
<1>5. /\ o[1] \in TimerKinds /\ o[2] \in TimerKinds /\ o[3] \in TimerKinds /\ o[4] \in TimerKinds
      /\ o[1] # o[2] /\ o[1] # o[3] /\ o[1] # o[4] /\ o[2] # o[3] /\ o[2] # o[4] /\ o[3] # o[4]
      /\ \A k \in TimerKinds : k \in {o[1], o[2], o[3], o[4]}
  BY DEF CancelOrder, TimerKinds
<1> HIDE DEF o, h1, h2, h3, h4
<1> DEFINE p1 == [ptr EXCEPT ![o[1]] = NoCell]
           p2 == [p1 EXCEPT ![o[2]] = NoCell]
           p3 == [p2 EXCEPT ![o[3]] = NoCell]
           p4 == [p3 EXCEPT ![o[4]] = NoCell]
<1>6. GoodHeap(heap, ptr) /\ ptr \in [TimerKinds -> CellLinks]
  BY DEF TimerInv, TimerLists, GoodHeap, Named
<1>7. p1[o[2]] = ptr[o[2]] /\ p2[o[3]] = ptr[o[3]] /\ p3[o[4]] = ptr[o[4]]
  BY <1>5, <1>6
<1>8. p4 = [k \in TimerKinds |-> NoCell]
  <2>1. DOMAIN p4 = TimerKinds /\ p4 = [k \in TimerKinds |-> p4[k]]
    BY <1>6
  <2>2. p4[o[1]] = NoCell /\ p4[o[2]] = NoCell /\ p4[o[3]] = NoCell /\ p4[o[4]] = NoCell
    BY <1>5, <1>6
  <2> HIDE DEF p4
  <2>3. \A k \in TimerKinds : p4[k] = NoCell
    BY <2>2, <1>5
  <2> QED BY <2>1, <2>3
<1>9. GoodHeap(h1, p1)
  BY <1>5, <1>6, CancelOne DEF h1
<1>10. GoodHeap(h2, p2)
  <2> HIDE DEF p1
  <2>1. GoodHeap(CancelAt(h1, p1[o[2]]), p2)
    BY <1>5, <1>9, CancelOne
  <2> QED BY <2>1, <1>7 DEF h2
<1>11. GoodHeap(h3, p3)
  <2> HIDE DEF p2
  <2>1. GoodHeap(CancelAt(h2, p2[o[3]]), p3)
    BY <1>5, <1>10, CancelOne
  <2> QED BY <2>1, <1>7 DEF h3
<1>12. GoodHeap(h4, p4)
  <2> HIDE DEF p3
  <2>1. GoodHeap(CancelAt(h3, p3[o[4]]), p4)
    BY <1>5, <1>11, CancelOne
  <2> QED BY <2>1, <1>7 DEF h4
<1> QED BY <1>1, <1>4, <1>8, <1>12

\* The end of a test keeps the invariant.
LEMMA CancelKeeps == ASSUME TimerInv, CancelTimers PROVE TimerInv'
<1>0. TimerTypes /\ TimerPlaces /\ loop.at = "cancel" /\ UNCHANGED <<clock, walk, fired, tests>>
      /\ tst' = NoTest /\ loop' = [loop EXCEPT !.at = "idle"]
  BY DEF TimerInv, CancelTimers
<1>1. GoodHeap(heap', ptr') /\ \A k \in TimerKinds : ptr'[k] = NoCell
  BY CancelAll
<1>2. DOMAIN loop' = {"at", "until"} /\ loop'.at = "idle"
  BY <1>0 DEF TimerTypes
<1>3. TimerTypes'
  <2>1. DOMAIN tst' = TestFields /\ tst'.duration \in Nat /\ tst'.omit \in Nat
        /\ tst'.stats \in Nat /\ tst'.reporter \in Nat
    BY <1>0 DEF NoTest, TestFields
  <2> QED BY <2>1, <1>0, <1>2 DEF TimerTypes, LoopPlaces
<1>4. TimerPlaces'
  BY <1>0, <1>1, <1>2, KindNames DEF TimerPlaces
<1>5. TimerLists'
  BY <1>1, <1>2 DEF TimerLists, GoodHeap
<1> QED BY <1>3, <1>4, <1>5 DEF TimerInv

\* Every step keeps the invariant.
LEMMA StepKeeps == ASSUME TimerAssumption, TimerInv, [TimerNext]_timerVars PROVE TimerInv'
<1>1. CASE BeginTest
  BY <1>1, BeginKeeps
<1>2. CASE AwaitTimer \/ TestOver \/ Tick
  BY <1>2, KindNames, QuietStepsKeep
<1>3. CASE FireTimer
  BY <1>3, FireKeeps
<1>4. CASE WalkEnds
  BY <1>4, EndsKeep
<1>5. CASE CancelTimers
  BY <1>5, CancelKeeps
<1>6. ASSUME NEW message \in BOOLEAN, SelectReturns(message) PROVE TimerInv'
  BY <1>6, SelectKeeps
<1>7. ASSUME NEW k \in TimerKinds, CreateTimer(k) PROVE TimerInv'
  BY <1>7, CreateKeeps
<1>8. ASSUME NEW k \in TimerKinds, CreateFails(k) PROVE TimerInv'
  BY <1>8, QuietStepsKeep
<1>9. CASE UNCHANGED timerVars
  BY <1>9 DEF timerVars, TimerInv, TimerTypes, TimerPlaces, TimerLists
<1> QED BY <1>1, <1>2, <1>3, <1>4, <1>5, <1>6, <1>7, <1>8, <1>9 DEF TimerNext, RunLoop

\* The invariant implies what the links promise.
LEMMA InvLinked == TimerInv => TimersLinked
<1> SUFFICES ASSUME TimerInv PROVE TimersLinked
  OBVIOUS
<1>1. PICK s, f : Lists(heap, s, f) /\ Named(heap, ptr, s)
  BY DEF TimerInv, TimerLists
<1>2. Active(heap) = s /\ Free(heap) = f /\ s \in Seq(Cells) /\ f \in Seq(Cells)
  BY <1>1, ListsFacts
<1>3. /\ Len(s) + Len(f) = heap.made /\ Sorted(heap, s)
      /\ \A c : On(c, s) \/ On(c, f) <=> c \in 1 .. heap.made
      /\ \A i \in 1 .. Len(s) : heap.cell[s[i]].prev = Nth(s, i - 1)
  BY <1>1 DEF Lists, IsActive
<1>4. DOMAIN s = 1 .. Len(s) /\ DOMAIN f = 1 .. Len(f) /\ Len(s) \in Nat
      /\ \A i \in 1 .. Len(s) : s[i] \in Cells
  BY <1>2
<1>5. (\A c : c \in Elements(s) <=> On(c, s)) /\ (\A c : c \in Elements(f) <=> On(c, f))
  BY <1>4 DEF Elements, On
<1>6. Elements(s) \cup Elements(f) = 1 .. heap.made
  BY <1>3, <1>5
<1>7. ASSUME NEW n \in DOMAIN s
      PROVE  /\ heap.cell[s[n]].prev = (IF n = 1 THEN NoCell ELSE s[n - 1])
             /\ n > 1 => heap.cell[s[n - 1]].time <= heap.cell[s[n]].time
  <2>1. n \in 1 .. Len(s)
    BY <1>4
  <2>2. Nth(s, n - 1) = IF n = 1 THEN NoCell ELSE s[n - 1]
    BY <2>1, <1>4 DEF Nth
  <2>3. n > 1 => n - 1 \in 1 .. Len(s) /\ n - 1 < n
    BY <2>1, <1>4
  <2> QED BY <2>1, <2>2, <2>3, <1>3 DEF Sorted
<1>8. ASSUME NEW k \in TimerKinds
      PROVE  IF ptr[k] = NoCell THEN \A n \in DOMAIN s : heap.cell[s[n]].proc # k
             ELSE ptr[k] \in Elements(s) /\ heap.cell[ptr[k]].proc = k
  <2>1. ASSUME ptr[k] = NoCell, NEW n \in DOMAIN s PROVE heap.cell[s[n]].proc # k
    <3>1. s[n] \in Cells /\ On(s[n], s)
      BY <1>4 DEF On
    <3> QED BY <3>1, <2>1, <1>1, CellNumbers DEF Named
  <2> QED BY <2>1, <1>1, <1>5 DEF Named
<1> QED BY <1>2, <1>3, <1>6, <1>7, <1>8 DEF TimersLinked

\* However the procedures create, cancel and move timers while the list is walked,
\* in any sequence of tests, the links stay consistent, the list sorted, no cell is
\* lost and the pointers of the test name its timers (timer.c).
THEOREM TimersLinkedAlways == TimerSpec => []TimersLinked
<1>1. TimerInit => TimerInv
  BY InitTimerInv
<1>2. TimerInv /\ [TimerNext]_timerVars => TimerInv'
  BY TimerAssumption, StepKeeps
<1> QED BY <1>1, <1>2, InvLinked, PTL DEF TimerSpec

----------------------------------------------------------------------------
(***************************************************************************)
(* The set of timers.  The due time of a kind is that of the cell its      *)
(* pointer names, so each operation on the list sets, clears or fires a    *)
(* timer of TimerSet, or changes nothing there.                            *)
(***************************************************************************)
DueIn(h, k) ==
  LET mine == {c \in Cells : h.cell[c].proc = k}
  IN IF mine = {} THEN NoTime ELSE h.cell[CHOOSE c \in mine : TRUE].time

\* The due time of a kind is that of the cell its pointer names.
LEMMA DueIs ==
  ASSUME NEW h, NEW p, GoodHeap(h, p), NEW k \in TimerKinds
  PROVE  /\ p[k] = NoCell => DueIn(h, k) = NoTime
         /\ p[k] # NoCell => DueIn(h, k) = h.cell[p[k]].time /\ p[k] \in Cells
         /\ p[k] # NoCell <=> DueIn(h, k) # NoTime
<1>1. PICK s, f : Lists(h, s, f) /\ Named(h, p, s)
  BY DEF GoodHeap
<1> DEFINE mine == {c \in Cells : h.cell[c].proc = k}
<1>2. \A c \in mine : p[k] = c
  BY <1>1, KindNames DEF Named
<1>3. CASE p[k] = NoCell
  <2>1. mine = {}
    BY <1>2, <1>3, CellNumbers
  <2> QED BY <2>1, <1>3 DEF DueIn
<1>4. CASE p[k] # NoCell
  <2>1. p[k] \in mine /\ p[k] \in Cells
    BY <1>1, <1>4, CellFacts DEF Named
  <2>2. (CHOOSE c \in mine : TRUE) = p[k]
    BY <1>2, <2>1
  <2>3. DueIn(h, k) = h.cell[p[k]].time
    BY <2>1, <2>2 DEF DueIn
  <2>4. h.cell[p[k]].time \in Nat
    BY <1>1, <2>1, CellFacts
  <2>5. h.cell[p[k]].time # NoTime
    BY <2>4 DEF NoTime
  <2> QED BY <1>4, <2>1, <2>3, <2>5
<1> QED BY <1>3, <1>4

\* Due times before and after a step.
LEMMA DueTimes == \A k : DueTime(k) = DueIn(heap, k) /\ DueTime(k)' = DueIn(heap', k)
BY Zenon DEF DueTime, DueIn

\* The invariant says that the lists are in order.
LEMMA InvGood == ASSUME TimerInv PROVE GoodHeap(heap, ptr)
BY DEF TimerInv, TimerLists, GoodHeap

\* The same after a step.
LEMMA InvGoodNext == ASSUME TimerInv' PROVE GoodHeap(heap', ptr')
BY DEF TimerInv, TimerLists, GoodHeap

DueNow == [k \in TimerKinds |-> DueIn(heap, k)]
DueNext == [k \in TimerKinds |-> DueIn(heap', k)]

\* The refinement maps the cells to their due times.
LEMMA DueNowIs ==
  /\ [k \in TimerKinds |-> DueTime(k)] = DueNow
  /\ [k \in TimerKinds |-> DueTime(k)]' = DueNext
<1>1. [k \in TimerKinds |-> DueTime(k)] = DueNow
  BY DueTimes DEF DueNow
<1>2. [k \in TimerKinds |-> DueTime(k)]' = DueNext
  BY DueTimes DEF DueNext
<1> QED BY <1>1, <1>2

\* At the start no timer is set.
LEMMA SetInitImplied == TimerInit => TS!SetInit
<1> SUFFICES ASSUME TimerInit PROVE TS!SetInit
  OBVIOUS
<1>1. GoodHeap(heap, ptr) /\ \A k \in TimerKinds : ptr[k] = NoCell
  BY InitTimerInv, InvGood DEF TimerInit
<1>2. \A k \in TimerKinds : DueIn(heap, k) = NoTime
  BY <1>1, DueIs
<1>3. [k \in TimerKinds |-> DueTime(k)] = [k \in TimerKinds |-> NoTime]
  BY <1>2, DueTimes
<1>4. clock = 0 /\ walk.now = 0 /\ fired = {}
  BY DEF TimerInit
<1> QED BY <1>3, <1>4 DEF TS!SetInit

\* A step that leaves the cells, the clock and the pass alone is no step of the set.
LEMMA SetStutters ==
  ASSUME UNCHANGED <<heap, clock, walk, fired>>
  PROVE  UNCHANGED TS!setVars
<1>1. [k \in TimerKinds |-> DueTime(k)]' = [k \in TimerKinds |-> DueTime(k)]
  BY DueNowIs DEF DueNow, DueNext
<1> QED BY <1>1 DEF TS!setVars

\* Making a timer sets it.
LEMMA CreateSets == ASSUME TimerAssumption, TimerInv, TimerInv', NEW k \in TimerKinds, CreateTimer(k)
                    PROVE  TS!Set(k) \/ UNCHANGED TS!setVars
<1>0. UNCHANGED <<clock, walk, fired>> /\ clock \in Nat
  BY DEF CreateTimer, TimerInv, TimerTypes
<1>1. CASE Interval(k) = 0
  <2>1. heap' = heap
    BY <1>1 DEF CreateTimer
  <2> QED BY <2>1, <1>0, SetStutters
<1>2. CASE Interval(k) # 0
  <2>1. PICK s, b : /\ Named(heap, ptr, s) /\ Created(heap, heap', s, ptr'[k], b)
                    /\ b.proc = k /\ b.time = clock + Interval(k)
    BY <1>2, CreateEffects
  <2>2. Interval(k) \in Nat /\ Interval(k) > 0 /\ ptr[k] = NoCell
        /\ ptr' = [ptr EXCEPT ![k] = TmrCell(heap)]
    BY <1>2, CreateEffects
  <2>3. GoodHeap(heap, ptr) /\ GoodHeap(heap', ptr')
    BY InvGood, InvGoodNext
  <2>4. ptr'[k] \in Cells /\ heap'.cell[ptr'[k]].time = clock + Interval(k)
        /\ \A c \in Cells \ {ptr'[k]} : heap'.cell[c].time = heap.cell[c].time
    BY <2>1 DEF Created
  <2>5. DueIn(heap, k) = NoTime
    BY <2>2, <2>3, DueIs
  <2>6. DueIn(heap', k) = clock + Interval(k) /\ DueIn(heap', k) # NoTime
    BY <2>3, <2>4, DueIs, CellNumbers
  <2>7. \A j \in TimerKinds \ {k} : DueIn(heap', j) = DueIn(heap, j)
    <3> TAKE j \in TimerKinds \ {k}
    <3>1. ptr'[j] = ptr[j]
      BY <2>1, <2>2 DEF Named
    <3>2. CASE ptr[j] = NoCell
      BY <3>1, <3>2, <2>3, DueIs
    <3>3. CASE ptr[j] # NoCell
      <4>1. ptr[j] # ptr'[k]
        BY <2>1, <3>3 DEF Named, Created
      <4> QED BY <3>1, <3>3, <4>1, <2>3, <2>4, DueIs
    <3> QED BY <3>2, <3>3
  <2>8. DueIn(heap', k) > clock
    BY <2>2, <2>6, <1>0
  <2>9. DueNext = [DueNow EXCEPT ![k] = DueNext[k]]
    BY <2>7 DEF DueNow, DueNext
  <2>10. DueNow[k] = NoTime /\ DueNext[k] # NoTime /\ DueNext[k] > clock
    BY <2>5, <2>6, <2>8 DEF DueNow, DueNext
  <2> QED BY <2>9, <2>10, <1>0, DueNowIs DEF TS!Set, TS!Pending
<1> QED BY <1>1, <1>2

\* A turn of tmr_run fires a timer that is due, in its order.
LEMMA FireFires == ASSUME TimerInv, TimerInv', FireTimer
                   PROVE  \E k \in TimerKinds : TS!Fire(k)
<1> DEFINE t == walk.t
           now == walk.now
<1>1. PICK s, f, k : /\ Lists(heap, s, f) /\ Named(heap, ptr, s) /\ On(t, s) /\ t \in Cells
                     /\ WalkOK(heap, s, t, now, fired)
                     /\ heap.cell[t].time <= now
                     /\ k \in TimerKinds /\ k = heap.cell[t].proc
                     /\ fired' = fired \cup {k}
                     /\ FiredOK(heap, heap', s, t, k, ptr', now, fired)
                     /\ \A j \in TimerKinds \ {k} : ptr'[j] = ptr[j]
                     /\ ptr'[k] = ptr[k] \/ ptr'[k] = NoCell
  BY FireEffects
<1>2. GoodHeap(heap, ptr) /\ GoodHeap(heap', ptr')
  BY InvGood, InvGoodNext
<1>3. clock' = clock /\ (walk.now)' = now
  <2>1. walk \in [t : CellLinks, now : Nat] /\ walk' = [walk EXCEPT !.t = heap.cell[walk.t].next]
    BY DEF TimerInv, TimerTypes, FireTimer
  <2>2. (walk.now)' = now
    BY <2>1
  <2> QED BY <2>2 DEF FireTimer
<1>4. Effects(heap, heap', s, t, k, now)
  BY <1>1 DEF FiredOK
<1> HIDE DEF t, now
<1>5. ptr[k] = t
  BY <1>1 DEF Named
<1>6. DueNow[k] = heap.cell[t].time /\ DueNow[k] # NoTime
  BY <1>1, <1>2, <1>5, DueIs, CellNumbers DEF DueNow
<1>7. \A j \in TimerKinds : ptr[j] # NoCell =>
        ptr[j] \in Cells /\ On(ptr[j], s) /\ heap.cell[ptr[j]].proc = j /\ DueNow[j] = heap.cell[ptr[j]].time
  BY <1>1, <1>2, DueIs DEF Named, DueNow
<1>8. \A j \in TimerKinds : DueNow[j] # NoTime /\ DueNow[j] < DueNow[k] => j \in fired
  <2> SUFFICES ASSUME NEW j \in TimerKinds, DueNow[j] # NoTime, DueNow[j] < DueNow[k] PROVE j \in fired
    OBVIOUS
  <2>1. ptr[j] # NoCell
    BY <1>2, DueIs DEF DueNow
  <2> DEFINE c == ptr[j]
  <2>2. c \in Cells /\ On(c, s) /\ heap.cell[c].proc = j /\ heap.cell[c].time < heap.cell[t].time
    BY <2>1, <1>6, <1>7
  <2> HIDE DEF c
  <2>3. heap.cell[c].time \in Nat /\ heap.cell[t].time \in Nat
    BY <2>2, <1>1, CellFacts
  <2>4. c = t \/ Precedes(s, c, t) \/ heap.cell[t].time <= heap.cell[c].time
    BY <2>2, <1>1, NextIs
  <2>5. Precedes(s, c, t)
    BY <2>2, <2>3, <2>4
  <2> QED BY <2>2, <2>5, <1>1, CellNumbers DEF WalkOK
<1>9. DueNext[k] = NoTime \/ DueNext[k] > DueNow[k]
  <2>1. CASE ptr'[k] = NoCell
    BY <2>1, <1>1, <1>2, DueIs DEF DueNext
  <2>2. CASE ptr'[k] # NoCell
    <3>1. ptr'[k] = t /\ DueNext[k] = heap'.cell[t].time
      BY <2>2, <1>1, <1>2, <1>5, DueIs DEF DueNext
    <3>2. heap'.cell[t].proc = k
      BY <2>2, <3>1, <1>1 DEF FiredOK, Named
    <3> QED BY <3>1, <3>2, <1>1, <1>4, <1>6, KindNames DEF Effects
  <2> QED BY <2>1, <2>2
<1>10. \A j \in TimerKinds \ {k} :
          DueNext[j] = DueNow[j] \/ (k = "omit" /\ DueNow[j] # NoTime /\ DueNext[j] > now)
  <2> SUFFICES ASSUME NEW j \in TimerKinds \ {k}
               PROVE  DueNext[j] = DueNow[j] \/ (k = "omit" /\ DueNow[j] # NoTime /\ DueNext[j] > now)
    OBVIOUS
  <2>1. ptr'[j] = ptr[j]
    BY <1>1
  <2>2. CASE ptr[j] = NoCell
    BY <2>1, <2>2, <1>2, DueIs DEF DueNow, DueNext
  <2>3. CASE ptr[j] # NoCell
    <3>1. ptr[j] # t /\ ptr[j] \in Cells
      BY <2>3, <1>1, <1>7
    <3>2. DueNext[j] = heap'.cell[ptr[j]].time /\ DueNow[j] = heap.cell[ptr[j]].time /\ DueNow[j] # NoTime
      BY <2>1, <2>3, <1>2, DueIs DEF DueNow, DueNext
    <3> QED BY <3>1, <3>2, <1>4 DEF Effects
  <2> QED BY <2>2, <2>3
<1>11. DueNow[k] <= now
  BY <1>1, <1>6
<1>12. TS!Fire(k)
  BY <1>1, <1>3, <1>6, <1>8, <1>9, <1>10, <1>11, DueNowIs DEF TS!Fire, TS!Pending, now
<1> QED BY <1>1, <1>12

\* The pass ends when nothing is left, or the omit period has ended in it.
LEMMA EndsPass == ASSUME TimerInv, WalkEnds PROVE TS!EndPass
<1>1. PICK s, f : Lists(heap, s, f) /\ Named(heap, ptr, s) /\ WalkOK(heap, s, walk.t, walk.now, fired)
  BY DEF TimerInv, TimerLists, WalkEnds
<1>2. UNCHANGED <<heap, clock>> /\ (walk.now)' = 0 /\ fired' = {}
      /\ (walk.t # NoCell => heap.cell[walk.t].time > walk.now) /\ walk.now \in Nat
  BY DEF WalkEnds, TimerInv, TimerTypes
<1>3. GoodHeap(heap, ptr)
  BY InvGood
<1>4. "omit" \in fired \/ \A k \in TimerKinds : DueNow[k] # NoTime /\ DueNow[k] <= walk.now => k \in fired
  <2> SUFFICES ASSUME "omit" \notin fired, NEW k \in TimerKinds, DueNow[k] # NoTime, DueNow[k] <= walk.now
               PROVE  k \in fired
    OBVIOUS
  <2> DEFINE c == ptr[k]
  <2>1. c # NoCell /\ c \in Cells /\ DueNow[k] = heap.cell[c].time
    BY <1>3, DueIs DEF DueNow
  <2>2. On(c, s) /\ heap.cell[c].proc = k
    BY <2>1, <1>1 DEF Named
  <2> HIDE DEF c
  <2>3. walk.t = NoCell \/ Precedes(s, c, walk.t)
    <3> SUFFICES ASSUME walk.t # NoCell PROVE Precedes(s, c, walk.t)
      OBVIOUS
    <3>1. On(walk.t, s) /\ walk.t \in Cells
      BY <1>1, CellFacts DEF WalkOK
    <3>2. heap.cell[c].time \in Nat /\ heap.cell[walk.t].time \in Nat
      BY <3>1, <2>1, <1>1, CellFacts
    <3>3. heap.cell[c].time < heap.cell[walk.t].time
      BY <3>2, <2>1, <1>2
    <3>4. c = walk.t \/ Precedes(s, c, walk.t) \/ heap.cell[walk.t].time <= heap.cell[c].time
      BY <3>1, <2>2, <1>1, NextIs
    <3> QED BY <3>2, <3>3, <3>4
  <2> QED BY <2>1, <2>2, <2>3, <1>1 DEF WalkOK
<1>5. DueNext = DueNow
  BY <1>2 DEF DueNow, DueNext
<1> QED BY <1>2, <1>4, <1>5, DueNowIs DEF TS!EndPass, TS!Pending

\* The end of a test clears all timers.
LEMMA CancelClears == ASSUME TimerInv, CancelTimers PROVE TS!Clear
<1>1. GoodHeap(heap', ptr') /\ \A k \in TimerKinds : ptr'[k] = NoCell
  BY CancelAll
<1>2. \A k \in TimerKinds : DueIn(heap', k) = NoTime
  BY <1>1, DueIs
<1>3. DueNext = [k \in TimerKinds |-> NoTime]
  BY <1>2 DEF DueNext
<1>4. UNCHANGED <<clock, walk, fired>>
  BY DEF CancelTimers
<1> QED BY <1>3, <1>4, DueNowIs DEF TS!Clear

\* Time passes; it starts again when no timer is set.
LEMMA TickAdvances == ASSUME TimerInv, Tick PROVE TS!Advance \/ TS!Restart
<1>0. UNCHANGED <<heap, walk, fired>> /\ clock \in Nat
  BY DEF Tick, TimerInv, TimerTypes
<1>1. DueNext = DueNow
  BY <1>0 DEF DueNow, DueNext
<1>2. CASE clock' = clock + 1
  BY <1>0, <1>1, <1>2, DueNowIs DEF TS!Advance
<1>3. CASE loop.at = "idle" /\ clock' = 0
  <2>1. \A k \in TimerKinds : ptr[k] = NoCell
    BY <1>3, KindNames DEF TimerInv, TimerPlaces
  <2>2. \A k \in TimerKinds : DueNow[k] = NoTime
    BY <2>1, InvGood, DueIs DEF DueNow
  <2> QED BY <1>0, <1>1, <1>3, <2>2, DueNowIs DEF TS!Restart, TS!Pending
<1> QED BY <1>2, <1>3 DEF Tick

\* select() returns: a pass begins, or none.
LEMMA SelectBegins == ASSUME NEW message, SelectReturns(message)
                      PROVE  TS!BeginPass \/ UNCHANGED TS!setVars
<1>0. UNCHANGED <<heap, clock, fired>>
  BY DEF SelectReturns
<1>1. DueNext = DueNow
  BY <1>0 DEF DueNow, DueNext
<1>2. CASE RunsTimers(message)
  <2>1. (walk.now)' = clock
    BY <1>2 DEF SelectReturns
  <2> QED BY <1>0, <1>1, <2>1, DueNowIs DEF TS!BeginPass
<1>3. CASE ~RunsTimers(message)
  <2>1. walk' = walk
    BY <1>3 DEF SelectReturns
  <2> QED BY <1>0, <2>1, SetStutters
<1> QED BY <1>2, <1>3

\* Every step of the list is a step of the set, or none.
LEMMA TimerSetStep ==
  ASSUME TimerAssumption, TimerInv, TimerInv', [TimerNext]_timerVars
  PROVE  [TS!SetNext]_(TS!setVars)
<1>1. CASE BeginTest \/ AwaitTimer \/ TestOver
  BY <1>1, SetStutters DEF BeginTest, AwaitTimer, TestOver
<1>2. CASE Tick
  BY <1>2, TickAdvances DEF TS!SetNext
<1>3. CASE FireTimer
  BY <1>3, FireFires DEF TS!SetNext
<1>4. CASE WalkEnds
  BY <1>4, EndsPass DEF TS!SetNext
<1>5. CASE CancelTimers
  BY <1>5, CancelClears DEF TS!SetNext
<1>6. ASSUME NEW message \in BOOLEAN, SelectReturns(message) PROVE [TS!SetNext]_(TS!setVars)
  BY <1>6, SelectBegins DEF TS!SetNext
<1>7. ASSUME NEW k \in TimerKinds, CreateTimer(k) PROVE [TS!SetNext]_(TS!setVars)
  BY <1>7, CreateSets DEF TS!SetNext
<1>8. ASSUME NEW k \in TimerKinds, CreateFails(k) PROVE [TS!SetNext]_(TS!setVars)
  BY <1>8, SetStutters DEF CreateFails
<1>9. CASE UNCHANGED timerVars
  BY <1>9, SetStutters DEF timerVars
<1> QED BY <1>1, <1>2, <1>3, <1>4, <1>5, <1>6, <1>7, <1>8, <1>9 DEF TimerNext, RunLoop

\* The linked list implements the set of timers: a pass fires what was due when it
\* began, in order, with the exceptions that TimerSet names (timer.c).
THEOREM TimerSetImplemented == TimerSpec => TimerSetSpec
<1>1. TimerInit => TimerInv
  BY InitTimerInv
<1>2. TimerInv /\ [TimerNext]_timerVars => TimerInv'
  BY TimerAssumption, StepKeeps
<1>3. TimerInit => TS!SetInit
  BY SetInitImplied
<1>4. TimerInv /\ TimerInv' /\ [TimerNext]_timerVars => [TS!SetNext]_(TS!setVars)
  BY TimerAssumption, TimerSetStep
<1> QED BY <1>1, <1>2, <1>3, <1>4, PTL DEF TimerSpec, TimerSetSpec, TS!SetSpec

\* A set of numbers that is not empty has a least one.
LEMMA LeastNumber ==
  ASSUME NEW S, S \subseteq Nat, S # {}
  PROVE  \E m \in S : \A n \in S : m <= n
<1> DEFINE R == {ss \in Nat \X Nat : ss[1] < ss[2]}
<1>1. IsWellFoundedOn(R, Nat) BY NatLessThanWellFounded DEF OpToRel
<1>2. PICK m \in S : \A n \in S : <<n, m>> \notin R
  <2> HIDE DEF R
  <2> QED BY <1>1, WFMin
<1>3. \A n \in S : ~(n < m) BY <1>2
<1> QED BY <1>2, <1>3

----------------------------------------------------------------------------
(***************************************************************************)
(* Arguments.  First the loop of getopt_long: FoldLeft as a function of    *)
(* the sets of turns, of which the sets 1 .. n are the ones that matter.   *)
(***************************************************************************)
Turns(cmd, start, n, f) ==
  f = [S \in SUBSET (1 .. n) |->
         IF S = {} THEN start
         ELSE LET x == CHOOSE x \in S : \A y \in S : x >= y
              IN ParseOption(f[S \ {x}], cmd[x])]

\* The last turn of a set that has turn n.
LEMMA LastTurn ==
  ASSUME NEW n \in Nat, NEW S \in SUBSET (1 .. n), n \in S
  PROVE  (CHOOSE x \in S : \A y \in S : x >= y) = n
<1>1. \A y \in S : n >= y OBVIOUS
<1>2. ASSUME NEW x \in S, \A y \in S : x >= y PROVE x = n
  <2>1. x \in Nat /\ x >= n /\ n >= x BY <1>1, <1>2
  <2> QED BY <2>1
<1> QED BY <1>1, <1>2, Zenon

LEMMA TurnsExist ==
  ASSUME NEW cmd, NEW start, NEW n \in Nat PROVE \E f : Turns(cmd, start, n, f)
<1> DEFINE Bad == {k \in Nat : ~ \E f : Turns(cmd, start, k, f)}
<1> SUFFICES ASSUME Bad # {} PROVE FALSE
  OBVIOUS
<1>1. PICK m \in Bad : \A k \in Bad : m <= k
  <2>1. Bad \subseteq Nat OBVIOUS
  <2> HIDE DEF Bad
  <2> QED BY <2>1, LeastNumber
<1>2. m \in Nat /\ ~ \E f : Turns(cmd, start, m, f) BY <1>1
<1> DEFINE term(h, S) == IF S = {} THEN start
                         ELSE LET x == CHOOSE x \in S : \A y \in S : x >= y
                              IN ParseOption(h[S \ {x}], cmd[x])
<1>3. CASE m = 0
  <2> DEFINE f == [S \in SUBSET (1 .. 0) |-> start]
  <2>1. \A S \in SUBSET (1 .. 0) : S = {} OBVIOUS
  <2>2. Turns(cmd, start, 0, f) BY <2>1, Zenon DEF Turns
  <2> QED BY <1>2, <1>3, <2>2
<1>4. CASE m # 0
  <2>1. m - 1 \in Nat /\ m - 1 \notin Bad BY <1>1, <1>2, <1>4
  <2>2. PICK f : Turns(cmd, start, m - 1, f) BY <2>1
  <2> DEFINE new == [S \in SUBSET (1 .. m) |-> term(f, S)]
  <2>3. ASSUME NEW S \in SUBSET (1 .. (m - 1))
        PROVE  S \in SUBSET (1 .. m) /\ new[S] = f[S]
    <3>1. S \in SUBSET (1 .. m) BY <2>1
    <3>2. f[S] = term(f, S) BY <2>2, Zenon DEF Turns
    <3> QED BY <3>1, <3>2, Zenon
  <2>4. ASSUME NEW S \in SUBSET (1 .. m) PROVE term(f, S) = term(new, S)
    <3>1. CASE S = {} BY <3>1
    <3>2. CASE S # {}
      <4> DEFINE T == S \ {CHOOSE x \in S : \A y \in S : x >= y}
      <4>1. T \in SUBSET (1 .. (m - 1))
        <5>1. CASE m \in S
          <6>1. (CHOOSE x \in S : \A y \in S : x >= y) = m BY <1>2, <5>1, LastTurn
          <6>2. T = S \ {m} BY <6>1
          <6> HIDE DEF T
          <6> QED BY <1>2, <6>2
        <5>2. CASE m \notin S
          <6>1. S \in SUBSET (1 .. (m - 1)) BY <1>2, <5>2
          <6>2. T \subseteq S BY Zenon
          <6> HIDE DEF T
          <6> QED BY <6>1, <6>2
        <5> QED BY <5>1, <5>2
      <4>2. f[T] = new[T]
        <5> HIDE DEF T, new
        <5> QED BY <2>3, <4>1
      <4>3. \E c : \A h : term(h, S) = ParseOption(h[T], cmd[c])
        <5> WITNESS CHOOSE x \in S : \A y \in S : x >= y
        <5> QED BY <3>2
      <4> HIDE DEF T, new, term
      <4> QED BY <4>2, <4>3
    <3> QED BY <3>1, <3>2
  <2>5. Turns(cmd, start, m, new)
    <3>1. \A S \in SUBSET (1 .. m) : term(f, S) = term(new, S) BY <2>4
    <3>2. new = [S \in SUBSET (1 .. m) |-> term(f, S)] BY Zenon
    <3>3. new = [S \in SUBSET (1 .. m) |-> term(new, S)]
      <4> HIDE DEF new, term
      <4> QED BY <3>1, <3>2
    <3> HIDE DEF new
    <3> QED BY <3>3, Zenon DEF Turns
  <2> QED BY <1>2, <2>5
<1> QED BY <1>3, <1>4

\* The loop over a command is its last turn.
LEMMA LoopIsTurns ==
  ASSUME NEW cmd, NEW from, NEW n \in Nat, DOMAIN cmd = 1 .. n
  PROVE  \E f : Turns(cmd, Begin(from), n, f) /\ ParseOptions(cmd, from) = f[1 .. n]
<1> DEFINE start == Begin(from)
           chosen == CHOOSE f : Turns(cmd, start, n, f)
<1>1. Turns(cmd, start, n, chosen)
  <2>1. \E f : Turns(cmd, start, n, f) BY TurnsExist
  <2> QED BY <2>1, Zenon
<1>2. ParseOptions(cmd, from) = chosen[1 .. n]
  BY Zenon DEF ParseOptions, FoldLeft, MapThenFoldSet, Max, Turns
<1> HIDE DEF chosen
<1> QED BY <1>1, <1>2

LEMMA TurnAt ==
  ASSUME NEW cmd, NEW start, NEW n \in Nat, NEW f, Turns(cmd, start, n, f)
  PROVE  /\ f[{}] = start
         /\ \A k \in 1 .. n : f[1 .. k] = ParseOption(f[1 .. (k - 1)], cmd[k])
<1>1. f[{}] = start
  <2>1. {} \in SUBSET (1 .. n) OBVIOUS
  <2> QED BY <2>1, Zenon DEF Turns
<1>2. ASSUME NEW k \in 1 .. n PROVE f[1 .. k] = ParseOption(f[1 .. (k - 1)], cmd[k])
  <2>1. /\ 1 .. k \in SUBSET (1 .. n) /\ 1 .. k # {} /\ k \in 1 .. k /\ k \in Nat
        /\ 1 .. k \in SUBSET (1 .. k)
    OBVIOUS
  <2>2. (CHOOSE x \in 1 .. k : \A y \in 1 .. k : x >= y) = k BY <2>1, LastTurn
  <2>3. (1 .. k) \ {k} = 1 .. (k - 1) BY <2>1
  <2> QED BY <2>1, <2>2, <2>3, Zenon DEF Turns
<1> QED BY <1>1, <1>2

----------------------------------------------------------------------------
\* What the options so far say, as long as none was refused: G are their letters
\* and names. The mode of a server that reverses or sends both ways is wrong, but
\* it has client options and is refused when all options are read.
SettingNames == DOMAIN Defaults
TestSettings == {"role", "reverse", "bidirectional", "mode", "sender_has_retransmits",
                 "protocol", "duration"}

Shape(p) == DOMAIN p = {"set", "blksize", "flags", "err", "at"} /\ DOMAIN p.set = SettingNames

RoleGiven(G) == IF "c" \in G THEN "c" ELSE IF "s" \in G THEN "s" ELSE "none"
ModeGiven(G) ==
  IF "bidir" \in G THEN "BIDIRECTIONAL"
  ELSE IF RoleGiven(G) = "none" THEN "RECEIVER"
  ELSE IF (RoleGiven(G) = "s") <=> ("R" \in G) THEN "SENDER" ELSE "RECEIVER"

SettingsTold(s, G) ==
  /\ s.role = RoleGiven(G) /\ s.mode = ModeGiven(G)
  /\ s.reverse \in BOOLEAN /\ (s.reverse <=> "R" \in G)
  /\ s.bidirectional \in BOOLEAN /\ (s.bidirectional <=> "bidir" \in G)
  /\ ~({"R", "bidir"} \subseteq G)
  /\ s.protocol = IF "u" \in G THEN "udp" ELSE "tcp"
  /\ s.sender_has_retransmits \in BOOLEAN
  /\ s.role = "c" \/ s.mode # "BIDIRECTIONAL" =>
       (s.sender_has_retransmits <=> s.mode # "RECEIVER" /\ s.protocol = "tcp")
  /\ "t" \notin G => s.duration = 10

FlagsTold(flags, G) ==
  /\ G \cap {"R", "bidir", "u"} # {} => "client" \in flags
  /\ "duration" \in flags <=> "t" \in G
  /\ "rate" \in flags => G \cap {"b", "b/"} # {}

Told(p, G) == Shape(p) /\ (p.err = "IENONE" => SettingsTold(p.set, G) /\ FlagsTold(p.flags, G))

\* Options the theorem does not ask about.
Plain(p, q) ==
  /\ Shape(q)
  /\ q.err = "IENONE" => /\ \A k \in TestSettings : q.set[k] = p.set[k]
                   /\ p.flags \subseteq q.flags
                   /\ q.flags \subseteq p.flags \cup {"client", "server"}

LEMMA Names ==
  SettingNames = {"role", "reverse", "bidirectional", "mode", "sender_has_retransmits",
                  "protocol", "server_port", "interval", "duration", "omit", "bytes", "blocks",
                  "blksize", "rate", "burst", "num_streams", "bind_port", "socket_bufsize",
                  "mss", "tos", "idle_timeout", "rcv_timeout", "file", "limit_interval"}
BY DEF SettingNames, Defaults

\* A number is refused or stored.
LEMMA NumberIs ==
  ASSUME NEW p, NEW o, NEW field, NEW low, NEW high, NEW err, NEW flags
  PROVE  ParseNumber(p, o, Number(field, low, high, err, flags))
           \in {Refuse(p, err), Flag([p EXCEPT !.set = [@ EXCEPT ![field] = o.arg]], flags)}
<1> DEFINE n == Number(field, low, high, err, flags)
<1>1. n.field = field /\ n.err = err /\ n.flags = flags BY DEF Number
<1> HIDE DEF n
<1>2. ParseNumber(p, o, n)
        \in {Refuse(p, err), Flag([p EXCEPT !.set = [@ EXCEPT ![field] = o.arg]], flags)}
  BY <1>1, Zenon DEF ParseNumber
<1> QED BY <1>2 DEF n

LEMMA NumberPlain ==
  ASSUME NEW p, Shape(p), NEW o, NEW field \in SettingNames \ TestSettings, NEW low, NEW high,
         NEW err, NEW flags \in SUBSET {"client", "server"}
  PROVE  Plain(p, ParseNumber(p, o, Number(field, low, high, err, flags)))
<1> DEFINE s == [p.set EXCEPT ![field] = o.arg]
<1>1. DOMAIN s = SettingNames /\ \A k \in TestSettings : s[k] = p.set[k]
  <2>1. \A k \in TestSettings : k \in SettingNames BY Names DEF TestSettings
  <2> QED BY <2>1 DEF Shape
<1>2. ParseNumber(p, o, Number(field, low, high, err, flags))
        \in {Refuse(p, err), Flag([p EXCEPT !.set = s], flags)}
  BY NumberIs
<1> HIDE DEF s
<1>3. Plain(p, Flag([p EXCEPT !.set = s], flags)) BY <1>1 DEF Flag, Plain, Shape
<1>4. Plain(p, Refuse(p, err)) BY DEF Refuse, Plain, Shape
<1> QED BY <1>2, <1>3, <1>4

LEMMA FlagPlain ==
  ASSUME NEW p, Shape(p), NEW flags \in SUBSET {"client", "server"}
  PROVE  Plain(p, Flag(p, flags))
BY DEF Flag, Plain, Shape

LEMMA PlainTells ==
  ASSUME NEW p, NEW q, NEW G, NEW x, Told(p, G), p.err = "IENONE", Plain(p, q),
         x \notin {"c", "s", "R", "bidir", "u", "t", "b", "b/"}
  PROVE  Told(q, G \cup {x})
<1> SUFFICES ASSUME q.err = "IENONE" PROVE SettingsTold(q.set, G \cup {x}) /\ FlagsTold(q.flags, G \cup {x})
  BY DEF Told, Plain
<1>1. \A y \in {"c", "s", "R", "bidir", "u", "t", "b", "b/"} : y \in G \cup {x} <=> y \in G
  OBVIOUS
<1>2. RoleGiven(G \cup {x}) = RoleGiven(G) /\ ModeGiven(G \cup {x}) = ModeGiven(G)
  BY <1>1 DEF RoleGiven, ModeGiven
<1>3. FlagsTold(q.flags, G \cup {x})
  BY <1>1 DEF Told, FlagsTold, Plain
<1>4. /\ q.set.role = p.set.role /\ q.set.reverse = p.set.reverse /\ q.set.mode = p.set.mode
      /\ q.set.bidirectional = p.set.bidirectional /\ q.set.protocol = p.set.protocol
      /\ q.set.sender_has_retransmits = p.set.sender_has_retransmits
      /\ q.set.duration = p.set.duration
  BY DEF Plain, TestSettings
<1>5. SettingsTold(q.set, G \cup {x})
  BY <1>1, <1>2, <1>4 DEF Told, SettingsTold
<1> QED BY <1>3, <1>5

----------------------------------------------------------------------------
\* Each option, before and after. What an option does to the settings that depend on
\* each other is computed for a settings record of the same shape.
LEMMA RoleTells ==
  ASSUME NEW p, NEW G, NEW o, Told(p, G), p.err = "IENONE", o.opt \in {"s", "c"}
  PROVE  Told(ParseRole(p, o), G \cup {o.opt})
<1> DEFINE s == p.set
           t == SetRole(s, o.opt)
           H == G \cup {o.opt}
<1>1. Shape(p) /\ SettingsTold(s, G) /\ FlagsTold(p.flags, G) BY DEF Told
<1>2. CASE s.role \notin {"none", o.opt}
  BY <1>1, <1>2 DEF ParseRole, Refuse, Told, Shape
<1>3. CASE s.role \in {"none", o.opt}
  <2>1. ParseRole(p, o) = [p EXCEPT !.set = t] BY <1>3 DEF ParseRole
  <2>2. DOMAIN s = SettingNames BY <1>1 DEF Shape
  <2>3. /\ DOMAIN t = SettingNames /\ t.role = o.opt /\ t.reverse = s.reverse
        /\ t.bidirectional = s.bidirectional /\ t.protocol = s.protocol /\ t.duration = s.duration
        /\ t.mode = IF s.reverse THEN (IF o.opt = "s" THEN "SENDER" ELSE "RECEIVER")
                    ELSE IF s.bidirectional THEN "BIDIRECTIONAL"
                    ELSE IF o.opt = "c" THEN "SENDER" ELSE "RECEIVER"
        /\ t.sender_has_retransmits = (t.mode # "RECEIVER" /\ t.protocol = "tcp")
    BY <2>2, Names DEF SetRole, Towards, CheckSenderHasRetransmits
  <2> HIDE DEF t
  <2>4. \A y \in {"R", "bidir", "u", "t", "b", "b/"} : y \in H <=> y \in G OBVIOUS
  <2>5. RoleGiven(H) = o.opt
    BY <1>1, <1>3 DEF SettingsTold, RoleGiven
  <2>6. t.mode = ModeGiven(H)
    BY <1>1, <2>3, <2>4, <2>5 DEF SettingsTold, ModeGiven
  <2>7. SettingsTold(t, H)
    BY <1>1, <2>3, <2>4, <2>5, <2>6 DEF SettingsTold
  <2>8. FlagsTold(p.flags, H) BY <1>1, <2>4 DEF FlagsTold
  <2>9. Told([p EXCEPT !.set = t], H) BY <1>1, <2>3, <2>7, <2>8 DEF Told, Shape
  <2> QED BY <2>1, <2>9
<1> QED BY <1>2, <1>3

LEMMA ReverseTells ==
  ASSUME NEW p, NEW G, NEW o, Told(p, G), p.err = "IENONE", o.opt = "R"
  PROVE  Told(ParseDirection(p, o), G \cup {o.opt})
<1> DEFINE s == p.set
           t == SetReverse(s)
           H == G \cup {"R"}
<1>1. Shape(p) /\ SettingsTold(s, G) /\ FlagsTold(p.flags, G) BY DEF Told
<1>2. CASE s.bidirectional
  <2>1. ParseDirection(p, o) = Refuse(p, "IEREVERSEBIDIR") BY <1>2 DEF ParseDirection
  <2> QED BY <1>1, <2>1 DEF Refuse, Told, Shape
<1>3. CASE ~s.bidirectional
  <2>1. ParseDirection(p, o) = Flag([p EXCEPT !.set = t], Client) BY <1>3 DEF ParseDirection
  <2>2. DOMAIN s = SettingNames BY <1>1 DEF Shape
  <2>3. /\ DOMAIN t = SettingNames /\ t.role = s.role /\ t.reverse = TRUE
        /\ t.bidirectional = s.bidirectional /\ t.protocol = s.protocol /\ t.duration = s.duration
        /\ t.mode = CASE s.role = "s" -> "SENDER" [] s.role = "none" -> s.mode
                      [] OTHER -> "RECEIVER"
        /\ t.sender_has_retransmits = (t.mode # "RECEIVER" /\ t.protocol = "tcp")
    BY <2>2, Names DEF SetReverse, Towards, CheckSenderHasRetransmits
  <2> HIDE DEF t
  <2>4. \A y \in {"c", "s", "bidir", "u", "t", "b", "b/"} : y \in H <=> y \in G OBVIOUS
  <2>5. "R" \in H OBVIOUS
  <2>6. "bidir" \notin G BY <1>1, <1>3 DEF SettingsTold
  <2>7. RoleGiven(H) = RoleGiven(G) BY <2>4 DEF RoleGiven
  <2>8. t.mode = ModeGiven(H)
    BY <1>1, <2>3, <2>4, <2>5, <2>6, <2>7 DEF SettingsTold, ModeGiven, RoleGiven
  <2> HIDE DEF H
  <2>9. SettingsTold(t, H)
    BY <1>1, <2>3, <2>4, <2>5, <2>6, <2>7, <2>8 DEF SettingsTold
  <2>10. FlagsTold(p.flags \cup Client, H) BY <1>1, <2>4 DEF FlagsTold, Client
  <2>11. Told(Flag([p EXCEPT !.set = t], Client), H)
    BY <1>1, <2>3, <2>9, <2>10 DEF Told, Shape, Flag
  <2> QED BY <2>1, <2>11 DEF H
<1> QED BY <1>2, <1>3

LEMMA BidirectionalTells ==
  ASSUME NEW p, NEW G, NEW o, Told(p, G), p.err = "IENONE", o.opt = "bidir"
  PROVE  Told(ParseDirection(p, o), G \cup {o.opt})
<1> DEFINE s == p.set
           t == SetBidirectional(s)
           H == G \cup {"bidir"}
<1>1. Shape(p) /\ SettingsTold(s, G) /\ FlagsTold(p.flags, G) BY DEF Told
<1>2. CASE s.reverse
  <2>1. ParseDirection(p, o) = Refuse(p, "IEREVERSEBIDIR") BY <1>2 DEF ParseDirection
  <2> QED BY <1>1, <2>1 DEF Refuse, Told, Shape
<1>3. CASE ~s.reverse
  <2>1. ParseDirection(p, o) = Flag([p EXCEPT !.set = t], Client) BY <1>3 DEF ParseDirection
  <2>2. DOMAIN s = SettingNames BY <1>1 DEF Shape
  <2>3. /\ DOMAIN t = SettingNames /\ t.role = s.role /\ t.reverse = s.reverse
        /\ t.bidirectional = TRUE /\ t.protocol = s.protocol /\ t.duration = s.duration
        /\ t.mode = "BIDIRECTIONAL" /\ t.sender_has_retransmits = s.sender_has_retransmits
    BY <2>2, Names DEF SetBidirectional
  <2> HIDE DEF t
  <2>4. \A y \in {"c", "s", "R", "u", "t", "b", "b/"} : y \in H <=> y \in G OBVIOUS
  <2>5. "bidir" \in H OBVIOUS
  <2>6. "R" \notin G BY <1>1, <1>3 DEF SettingsTold
  <2>7. RoleGiven(H) = RoleGiven(G) BY <2>4 DEF RoleGiven
  <2>8. t.mode = ModeGiven(H) BY <2>3, <2>5 DEF ModeGiven
  <2>9. s.role = "c" => s.mode # "RECEIVER" BY <1>1, <2>6 DEF SettingsTold, ModeGiven
  <2> HIDE DEF H
  <2>10. SettingsTold(t, H)
    BY <1>1, <2>3, <2>4, <2>5, <2>6, <2>7, <2>8, <2>9 DEF SettingsTold, ModeGiven
  <2>11. FlagsTold(p.flags \cup Client, H) BY <1>1, <2>4 DEF FlagsTold, Client
  <2>12. Told(Flag([p EXCEPT !.set = t], Client), H)
    BY <1>1, <2>3, <2>10, <2>11 DEF Told, Shape, Flag
  <2> QED BY <2>1, <2>12 DEF H
<1> QED BY <1>2, <1>3

LEMMA UdpTells ==
  ASSUME NEW p, NEW G, NEW o, Told(p, G), p.err = "IENONE", o.opt = "u"
  PROVE  Told(ParseRate(p, o), G \cup {o.opt})
<1> DEFINE s == p.set
           t == SetProtocol(s, "udp")
           H == G \cup {"u"}
<1>1. Shape(p) /\ SettingsTold(s, G) /\ FlagsTold(p.flags, G) BY DEF Told
<1>2. ParseRate(p, o) = Flag([p EXCEPT !.set = t], Client) BY DEF ParseRate
<1>3. DOMAIN s = SettingNames BY <1>1 DEF Shape
<1>4. /\ DOMAIN t = SettingNames /\ t.role = s.role /\ t.reverse = s.reverse
      /\ t.bidirectional = s.bidirectional /\ t.protocol = "udp" /\ t.duration = s.duration
      /\ t.mode = s.mode
      /\ t.sender_has_retransmits = (t.mode # "RECEIVER" /\ t.protocol = "tcp")
  BY <1>3, Names DEF SetProtocol, CheckSenderHasRetransmits
<1> HIDE DEF t
<1>5. \A y \in {"c", "s", "R", "bidir", "t", "b", "b/"} : y \in H <=> y \in G OBVIOUS
<1>6. "u" \in H OBVIOUS
<1>7. RoleGiven(H) = RoleGiven(G) /\ ModeGiven(H) = ModeGiven(G)
  BY <1>5 DEF RoleGiven, ModeGiven
<1> HIDE DEF H
<1>8. SettingsTold(t, H) BY <1>1, <1>4, <1>5, <1>6, <1>7 DEF SettingsTold
<1>9. FlagsTold(p.flags \cup Client, H) BY <1>1, <1>5 DEF FlagsTold, Client
<1>10. Told(Flag([p EXCEPT !.set = t], Client), H)
  BY <1>1, <1>4, <1>8, <1>9 DEF Told, Shape, Flag
<1> QED BY <1>2, <1>10 DEF H

LEMMA RateTells ==
  ASSUME NEW p, NEW G, NEW o, Told(p, G), p.err = "IENONE", o.opt \in {"b", "b/"}
  PROVE  Told(ParseRate(p, o), G \cup {o.opt})
<1> DEFINE s == p.set
           H == G \cup {o.opt}
           set(field) == Flag([p EXCEPT !.set = [@ EXCEPT ![field] = o.arg]], {"rate", "client"})
<1>1. Shape(p) /\ SettingsTold(s, G) /\ FlagsTold(p.flags, G) BY DEF Told
<1>2. /\ \A y \in {"c", "s", "R", "bidir", "u", "t"} : y \in H <=> y \in G
      /\ H \cap {"b", "b/"} # {}
  OBVIOUS
<1>3. RoleGiven(H) = RoleGiven(G) /\ ModeGiven(H) = ModeGiven(G)
  BY <1>2 DEF RoleGiven, ModeGiven
<1> HIDE DEF H
<1>4. ASSUME NEW field \in {"rate", "burst"} PROVE Told(set(field), H)
  <2> DEFINE t == [s EXCEPT ![field] = o.arg]
  <2>1. /\ DOMAIN t = SettingNames /\ t.role = s.role /\ t.reverse = s.reverse
        /\ t.bidirectional = s.bidirectional /\ t.protocol = s.protocol /\ t.duration = s.duration
        /\ t.mode = s.mode /\ t.sender_has_retransmits = s.sender_has_retransmits
    BY <1>1, Names DEF Shape
  <2>2. set(field) = Flag([p EXCEPT !.set = t], {"rate", "client"}) OBVIOUS
  <2> HIDE DEF t
  <2>3. SettingsTold(t, H) BY <1>1, <1>2, <1>3, <2>1 DEF SettingsTold
  <2>4. FlagsTold(p.flags \cup {"rate", "client"}, H) BY <1>1, <1>2 DEF FlagsTold
  <2>5. Told(Flag([p EXCEPT !.set = t], {"rate", "client"}), H)
    BY <1>1, <2>1, <2>3, <2>4 DEF Told, Shape, Flag
  <2> QED BY <2>2, <2>5
<1>5. ParseRate(p, o) \in {set("rate"), set("burst"), Refuse(p, "IEBURST")}
  <2>1. CASE o.opt = "b"
    <3>1. ParseRate(p, o) = Flag([p EXCEPT !.set.rate = o.arg], {"rate", "client"})
      BY <2>1 DEF ParseRate
    <3> QED BY <3>1
  <2>2. CASE o.opt = "b/"
    <3> DEFINE n == Number("burst", 1, 1000, "IEBURST", {"rate", "client"})
    <3>1. ParseRate(p, o) = ParseNumber(p, o, n) BY <2>2 DEF ParseRate
    <3>2. n.field = "burst" /\ n.err = "IEBURST" /\ n.flags = {"rate", "client"} BY DEF Number
    <3> HIDE DEF n
    <3> QED BY <3>1, <3>2, Zenon DEF ParseNumber
  <2> QED BY <2>1, <2>2
<1>6. Told(Refuse(p, "IEBURST"), H) BY <1>1 DEF Told, Refuse, Shape
<1>7. Told(set("rate"), H) /\ Told(set("burst"), H) BY <1>4
<1> HIDE DEF set
<1> QED BY <1>5, <1>6, <1>7 DEF H

LEMMA DurationTells ==
  ASSUME NEW p, NEW G, NEW o, Told(p, G), p.err = "IENONE", o.opt = "t"
  PROVE  Told(ParseEnd(p, o), G \cup {o.opt})
<1> DEFINE s == p.set
           t == [s EXCEPT !["duration"] = o.arg]
           H == G \cup {"t"}
           flags == {"duration", "client"}
<1>1. Shape(p) /\ SettingsTold(s, G) /\ FlagsTold(p.flags, G) BY DEF Told
<1>2. ParseEnd(p, o) \in {Flag([p EXCEPT !.set = t], flags), Refuse(p, "IEDURATION")}
  <2> DEFINE n == Number("duration", 0, 86400, "IEDURATION", flags)
  <2>1. ParseEnd(p, o) = ParseNumber(p, o, n) BY DEF ParseEnd
  <2>2. n.field = "duration" /\ n.err = "IEDURATION" /\ n.flags = flags BY DEF Number
  <2> HIDE DEF n
  <2> QED BY <2>1, <2>2, Zenon DEF ParseNumber
<1>3. /\ DOMAIN t = SettingNames /\ t.role = s.role /\ t.reverse = s.reverse
      /\ t.bidirectional = s.bidirectional /\ t.protocol = s.protocol
      /\ t.mode = s.mode /\ t.sender_has_retransmits = s.sender_has_retransmits
  BY <1>1, Names DEF Shape
<1> HIDE DEF t
<1>4. \A y \in {"c", "s", "R", "bidir", "u", "b", "b/"} : y \in H <=> y \in G OBVIOUS
<1>5. "t" \in H OBVIOUS
<1>6. RoleGiven(H) = RoleGiven(G) /\ ModeGiven(H) = ModeGiven(G)
  BY <1>4 DEF RoleGiven, ModeGiven
<1> HIDE DEF H
<1>7. SettingsTold(t, H) BY <1>1, <1>3, <1>4, <1>5, <1>6 DEF SettingsTold
<1>8. FlagsTold(p.flags \cup flags, H) BY <1>1, <1>4, <1>5 DEF FlagsTold
<1>9. Told(Flag([p EXCEPT !.set = t], flags), H)
  BY <1>1, <1>3, <1>7, <1>8 DEF Told, Shape, Flag
<1>10. Told(Refuse(p, "IEDURATION"), H) BY <1>1 DEF Told, Refuse, Shape
<1> QED BY <1>2, <1>9, <1>10 DEF H

----------------------------------------------------------------------------
LEMMA StorePlain ==
  ASSUME NEW p, Shape(p), NEW field \in SettingNames \ TestSettings, NEW v
  PROVE  Plain(p, [p EXCEPT !.set = [@ EXCEPT ![field] = v]])
<1> DEFINE s == [p.set EXCEPT ![field] = v]
<1>1. DOMAIN s = SettingNames /\ \A k \in TestSettings : s[k] = p.set[k]
  <2>1. \A k \in TestSettings : k \in SettingNames BY Names DEF TestSettings
  <2> QED BY <2>1 DEF Shape
<1> HIDE DEF s
<1>2. Plain(p, [p EXCEPT !.set = s]) BY <1>1 DEF Plain, Shape
<1> QED BY <1>2 DEF s

LEMMA RefusePlain == ASSUME NEW p, Shape(p), NEW err PROVE Plain(p, Refuse(p, err))
BY DEF Refuse, Plain, Shape

LEMMA SamePlain == ASSUME NEW p, Shape(p) PROVE Plain(p, p)
BY DEF Plain

LEMMA PlainNames ==
  {"server_port", "interval", "limit_interval", "bytes", "blocks", "num_streams",
   "socket_bufsize", "bind_port", "mss", "tos", "omit", "file", "idle_timeout", "rcv_timeout"}
    \subseteq SettingNames \ TestSettings
BY Names DEF TestSettings

LEMMA GeneralPlain ==
  ASSUME NEW p, Shape(p), NEW o, o.opt \in {"p", "i", "1", "V"} PROVE Plain(p, ParseGeneral(p, o))
<1>1. CASE o.opt = "p"
  <2>1. ParseGeneral(p, o) = ParseNumber(p, o, Number("server_port", 1, 65535, "IEBADPORT", {}))
    BY <1>1 DEF ParseGeneral
  <2> QED BY <2>1, NumberPlain, PlainNames
<1>2. CASE o.opt = "i" /\ o.arg = 0
  <2>1. ParseGeneral(p, o) = [p EXCEPT !.set = [@ EXCEPT !["interval"] = 0]]
    BY <1>2 DEF ParseGeneral
  <2> QED BY <2>1, StorePlain, PlainNames
<1>3. CASE o.opt = "i" /\ o.arg # 0
  <2>1. ParseGeneral(p, o) = ParseNumber(p, o, Number("interval", 1, 600, "IEINTERVAL", {}))
    BY <1>3 DEF ParseGeneral
  <2> QED BY <2>1, NumberPlain, PlainNames
<1>4. CASE o.opt = "1"
  <2>1. ParseGeneral(p, o) = Flag(p, Server) BY <1>4 DEF ParseGeneral
  <2> QED BY <2>1, FlagPlain DEF Server
<1>5. CASE o.opt = "V"
  <2>1. ParseGeneral(p, o) = p BY <1>5 DEF ParseGeneral
  <2> QED BY <2>1, SamePlain
<1> QED BY <1>1, <1>2, <1>3, <1>4, <1>5

LEMMA RatePlain ==
  ASSUME NEW p, Shape(p), NEW o, o.opt \in {"server-bitrate-limit", "sctp"}
  PROVE  Plain(p, ParseRate(p, o))
<1>1. CASE o.opt = "server-bitrate-limit" /\ o.arg = 0
  <2> DEFINE q == [p EXCEPT !.set = [@ EXCEPT !["limit_interval"] = 0]]
  <2>1. ParseRate(p, o) = Flag(q, Server) BY <1>1 DEF ParseRate
  <2>2. Plain(p, q) BY StorePlain, PlainNames
  <2> HIDE DEF q
  <2>3. Plain(q, Flag(q, Server)) BY <2>2, FlagPlain DEF Plain, Server
  <2>4. Flag(q, Server).err = q.err BY <2>2 DEF Flag, Plain, Shape
  <2> QED BY <2>1, <2>2, <2>3, <2>4 DEF Plain
<1>2. CASE o.opt = "server-bitrate-limit" /\ o.arg # 0
  <2>1. ParseRate(p, o)
          = ParseNumber(p, o, Number("limit_interval", 1, 600, "IETOTALINTERVAL", Server))
    BY <1>2 DEF ParseRate
  <2> QED BY <2>1, NumberPlain, PlainNames DEF Server
<1>3. CASE o.opt = "sctp"
  <2>1. ParseRate(p, o) = Refuse(p, "IEUNIMP") BY <1>3 DEF ParseRate
  <2> QED BY <2>1, RefusePlain
<1> QED BY <1>1, <1>2, <1>3

LEMMA EndPlain ==
  ASSUME NEW p, Shape(p), NEW o, o.opt \in {"n", "k", "l"}
  PROVE  Plain(p, ParseEnd(p, o))
<1>1. CASE o.opt = "n"
  <2>1. ParseEnd(p, o) = ParseNumber(p, o, Number("bytes", 0, NoLimit, "IENONE", Client))
    BY <1>1 DEF ParseEnd
  <2> QED BY <2>1, NumberPlain, PlainNames DEF Client
<1>2. CASE o.opt = "k"
  <2>1. ParseEnd(p, o) = ParseNumber(p, o, Number("blocks", 0, NoLimit, "IENONE", Client))
    BY <1>2 DEF ParseEnd
  <2> QED BY <2>1, NumberPlain, PlainNames DEF Client
<1>3. CASE o.opt = "l"
  <2>1. ParseEnd(p, o) = Flag([p EXCEPT !.blksize = o.arg], Client) BY <1>3 DEF ParseEnd
  <2>2. Plain(p, Flag([p EXCEPT !.blksize = o.arg], Client)) BY DEF Plain, Shape, Flag, Client
  <2> QED BY <2>1, <2>2
<1> QED BY <1>1, <1>2, <1>3

LEMMA DirectionPlain ==
  ASSUME NEW p, Shape(p), NEW o, o.opt \in {"P", "w"}
  PROVE  Plain(p, ParseDirection(p, o))
<1>1. CASE o.opt = "P"
  <2>1. ParseDirection(p, o)
          = ParseNumber(p, o, Number("num_streams", -NoLimit, 128, "IENUMSTREAMS", Client))
    BY <1>1 DEF ParseDirection
  <2> QED BY <2>1, NumberPlain, PlainNames DEF Client
<1>2. CASE o.opt = "w"
  <2>1. ParseDirection(p, o)
          = ParseNumber(p, o, Number("socket_bufsize", -NoLimit, 512 * MB, "IEBUFSIZE", Client))
    BY <1>2 DEF ParseDirection
  <2> QED BY <2>1, NumberPlain, PlainNames DEF Client
<1> QED BY <1>1, <1>2

LEMMA SocketOptionPlain ==
  ASSUME NEW p, Shape(p), NEW o, o.opt \in {"cport", "M", "N", "S", "L", "Z"}
  PROVE  Plain(p, ParseSocketOption(p, o))
<1>1. CASE o.opt = "cport"
  <2>1. ParseSocketOption(p, o)
          = ParseNumber(p, o, Number("bind_port", 1, 65535, "IEBADPORT", {}))
    BY <1>1 DEF ParseSocketOption
  <2> QED BY <2>1, NumberPlain, PlainNames
<1>2. CASE o.opt = "M"
  <2>1. ParseSocketOption(p, o)
          = ParseNumber(p, o, Number("mss", -NoLimit, 9 * 1024, "IEMSS", Client))
    BY <1>2 DEF ParseSocketOption
  <2> QED BY <2>1, NumberPlain, PlainNames DEF Client
<1>3. CASE o.opt = "N"
  <2>1. ParseSocketOption(p, o) = Flag(p, Client) BY <1>3 DEF ParseSocketOption
  <2> QED BY <2>1, FlagPlain DEF Client
<1>4. CASE o.opt = "S"
  <2>1. ParseSocketOption(p, o) = ParseNumber(p, o, Number("tos", 0, 255, "IEBADTOS", Client))
    BY <1>4 DEF ParseSocketOption
  <2> QED BY <2>1, NumberPlain, PlainNames DEF Client
<1>5. CASE o.opt = "L"
  <2>1. ParseSocketOption(p, o) = Refuse(p, "IEUNIMP") BY <1>5 DEF ParseSocketOption
  <2> QED BY <2>1, RefusePlain
<1>6. CASE o.opt = "Z"
  <2>1. ParseSocketOption(p, o) = Refuse(p, "IENOSENDFILE") BY <1>6 DEF ParseSocketOption
  <2> QED BY <2>1, RefusePlain
<1> QED BY <1>1, <1>2, <1>3, <1>4, <1>5, <1>6

LEMMA MeasurementPlain ==
  ASSUME NEW p, Shape(p), NEW o, o.opt \in {"O", "F", "idle-timeout", "rcv-timeout"}
  PROVE  Plain(p, ParseMeasurement(p, o))
<1>1. CASE o.opt = "O"
  <2>1. ParseMeasurement(p, o) = ParseNumber(p, o, Number("omit", 0, 600, "IEOMIT", Client))
    BY <1>1 DEF ParseMeasurement
  <2> QED BY <2>1, NumberPlain, PlainNames DEF Client
<1>2. CASE o.opt = "F"
  <2>1. ParseMeasurement(p, o) = [p EXCEPT !.set.file = TRUE] BY <1>2 DEF ParseMeasurement
  <2>2. PICK v : v = TRUE OBVIOUS
  <2>3. [p EXCEPT !.set.file = TRUE] = [p EXCEPT !.set = [@ EXCEPT !["file"] = v]]
    BY <2>2, Zenon
  <2> QED BY <2>1, <2>3, StorePlain, PlainNames
<1>3. CASE o.opt = "idle-timeout"
  <2>1. ParseMeasurement(p, o)
          = ParseNumber(p, o, Number("idle_timeout", 1, 86400, "IEIDLETIMEOUT", Server))
    BY <1>3 DEF ParseMeasurement
  <2> QED BY <2>1, NumberPlain, PlainNames DEF Server
<1>4. CASE o.opt = "rcv-timeout"
  <2>1. ParseMeasurement(p, o)
          = ParseNumber(p, o, Number("rcv_timeout", 100, 86400000, "IERCVTIMEOUT", {}))
    BY <1>4 DEF ParseMeasurement
  <2> QED BY <2>1, NumberPlain, PlainNames
<1> QED BY <1>1, <1>2, <1>3, <1>4

LEMMA RestPlain == ASSUME NEW p, Shape(p), NEW o PROVE Plain(p, ParseRest(p, o))
<1>1. ParseRest(p, o) \in {Flag(p, Client), p, Refuse(p, "exit")} BY Zenon DEF ParseRest
<1> QED BY <1>1, FlagPlain, SamePlain, RefusePlain DEF Client

\* One turn of the loop.
LEMMA OptionTells ==
  ASSUME NEW p, NEW G, NEW o, Told(p, G) PROVE Told(ParseOption(p, o), G \cup {o.opt})
<1>1. CASE p.err # "IENONE"
  <2>1. ParseOption(p, o) = p BY <1>1 DEF ParseOption
  <2> QED BY <1>1, <2>1 DEF Told
<1>2. CASE p.err = "IENONE"
  <2> DEFINE q == [p EXCEPT !.at = @ + Words(o)]
             r == ParseOption(p, o)
  <2>1. /\ q.err = "IENONE" /\ Shape(q) /\ Told(q, G) BY <1>2 DEF Told, Shape
  <2>2. r = CASE o.opt \in {"p", "i", "1", "V"} -> ParseGeneral(q, o)
              [] o.opt \in {"s", "c"} -> ParseRole(q, o)
              [] o.opt \in {"u", "b", "b/", "server-bitrate-limit", "sctp"} -> ParseRate(q, o)
              [] o.opt \in {"t", "n", "k", "l"} -> ParseEnd(q, o)
              [] o.opt \in {"P", "R", "bidir", "w"} -> ParseDirection(q, o)
              [] o.opt \in {"cport", "M", "N", "S", "L", "Z"} -> ParseSocketOption(q, o)
              [] o.opt \in {"O", "F", "idle-timeout", "rcv-timeout"} -> ParseMeasurement(q, o)
              [] OTHER -> ParseRest(q, o)
    BY <1>2, Zenon DEF ParseOption
  <2> HIDE DEF q, r
  <2>3. CASE o.opt \in {"s", "c"}
    <3>1. r = ParseRole(q, o) BY <2>2, <2>3
    <3> QED BY <2>1, <2>3, <3>1, RoleTells DEF r
  <2>4. CASE o.opt \in {"u", "b", "b/"}
    <3>1. r = ParseRate(q, o) BY <2>2, <2>4
    <3> QED BY <2>1, <2>4, <3>1, UdpTells, RateTells DEF r
  <2>5. CASE o.opt = "t"
    <3>1. r = ParseEnd(q, o) BY <2>2, <2>5
    <3> QED BY <2>1, <2>5, <3>1, DurationTells DEF r
  <2>6. CASE o.opt \in {"R", "bidir"}
    <3>1. r = ParseDirection(q, o) BY <2>2, <2>6
    <3> QED BY <2>1, <2>6, <3>1, ReverseTells, BidirectionalTells DEF r
  <2>7. CASE o.opt \notin {"c", "s", "R", "bidir", "u", "t", "b", "b/"}
    <3>1. Plain(q, r)
      <4>1. CASE o.opt \in {"p", "i", "1", "V"}
        <5>1. r = ParseGeneral(q, o) BY <2>2, <4>1
        <5> QED BY <2>1, <4>1, <5>1, GeneralPlain
      <4>2. CASE o.opt \in {"server-bitrate-limit", "sctp"}
        <5>1. r = ParseRate(q, o) BY <2>2, <4>2
        <5> QED BY <2>1, <4>2, <5>1, RatePlain
      <4>3. CASE o.opt \in {"n", "k", "l"}
        <5>1. r = ParseEnd(q, o) BY <2>2, <4>3
        <5> QED BY <2>1, <4>3, <5>1, EndPlain
      <4>4. CASE o.opt \in {"P", "w"}
        <5>1. r = ParseDirection(q, o) BY <2>2, <4>4
        <5> QED BY <2>1, <4>4, <5>1, DirectionPlain
      <4>5. CASE o.opt \in {"cport", "M", "N", "S", "L", "Z"}
        <5>1. r = ParseSocketOption(q, o) BY <2>2, <4>5
        <5> QED BY <2>1, <4>5, <5>1, SocketOptionPlain
      <4>6. CASE o.opt \in {"O", "F", "idle-timeout", "rcv-timeout"}
        <5>1. r = ParseMeasurement(q, o) BY <2>2, <4>6
        <5> QED BY <2>1, <4>6, <5>1, MeasurementPlain
      <4>7. CASE o.opt \notin {"p", "i", "1", "V", "server-bitrate-limit", "sctp", "n", "k", "l",
                              "P", "w", "cport", "M", "N", "S", "L", "Z", "O", "F",
                              "idle-timeout", "rcv-timeout"}
        <5>1. r = ParseRest(q, o) BY <2>2, <2>7, <4>7
        <5> QED BY <2>1, <5>1, RestPlain
      <4> QED BY <4>1, <4>2, <4>3, <4>4, <4>5, <4>6, <4>7
    <3>2. Told(r, G \cup {o.opt}) BY <2>1, <2>7, <3>1, PlainTells
    <3> QED BY <3>2 DEF r
  <2> QED BY <2>3, <2>4, <2>5, <2>6, <2>7
<1> QED BY <1>1, <1>2

----------------------------------------------------------------------------
\* All turns, then the checks that follow them.
Letters(cmd, n) == {cmd[i].opt : i \in 1 .. n}

LEMMA BeginTells == ASSUME NEW from PROVE Told(Begin(from), {})
<1> DEFINE p == Begin(from)
<1>1. /\ DOMAIN p = {"set", "blksize", "flags", "err", "at"} /\ p.set = Defaults /\ p.flags = {}
  BY DEF Begin
<1>2. Shape(p) BY <1>1 DEF Shape, SettingNames
<1>3. /\ Defaults.role = "none" /\ Defaults.mode = "RECEIVER" /\ Defaults.reverse = FALSE
      /\ Defaults.bidirectional = FALSE /\ Defaults.protocol = "tcp" /\ Defaults.duration = 10
      /\ Defaults.sender_has_retransmits = FALSE
  BY DEF Defaults
<1>4. SettingsTold(Defaults, {}) BY <1>3 DEF SettingsTold, RoleGiven, ModeGiven
<1>5. FlagsTold({}, {}) BY DEF FlagsTold
<1> HIDE DEF p
<1>6. Told(p, {}) BY <1>1, <1>2, <1>4, <1>5 DEF Told
<1> QED BY <1>6 DEF p

LEMMA LoopTells ==
  ASSUME NEW cmd, NEW n \in Nat, DOMAIN cmd = 1 .. n, NEW from
  PROVE  Told(ParseOptions(cmd, from), Letters(cmd, n))
<1>1. PICK f : /\ Turns(cmd, Begin(from), n, f)
               /\ ParseOptions(cmd, from) = f[1 .. n]
  BY LoopIsTurns
<1> DEFINE Bad == {k \in Nat : k <= n /\ ~Told(f[1 .. k], Letters(cmd, k))}
<1>2. ASSUME Bad # {} PROVE FALSE
  <2>1. PICK k \in Bad : \A j \in Bad : k <= j
    <3>1. Bad \subseteq Nat OBVIOUS
    <3> HIDE DEF Bad
    <3> QED BY <1>2, <3>1, LeastNumber
  <2>2. k \in Nat /\ k <= n /\ ~Told(f[1 .. k], Letters(cmd, k)) BY <2>1
  <2>3. CASE k = 0
    <3>1. f[{}] = Begin(from)
      <4>1. Turns(cmd, Begin(from), n, f) BY <1>1
      <4> QED BY <4>1, TurnAt, Zenon
    <3>2. Letters(cmd, 0) = {} BY DEF Letters
    <3>3. 1 .. k = {} BY <2>3
    <3> QED BY <2>2, <2>3, <3>1, <3>2, <3>3, BeginTells
  <2>4. CASE k # 0
    <3>1. k \in 1 .. n /\ k - 1 \in Nat /\ k - 1 <= n /\ k - 1 \notin Bad BY <2>1, <2>2, <2>4
    <3>2. Told(f[1 .. (k - 1)], Letters(cmd, k - 1)) BY <3>1
    <3>3. f[1 .. k] = ParseOption(f[1 .. (k - 1)], cmd[k]) BY <1>1, <3>1, TurnAt
    <3>4. Letters(cmd, k) = Letters(cmd, k - 1) \cup {cmd[k].opt}
      <4>1. 1 .. k = (1 .. (k - 1)) \cup {k} BY <3>1
      <4> QED BY <4>1, Zenon DEF Letters
    <3>5. Told(f[1 .. k], Letters(cmd, k)) BY <3>2, <3>3, <3>4, OptionTells
    <3> QED BY <2>2, <3>5
  <2> QED BY <2>3, <2>4
<1>3. Told(f[1 .. n], Letters(cmd, n)) BY <1>2
<1> QED BY <1>1, <1>3

\* A command is read whole when optind is 1.
LEMMA AllRead ==
  ASSUME NEW T, NEW cmd \in Seq(T), cmd # <<>> PROVE Unread(cmd, 1) = cmd
<1> DEFINE later == {n \in DOMAIN cmd : StartsAt(cmd, n) >= 1}
           least == CHOOSE n \in later : \A m \in later : n <= m
<1>1. Len(cmd) \in Nat /\ DOMAIN cmd = 1 .. Len(cmd) /\ 1 \in DOMAIN cmd OBVIOUS
<1>2. StartsAt(cmd, 1) = 1
  <2> DEFINE none == SubSeq(cmd, 1, 1 - 1)
             term(f, S) == IF S = {} THEN 0
                           ELSE LET x == CHOOSE x \in S : \A y \in S : x >= y
                                IN f[S \ {x}] + Words(none[x])
             is(f) == f = [S \in SUBSET DOMAIN none |-> term(f, S)]
             chosen == CHOOSE f : is(f)
  <2>1. StartsAt(cmd, 1) = 1 + chosen[DOMAIN none]
    BY Zenon DEF StartsAt, FoldLeft, MapThenFoldSet, Max
  <2>2. DOMAIN none = {} OBVIOUS
  <2> HIDE DEF none
  <2>3. \E f : is(f)
    <3> DEFINE f == [S \in SUBSET DOMAIN none |-> 0]
    <3>1. \A S \in SUBSET DOMAIN none : S = {} BY <2>2
    <3>2. is(f) BY <3>1, Zenon
    <3> QED BY <3>2
  <2>4. is(chosen)
    <3> HIDE DEF is
    <3> QED BY <2>3
  <2> HIDE DEF chosen
  <2>5. chosen[{}] = 0 BY <2>2, <2>4, Zenon
  <2> QED BY <2>1, <2>2, <2>5
<1>3. 1 \in later /\ \A m \in later : 1 <= m BY <1>1, <1>2
<1>4. least = 1
  <2>1. \A x \in later : x \in Nat BY <1>1
  <2> HIDE DEF later
  <2>2. \A x \in later : (\A m \in later : x <= m) => x = 1 BY <1>3, <2>1
  <2> QED BY <1>3, <2>2, Zenon
<1>5. Unread(cmd, 1) = SubSeq(cmd, least, Len(cmd)) BY <1>3 DEF Unread
<1>6. SubSeq(cmd, 1, Len(cmd)) = cmd OBVIOUS
<1> QED BY <1>4, <1>5, <1>6

----------------------------------------------------------------------------
LEMMA CheckIs ==
  ASSUME NEW p, NEW wrong \in BOOLEAN, NEW err, err # "IENONE", "err" \in DOMAIN p,
         Check(p, wrong, err).err = "IENONE"
  PROVE  ~wrong /\ Check(p, wrong, err) = p
BY DEF Check, Refuse

LEMMA RoleChecked ==
  ASSUME NEW p, Shape(p), CheckRole(p).err = "IENONE"
  PROVE  /\ CheckRole(p) = p
         /\ p.set.role = "c" => "server" \notin p.flags
         /\ p.set.role = "s" => "client" \notin p.flags
         /\ p.set.role = "c" /\ p.set.file => p.set.protocol # "udp"
<1> DEFINE q == Check(p, p.set.role = "c" /\ "server" \in p.flags, "IESERVERONLY")
           r == Check(q, p.set.role = "s" /\ "client" \in p.flags, "IECLIENTONLY")
           t == Check(r, p.set.role = "c" /\ p.set.file /\ p.set.protocol = "udp",
                      "IEUDPFILETRANSFER")
<1>1. "err" \in DOMAIN p /\ "err" \in DOMAIN q /\ "err" \in DOMAIN r
  BY DEF Shape, Check, Refuse
<1>2. t.err = "IENONE" /\ t = CheckRole(p) BY Zenon DEF CheckRole
<1>3. ~(p.set.role = "c" /\ p.set.file /\ p.set.protocol = "udp") /\ t = r
  <2> HIDE DEF r
  <2> QED BY <1>1, <1>2, CheckIs
<1>4. r.err = "IENONE"
  <2> HIDE DEF r, t
  <2> QED BY <1>2, <1>3
<1>5. ~(p.set.role = "s" /\ "client" \in p.flags) /\ r = q
  <2> HIDE DEF q
  <2> QED BY <1>1, <1>4, CheckIs
<1>6. q.err = "IENONE"
  <2> HIDE DEF q, r
  <2> QED BY <1>4, <1>5
<1>7. ~(p.set.role = "c" /\ "server" \in p.flags) /\ q = p BY <1>1, <1>6, CheckIs
<1> HIDE DEF q, r, t
<1> QED BY <1>2, <1>3, <1>5, <1>7

\* Settings that are those of p but for some fields.
SameBut(p, q, fields) ==
  /\ Shape(q) /\ q.flags = p.flags
  /\ \A k \in SettingNames \ fields : q.set[k] = p.set[k]

LEMMA BlockSizeChecked ==
  ASSUME NEW p, Shape(p)
  PROVE  /\ SameBut(p, CheckBlockSize(p), {"blksize"})
         /\ CheckBlockSize(p).err = "IENONE" => p.err = "IENONE"
<1> DEFINE udp == p.set.protocol = "udp"
           size == IF p.blksize = 0 /\ ~udp THEN TcpBlockSize ELSE p.blksize
           large == (~udp /\ size <= 0) \/ size > MB
           odd == udp /\ size > 0 /\ (size < 16 \/ size > 65507)
           q == Check(p, large, "IEBLOCKSIZE")
           r == Check(q, odd, "IEUDPBLOCKSIZE")
<1>1. CheckBlockSize(p) = [r EXCEPT !.set.blksize = size] BY DEF CheckBlockSize
<1> HIDE DEF size, large, odd
<1>2. /\ Shape(q) /\ q.set = p.set /\ q.flags = p.flags /\ q.err \in {p.err, "IEBLOCKSIZE"}
  <2>1. q \in {p, Refuse(p, "IEBLOCKSIZE")} BY Zenon DEF Check
  <2> HIDE DEF q
  <2> QED BY <2>1 DEF Shape, Refuse
<1> HIDE DEF q
<1>3. /\ Shape(r) /\ r.set = q.set /\ r.flags = q.flags /\ r.err \in {q.err, "IEUDPBLOCKSIZE"}
  <2>1. r \in {q, Refuse(q, "IEUDPBLOCKSIZE")} BY Zenon DEF Check
  <2> HIDE DEF r
  <2> QED BY <1>2, <2>1 DEF Shape, Refuse
<1> HIDE DEF r
<1> DEFINE s == [r.set EXCEPT !.blksize = size]
           t == [r EXCEPT !.set = s]
<1>4. DOMAIN s = SettingNames /\ \A k \in SettingNames \ {"blksize"} : s[k] = r.set[k]
  BY <1>3 DEF Shape
<1>5. CheckBlockSize(p) = t BY <1>1, Zenon
<1> HIDE DEF s
<1>6. SameBut(r, t, {"blksize"}) /\ t.err = r.err BY <1>3, <1>4 DEF SameBut, Shape
<1> HIDE DEF t
<1>7. t.err = "IENONE" => p.err = "IENONE" BY <1>2, <1>3, <1>6
<1> QED BY <1>2, <1>3, <1>5, <1>6, <1>7 DEF SameBut

LEMMA DefaultRateSet ==
  ASSUME NEW p, Shape(p)
  PROVE  LET q == SetDefaultRate(p)
         IN /\ q.err = p.err /\ SameBut(p, q, {"rate"})
            /\ "rate" \notin p.flags /\ p.set.protocol = "udp" => q.set.rate = UdpRate
<1>1. CASE "rate" \in p.flags
  <2>1. SetDefaultRate(p) = p BY <1>1 DEF SetDefaultRate
  <2> QED BY <1>1, <2>1 DEF SameBut
<1>2. CASE "rate" \notin p.flags
  <2> DEFINE v == IF p.set.protocol = "udp" THEN UdpRate ELSE 0
             s == [p.set EXCEPT !.rate = v]
             q == [p EXCEPT !.set = s]
  <2>1. SetDefaultRate(p) = q BY <1>2, Zenon DEF SetDefaultRate
  <2>2. /\ DOMAIN s = SettingNames /\ \A k \in SettingNames \ {"rate"} : s[k] = p.set[k]
        /\ s.rate = v
    BY Names DEF Shape
  <2>3. p.set.protocol = "udp" => v = UdpRate OBVIOUS
  <2> HIDE DEF s, v
  <2>4. q.err = p.err /\ SameBut(p, q, {"rate"}) /\ q.set.rate = v
    BY <2>2 DEF SameBut, Shape
  <2> QED BY <2>1, <2>3, <2>4
<1> QED BY <1>1, <1>2

LEMMA EndChecked ==
  ASSUME NEW p, Shape(p), NEW size, CheckEnd(p, size).err = "IENONE"
  PROVE  LET q == CheckEnd(p, size)
             sized == q.set.bytes # 0 \/ q.set.blocks # 0
         IN /\ p.err = "IENONE" /\ SameBut(p, q, {"bytes", "duration"})
            /\ ~TwoEnds("duration" \in p.flags, q.set)
            /\ sized /\ "duration" \notin p.flags => q.set.duration = 0
            /\ ~sized => q.set.duration = p.set.duration
<1> DEFINE timed == "duration" \in p.flags
           whole == /\ ~(p.set.bytes # 0 \/ p.set.blocks # 0) /\ ~timed /\ p.set.file
                    /\ p.set.role = "c"
           q == IF whole THEN [p EXCEPT !.set.bytes = size] ELSE p
           sized == q.set.bytes # 0 \/ q.set.blocks # 0
           r == IF sized /\ ~timed THEN [q EXCEPT !.set.duration = 0] ELSE q
<1>1. CheckEnd(p, size) = Check(r, TwoEnds(timed, r.set), "IEENDCONDITIONS")
  BY Zenon DEF CheckEnd
<1>2. SameBut(p, q, {"bytes"}) /\ q.err = p.err
  <2> HIDE DEF whole
  <2>1. CASE ~whole
    <3>1. q = p BY <2>1
    <3> HIDE DEF q
    <3> QED BY <3>1 DEF SameBut
  <2>2. CASE whole
    <3> DEFINE s == [p.set EXCEPT !.bytes = size]
    <3>1. DOMAIN s = SettingNames /\ \A k \in SettingNames \ {"bytes"} : s[k] = p.set[k]
      BY DEF Shape
    <3>2. q = [p EXCEPT !.set = s] BY <2>2, Zenon
    <3> HIDE DEF q, s
    <3> QED BY <3>1, <3>2 DEF SameBut, Shape
  <2> QED BY <2>1, <2>2
<1> HIDE DEF q, timed
<1>3. /\ Shape(r) /\ r.flags = q.flags /\ r.err = q.err
      /\ \A k \in SettingNames \ {"duration"} : r.set[k] = q.set[k]
      /\ sized /\ ~timed => r.set.duration = 0
      /\ ~sized => r.set.duration = q.set.duration
  <2> HIDE DEF sized
  <2>1. Shape(q) BY <1>2 DEF SameBut
  <2>2. CASE ~(sized /\ ~timed)
    <3>1. r = q BY <2>2
    <3> HIDE DEF r
    <3> QED BY <2>1, <2>2, <3>1
  <2>3. CASE sized /\ ~timed
    <3> DEFINE s == [q.set EXCEPT !.duration = 0]
    <3>1. /\ DOMAIN s = SettingNames /\ \A k \in SettingNames \ {"duration"} : s[k] = q.set[k]
          /\ s.duration = 0
      BY <2>1, Names DEF Shape
    <3>2. r = [q EXCEPT !.set = s] BY <2>3, Zenon
    <3> HIDE DEF r, s
    <3> QED BY <2>1, <2>3, <3>1, <3>2 DEF Shape
  <2> QED BY <2>2, <2>3
<1>4. r.set.bytes = q.set.bytes /\ r.set.blocks = q.set.blocks /\ q.set.duration = p.set.duration
  BY <1>2, <1>3, Names DEF SameBut
<1>5. /\ SameBut(p, r, {"bytes", "duration"}) /\ r.err = p.err
      /\ LET limited == r.set.bytes # 0 \/ r.set.blocks # 0
         IN /\ limited /\ ~timed => r.set.duration = 0
            /\ ~limited => r.set.duration = p.set.duration
  <2> HIDE DEF r
  <2> QED BY <1>2, <1>3, <1>4 DEF SameBut
<1> HIDE DEF r
<1>6. TwoEnds(timed, r.set) \in BOOLEAN /\ "err" \in DOMAIN r
  BY <1>3 DEF TwoEnds, Shape
<1>7. ~TwoEnds(timed, r.set) /\ CheckEnd(p, size) = r BY <1>1, <1>6, CheckIs
<1> QED BY <1>5, <1>7 DEF timed

----------------------------------------------------------------------------
\* What AcceptedArgumentsAgree says of one parse from the first argument.
Agrees(s, G) ==
  LET sized == (IF s.bytes # 0 THEN 1 ELSE 0) + (IF s.blocks # 0 THEN 1 ELSE 0)
  IN /\ s.role = (IF "c" \in G THEN "c" ELSE "s")
     /\ s.mode = IF "bidir" \in G THEN "BIDIRECTIONAL"
                 ELSE IF "c" \in G /\ ~("R" \in G) THEN "SENDER" ELSE "RECEIVER"
     /\ s.sender_has_retransmits = (s.mode # "RECEIVER" /\ ~("u" \in G))
     /\ sized + (IF s.duration # 0 THEN 1 ELSE 0) <= 1
     /\ sized = 0 /\ ~("t" \in G) => s.duration = Defaults.duration
     /\ s.protocol = "udp" => ~s.file /\ (s.rate = UdpRate \/ "b" \in G \/ "b/" \in G)

LEMMA CheckedAgrees ==
  ASSUME NEW p, NEW G, Told(p, G), NEW size,
         ResetGetopt(CheckEnd(SetDefaultRate(CheckBlockSize(CheckRole(p))), size)).err = "IENONE"
  PROVE  LET r == ResetGetopt(CheckEnd(SetDefaultRate(CheckBlockSize(CheckRole(p))), size))
         IN r.at = 0 /\ Agrees(r.set, G)
<1> DEFINE a == CheckRole(p)
           b == CheckBlockSize(a)
           c == SetDefaultRate(b)
           d == CheckEnd(c, size)
           r == ResetGetopt(d)
<1>0. Shape(p) BY DEF Told
<1>1. Shape(a)
  <2>1. ASSUME NEW q, Shape(q), NEW wrong, NEW err PROVE Shape(Check(q, wrong, err))
    BY <2>1 DEF Check, Refuse, Shape
  <2> QED BY <1>0, <2>1 DEF CheckRole
<1>2. r.err = "IENONE" BY Zenon
<1> HIDE DEF a, b, c, d
<1>3. Shape(b) /\ Shape(c) BY <1>1, BlockSizeChecked, DefaultRateSet DEF b, c, SameBut
<1>4. d.err = "IENONE" BY <1>2 DEF ResetGetopt
<1>5. /\ c.err = "IENONE" /\ SameBut(c, d, {"bytes", "duration"})
      /\ ~TwoEnds("duration" \in c.flags, d.set)
      /\ (d.set.bytes # 0 \/ d.set.blocks # 0) /\ "duration" \notin c.flags => d.set.duration = 0
      /\ ~(d.set.bytes # 0 \/ d.set.blocks # 0) => d.set.duration = c.set.duration
  BY <1>3, <1>4, EndChecked DEF d
<1>6. /\ b.err = "IENONE" /\ SameBut(b, c, {"rate"})
      /\ "rate" \notin b.flags /\ b.set.protocol = "udp" => c.set.rate = UdpRate
  BY <1>3, <1>5, DefaultRateSet DEF c
<1>7. a.err = "IENONE" /\ SameBut(a, b, {"blksize"}) BY <1>1, <1>6, BlockSizeChecked DEF b
<1>8. /\ a = p
      /\ p.set.role = "c" => "server" \notin p.flags
      /\ p.set.role = "s" => "client" \notin p.flags
      /\ p.set.role = "c" /\ p.set.file => p.set.protocol # "udp"
  BY <1>0, <1>7, RoleChecked DEF a
<1>9. SettingsTold(p.set, G) /\ FlagsTold(p.flags, G) BY <1>7, <1>8 DEF Told
<1>10. /\ d.flags = p.flags /\ c.flags = p.flags /\ b.flags = p.flags /\ Shape(d)
       /\ d.set.role = p.set.role /\ d.set.mode = p.set.mode
       /\ d.set.sender_has_retransmits = p.set.sender_has_retransmits
       /\ d.set.protocol = p.set.protocol /\ d.set.file = p.set.file
       /\ c.set.duration = p.set.duration /\ b.set.protocol = p.set.protocol
       /\ d.set.rate = c.set.rate
  BY <1>5, <1>6, <1>7, <1>8, Names DEF SameBut
<1>11. r.at = 0 /\ r.set = d.set /\ d.set.role # "none"
  <2>1. r = Check([d EXCEPT !.at = 0], d.set.role = "none", "IENOROLE")
    BY <1>4 DEF ResetGetopt
  <2> HIDE DEF r
  <2> QED BY <1>2, <1>10, <2>1 DEF Check, Refuse, Shape
<1> HIDE DEF r
<1>12. Agrees(d.set, G)
  <2> DEFINE s == d.set
  <2>1. s.role = (IF "c" \in G THEN "c" ELSE "s")
    BY <1>9, <1>10, <1>11 DEF SettingsTold, RoleGiven
  <2>2. s.role = "s" => G \cap {"R", "bidir", "u"} = {}
    BY <1>8, <1>9, <1>10 DEF FlagsTold
  <2>3. s.mode = IF "bidir" \in G THEN "BIDIRECTIONAL"
                 ELSE IF "c" \in G /\ ~("R" \in G) THEN "SENDER" ELSE "RECEIVER"
    BY <1>9, <1>10, <1>11, <2>1, <2>2 DEF SettingsTold, ModeGiven
  <2>4. s.sender_has_retransmits = (s.mode # "RECEIVER" /\ ~("u" \in G))
    BY <1>9, <1>10, <2>1, <2>2, <2>3 DEF SettingsTold
  <2>5. /\ "duration" \in c.flags => s.bytes = 0 /\ s.blocks = 0
        /\ s.bytes = 0 \/ s.blocks = 0
    BY <1>5 DEF TwoEnds
  <2>6. (s.bytes # 0 \/ s.blocks # 0) => s.duration = 0
    BY <1>5, <2>5
  <2>7. s.bytes = 0 /\ s.blocks = 0 /\ "t" \notin G => s.duration = Defaults.duration
    BY <1>5, <1>9, <1>10 DEF SettingsTold, Defaults
  <2>8. s.protocol = "udp" => ~s.file /\ (s.rate = UdpRate \/ "b" \in G \/ "b/" \in G)
    <3>1. s.protocol = "udp" => s.role = "c"
      BY <1>9, <1>10, <2>1, <2>2 DEF SettingsTold
    <3>2. s.protocol = "udp" => ~s.file BY <1>8, <1>10, <3>1
    <3>3. s.protocol = "udp" => s.rate = UdpRate \/ "b" \in G \/ "b/" \in G
      BY <1>6, <1>9, <1>10 DEF FlagsTold
    <3> QED BY <3>2, <3>3
  <2> HIDE DEF s
  <2>9. Agrees(s, G) BY <2>1, <2>3, <2>4, <2>5, <2>6, <2>7, <2>8 DEF Agrees
  <2> QED BY <2>9 DEF s
<1>13. r.at = 0 /\ Agrees(r.set, G) BY <1>11, <1>12
<1> QED BY <1>13, Zenon DEF a, b, c, d, r

\* One parse, from the position of getopt_long on.
LEMMA ParsedAgrees ==
  ASSUME NEW S, NEW cmd \in Seq(S), cmd # <<>>, NEW from, NEW size,
         Parsed(cmd, from, size).err = "IENONE"
  PROVE  /\ Parsed(cmd, from, size).at = 0
         /\ from = 1 => Agrees(Parsed(cmd, from, size).set, Letters(cmd, Len(cmd)))
<1> DEFINE first == Unread(cmd, from)
           begin == IF first = <<>> THEN from ELSE StartsAt(cmd, Len(cmd) - Len(first) + 1)
           p == ParseOptions(first, begin)
           end == IF p.err = "IENONE" THEN [p EXCEPT !.at = IF @ > from THEN @ ELSE from] ELSE p
           r == ResetGetopt(CheckEnd(SetDefaultRate(CheckBlockSize(CheckRole(end))), size))
<1>1. Parsed(cmd, from, size) = r BY Zenon DEF Parsed
<1>2. r.err = "IENONE"
  <2> HIDE DEF r
  <2> QED BY <1>1
<1> HIDE DEF begin
<1>3. first \in Seq(S)
  <2> DEFINE later == {n \in DOMAIN cmd : StartsAt(cmd, n) >= from}
             least == CHOOSE n \in later : \A m \in later : n <= m
  <2>1. first = IF later = {} THEN <<>> ELSE SubSeq(cmd, least, Len(cmd)) BY Zenon DEF Unread
  <2>2. CASE later = {} BY <2>1, <2>2
  <2>3. CASE later # {}
    <3>1. later \subseteq DOMAIN cmd /\ later \subseteq Nat OBVIOUS
    <3> HIDE DEF later, first
    <3>2. \E n \in later : \A m \in later : n <= m BY <2>3, <3>1, LeastNumber
    <3>3. least \in later BY <3>2, Zenon
    <3> HIDE DEF least
    <3>4. least \in 1 .. Len(cmd) BY <3>1, <3>3
    <3> QED BY <2>1, <2>3, <3>4
  <2> QED BY <2>2, <2>3
<1> DEFINE G == Letters(first, Len(first))
<1>4. Told(p, G)
  <2> HIDE DEF first
  <2> QED BY <1>3, LoopTells
<1> HIDE DEF p
<1>5. Told(end, G)
  <2> HIDE DEF G
  <2> QED BY <1>4 DEF Told, Shape
<1>6. r.at = 0 /\ Agrees(r.set, G)
  <2> HIDE DEF end, G
  <2> QED BY <1>5, <1>2, CheckedAgrees
<1>7. from = 1 => first = cmd BY AllRead
<1> HIDE DEF r, first
<1> QED BY <1>1, <1>6, <1>7

\* The form of the app makes a command.
LEMMA FormIsCommand ==
  ASSUME NEW f PROVE \E S : FormArguments(f) \in Seq(S)
<1> DEFINE S == {O("c", 0), O("p", f.port), O("t", f.duration), O("i", 10 * f.interval),
                 O("P", f.parallel), O("R", 0), O("bidir", 0), O("u", 0), O("b", f.bandwidth),
                 O("d", 0)}
<1>1. /\ <<O("c", 0), O("p", f.port), O("t", f.duration), O("i", 10 * f.interval)>> \in Seq(S)
      /\ <<O("P", f.parallel)>> \in Seq(S) /\ <<O("R", 0)>> \in Seq(S)
      /\ <<O("bidir", 0)>> \in Seq(S) /\ <<O("u", 0), O("b", f.bandwidth)>> \in Seq(S)
      /\ <<O("d", 0)>> \in Seq(S)
  OBVIOUS
<1> HIDE DEF S
<1>2. ASSUME NEW c, NEW s \in Seq(S) PROVE If(c, s) \in Seq(S)
  BY DEF If
<1>3. ASSUME NEW s \in Seq(S), NEW t \in Seq(S) PROVE s \o t \in Seq(S)
  OBVIOUS
<1>4. FormArguments(f) \in Seq(S) BY <1>1, <1>2, <1>3 DEF FormArguments
<1> QED BY <1>4

\* A parse is of what a user typed or the form made.
LEMMA ParseAgrees ==
  ASSUME NEW S, NEW cmd \in Seq(S), NEW size, ParseArguments(cmd, size)
  PROVE  AcceptedArgumentsAgree'
<1> DEFINE from == From(getopt)
           p == Parsed(cmd, from, size)
<1>1. /\ getopt' = p.at
      /\ parsed' = [cmd |-> cmd, from |-> from, err |-> p.err, set |-> p.set]
  BY Zenon DEF ParseArguments
<1> HIDE DEF from, p
<1>2. parsed'.cmd = cmd /\ parsed'.from = from /\ parsed'.err = p.err /\ parsed'.set = p.set
  BY <1>1
<1> SUFFICES ASSUME cmd # <<>>, p.err = "IENONE"
             PROVE  /\ getopt' = 0
                    /\ from = 1 => Agrees(p.set, Letters(cmd, Len(cmd)))
  <2>1. \A x : Given(cmd, x) <=> x \in Letters(cmd, Len(cmd)) BY DEF Given, Letters
  <2> QED BY <1>2, <2>1 DEF AcceptedArgumentsAgree, Agrees
<1>3. p.at = 0 /\ (from = 1 => Agrees(p.set, Letters(cmd, Len(cmd))))
  BY ParsedAgrees DEF p
<1> QED BY <1>1, <1>3

\* Accepted arguments agree, whatever is typed or entered, in any order, any number
\* of times in one process, and whichever parses were refused before.
THEOREM AcceptedArgumentsAgreeAlways == ArgumentsSpec => []AcceptedArgumentsAgree
<1>1. ArgumentsInit => AcceptedArgumentsAgree
  <2>1. ArgumentsInit => parsed.cmd = <<>> BY DEF ArgumentsInit, Nothing
  <2> QED BY <2>1, Zenon DEF AcceptedArgumentsAgree
<1>2. AcceptedArgumentsAgree /\ [ArgumentsNext]_argumentVars => AcceptedArgumentsAgree'
  <2> SUFFICES ASSUME AcceptedArgumentsAgree, [ArgumentsNext]_argumentVars
               PROVE  AcceptedArgumentsAgree'
    OBVIOUS
  <2>1. ASSUME NEW size \in FileSizes, NEW f \in Forms, ParseArguments(FormArguments(f), size)
        PROVE  AcceptedArgumentsAgree'
    <3>1. PICK S : FormArguments(f) \in Seq(S) BY FormIsCommand
    <3> QED BY <2>1, <3>1, ParseAgrees
  <2>2. ASSUME NEW size \in FileSizes, NEW cmd \in Typed, ParseArguments(cmd, size)
        PROVE  AcceptedArgumentsAgree'
    <3>1. cmd \in Seq(Range(cmd)) BY ArgumentsAssumption
    <3> QED BY <2>2, <3>1, ParseAgrees
  <2>3. CASE UNCHANGED argumentVars
    BY <2>3, Zenon DEF argumentVars, AcceptedArgumentsAgree
  <2> QED BY <2>1, <2>2, <2>3, Zenon DEF ArgumentsNext
<1> QED BY <1>1, <1>2, PTL DEF ArgumentsSpec
=============================================================================
