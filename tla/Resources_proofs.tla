--------------------------- MODULE Resources_proofs ---------------------------
(***************************************************************************)
(* A test releases what it opened, once, whichever call of whichever       *)
(* function fails and for any number of descriptors, streams and options.  *)
(*                                                                         *)
(* A function is a row of calls (StreamSockets).  What it has to release   *)
(* when a call fails depends on what it holds just then, so the proof      *)
(* speaks of a function by what it holds before and after every call       *)
(* (Flow): first each function is shown to release the right things        *)
(* wherever it may fail, part by part, as the functions are put together;  *)
(* then the invariant says that what the function under way holds is what  *)
(* its calls so far have opened, and every step is shown to keep it.       *)
(***************************************************************************)
EXTENDS StreamSockets, FiniteSetTheorems, TLAPS

----------------------------------------------------------------------------
(***************************************************************************)
(* Functions.                                                              *)
(***************************************************************************)

\* The descriptors a function holds: what each may be for, and calls of all kinds.
Slots == {"s", "l", "buffer", "file"}
Opened == {"data", "listener", "buffer", "file"}
SlotStates == Opened \cup {"no", "ctrl", "field", "prot"}
Operations == {"try", "resolve", "open", "release", "keep", "use", "close"}
Callers == {"create_socket", "netdial", "netannounce", "iperf_tcp_listen", "iperf_tcp_accept",
            "iperf_tcp_connect", "iperf_create_streams", "iperf_udp_accept",
            "iperf_udp_connect", "iperf_new_stream", "iperf_connect", "iperf_accept",
            "iperf_common_sockopts"}
FieldNames == {"ctrl_sck", "listener", "prot_listener", "bufsize"}
Names == AddressLists \cup Slots
Calls == [op : Operations, f : Callers \cup {"", "cookie"}, what : Names \cup {""},
          as : Opened \cup FieldNames \cup {""}, undo : SUBSET Names]

\* What is held between two calls. A slot holds a descriptor the function opened, the
\* number of a field ("ctrl", "field", "prot"), or nothing. gone: the listener is closed.
Holdings == [lists : SUBSET AddressLists, s : SlotStates, l : SlotStates,
             buffer : SlotStates, file : SlotStates, gone : BOOLEAN]

\* The functions that leave one data socket open when they fail.
Spoilers == {"iperf_udp_connect", "iperf_udp_accept", "netannounce",
             "iperf_new_stream", "iperf_common_sockopts"}

\* What a call that may fail has to release.
Safe(m, f, undo, a) ==
  LET U == undo \cup m.also
      asked == {"server", "res"} \cup (IF m.local THEN {"local"} ELSE {})
  IN /\ a.lists \subseteq U /\ U \cap asked \subseteq a.lists
     /\ a.s = "listener" => "s" \in U
     /\ a.s = "data" => "s" \in U \/ f \in Spoilers
     /\ a.l \in {"data", "listener"} => "l" \in U
     /\ a.buffer # "no" \/ a.file # "no" => f = "iperf_new_stream"
     /\ "s" \in U => a.s \in {"data", "listener"} \/ (a.s = "ctrl" /\ m.server)
     /\ "l" \in U => m.server /\ a.l \in {"data", "listener", "field"}
     /\ "buffer" \in U => a.buffer = "buffer"
     /\ "file" \notin U

\* Where a descriptor of a kind may be opened.
MayOpen(m, x, kind, a) ==
  /\ x \in Slots /\ a[x] = "no"
  /\ x \in {"s", "l"} => kind \in {"data", "listener"}
  /\ x \in {"buffer", "file"} => kind = x
  /\ a.gone => kind = "listener"
  /\ kind = "listener" => m.server
  /\ x = "s" => /\ m.place = "accept" => ~m.udp
                /\ kind = "listener" => m.place \in {"listen", "relisten"}
  /\ x = "l" => IF m.udp
                THEN kind = "data" /\ (m.place = "control" \/ (m.place = "accept" /\ a.s = "data"))
                ELSE kind = "listener" /\ m.place = "control" /\ a.gone

\* What may be stored in a field of struct iperf_test, and where.
MayKeep(m, c, a) ==
  \/ c.as = "ctrl_sck" /\ c.what = "s" /\ a.s = "data" /\ m.place \in {"connect", "control"}
  \/ /\ c.as = "listener" /\ c.what = "s" /\ m.server /\ a.s = "listener"
     /\ m.place \in {"listen", "relisten"}
  \/ /\ c.as = "listener" /\ c.what = "l" /\ m.server /\ a.l = "listener" /\ a.gone
     /\ m.place = "control"
  \/ /\ c.as = "prot_listener" /\ c.what = "l" /\ m.server /\ ~a.gone
     /\ m.place \in {"control", "accept"}
     /\ a.l \in {"data", "field"} \/ (a.l = "no" /\ a.s = "prot")
  \/ c.as = "bufsize"

\* What is right for a call when a is held.
Fine(m, c, a) ==
  /\ c.op \in {"try", "resolve", "open"} => Safe(m, c.f, c.undo, a)
  /\ c.f = "cookie" => /\ c.op = "try" /\ c.undo = {"s"} /\ m.place = "accept" /\ ~m.udp
                       /\ a.s = "data" /\ a.l = "no" /\ ~a.gone
  /\ c.op = "resolve" => c.what \in AddressLists
  /\ c.op = "open" => MayOpen(m, c.what, c.as, a)
  /\ c.op = "release" => c.what \in a.lists
  /\ c.op = "keep" => MayKeep(m, c, a)
  /\ c.op = "use" => /\ m.server /\ ~a.gone
                     /\ \/ /\ c.what = "s" /\ c.as = "prot_listener" /\ a.s = "no"
                           /\ m.udp /\ m.place = "accept"
                        \/ /\ c.what = "l" /\ c.as = "listener" /\ a.l = "no"
                           /\ ~m.udp /\ m.place = "control"
  /\ c.op = "close" => /\ m.server /\ ~m.udp /\ m.place = "control" /\ c.as = "listener"
                       /\ a.l = "no" /\ a.s = "ctrl" /\ ~a.gone

\* What is held when a descriptor was stored in a field: the field owns it.
Kept(c, a) ==
  IF c.as = "ctrl_sck" THEN [a EXCEPT !.s = "ctrl"]
  ELSE IF c.as = "bufsize" THEN a
  ELSE IF c.as = "listener"
       THEN IF c.what = "s" THEN [a EXCEPT !.s = "field"]
            ELSE [a EXCEPT !.l = "field", !.gone = FALSE]
  ELSE IF a.l = "no" THEN [a EXCEPT !.s = "data"] ELSE [a EXCEPT !.l = "field"]

\* What is held after a call that works.
After(c, a) ==
  CASE c.op = "try" -> a
    [] c.op = "resolve" -> [a EXCEPT !.lists = @ \cup {c.what}]
    [] c.op = "open" -> [a EXCEPT ![c.what] = c.as]
    [] c.op = "release" -> [a EXCEPT !.lists = @ \ {c.what}]
    [] c.op = "keep" -> Kept(c, a)
    [] c.op = "use" -> [a EXCEPT ![c.what] = IF c.as = "listener" THEN "field" ELSE "prot"]
    [] c.op = "close" -> [a EXCEPT !.gone = TRUE]

\* The calls lead from holding a to holding b, and each is right where it is made.
Flow(m, calls, a, b) ==
  /\ calls \in Seq(Calls)
  /\ \E st \in [1 .. Len(calls) + 1 -> Holdings] :
       /\ st[1] = a /\ st[Len(calls) + 1] = b
       /\ \A i \in 1 .. Len(calls) : Fine(m, calls[i], st[i]) /\ st[i + 1] = After(calls[i], st[i])

\* The calls of the model are calls.
LEMMA CallTyped ==
  ASSUME NEW op \in Operations, NEW f \in Callers \cup {"", "cookie"}, NEW x \in Names \cup {""},
         NEW as \in Opened \cup FieldNames \cup {""}, NEW undo \in SUBSET Names
  PROVE  [op |-> op, f |-> f, what |-> x, as |-> as, undo |-> undo] \in Calls
<1> DEFINE U == SUBSET Names
<1>1. undo \in U
  OBVIOUS
<1> HIDE DEF U
<1> QED BY <1>1 DEF Calls, U

\* No call, and one call.
LEMMA FlowNone ==
  ASSUME NEW m, NEW a \in Holdings
  PROVE  Flow(m, <<>>, a, a)
<1> DEFINE st == [i \in 1 .. 1 |-> a]
<1>1. <<>> \in Seq(Calls) /\ Len(<<>>) = 0
  OBVIOUS
<1>2. st \in [1 .. Len(<<>>) + 1 -> Holdings] /\ st[1] = a /\ st[Len(<<>>) + 1] = a
  BY <1>1
<1>3. \A i \in 1 .. Len(<<>>) : FALSE
  BY <1>1
<1> HIDE DEF st
<1> QED BY <1>1, <1>2, <1>3 DEF Flow

\* Without calls nothing changes.
LEMMA FlowEnd ==
  ASSUME NEW m, NEW a, NEW b, Flow(m, <<>>, a, b)
  PROVE  a = b /\ a \in Holdings
<1> QED BY DEF Flow

\* One call.
LEMMA FlowOne ==
  ASSUME NEW m, NEW a \in Holdings, NEW c \in Calls, Fine(m, c, a), NEW b \in Holdings, b = After(c, a)
  PROVE  Flow(m, <<c>>, a, b)
<1> DEFINE st == [i \in 1 .. 2 |-> IF i = 1 THEN a ELSE b]
<1>1. <<c>> \in Seq(Calls) /\ Len(<<c>>) = 1 /\ <<c>>[1] = c
  OBVIOUS
<1>2. st \in [1 .. Len(<<c>>) + 1 -> Holdings] /\ st[1] = a /\ st[2] = b
  BY <1>1
<1> HIDE DEF st
<1>3. \A i \in 1 .. Len(<<c>>) : i = 1
  BY <1>1
<1>4. Fine(m, <<c>>[1], st[1]) /\ st[1 + 1] = After(<<c>>[1], st[1])
  BY <1>1, <1>2
<1>5. \A i \in 1 .. Len(<<c>>) : Fine(m, <<c>>[i], st[i]) /\ st[i + 1] = After(<<c>>[i], st[i])
  BY <1>3, <1>4
<1> QED BY <1>1, <1>2, <1>5 DEF Flow

\* The first call, and the calls after it.
LEMMA FlowHead ==
  ASSUME NEW m, NEW a, NEW b, NEW calls, calls # <<>>, Flow(m, calls, a, b)
  PROVE  /\ Head(calls) \in Calls /\ Fine(m, Head(calls), a) /\ a \in Holdings
         /\ Flow(m, Tail(calls), After(Head(calls), a), b)
<1>1. calls \in Seq(Calls) /\ Len(calls) \in Nat /\ Len(calls) >= 1 /\ Head(calls) = calls[1]
      /\ Tail(calls) \in Seq(Calls) /\ Len(Tail(calls)) = Len(calls) - 1
      /\ \A i \in 1 .. Len(Tail(calls)) : Tail(calls)[i] = calls[i + 1]
  BY DEF Flow
<1>2. PICK st \in [1 .. Len(calls) + 1 -> Holdings] :
         /\ st[1] = a /\ st[Len(calls) + 1] = b
         /\ \A i \in 1 .. Len(calls) : Fine(m, calls[i], st[i]) /\ st[i + 1] = After(calls[i], st[i])
  BY DEF Flow
<1> DEFINE ts == [i \in 1 .. Len(Tail(calls)) + 1 |-> st[i + 1]]
<1>3. ts \in [1 .. Len(Tail(calls)) + 1 -> Holdings]
  BY <1>1
<1>4. ts[1] = st[2] /\ ts[Len(Tail(calls)) + 1] = b
  BY <1>1, <1>2
<1>5. Fine(m, calls[1], st[1]) /\ st[1 + 1] = After(calls[1], st[1])
  BY <1>1, <1>2
<1>6. ts[1] = After(Head(calls), a) /\ Fine(m, Head(calls), a) /\ a \in Holdings
  BY <1>1, <1>2, <1>4, <1>5
<1>7. ASSUME NEW i \in 1 .. Len(Tail(calls))
      PROVE  Fine(m, Tail(calls)[i], ts[i]) /\ ts[i + 1] = After(Tail(calls)[i], ts[i])
  <2>1. i + 1 \in 1 .. Len(calls) /\ Tail(calls)[i] = calls[i + 1] /\ ts[i] = st[i + 1]
        /\ ts[i + 1] = st[i + 1 + 1]
    BY <1>1
  <2> HIDE DEF ts
  <2>2. Fine(m, calls[i + 1], st[i + 1]) /\ st[i + 1 + 1] = After(calls[i + 1], st[i + 1])
    BY <1>2, <2>1
  <2> QED BY <2>1, <2>2
<1> HIDE DEF ts
<1>8. Head(calls) \in Calls
  BY <1>1
<1> QED BY <1>1, <1>3, <1>4, <1>6, <1>7, <1>8 DEF Flow

\* One row of calls after another.
LEMMA FlowThen ==
  ASSUME NEW m, NEW a, NEW b, NEW c, NEW p, NEW q, Flow(m, p, a, b), Flow(m, q, b, c)
  PROVE  Flow(m, p \o q, a, c)
<1>1. /\ p \in Seq(Calls) /\ q \in Seq(Calls) /\ Len(p) \in Nat /\ Len(q) \in Nat
      /\ p \o q \in Seq(Calls) /\ Len(p \o q) = Len(p) + Len(q)
      /\ \A i \in 1 .. Len(p) : (p \o q)[i] = p[i]
      /\ \A i \in 1 .. Len(q) : (p \o q)[Len(p) + i] = q[i]
  BY DEF Flow
<1>2. PICK st \in [1 .. Len(p) + 1 -> Holdings] :
         /\ st[1] = a /\ st[Len(p) + 1] = b
         /\ \A i \in 1 .. Len(p) : Fine(m, p[i], st[i]) /\ st[i + 1] = After(p[i], st[i])
  BY DEF Flow
<1>3. PICK ts \in [1 .. Len(q) + 1 -> Holdings] :
         /\ ts[1] = b /\ ts[Len(q) + 1] = c
         /\ \A i \in 1 .. Len(q) : Fine(m, q[i], ts[i]) /\ ts[i + 1] = After(q[i], ts[i])
  BY DEF Flow
<1> DEFINE us == [i \in 1 .. Len(p \o q) + 1 |-> IF i <= Len(p) THEN st[i] ELSE ts[i - Len(p)]]
<1>4. us \in [1 .. Len(p \o q) + 1 -> Holdings]
  BY <1>1
<1>5. /\ \A i \in 1 .. Len(p) + 1 : us[i] = st[i]
      /\ \A i \in 1 .. Len(q) + 1 : us[Len(p) + i] = ts[i]
  BY <1>1, <1>2, <1>3
<1>6. us[1] = a
  <2>1. 1 \in 1 .. Len(p) + 1
    BY <1>1
  <2> HIDE DEF us
  <2> QED BY <1>2, <1>5, <2>1
<1>7. us[Len(p \o q) + 1] = c
  <2>1. Len(q) + 1 \in 1 .. Len(q) + 1 /\ Len(p \o q) + 1 = Len(p) + (Len(q) + 1)
    BY <1>1
  <2> HIDE DEF us
  <2> QED BY <1>3, <1>5, <2>1
<1> HIDE DEF us
<1>8. ASSUME NEW i \in 1 .. Len(p \o q)
      PROVE  Fine(m, (p \o q)[i], us[i]) /\ us[i + 1] = After((p \o q)[i], us[i])
  <2>1. CASE i <= Len(p)
    <3>1. i \in 1 .. Len(p) /\ i \in 1 .. Len(p) + 1 /\ i + 1 \in 1 .. Len(p) + 1
      BY <1>1, <2>1
    <3> QED BY <1>1, <1>2, <1>5, <3>1
  <2>2. CASE ~(i <= Len(p))
    <3> DEFINE j == i - Len(p)
    <3>1. j \in 1 .. Len(q) /\ j \in 1 .. Len(q) + 1 /\ j + 1 \in 1 .. Len(q) + 1
          /\ i = Len(p) + j /\ i + 1 = Len(p) + (j + 1)
      BY <1>1, <2>2
    <3> HIDE DEF j
    <3>2. us[i] = ts[j] /\ us[i + 1] = ts[j + 1] /\ (p \o q)[i] = q[j]
      BY <1>1, <1>5, <3>1
    <3>3. Fine(m, q[j], ts[j]) /\ ts[j + 1] = After(q[j], ts[j])
      BY <1>3, <3>1
    <3> QED BY <3>2, <3>3
  <2> QED BY <2>1, <2>2
<1> QED BY <1>1, <1>4, <1>6, <1>7, <1>8 DEF Flow

\* Calls that are made under a condition.
LEMMA FlowWhen ==
  ASSUME NEW m, NEW a \in Holdings, NEW b, NEW c \in BOOLEAN, NEW p,
         c => Flow(m, p, a, b), ~c => a = b
  PROVE  Flow(m, When(c, p), a, b)
<1>1. CASE c
  BY <1>1 DEF When
<1>2. CASE ~c
  BY <1>2, FlowNone DEF When
<1> QED BY <1>1, <1>2

\* What is held, field by field.
St(lists, s, l, b, f, g) ==
  [lists |-> lists, s |-> s, l |-> l, buffer |-> b, file |-> f, gone |-> g]

\* It is a state of that kind.
LEMMA StTyped ==
  ASSUME NEW ls \in SUBSET AddressLists, NEW s \in SlotStates, NEW l \in SlotStates,
         NEW b \in SlotStates, NEW f \in SlotStates, NEW g \in BOOLEAN
  PROVE  /\ St(ls, s, l, b, f, g) \in Holdings
         /\ St(ls, s, l, b, f, g).lists = ls /\ St(ls, s, l, b, f, g).s = s
         /\ St(ls, s, l, b, f, g).l = l /\ St(ls, s, l, b, f, g).buffer = b
         /\ St(ls, s, l, b, f, g).file = f /\ St(ls, s, l, b, f, g).gone = g
<1> QED BY DEF St, Holdings

\* Calls that resolve an address, or release one.
LEMMA ListFlow ==
  ASSUME NEW m, NEW ls \in SUBSET AddressLists, NEW s \in SlotStates, NEW l \in SlotStates,
         NEW b \in SlotStates, NEW f \in SlotStates, NEW g \in BOOLEAN,
         NEW name \in Callers, NEW x \in AddressLists, NEW undo \in SUBSET Names
  PROVE  /\ Safe(m, name, undo, St(ls, s, l, b, f, g)) =>
              Flow(m, Resolve(name, x, undo), St(ls, s, l, b, f, g), St(ls \cup {x}, s, l, b, f, g))
         /\ x \in ls =>
              Flow(m, Release(x), St(ls, s, l, b, f, g), St(ls \ {x}, s, l, b, f, g))
<1> DEFINE a == St(ls, s, l, b, f, g)
           r == [op |-> "resolve", f |-> name, what |-> x, as |-> "", undo |-> undo]
           u == [op |-> "release", f |-> "", what |-> x, as |-> "", undo |-> {}]
           more == St(ls \cup {x}, s, l, b, f, g)
           less == St(ls \ {x}, s, l, b, f, g)
<1>1. a \in Holdings /\ more \in Holdings /\ less \in Holdings
  BY StTyped
<1>2. r \in Calls /\ u \in Calls
  BY CallTyped DEF Operations, Names
<1>3. more = After(r, a) /\ less = After(u, a)
  BY DEF After, St
<1>4. Safe(m, name, undo, a) => Fine(m, r, a)
  BY DEF Fine, Callers
<1>5. x \in ls => Fine(m, u, a)
  BY DEF Fine, St
<1> HIDE DEF a, r, u, more, less
<1>6. Safe(m, name, undo, a) => Flow(m, <<r>>, a, more)
  BY <1>1, <1>2, <1>3, <1>4, FlowOne
<1>7. x \in ls => Flow(m, <<u>>, a, less)
  BY <1>1, <1>2, <1>3, <1>5, FlowOne
<1> QED BY <1>6, <1>7 DEF a, r, u, more, less, Resolve, Release

\* Calls that may only fail, however many.
LEMMA Repeated ==
  ASSUME NEW m, NEW a \in Holdings, NEW n \in Nat, NEW c \in Calls, Fine(m, c, a), After(c, a) = a
  PROVE  Flow(m, [i \in 1 .. n |-> c], a, a)
<1> DEFINE st == [i \in 1 .. n + 1 |-> a]
           t == [i \in 1 .. n |-> c]
<1>1. t \in Seq(Calls) /\ Len(t) = n /\ \A i \in 1 .. n : t[i] = c
  OBVIOUS
<1>2. st \in [1 .. Len(t) + 1 -> Holdings] /\ st[1] = a /\ st[Len(t) + 1] = a
      /\ \A i \in 1 .. Len(t) : st[i] = a /\ st[i + 1] = a
  BY <1>1
<1> HIDE DEF st, t
<1>3. Flow(m, t, a, a)
  BY <1>1, <1>2 DEF Flow
<1> QED BY <1>3 DEF t

\* Calls that open nothing, however many there are.
LEMMA TriesFlow ==
  ASSUME NEW m, NEW a \in Holdings, NEW name \in Callers, NEW n \in Nat,
         NEW undo \in SUBSET Names, Safe(m, name, undo, a)
  PROVE  Flow(m, Tries(name, n, undo), a, a)
<1> DEFINE c == [op |-> "try", f |-> name, what |-> "", as |-> "", undo |-> undo]
<1>1. Fine(m, c, a) /\ After(c, a) = a
  BY DEF Fine, After, Callers
<1>2. c \in Calls
  BY CallTyped DEF Operations
<1>3. Tries(name, n, undo) = [i \in 1 .. n |-> c]
  BY DEF Tries
<1> HIDE DEF c
<1>4. Flow(m, [i \in 1 .. n |-> c], a, a)
  BY <1>1, <1>2, Repeated, Zenon
<1> QED BY <1>3, <1>4

\* Calls that open a descriptor.
LEMMA OpenFlow ==
  ASSUME NEW m, NEW a \in Holdings, NEW name \in Callers, NEW x \in Slots, NEW kind \in Opened,
         NEW undo \in SUBSET Names, Safe(m, name, undo, a), MayOpen(m, x, kind, a)
  PROVE  Flow(m, Open(name, x, kind, undo), a, [a EXCEPT ![x] = kind])
<1> DEFINE c == [op |-> "open", f |-> name, what |-> x, as |-> kind, undo |-> undo]
           b == [a EXCEPT ![x] = kind]
<1>1. c \in Calls
  BY CallTyped DEF Operations, Names
<1>2. Fine(m, c, a)
  BY DEF Fine, Callers
<1>3. b = After(c, a)
  BY DEF After
<1>4. b \in Holdings
  BY DEF Holdings, Slots, SlotStates
<1> HIDE DEF b, c
<1> QED BY <1>1, <1>2, <1>3, <1>4, FlowOne DEF b, c, Open

\* What is held when a slot is filled.
LEMMA OpenHeld ==
  ASSUME NEW ls, NEW s, NEW l, NEW b, NEW f, NEW g, NEW kind
  PROVE  /\ St(ls, s, l, b, f, g)["s"] = s /\ St(ls, s, l, b, f, g)["l"] = l
         /\ St(ls, s, l, b, f, g)["buffer"] = b /\ St(ls, s, l, b, f, g)["file"] = f
         /\ [St(ls, s, l, b, f, g) EXCEPT !["s"] = kind] = St(ls, kind, l, b, f, g)
         /\ [St(ls, s, l, b, f, g) EXCEPT !["l"] = kind] = St(ls, s, kind, b, f, g)
         /\ [St(ls, s, l, b, f, g) EXCEPT !["buffer"] = kind] = St(ls, s, l, kind, f, g)
         /\ [St(ls, s, l, b, f, g) EXCEPT !["file"] = kind] = St(ls, s, l, b, kind, g)
<1> DEFINE a == St(ls, s, l, b, f, g)
<1>1. a["s"] = s /\ a["l"] = l /\ a["buffer"] = b /\ a["file"] = f
  BY DEF St
<1>2. /\ [a EXCEPT !.s = kind] = St(ls, kind, l, b, f, g)
      /\ [a EXCEPT !.l = kind] = St(ls, s, kind, b, f, g)
      /\ [a EXCEPT !.buffer = kind] = St(ls, s, l, kind, f, g)
      /\ [a EXCEPT !.file = kind] = St(ls, s, l, b, kind, g)
  BY DEF St
<1> QED BY <1>1, <1>2

\* Calls that store a descriptor in a field, take one from it, or close it.
LEMMA KeepFlow ==
  ASSUME NEW m, NEW ls \in SUBSET AddressLists, NEW s \in SlotStates, NEW l \in SlotStates,
         NEW b \in SlotStates, NEW f \in SlotStates, NEW g \in BOOLEAN
  PROVE  /\ m.place \in {"connect", "control"} /\ s = "data" =>
              Flow(m, Keep("s", "ctrl_sck"), St(ls, s, l, b, f, g), St(ls, "ctrl", l, b, f, g))
         /\ m.server /\ m.place \in {"listen", "relisten"} /\ s = "listener" =>
              Flow(m, Keep("s", "listener"), St(ls, s, l, b, f, g), St(ls, "field", l, b, f, g))
         /\ m.server /\ m.place = "control" /\ l = "listener" /\ g =>
              Flow(m, Keep("l", "listener"), St(ls, s, l, b, f, g), St(ls, s, "field", b, f, FALSE))
         /\ m.server /\ m.place \in {"control", "accept"} /\ ~g /\ l \in {"data", "field"} =>
              Flow(m, Keep("l", "prot_listener"), St(ls, s, l, b, f, g), St(ls, s, "field", b, f, g))
         /\ m.server /\ m.place \in {"control", "accept"} /\ ~g /\ l = "no" /\ s = "prot" =>
              Flow(m, Keep("l", "prot_listener"), St(ls, s, l, b, f, g), St(ls, "data", l, b, f, g))
         /\ Flow(m, Keep("s", "bufsize"), St(ls, s, l, b, f, g), St(ls, s, l, b, f, g))
<1> DEFINE a == St(ls, s, l, b, f, g)
           c(x, field) == [op |-> "keep", f |-> "", what |-> x, as |-> field, undo |-> {}]
<1> USE StTyped
<1>1. a \in Holdings /\ \A x \in {"s", "l"} : \A field \in FieldNames : c(x, field) \in Calls
  BY CallTyped DEF Operations, Names, Slots
<1>2. ASSUME m.place \in {"connect", "control"}, s = "data" PROVE Flow(m, Keep("s", "ctrl_sck"), a, St(ls, "ctrl", l, b, f, g))
  <2>1. Fine(m, c("s", "ctrl_sck"), a) /\ St(ls, "ctrl", l, b, f, g) = After(c("s", "ctrl_sck"), a)
    BY <1>2 DEF Fine, MayKeep, After, Kept, St
  <2>2. St(ls, "ctrl", l, b, f, g) \in Holdings
    BY DEF SlotStates
  <2> HIDE DEF a
  <2> QED BY <1>1, <2>1, <2>2, FlowOne DEF Keep, FieldNames
<1>3. ASSUME m.server, m.place \in {"listen", "relisten"}, s = "listener"
      PROVE  Flow(m, Keep("s", "listener"), a, St(ls, "field", l, b, f, g))
  <2>1. Fine(m, c("s", "listener"), a) /\ St(ls, "field", l, b, f, g) = After(c("s", "listener"), a)
    BY <1>3 DEF Fine, MayKeep, After, Kept, St
  <2>2. St(ls, "field", l, b, f, g) \in Holdings
    BY DEF SlotStates
  <2> HIDE DEF a
  <2> QED BY <1>1, <2>1, <2>2, FlowOne DEF Keep, FieldNames
<1>4. ASSUME m.server, m.place = "control", l = "listener", g
      PROVE  Flow(m, Keep("l", "listener"), a, St(ls, s, "field", b, f, FALSE))
  <2>1. Fine(m, c("l", "listener"), a) /\ St(ls, s, "field", b, f, FALSE) = After(c("l", "listener"), a)
    BY <1>4 DEF Fine, MayKeep, After, Kept, St
  <2>2. St(ls, s, "field", b, f, FALSE) \in Holdings
    BY DEF SlotStates
  <2> HIDE DEF a
  <2> QED BY <1>1, <2>1, <2>2, FlowOne DEF Keep, FieldNames
<1>5. ASSUME m.server, m.place \in {"control", "accept"}, ~g, l \in {"data", "field"}
      PROVE  Flow(m, Keep("l", "prot_listener"), a, St(ls, s, "field", b, f, g))
  <2>1. Fine(m, c("l", "prot_listener"), a) /\ St(ls, s, "field", b, f, g) = After(c("l", "prot_listener"), a)
    BY <1>5 DEF Fine, MayKeep, After, Kept, St
  <2>2. St(ls, s, "field", b, f, g) \in Holdings
    BY DEF SlotStates
  <2> HIDE DEF a
  <2> QED BY <1>1, <2>1, <2>2, FlowOne DEF Keep, FieldNames
<1>6. ASSUME m.server, m.place \in {"control", "accept"}, ~g, l = "no", s = "prot"
      PROVE  Flow(m, Keep("l", "prot_listener"), a, St(ls, "data", l, b, f, g))
  <2>1. Fine(m, c("l", "prot_listener"), a) /\ St(ls, "data", l, b, f, g) = After(c("l", "prot_listener"), a)
    BY <1>6 DEF Fine, MayKeep, After, Kept, St
  <2>2. St(ls, "data", l, b, f, g) \in Holdings
    BY DEF SlotStates, Opened
  <2> HIDE DEF a
  <2> QED BY <1>1, <2>1, <2>2, FlowOne DEF Keep, FieldNames
<1>7. Flow(m, Keep("s", "bufsize"), a, a)
  <2>1. Fine(m, c("s", "bufsize"), a) /\ a = After(c("s", "bufsize"), a)
    BY DEF Fine, MayKeep, After, Kept
  <2> HIDE DEF a
  <2> QED BY <1>1, <2>1, FlowOne DEF Keep, FieldNames
<1> QED BY <1>2, <1>3, <1>4, <1>5, <1>6, <1>7

\* A field is used where nothing was opened.
LEMMA UseFlow ==
  ASSUME NEW m, m.server, NEW ls \in SUBSET AddressLists, NEW s \in SlotStates, NEW l \in SlotStates,
         NEW b \in SlotStates, NEW f \in SlotStates
  PROVE  /\ m.udp /\ m.place = "accept" /\ s = "no" =>
              Flow(m, Use("s", "prot_listener"), St(ls, s, l, b, f, FALSE), St(ls, "prot", l, b, f, FALSE))
         /\ ~m.udp /\ m.place = "control" /\ l = "no" =>
              Flow(m, Use("l", "listener"), St(ls, s, l, b, f, FALSE), St(ls, s, "field", b, f, FALSE))
         /\ ~m.udp /\ m.place = "control" /\ s = "ctrl" /\ l = "no" =>
              Flow(m, Close("listener"), St(ls, s, l, b, f, FALSE), St(ls, s, l, b, f, TRUE))
<1> DEFINE a == St(ls, s, l, b, f, FALSE)
           c(x, field) == [op |-> "use", f |-> "", what |-> x, as |-> field, undo |-> {}]
           d == [op |-> "close", f |-> "", what |-> "", as |-> "listener", undo |-> {}]
<1> USE StTyped
<1>1. a \in Holdings /\ d \in Calls /\ c("s", "prot_listener") \in Calls /\ c("l", "listener") \in Calls
  BY CallTyped DEF Operations, Names, Slots, FieldNames
<1>2. ASSUME m.udp, m.place = "accept", s = "no"
      PROVE  Flow(m, Use("s", "prot_listener"), a, St(ls, "prot", l, b, f, FALSE))
  <2>1. Fine(m, c("s", "prot_listener"), a) /\ St(ls, "prot", l, b, f, FALSE) = After(c("s", "prot_listener"), a)
    BY <1>2 DEF Fine, After, St
  <2>2. St(ls, "prot", l, b, f, FALSE) \in Holdings
    BY DEF SlotStates
  <2> HIDE DEF a
  <2> QED BY <1>1, <2>1, <2>2, FlowOne DEF Use
<1>3. ASSUME ~m.udp, m.place = "control", l = "no"
      PROVE  Flow(m, Use("l", "listener"), a, St(ls, s, "field", b, f, FALSE))
  <2>1. Fine(m, c("l", "listener"), a) /\ St(ls, s, "field", b, f, FALSE) = After(c("l", "listener"), a)
    BY <1>3 DEF Fine, After, St
  <2>2. St(ls, s, "field", b, f, FALSE) \in Holdings
    BY DEF SlotStates
  <2> HIDE DEF a
  <2> QED BY <1>1, <2>1, <2>2, FlowOne DEF Use
<1>4. ASSUME ~m.udp, m.place = "control", s = "ctrl", l = "no"
      PROVE  Flow(m, Close("listener"), a, St(ls, s, l, b, f, TRUE))
  <2>1. Fine(m, d, a) /\ St(ls, s, l, b, f, TRUE) = After(d, a)
    BY <1>4 DEF Fine, After, St
  <2>2. St(ls, s, l, b, f, TRUE) \in Holdings
    OBVIOUS
  <2> HIDE DEF a, d
  <2> QED BY <1>1, <2>1, <2>2, FlowOne DEF Close, d
<1> QED BY <1>2, <1>3, <1>4

\* The names that occur.
LEMMA Members ==
  /\ "no" \in SlotStates /\ "data" \in SlotStates /\ "listener" \in SlotStates
  /\ "buffer" \in SlotStates /\ "file" \in SlotStates /\ "ctrl" \in SlotStates
  /\ "field" \in SlotStates /\ "prot" \in SlotStates
  /\ "data" \in Opened /\ "listener" \in Opened /\ "buffer" \in Opened /\ "file" \in Opened
  /\ "s" \in Slots /\ "l" \in Slots /\ "buffer" \in Slots /\ "file" \in Slots
  /\ "local" \in AddressLists /\ "server" \in AddressLists /\ "res" \in AddressLists
<1> QED BY DEF SlotStates, Opened, Slots, AddressLists

\* A descriptor is opened for one of the slots.
LEMMA OpenSlot ==
  ASSUME NEW m, NEW ls \in SUBSET AddressLists, NEW s \in SlotStates, NEW l \in SlotStates,
         NEW b \in SlotStates, NEW f \in SlotStates, NEW g \in BOOLEAN,
         NEW name \in Callers, NEW kind \in Opened, NEW undo \in SUBSET Names,
         Safe(m, name, undo, St(ls, s, l, b, f, g))
  PROVE  /\ MayOpen(m, "s", kind, St(ls, s, l, b, f, g)) =>
              Flow(m, Open(name, "s", kind, undo), St(ls, s, l, b, f, g), St(ls, kind, l, b, f, g))
         /\ MayOpen(m, "l", kind, St(ls, s, l, b, f, g)) =>
              Flow(m, Open(name, "l", kind, undo), St(ls, s, l, b, f, g), St(ls, s, kind, b, f, g))
         /\ MayOpen(m, "buffer", kind, St(ls, s, l, b, f, g)) =>
              Flow(m, Open(name, "buffer", kind, undo), St(ls, s, l, b, f, g), St(ls, s, l, kind, f, g))
         /\ MayOpen(m, "file", kind, St(ls, s, l, b, f, g)) =>
              Flow(m, Open(name, "file", kind, undo), St(ls, s, l, b, f, g), St(ls, s, l, b, kind, g))
<1> DEFINE a == St(ls, s, l, b, f, g)
<1>1. a \in Holdings
  BY StTyped
<1>2. a["s"] = s /\ a["l"] = l /\ a["buffer"] = b /\ a["file"] = f
      /\ [a EXCEPT !["s"] = kind] = St(ls, kind, l, b, f, g)
      /\ [a EXCEPT !["l"] = kind] = St(ls, s, kind, b, f, g)
      /\ [a EXCEPT !["buffer"] = kind] = St(ls, s, l, kind, f, g)
      /\ [a EXCEPT !["file"] = kind] = St(ls, s, l, b, kind, g)
  BY OpenHeld
<1> HIDE DEF a
<1>3. ASSUME NEW x \in Slots, MayOpen(m, x, kind, a)
      PROVE  Flow(m, Open(name, x, kind, undo), a, [a EXCEPT ![x] = kind])
  BY <1>1, <1>3, OpenFlow DEF a
<1>4. MayOpen(m, "s", kind, a) => Flow(m, Open(name, "s", kind, undo), a, St(ls, kind, l, b, f, g))
  <2>1. MayOpen(m, "s", kind, a) => Flow(m, Open(name, "s", kind, undo), a, [a EXCEPT !["s"] = kind])
    BY <1>3, Members
  <2> QED BY <1>2, <2>1
<1>5. MayOpen(m, "l", kind, a) => Flow(m, Open(name, "l", kind, undo), a, St(ls, s, kind, b, f, g))
  <2>1. MayOpen(m, "l", kind, a) => Flow(m, Open(name, "l", kind, undo), a, [a EXCEPT !["l"] = kind])
    BY <1>3, Members
  <2> QED BY <1>2, <2>1
<1>6. MayOpen(m, "buffer", kind, a) => Flow(m, Open(name, "buffer", kind, undo), a, St(ls, s, l, kind, f, g))
  <2>1. MayOpen(m, "buffer", kind, a) => Flow(m, Open(name, "buffer", kind, undo), a, [a EXCEPT !["buffer"] = kind])
    BY <1>3, Members
  <2> QED BY <1>2, <2>1
<1>7. MayOpen(m, "file", kind, a) => Flow(m, Open(name, "file", kind, undo), a, St(ls, s, l, b, kind, g))
  <2>1. MayOpen(m, "file", kind, a) => Flow(m, Open(name, "file", kind, undo), a, [a EXCEPT !["file"] = kind])
    BY <1>3, Members
  <2> QED BY <1>2, <2>1
<1> QED BY <1>4, <1>5, <1>6, <1>7 DEF a

\* The socket of a client: nothing else is held.
Sock(ls, s) == St(ls, s, "no", "no", "no", FALSE)

\* The steps of a client: tries, lists, and its socket.
LEMMA SockFlows ==
  ASSUME NEW m, NEW ls \in SUBSET AddressLists, NEW s \in SlotStates,
         NEW name \in Callers, NEW undo \in SUBSET Names, Safe(m, name, undo, Sock(ls, s))
  PROVE  /\ Sock(ls, s) \in Holdings
         /\ \A n \in Nat : Flow(m, Tries(name, n, undo), Sock(ls, s), Sock(ls, s))
         /\ \A x \in AddressLists : Flow(m, Resolve(name, x, undo), Sock(ls, s), Sock(ls \cup {x}, s))
         /\ s = "no" /\ (m.place = "accept" => ~m.udp) =>
              Flow(m, Open(name, "s", "data", undo), Sock(ls, s), Sock(ls, "data"))
<1>1. Sock(ls, s) \in Holdings
  BY StTyped, Members DEF Sock
<1>2. \A n \in Nat : Flow(m, Tries(name, n, undo), Sock(ls, s), Sock(ls, s))
  BY <1>1, TriesFlow
<1>3. \A x \in AddressLists : Flow(m, Resolve(name, x, undo), Sock(ls, s), Sock(ls \cup {x}, s))
  BY Members, ListFlow DEF Sock
<1>4. s = "no" /\ (m.place = "accept" => ~m.udp) =>
        Flow(m, Open(name, "s", "data", undo), Sock(ls, s), Sock(ls, "data"))
  <2>1. s = "no" /\ (m.place = "accept" => ~m.udp) => MayOpen(m, "s", "data", Sock(ls, s))
    BY Members DEF MayOpen, Sock, St
  <2> QED BY <2>1, Members, OpenSlot DEF Sock
<1> QED BY <1>1, <1>2, <1>3, <1>4

\* A list is freed.
LEMMA SockRelease ==
  ASSUME NEW m, NEW ls \in SUBSET AddressLists, NEW s \in SlotStates, NEW x \in ls
  PROVE  Flow(m, Release(x), Sock(ls, s), Sock(ls \ {x}, s))
<1> QED BY Members, ListFlow DEF Sock, Callers, Names

\* create_socket.
LEMMA CreateSocketFlow ==
  ASSUME NEW m, NEW o, m.also = {}, m.local = ("local" \in o), m.place # "accept"
  PROVE  Flow(m, CreateSocket(o), Sock({}, "no"), Sock({"server"}, "data"))
<1> DEFINE p1 == When("local" \in o, Resolve("create_socket", "local", {}))
           p2 == Resolve("create_socket", "server", {"local"})
           p3 == Open("create_socket", "s", "data", {"local", "server"})
           p4 == When("local" \in o, Tries("create_socket", 1, {"s", "local", "server"}) \o Release("local"))
           p5 == When("local" \notin o /\ "cport" \in o, Tries("create_socket", 1, {"s", "server"}))
           L == IF "local" \in o THEN {"local"} ELSE {}
<1>0. "create_socket" \in Callers /\ L \in SUBSET AddressLists /\ L \cup {"server"} \in SUBSET AddressLists
      /\ {} \in SUBSET Names /\ {"local"} \in SUBSET Names /\ {"local", "server"} \in SUBSET Names
      /\ {"s", "local", "server"} \in SUBSET Names /\ {"s", "server"} \in SUBSET Names
  BY DEF Callers, AddressLists, Names, Slots
<1>1. Flow(m, p1, Sock({}, "no"), Sock(L, "no"))
  <2>1. Safe(m, "create_socket", {}, Sock({}, "no"))
    BY DEF Safe, Sock, St
  <2>2. Flow(m, Resolve("create_socket", "local", {}), Sock({}, "no"), Sock({} \cup {"local"}, "no"))
        /\ Sock({}, "no") \in Holdings
    BY <1>0, <2>1, SockFlows, Members
  <2>3. CASE "local" \in o
    <3>1. {} \cup {"local"} = L /\ p1 = Resolve("create_socket", "local", {})
      BY <2>3 DEF When
    <3> QED BY <2>2, <3>1
  <2>4. CASE "local" \notin o
    <3>1. L = {} /\ p1 = <<>>
      BY <2>4 DEF When
    <3> QED BY <2>2, <3>1, FlowNone
  <2> QED BY <2>3, <2>4
<1>2. Flow(m, p2, Sock(L, "no"), Sock(L \cup {"server"}, "no"))
  <2>1. Safe(m, "create_socket", {"local"}, Sock(L, "no"))
    BY DEF Safe, Sock, St
  <2> QED BY <1>0, <2>1, SockFlows, Members
<1>3. Flow(m, p3, Sock(L \cup {"server"}, "no"), Sock(L \cup {"server"}, "data"))
  <2>1. Safe(m, "create_socket", {"local", "server"}, Sock(L \cup {"server"}, "no"))
    BY DEF Safe, Sock, St
  <2> QED BY <1>0, <2>1, SockFlows, Members
<1>4. Flow(m, p4, Sock(L \cup {"server"}, "data"), Sock({"server"}, "data"))
  <2>1. CASE "local" \in o
    <3>1. Safe(m, "create_socket", {"s", "local", "server"}, Sock({"local", "server"}, "data"))
      BY <2>1 DEF Safe, Sock, St
    <3>2. {"local", "server"} \in SUBSET AddressLists /\ {"local", "server"} \ {"local"} = {"server"}
          /\ L \cup {"server"} = {"local", "server"}
      BY <2>1 DEF AddressLists
    <3>3. Flow(m, Tries("create_socket", 1, {"s", "local", "server"}), Sock({"local", "server"}, "data"),
               Sock({"local", "server"}, "data"))
      BY <1>0, <3>1, <3>2, SockFlows, Members
    <3>4. Flow(m, Release("local"), Sock({"local", "server"}, "data"), Sock({"server"}, "data"))
      BY <3>2, SockRelease, Members
    <3> QED BY <2>1, <3>2, <3>3, <3>4, FlowThen DEF When
  <2>2. CASE "local" \notin o
    <3>1. L \cup {"server"} = {"server"} /\ {"server"} \in SUBSET AddressLists
      BY <2>2 DEF AddressLists
    <3>2. Sock({"server"}, "data") \in Holdings
      BY <3>1, StTyped, Members DEF Sock
    <3> QED BY <2>2, <3>1, <3>2, FlowNone DEF When
  <2> QED BY <2>1, <2>2
<1>5. Flow(m, p5, Sock({"server"}, "data"), Sock({"server"}, "data"))
  <2>1. {"server"} \in SUBSET AddressLists
    BY DEF AddressLists
  <2>2. Sock({"server"}, "data") \in Holdings
    BY <2>1, StTyped, Members DEF Sock
  <2>3. ASSUME "local" \notin o
        PROVE  Flow(m, Tries("create_socket", 1, {"s", "server"}), Sock({"server"}, "data"), Sock({"server"}, "data"))
    <3>1. Safe(m, "create_socket", {"s", "server"}, Sock({"server"}, "data"))
      BY <2>3 DEF Safe, Sock, St
    <3> QED BY <1>0, <2>1, <3>1, SockFlows, Members
  <2> QED BY <2>2, <2>3, FlowWhen
<1> HIDE DEF p1, p2, p3, p4, p5
<1>6. Flow(m, p1 \o p2, Sock({}, "no"), Sock(L \cup {"server"}, "no"))
  BY <1>1, <1>2, FlowThen
<1>7. Flow(m, p1 \o p2 \o p3, Sock({}, "no"), Sock(L \cup {"server"}, "data"))
  BY <1>3, <1>6, FlowThen
<1>8. Flow(m, p1 \o p2 \o p3 \o p4, Sock({}, "no"), Sock({"server"}, "data"))
  BY <1>4, <1>7, FlowThen
<1>9. Flow(m, p1 \o p2 \o p3 \o p4 \o p5, Sock({}, "no"), Sock({"server"}, "data"))
  BY <1>5, <1>8, FlowThen
<1> QED BY <1>9 DEF CreateSocket, p1, p2, p3, p4, p5

\* netdial.
LEMMA NetDialFlow ==
  ASSUME NEW m, NEW o, m.also = {}, m.local = ("local" \in o), m.place # "accept"
  PROVE  Flow(m, NetDial(o), Sock({}, "no"), Sock({}, "data"))
<1>0. "netdial" \in Callers /\ {"server"} \in SUBSET AddressLists /\ {"s", "server"} \in SUBSET Names
  BY DEF Callers, AddressLists, Names, Slots
<1>1. Flow(m, CreateSocket(o), Sock({}, "no"), Sock({"server"}, "data"))
  BY CreateSocketFlow
<1>2. Flow(m, Tries("netdial", 1, {"s", "server"}), Sock({"server"}, "data"), Sock({"server"}, "data"))
  <2>1. Safe(m, "netdial", {"s", "server"}, Sock({"server"}, "data"))
    BY DEF Safe, Sock, St
  <2> QED BY <1>0, <2>1, SockFlows, Members
<1>3. Flow(m, Release("server"), Sock({"server"}, "data"), Sock({}, "data"))
  <2>1. {"server"} \ {"server"} = {}
    OBVIOUS
  <2> QED BY <1>0, <2>1, SockRelease, Members
<1> QED BY <1>1, <1>2, <1>3, FlowThen DEF NetDial

\* What one call, or a row of tries, does to what is held.
LEMMA Moves ==
  ASSUME NEW m, NEW ls \in SUBSET AddressLists, NEW s \in SlotStates, NEW l \in SlotStates,
         NEW b \in SlotStates, NEW f \in SlotStates, NEW g \in BOOLEAN,
         NEW name \in Callers, NEW undo \in SUBSET Names, Safe(m, name, undo, St(ls, s, l, b, f, g))
  PROVE  /\ St(ls, s, l, b, f, g) \in Holdings
         /\ \A n \in Nat : Flow(m, Tries(name, n, undo), St(ls, s, l, b, f, g), St(ls, s, l, b, f, g))
         /\ \A x \in AddressLists :
              Flow(m, Resolve(name, x, undo), St(ls, s, l, b, f, g), St(ls \cup {x}, s, l, b, f, g))
<1>1. St(ls, s, l, b, f, g) \in Holdings
  BY StTyped
<1>2. \A n \in Nat : Flow(m, Tries(name, n, undo), St(ls, s, l, b, f, g), St(ls, s, l, b, f, g))
  BY <1>1, TriesFlow
<1>3. \A x \in AddressLists :
        Flow(m, Resolve(name, x, undo), St(ls, s, l, b, f, g), St(ls \cup {x}, s, l, b, f, g))
  BY ListFlow
<1> QED BY <1>1, <1>2, <1>3

\* The lists and the things to release that occur.
LEMMA OneList ==
  /\ {} \in SUBSET AddressLists /\ {"res"} \in SUBSET AddressLists /\ {"server"} \in SUBSET AddressLists
  /\ {} \cup {"res"} = {"res"} /\ {"res"} \ {"res"} = {} /\ {"server"} \ {"server"} = {}
  /\ {} \in SUBSET Names /\ {"s"} \in SUBSET Names /\ {"l"} \in SUBSET Names /\ {"buffer"} \in SUBSET Names
  /\ {"res"} \in SUBSET Names /\ {"s", "res"} \in SUBSET Names /\ {"l", "res"} \in SUBSET Names
  /\ {"s", "server"} \in SUBSET Names
<1> QED BY DEF AddressLists, Names, Slots

\* netannounce, for the listener of the server.
LEMMA AnnounceS ==
  ASSUME NEW m, m.also = {}, m.server, m.place \in {"listen", "relisten"}, NEW g \in BOOLEAN
  PROVE  Flow(m, NetAnnounce("s", "listener"), St({}, "no", "no", "no", "no", g),
              St({}, "listener", "no", "no", "no", g))
<1> DEFINE a(ls, s) == St(ls, s, "no", "no", "no", g)
<1>0. "netannounce" \in Callers
  BY DEF Callers
<1>1. Flow(m, Resolve("netannounce", "res", {}), a({}, "no"), a({"res"}, "no"))
  <2>1. Safe(m, "netannounce", {}, a({}, "no"))
    BY DEF Safe, St
  <2> QED BY <1>0, <2>1, Moves, Members, OneList
<1>2. Flow(m, Open("netannounce", "s", "listener", {"res"}), a({"res"}, "no"), a({"res"}, "listener"))
  <2>1. Safe(m, "netannounce", {"res"}, a({"res"}, "no"))
    BY DEF Safe, St
  <2>2. MayOpen(m, "s", "listener", a({"res"}, "no"))
    BY Members DEF MayOpen, St
  <2> QED BY <1>0, <2>1, <2>2, OpenSlot, Members, OneList
<1>3. Flow(m, Tries("netannounce", 3, {"s", "res"}), a({"res"}, "listener"), a({"res"}, "listener"))
  <2>1. Safe(m, "netannounce", {"s", "res"}, a({"res"}, "listener"))
    BY DEF Safe, St
  <2> QED BY <1>0, <2>1, Moves, Members, OneList
<1>4. Flow(m, Release("res"), a({"res"}, "listener"), a({}, "listener"))
  BY <1>0, ListFlow, Members, OneList
<1>5. Flow(m, Tries("netannounce", 1, {"s"}), a({}, "listener"), a({}, "listener"))
  <2>1. Safe(m, "netannounce", {"s"}, a({}, "listener"))
    BY DEF Safe, St
  <2> QED BY <1>0, <2>1, Moves, Members, OneList
<1>6. Flow(m, When("listener" = "listener", Tries("netannounce", 1, {"s"})), a({}, "listener"), a({}, "listener"))
  BY <1>5 DEF When
<1> HIDE DEF a
<1>7. Flow(m, Resolve("netannounce", "res", {}) \o Open("netannounce", "s", "listener", {"res"}), a({}, "no"),
           a({"res"}, "listener"))
  BY <1>1, <1>2, FlowThen
<1>8. Flow(m, Resolve("netannounce", "res", {}) \o Open("netannounce", "s", "listener", {"res"})
              \o Tries("netannounce", 3, {"s", "res"}), a({}, "no"), a({"res"}, "listener"))
  BY <1>3, <1>7, FlowThen
<1>9. Flow(m, Resolve("netannounce", "res", {}) \o Open("netannounce", "s", "listener", {"res"})
              \o Tries("netannounce", 3, {"s", "res"}) \o Release("res"), a({}, "no"), a({}, "listener"))
  BY <1>4, <1>8, FlowThen
<1>10. Flow(m, NetAnnounce("s", "listener"), a({}, "no"), a({}, "listener"))
  BY <1>6, <1>9, FlowThen DEF NetAnnounce
<1> QED BY <1>10 DEF a

\* netannounce, for the sockets of UDP.
LEMMA AnnounceL ==
  ASSUME NEW m, m.server, m.udp, NEW s,
         \/ m.also = {} /\ m.place = "accept" /\ s = "data"
         \/ m.also = {"s"} /\ m.place = "control" /\ s = "ctrl"
  PROVE  Flow(m, UdpListen, St({}, s, "no", "no", "no", FALSE), St({}, s, "data", "no", "no", FALSE))
<1> DEFINE a(ls, l) == St(ls, s, l, "no", "no", FALSE)
<1>0. "netannounce" \in Callers /\ s \in SlotStates /\ "netannounce" \in Spoilers
  BY Members DEF Callers, Spoilers
<1>1. Flow(m, Resolve("netannounce", "res", {}), a({}, "no"), a({"res"}, "no"))
  <2>1. Safe(m, "netannounce", {}, a({}, "no"))
    BY <1>0 DEF Safe, St
  <2> QED BY <1>0, <2>1, Moves, Members, OneList
<1>2. Flow(m, Open("netannounce", "l", "data", {"res"}), a({"res"}, "no"), a({"res"}, "data"))
  <2>1. Safe(m, "netannounce", {"res"}, a({"res"}, "no"))
    BY <1>0 DEF Safe, St
  <2>2. MayOpen(m, "l", "data", a({"res"}, "no"))
    BY Members DEF MayOpen, St
  <2> QED BY <1>0, <2>1, <2>2, OpenSlot, Members, OneList
<1>3. Flow(m, Tries("netannounce", 3, {"l", "res"}), a({"res"}, "data"), a({"res"}, "data"))
  <2>1. Safe(m, "netannounce", {"l", "res"}, a({"res"}, "data"))
    BY <1>0 DEF Safe, St
  <2> QED BY <1>0, <2>1, Moves, Members, OneList
<1>4. Flow(m, Release("res"), a({"res"}, "data"), a({}, "data"))
  BY <1>0, ListFlow, Members, OneList
<1>5. Flow(m, When("data" = "listener", Tries("netannounce", 1, {"l"})), a({}, "data"), a({}, "data"))
  <2>1. a({}, "data") \in Holdings
    BY <1>0, StTyped, Members, OneList
  <2> QED BY <2>1, FlowNone DEF When
<1> HIDE DEF a
<1>7. Flow(m, Resolve("netannounce", "res", {}) \o Open("netannounce", "l", "data", {"res"}), a({}, "no"),
           a({"res"}, "data"))
  BY <1>1, <1>2, FlowThen
<1>8. Flow(m, Resolve("netannounce", "res", {}) \o Open("netannounce", "l", "data", {"res"})
              \o Tries("netannounce", 3, {"l", "res"}), a({}, "no"), a({"res"}, "data"))
  BY <1>3, <1>7, FlowThen
<1>9. Flow(m, Resolve("netannounce", "res", {}) \o Open("netannounce", "l", "data", {"res"})
              \o Tries("netannounce", 3, {"l", "res"}) \o Release("res"), a({}, "no"), a({}, "data"))
  BY <1>4, <1>8, FlowThen
<1>10. Flow(m, UdpListen, a({}, "no"), a({}, "data"))
  BY <1>5, <1>9, FlowThen DEF NetAnnounce, UdpListen
<1> QED BY <1>10 DEF a

\* What fails in the listener of iperf_accept also closes the control socket.
AlsoUndo(calls) == [i \in DOMAIN calls |-> [calls[i] EXCEPT !.undo = @ \cup {"s"}]]

\* What releases more is right where that is held, too.
LEMMA FlowAlso ==
  ASSUME NEW m, NEW w, m.also = {"s"}, w.also = {}, m.local = w.local, m.server = w.server,
         m.udp = w.udp, m.place = w.place,
         NEW calls, NEW a, NEW b, Flow(m, calls, a, b)
  PROVE  Flow(w, AlsoUndo(calls), a, b)
<1> DEFINE more(c) == [c EXCEPT !.undo = @ \cup {"s"}]
           mapped == AlsoUndo(calls)
<1>1. calls \in Seq(Calls) /\ Len(calls) \in Nat /\ DOMAIN calls = 1 .. Len(calls)
      /\ \A i \in 1 .. Len(calls) : calls[i] \in Calls
  BY DEF Flow
<1>2. PICK st \in [1 .. Len(calls) + 1 -> Holdings] :
         /\ st[1] = a /\ st[Len(calls) + 1] = b
         /\ \A i \in 1 .. Len(calls) : Fine(m, calls[i], st[i]) /\ st[i + 1] = After(calls[i], st[i])
  BY DEF Flow
<1>3. ASSUME NEW c \in Calls, NEW h \in Holdings, Fine(m, c, h)
      PROVE  more(c) \in Calls /\ Fine(w, more(c), h) /\ After(more(c), h) = After(c, h)
  <2>1. /\ more(c).op = c.op /\ more(c).f = c.f /\ more(c).what = c.what /\ more(c).as = c.as
        /\ more(c).undo = c.undo \cup {"s"} /\ "s" \in Names
    BY DEF Calls, Names, Slots
  <2>2. more(c) \in Calls
    BY <2>1 DEF Calls
  <2> HIDE DEF more
  <2>3. Safe(m, c.f, c.undo, h) => Safe(w, more(c).f, more(c).undo, h)
    <3>1. more(c).undo \cup w.also = c.undo \cup m.also
      BY <2>1
    <3> QED BY <2>1, <3>1 DEF Safe
  <2>4. Fine(w, more(c), h)
    BY <1>3, <2>1, <2>3 DEF Fine, MayKeep, MayOpen
  <2>5. After(more(c), h) = After(c, h)
    BY <2>1 DEF After, Kept
  <2> QED BY <2>2, <2>4, <2>5
<1>4. mapped = [i \in 1 .. Len(calls) |-> more(calls[i])]
  BY <1>1 DEF AlsoUndo
<1> HIDE DEF more
<1>5. \A i \in 1 .. Len(calls) : st[i] \in Holdings
  BY <1>1, <1>2
<1>6. \A i \in 1 .. Len(calls) : more(calls[i]) \in Calls /\ Fine(w, more(calls[i]), st[i])
                                   /\ After(more(calls[i]), st[i]) = After(calls[i], st[i])
  BY <1>1, <1>2, <1>3, <1>5
<1>7. mapped \in Seq(Calls) /\ Len(mapped) = Len(calls)
      /\ \A i \in 1 .. Len(mapped) : mapped[i] = more(calls[i])
  BY <1>1, <1>4, <1>6
<1> HIDE DEF mapped
<1>8. \A i \in 1 .. Len(mapped) : Fine(w, mapped[i], st[i]) /\ st[i + 1] = After(mapped[i], st[i])
  BY <1>2, <1>6, <1>7
<1>9. Flow(w, mapped, a, b)
  BY <1>2, <1>7, <1>8 DEF Flow
<1> QED BY <1>9 DEF mapped

\* A number of calls.
LEMMA OptionCallsNat ==
  ASSUME NEW o
  PROVE  OptionCalls(o) + 3 \in Nat /\ OptionCalls(o) + 2 \in Nat
<1> QED BY DEF OptionCalls

\* iperf_tcp_listen.
LEMMA TcpListenFlow ==
  ASSUME NEW m, NEW o, m.server, m.also = {"s"}, m.place = "control", ~m.udp
  PROVE  Flow(m, TcpListen(o), St({}, "ctrl", "no", "no", "no", FALSE), St({}, "ctrl", "field", "no", "no", FALSE))
<1> DEFINE a(ls, l, g) == St(ls, "ctrl", l, "no", "no", g)
           f == "iperf_tcp_listen"
           p1 == Close("listener")
           p2 == Resolve(f, "res", {})
           p3 == Open(f, "l", "listener", {"res"})
           p4 == Tries(f, OptionCalls(o) + 3, {"l", "res"})
           p5 == Release("res")
           p6 == Tries(f, 1, {"l"})
           p7 == Keep("l", "listener")
           p8 == Tries(f, 2, {"l"})
           p0 == IF Recreates(o) THEN TcpListenAnew(o) ELSE Use("l", "listener")
<1>0. f \in Callers /\ OptionCalls(o) + 3 \in Nat
  BY OptionCallsNat DEF Callers
<1>1. Flow(m, p1, a({}, "no", FALSE), a({}, "no", TRUE))
  BY UseFlow, Members, OneList
<1>2. Flow(m, p2, a({}, "no", TRUE), a({"res"}, "no", TRUE))
  <2>1. Safe(m, f, {}, a({}, "no", TRUE))
    BY DEF Safe, St
  <2> QED BY <1>0, <2>1, Moves, Members, OneList
<1>3. Flow(m, p3, a({"res"}, "no", TRUE), a({"res"}, "listener", TRUE))
  <2>1. Safe(m, f, {"res"}, a({"res"}, "no", TRUE))
    BY DEF Safe, St
  <2>2. MayOpen(m, "l", "listener", a({"res"}, "no", TRUE))
    BY Members DEF MayOpen, St
  <2> QED BY <1>0, <2>1, <2>2, OpenSlot, Members, OneList
<1>4. Flow(m, p4, a({"res"}, "listener", TRUE), a({"res"}, "listener", TRUE))
  <2>1. Safe(m, f, {"l", "res"}, a({"res"}, "listener", TRUE))
    BY DEF Safe, St
  <2> QED BY <1>0, <2>1, Moves, Members, OneList
<1>5. Flow(m, p5, a({"res"}, "listener", TRUE), a({}, "listener", TRUE))
  BY <1>0, ListFlow, Members, OneList
<1>6. Flow(m, p6, a({}, "listener", TRUE), a({}, "listener", TRUE))
  <2>1. Safe(m, f, {"l"}, a({}, "listener", TRUE))
    BY DEF Safe, St
  <2> QED BY <1>0, <2>1, Moves, Members, OneList
<1>7. Flow(m, p7, a({}, "listener", TRUE), a({}, "field", FALSE))
  BY KeepFlow, Members, OneList
<1>8. Flow(m, p8, a({}, "field", FALSE), a({}, "field", FALSE))
  <2>1. Safe(m, f, {"l"}, a({}, "field", FALSE))
    BY DEF Safe, St
  <2> QED BY <1>0, <2>1, Moves, Members, OneList
<1>9. Flow(m, Use("l", "listener"), a({}, "no", FALSE), a({}, "field", FALSE))
  BY UseFlow, Members, OneList
<1> HIDE DEF a, p1, p2, p3, p4, p5, p6, p7, p8
<1>10. Flow(m, p1 \o p2 \o p3, a({}, "no", FALSE), a({"res"}, "listener", TRUE))
  BY <1>1, <1>2, <1>3, FlowThen
<1>11. Flow(m, p1 \o p2 \o p3 \o p4 \o p5, a({}, "no", FALSE), a({}, "listener", TRUE))
  BY <1>4, <1>5, <1>10, FlowThen
<1>12. Flow(m, p1 \o p2 \o p3 \o p4 \o p5 \o p6 \o p7, a({}, "no", FALSE), a({}, "field", FALSE))
  BY <1>6, <1>7, <1>11, FlowThen
<1>13. TcpListenAnew(o) = p1 \o p2 \o p3 \o p4 \o p5 \o p6 \o p7
  BY DEF TcpListenAnew, p1, p2, p3, p4, p5, p6, p7
<1>14. TcpListen(o) = p0 \o p8
  BY DEF TcpListen, p8
<1>15. Flow(m, p0, a({}, "no", FALSE), a({}, "field", FALSE))
  BY <1>9, <1>12, <1>13
<1> HIDE DEF p0
<1>16. Flow(m, p0 \o p8, a({}, "no", FALSE), a({}, "field", FALSE))
  BY <1>8, <1>15, FlowThen
<1> QED BY <1>14, <1>16 DEF a

\* iperf_tcp_connect.
LEMMA TcpConnectFlow ==
  ASSUME NEW m, NEW o, m.also = {}, m.local = ("local" \in o), m.place # "accept"
  PROVE  Flow(m, TcpConnect(o), Sock({}, "no"), Sock({}, "data"))
<1> DEFINE f == "iperf_tcp_connect"
           p1 == CreateSocket(o)
           p2 == Tries(f, OptionCalls(o) + 2, {"s", "server"})
           p3 == Tries(f, 1, {"s", "server"})
           p4 == Release("server")
           p5 == Tries(f, 1, {"s"})
<1>0. f \in Callers /\ OptionCalls(o) + 2 \in Nat
  BY OptionCallsNat DEF Callers
<1>1. Flow(m, p1, Sock({}, "no"), Sock({"server"}, "data"))
  BY CreateSocketFlow
<1>2. Safe(m, f, {"s", "server"}, Sock({"server"}, "data"))
  BY DEF Safe, Sock, St
<1>3. Flow(m, p2, Sock({"server"}, "data"), Sock({"server"}, "data"))
  BY <1>0, <1>2, SockFlows, Members, OneList
<1>4. Flow(m, p3, Sock({"server"}, "data"), Sock({"server"}, "data"))
  BY <1>0, <1>2, SockFlows, Members, OneList
<1>5. Flow(m, p4, Sock({"server"}, "data"), Sock({}, "data"))
  BY <1>0, SockRelease, Members, OneList
<1>6. Flow(m, p5, Sock({}, "data"), Sock({}, "data"))
  <2>1. Safe(m, f, {"s"}, Sock({}, "data"))
    BY DEF Safe, Sock, St
  <2> QED BY <1>0, <2>1, SockFlows, Members, OneList
<1> HIDE DEF p1, p2, p3, p4, p5
<1>7. Flow(m, p1 \o p2 \o p3, Sock({}, "no"), Sock({"server"}, "data"))
  BY <1>1, <1>3, <1>4, FlowThen
<1>8. Flow(m, p1 \o p2 \o p3 \o p4 \o p5, Sock({}, "no"), Sock({}, "data"))
  BY <1>5, <1>6, <1>7, FlowThen
<1>9. TcpConnect(o) = p1 \o p2 \o p3 \o p4 \o p5
  BY DEF TcpConnect, TcpConnectOptions, p1, p2, p3, p4, p5
<1> QED BY <1>8, <1>9

\* The congestion control of a stream.
LEMMA CongestionFlow ==
  ASSUME NEW m, NEW o, m.also = {}
  PROVE  Flow(m, Congestion(o), Sock({}, "data"), Sock({}, "data"))
<1>1. "iperf_create_streams" \in Callers
  BY DEF Callers
<1>2. Safe(m, "iperf_create_streams", {"s"}, Sock({}, "data"))
  BY DEF Safe, Sock, St
<1>3. Flow(m, Tries("iperf_create_streams", 2, {"s"}), Sock({}, "data"), Sock({}, "data"))
      /\ Sock({}, "data") \in Holdings
  BY <1>1, <1>2, SockFlows, Members, OneList
<1> QED BY <1>3, FlowNone DEF Congestion, When

\* The buffers of a UDP socket are checked, and enlarged once.
LEMMA BufferChecksFlow ==
  ASSUME NEW m, NEW o, m.also = {}, NEW f \in {"iperf_udp_accept", "iperf_udp_connect"},
         NEW s \in {"prot", "data"}
  PROVE  Flow(m, BufferChecks(f, o), Sock({}, s), Sock({}, s))
<1>1. f \in Callers /\ f \in Spoilers /\ s \in SlotStates
  BY Members DEF Callers, Spoilers
<1>2. Safe(m, f, {}, Sock({}, s))
  BY <1>1 DEF Safe, Sock, St
<1>3. Sock({}, s) \in Holdings
      /\ \A n \in Nat : Flow(m, Tries(f, n, {}), Sock({}, s), Sock({}, s))
  BY <1>1, <1>2, SockFlows, OneList
<1>4. Flow(m, BufferCheck(f, o), Sock({}, s), Sock({}, s))
      /\ Flow(m, BufferCheck(f, o \cup {"bufsize"}), Sock({}, s), Sock({}, s))
  BY <1>3 DEF BufferCheck
<1>5. Flow(m, Keep("s", "bufsize"), Sock({}, s), Sock({}, s))
  BY <1>1, KeepFlow, Members, OneList DEF Sock
<1>6. Flow(m, Keep("s", "bufsize") \o BufferCheck(f, o \cup {"bufsize"}), Sock({}, s), Sock({}, s))
  BY <1>4, <1>5, FlowThen
<1>7. Flow(m, When("small" \in o /\ "bufsize" \notin o, Keep("s", "bufsize") \o BufferCheck(f, o \cup {"bufsize"})),
           Sock({}, s), Sock({}, s))
  BY <1>3, <1>6, FlowWhen
<1> QED BY <1>4, <1>7, FlowThen DEF BufferChecks

\* iperf_udp_connect.
LEMMA UdpConnectFlow ==
  ASSUME NEW m, NEW o, m.also = {}, m.local = ("local" \in o), m.place # "accept"
  PROVE  Flow(m, UdpConnect(o), Sock({}, "no"), Sock({}, "data"))
<1>1. Flow(m, NetDial(o), Sock({}, "no"), Sock({}, "data"))
  BY NetDialFlow
<1>2. Flow(m, BufferChecks("iperf_udp_connect", o), Sock({}, "data"), Sock({}, "data"))
  BY BufferChecksFlow
<1>3. Flow(m, Tries("iperf_udp_connect", 3, {}), Sock({}, "data"), Sock({}, "data"))
  <2>1. "iperf_udp_connect" \in Callers /\ "iperf_udp_connect" \in Spoilers
    BY DEF Callers, Spoilers
  <2>2. Safe(m, "iperf_udp_connect", {}, Sock({}, "data"))
    BY <2>1 DEF Safe, Sock, St
  <2> QED BY <2>1, <2>2, SockFlows, Members, OneList
<1>4. Flow(m, NetDial(o) \o BufferChecks("iperf_udp_connect", o), Sock({}, "no"), Sock({}, "data"))
  BY <1>1, <1>2, FlowThen
<1>5. UdpConnect(o) = NetDial(o) \o BufferChecks("iperf_udp_connect", o) \o Tries("iperf_udp_connect", 3, {})
  BY DEF UdpConnect
<1> QED BY <1>3, <1>4, <1>5, FlowThen

\* iperf_tcp_accept.
LEMMA TcpAcceptFlow ==
  ASSUME NEW m, m.also = {}, m.place = "accept", ~m.udp
  PROVE  Flow(m, TcpAccept, Sock({}, "no"), Sock({}, "data"))
<1>0. "iperf_tcp_accept" \in Callers
  BY DEF Callers
<1>1. Flow(m, Open("iperf_tcp_accept", "s", "data", {}), Sock({}, "no"), Sock({}, "data"))
  <2>1. Safe(m, "iperf_tcp_accept", {}, Sock({}, "no"))
    BY DEF Safe, Sock, St
  <2> QED BY <1>0, <2>1, SockFlows, Members, OneList
<1>2. Flow(m, Tries("cookie", 1, {"s"}), Sock({}, "data"), Sock({}, "data"))
  <2> DEFINE c == [op |-> "try", f |-> "cookie", what |-> "", as |-> "", undo |-> {"s"}]
  <2>1. Safe(m, "cookie", {"s"}, Sock({}, "data"))
    BY DEF Safe, Sock, St
  <2>2. Sock({}, "data") \in Holdings
    BY Members, OneList, StTyped DEF Sock
  <2>4. c \in Calls
    BY CallTyped, OneList DEF Operations
  <2>3. Fine(m, c, Sock({}, "data")) /\ After(c, Sock({}, "data")) = Sock({}, "data")
    BY <2>1 DEF Fine, After, Sock, St
  <2>5. Tries("cookie", 1, {"s"}) = [i \in 1 .. 1 |-> c]
    BY DEF Tries
  <2> HIDE DEF c
  <2>6. Flow(m, [i \in 1 .. 1 |-> c], Sock({}, "data"), Sock({}, "data"))
    <3>1. 1 \in Nat
      OBVIOUS
    <3> QED BY <2>2, <2>3, <2>4, <3>1, Repeated, Zenon
  <2> QED BY <2>5, <2>6
<1> QED BY <1>1, <1>2, FlowThen DEF TcpAccept

\* iperf_udp_accept: the socket of the listener goes to the stream, and a new one listens.
LEMMA UdpAcceptFlow ==
  ASSUME NEW m, NEW o, m.also = {}, m.server, m.place = "accept", m.udp
  PROVE  Flow(m, UdpAccept(o), Sock({}, "no"), St({}, "data", "field", "no", "no", FALSE))
<1> DEFINE f == "iperf_udp_accept"
           a(s, l) == St({}, s, l, "no", "no", FALSE)
           p1 == Use("s", "prot_listener")
           p2 == Tries(f, 2, {})
           p3 == BufferChecks(f, o)
           p4 == Keep("l", "prot_listener")
           p5 == UdpListen
           p6 == Tries(f, 1, {})
<1>0. f \in Callers /\ f \in Spoilers
  BY DEF Callers, Spoilers
<1>1. Flow(m, p1, a("no", "no"), a("prot", "no"))
  BY UseFlow, Members, OneList
<1>2. Flow(m, p2, a("prot", "no"), a("prot", "no"))
  <2>1. Safe(m, f, {}, a("prot", "no"))
    BY DEF Safe, St
  <2> QED BY <1>0, <2>1, Moves, Members, OneList
<1>3. Flow(m, p3, a("prot", "no"), a("prot", "no"))
  BY BufferChecksFlow DEF Sock
<1>4. Flow(m, p4, a("prot", "no"), a("data", "no"))
  BY KeepFlow, Members, OneList
<1>5. Flow(m, p5, a("data", "no"), a("data", "data"))
  BY AnnounceL
<1>6. Flow(m, p4, a("data", "data"), a("data", "field"))
  BY KeepFlow, Members, OneList
<1>7. Flow(m, p6, a("data", "field"), a("data", "field"))
  <2>1. Safe(m, f, {}, a("data", "field"))
    BY <1>0 DEF Safe, St
  <2> QED BY <1>0, <2>1, Moves, Members, OneList
<1>8. a("no", "no") = Sock({}, "no")
  BY DEF Sock
<1>9. UdpAccept(o) = p1 \o p2 \o p3 \o p4 \o p5 \o p4 \o p6
  BY DEF UdpAccept
<1> HIDE DEF a, p1, p2, p3, p4, p5, p6
<1>10. Flow(m, p1 \o p2 \o p3, a("no", "no"), a("prot", "no"))
  BY <1>1, <1>2, <1>3, FlowThen
<1>11. Flow(m, p1 \o p2 \o p3 \o p4 \o p5, a("no", "no"), a("data", "data"))
  BY <1>4, <1>5, <1>10, FlowThen
<1>12. Flow(m, p1 \o p2 \o p3 \o p4 \o p5 \o p4 \o p6, a("no", "no"), a("data", "field"))
  BY <1>6, <1>7, <1>11, FlowThen
<1> QED BY <1>8, <1>9, <1>12 DEF a

\* The file of a stream, if the test has one.
FileIn(o) == IF "file" \in o THEN "file" ELSE "no"

\* iperf_new_stream.
LEMMA NewStreamFlow ==
  ASSUME NEW m, NEW o, m.also = {}, NEW l \in {"no", "field"}
  PROVE  Flow(m, NewStreamCalls(o), St({}, "data", l, "no", "no", FALSE),
              St({}, "data", l, "buffer", FileIn(o), FALSE))
<1> DEFINE f == "iperf_new_stream"
           a(b, x) == St({}, "data", l, b, x, FALSE)
           p1 == Open(f, "buffer", "buffer", {})
           p2 == Tries(f, 3, {})
           p3 == When("file" \in o, Open(f, "file", "file", {}))
           p4 == Tries(f, 3, {"buffer"})
<1>0. f \in Callers /\ f \in Spoilers /\ l \in SlotStates /\ FileIn(o) \in SlotStates
  BY Members DEF Callers, Spoilers, FileIn
<1>1. Flow(m, p1, a("no", "no"), a("buffer", "no"))
  <2>1. Safe(m, f, {}, a("no", "no"))
    BY <1>0 DEF Safe, St
  <2>2. MayOpen(m, "buffer", "buffer", a("no", "no"))
    BY Members DEF MayOpen, St
  <2> QED BY <1>0, <2>1, <2>2, OpenSlot, Members, OneList
<1>2. Flow(m, p2, a("buffer", "no"), a("buffer", "no"))
  <2>1. Safe(m, f, {}, a("buffer", "no"))
    BY <1>0 DEF Safe, St
  <2> QED BY <1>0, <2>1, Moves, Members, OneList
<1>3. Flow(m, p3, a("buffer", "no"), a("buffer", FileIn(o)))
  <2>1. CASE "file" \in o
    <3>1. Safe(m, f, {}, a("buffer", "no"))
      BY <1>0 DEF Safe, St
    <3>2. MayOpen(m, "file", "file", a("buffer", "no"))
      BY Members DEF MayOpen, St
    <3>3. Flow(m, Open(f, "file", "file", {}), a("buffer", "no"), a("buffer", "file"))
      BY <1>0, <3>1, <3>2, OpenSlot, Members, OneList
    <3> QED BY <2>1, <3>3 DEF When, FileIn
  <2>2. CASE "file" \notin o
    <3>1. a("buffer", "no") \in Holdings
      BY <1>0, StTyped, Members, OneList
    <3> QED BY <2>2, <3>1, FlowNone DEF When, FileIn
  <2> QED BY <2>1, <2>2
<1>4. Flow(m, p4, a("buffer", FileIn(o)), a("buffer", FileIn(o)))
  <2>1. Safe(m, f, {"buffer"}, a("buffer", FileIn(o)))
    BY <1>0 DEF Safe, St
  <2> QED BY <1>0, <2>1, Moves, Members, OneList
<1>5. NewStreamCalls(o) = p1 \o p2 \o p3 \o p4
  BY DEF NewStreamCalls
<1> HIDE DEF a, p1, p2, p3, p4
<1>6. Flow(m, p1 \o p2 \o p3, a("no", "no"), a("buffer", FileIn(o)))
  BY <1>1, <1>2, <1>3, FlowThen
<1>7. Flow(m, p1 \o p2 \o p3 \o p4, a("no", "no"), a("buffer", FileIn(o)))
  BY <1>4, <1>6, FlowThen
<1> QED BY <1>5, <1>7 DEF a

\* Where a function runs: what decides which calls are right.
HereAt(o, at, u) ==
  [local |-> "local" \in o, server |-> at \notin {"connect", "streams"},
   udp |-> u, place |-> at, also |-> {}]
Here(o, at) == HereAt(o, at, sk.proto = "udp")

\* iperf_connect and its control socket.
LEMMA ConnectControlFlow ==
  ASSUME NEW o, NEW u
  PROVE  Flow(HereAt(o, "connect", u), ConnectControl(o), Sock({}, "no"), Sock({}, "ctrl"))
<1> DEFINE m == HereAt(o, "connect", u)
<1>0. m.also = {} /\ m.local = ("local" \in o \ {"cport"}) /\ m.place = "connect" /\ "iperf_connect" \in Callers
  BY DEF HereAt, Callers
<1> HIDE DEF m
<1>1. Flow(m, NetDial(o \ {"cport"}), Sock({}, "no"), Sock({}, "data"))
  BY <1>0, NetDialFlow
<1>2. Flow(m, Keep("s", "ctrl_sck"), Sock({}, "data"), Sock({}, "ctrl"))
  BY <1>0, KeepFlow, Members, OneList DEF Sock
<1>3. Flow(m, Tries("iperf_connect", 2, {}), Sock({}, "ctrl"), Sock({}, "ctrl"))
  <2>1. Safe(m, "iperf_connect", {}, Sock({}, "ctrl"))
    BY <1>0 DEF Safe, Sock, St
  <2> QED BY <1>0, <2>1, SockFlows, Members, OneList
<1>4. Flow(m, ConnectControl(o), Sock({}, "no"), Sock({}, "ctrl"))
  BY <1>1, <1>2, <1>3, FlowThen DEF ConnectControl
<1> QED BY <1>4 DEF m

\* A stream of the client.
LEMMA ConnectStreamFlow ==
  ASSUME NEW o
  PROVE  Flow(Here(o, "streams"), ConnectStream(o), Sock({}, "no"), St({}, "data", "no", "buffer", FileIn(o), FALSE))
<1> DEFINE m == Here(o, "streams")
           p == IF sk.proto = "tcp" THEN TcpConnect(o) \o Congestion(o) ELSE UdpConnect(o)
<1>0. m.also = {} /\ m.local = ("local" \in o) /\ m.place = "streams"
  BY DEF Here, HereAt
<1> HIDE DEF m
<1>1. Flow(m, p, Sock({}, "no"), Sock({}, "data"))
  <2>1. Flow(m, TcpConnect(o) \o Congestion(o), Sock({}, "no"), Sock({}, "data"))
    BY <1>0, TcpConnectFlow, CongestionFlow, FlowThen
  <2>2. Flow(m, UdpConnect(o), Sock({}, "no"), Sock({}, "data"))
    BY <1>0, UdpConnectFlow
  <2> QED BY <2>1, <2>2
<1>2. Flow(m, NewStreamCalls(o), Sock({}, "data"), St({}, "data", "no", "buffer", FileIn(o), FALSE))
  BY <1>0, NewStreamFlow DEF Sock
<1> HIDE DEF p
<1>3. Flow(m, p \o NewStreamCalls(o), Sock({}, "no"), St({}, "data", "no", "buffer", FileIn(o), FALSE))
  BY <1>1, <1>2, FlowThen
<1> QED BY <1>3 DEF m, p, ConnectStream

\* The listener of the server, at the start and after the last TCP stream.
LEMMA ListenFlow ==
  ASSUME NEW o, NEW u, NEW g \in BOOLEAN, NEW at \in {"listen", "relisten"}
  PROVE  Flow(HereAt(o, at, u), NetAnnounce("s", "listener") \o Keep("s", "listener"),
              St({}, "no", "no", "no", "no", g), St({}, "field", "no", "no", "no", g))
<1> DEFINE m == HereAt(o, at, u)
<1>0. m.also = {} /\ m.server /\ m.place \in {"listen", "relisten"}
  BY DEF HereAt
<1> HIDE DEF m
<1>1. Flow(m, NetAnnounce("s", "listener"), St({}, "no", "no", "no", "no", g), St({}, "listener", "no", "no", "no", g))
  BY <1>0, AnnounceS
<1>2. Flow(m, Keep("s", "listener"), St({}, "listener", "no", "no", "no", g), St({}, "field", "no", "no", "no", g))
  BY <1>0, KeepFlow, Members, OneList
<1>3. Flow(m, NetAnnounce("s", "listener") \o Keep("s", "listener"),
           St({}, "no", "no", "no", "no", g), St({}, "field", "no", "no", "no", g))
  BY <1>1, <1>2, FlowThen
<1> QED BY <1>3 DEF m

\* What a function that leaves nothing half done holds at its end.
Had(s, l, b, f) == St({}, s, l, b, f, FALSE)

\* iperf_accept: the control socket and the listener of the streams.
LEMMA AcceptControlFlow ==
  ASSUME NEW o, sk.proto \in {"tcp", "udp"}
  PROVE  Flow(Here(o, "control"), AcceptControl(o), Sock({}, "no"), Had("ctrl", "field", "no", "no"))
<1> DEFINE m == Here(o, "control")
           mm == [m EXCEPT !.also = {"s"}]
           f == "iperf_accept"
           a(s, l) == St({}, s, l, "no", "no", FALSE)
           listen == IF sk.proto = "tcp" THEN TcpListen(o) ELSE UdpListen
           p1 == Open(f, "s", "data", {})
           p2 == Keep("s", "ctrl_sck")
           p3 == Tries(f, 4, {"s"})
           p4 == AlsoUndo(listen)
           p5 == Keep("l", "prot_listener")
           p6 == Tries(f, 1, {"s"})
<1>0. m.also = {} /\ m.server /\ mm.also = {"s"} /\ mm.server /\ mm.local = m.local /\ m.server = mm.server /\ m.place = "control"
      /\ m.udp = mm.udp /\ m.place = mm.place /\ m.udp = (sk.proto = "udp") /\ f \in Callers
  BY DEF Here, HereAt, Callers
<1> HIDE DEF m, mm
<1>1. Flow(m, p1, a("no", "no"), a("data", "no"))
  <2>1. Safe(m, f, {}, a("no", "no"))
    BY <1>0 DEF Safe, St
  <2>2. MayOpen(m, "s", "data", a("no", "no"))
    BY <1>0, Members DEF MayOpen, St
  <2>3. {} \in SUBSET AddressLists /\ {} \in SUBSET Names
    BY OneList
  <2>4. "no" \in SlotStates /\ "data" \in Opened /\ FALSE \in BOOLEAN
    BY Members
  <2>5. ASSUME NEW g \in BOOLEAN, g = FALSE
        PROVE  Flow(m, Open("iperf_accept", "s", "data", {}), St({}, "no", "no", "no", "no", g),
                    St({}, "data", "no", "no", "no", g))
    <3>1. Safe(m, f, {}, St({}, "no", "no", "no", "no", g)) /\ MayOpen(m, "s", "data", St({}, "no", "no", "no", "no", g))
      BY <2>1, <2>2, <2>5

    <3> QED BY <1>0, <2>3, <2>4, <3>1, OpenSlot
  <2> QED BY <2>5
<1>2. Flow(m, p2, a("data", "no"), a("ctrl", "no"))
  BY <1>0, KeepFlow, Members, OneList
<1>3. Flow(m, p3, a("ctrl", "no"), a("ctrl", "no"))
  <2>1. Safe(m, f, {"s"}, a("ctrl", "no"))
    BY <1>0 DEF Safe, St
  <2> QED BY <1>0, <2>1, Moves, Members, OneList
<1>4. \E l \in {"data", "field"} : Flow(m, p4, a("ctrl", "no"), a("ctrl", l))
  <2>1. CASE sk.proto = "tcp"
    <3>1. Flow(mm, TcpListen(o), a("ctrl", "no"), a("ctrl", "field"))
      BY <1>0, <2>1, TcpListenFlow
    <3>2. Flow(m, AlsoUndo(TcpListen(o)), a("ctrl", "no"), a("ctrl", "field"))
      BY <1>0, <3>1, FlowAlso
    <3> QED BY <2>1, <3>2
  <2>2. CASE sk.proto # "tcp"
    <3>1. Flow(mm, UdpListen, a("ctrl", "no"), a("ctrl", "data"))
      BY <1>0, <2>2, AnnounceL
    <3>2. Flow(m, AlsoUndo(UdpListen), a("ctrl", "no"), a("ctrl", "data"))
      BY <1>0, <3>1, FlowAlso
    <3> QED BY <2>2, <3>2
  <2> QED BY <2>1, <2>2
<1>5. PICK l \in {"data", "field"} : Flow(m, p4, a("ctrl", "no"), a("ctrl", l))
  BY <1>4
<1>6. Flow(m, p5, a("ctrl", l), a("ctrl", "field"))
  <2>1. l \in SlotStates
    BY Members
  <2> QED BY <1>0, <2>1, KeepFlow, Members, OneList
<1>7. Flow(m, p6, a("ctrl", "field"), a("ctrl", "field"))
  <2>1. Safe(m, f, {"s"}, a("ctrl", "field"))
    BY <1>0 DEF Safe, St
  <2> QED BY <1>0, <2>1, Moves, Members, OneList
<1>8. AcceptControl(o) = p1 \o p2 \o p3 \o p4 \o p5 \o p6
  BY DEF AcceptControl, AlsoUndo
<1>9. a("no", "no") = Sock({}, "no")
  BY DEF Sock
<1> HIDE DEF a, p1, p2, p3, p4, p5, p6
<1>10. Flow(m, p1 \o p2 \o p3, a("no", "no"), a("ctrl", "no"))
  BY <1>1, <1>2, <1>3, FlowThen
<1>11. Flow(m, p1 \o p2 \o p3 \o p4, a("no", "no"), a("ctrl", l))
  BY <1>5, <1>10, FlowThen
<1>12. Flow(m, p1 \o p2 \o p3 \o p4 \o p5 \o p6, a("no", "no"), a("ctrl", "field"))
  BY <1>6, <1>7, <1>11, FlowThen
<1> QED BY <1>8, <1>9, <1>12 DEF a, m, Had

\* A stream of the server.
LEMMA AcceptStreamFlow ==
  ASSUME NEW o, sk.proto \in {"tcp", "udp"}
  PROVE  Flow(Here(o, "accept"), AcceptStreamCalls(o), Sock({}, "no"),
              Had("data", IF sk.proto = "tcp" THEN "no" ELSE "field", "buffer", FileIn(o)))
<1> DEFINE m == Here(o, "accept")
           a(s, l) == St({}, s, l, "no", "no", FALSE)
           tcp == sk.proto = "tcp"
           p1 == IF tcp THEN TcpAccept ELSE UdpAccept(o)
           p2 == When("tos" \in o, Tries("iperf_common_sockopts", 1, {}))
           p3 == When(tcp, Congestion(o))
           L == IF tcp THEN "no" ELSE "field"
<1>0. m.also = {} /\ m.server /\ m.place = "accept" /\ m.udp = (sk.proto = "udp") /\ "iperf_common_sockopts" \in Callers /\ "iperf_common_sockopts" \in Spoilers
      /\ L \in {"no", "field"} /\ L \in SlotStates
  BY Members DEF Here, HereAt, Callers, Spoilers
<1>1. Flow(m, p1, Sock({}, "no"), a("data", L))
  BY <1>0, TcpAcceptFlow, UdpAcceptFlow DEF Sock
<1>2. Flow(m, p2, a("data", L), a("data", L))
  <2>1. Safe(m, "iperf_common_sockopts", {}, a("data", L))
    BY <1>0 DEF Safe, St
  <2>2. Flow(m, Tries("iperf_common_sockopts", 1, {}), a("data", L), a("data", L)) /\ a("data", L) \in Holdings
    <3>1. {} \in SUBSET AddressLists /\ {} \in SUBSET Names /\ "no" \in SlotStates /\ "data" \in SlotStates /\ 1 \in Nat
      BY Members, OneList
    <3> HIDE DEF L
    <3> QED BY <1>0, <2>1, <3>1, Moves
  <2> QED BY <2>2, FlowNone DEF When
<1>3. Flow(m, p3, a("data", L), a("data", L))
  <2>1. a("data", L) \in Holdings
    BY <1>0, StTyped, Members, OneList
  <2>2. Flow(m, Congestion(o), Sock({}, "data"), Sock({}, "data"))
    BY <1>0, CongestionFlow
  <2>3. tcp => Sock({}, "data") = a("data", L)
    BY DEF Sock
  <2> HIDE DEF a
  <2> QED BY <2>1, <2>2, <2>3, FlowNone DEF When
<1>4. Flow(m, NewStreamCalls(o), a("data", L), St({}, "data", L, "buffer", FileIn(o), FALSE))
  BY <1>0, NewStreamFlow
<1>5. AcceptStreamCalls(o) = p1 \o p2 \o p3 \o NewStreamCalls(o)
  BY DEF AcceptStreamCalls
<1> HIDE DEF a, p1, p2, p3, L
<1>6. Flow(m, p1 \o p2 \o p3, Sock({}, "no"), a("data", L))
  BY <1>1, <1>2, <1>3, FlowThen
<1>7. Flow(m, p1 \o p2 \o p3 \o NewStreamCalls(o), Sock({}, "no"), St({}, "data", L, "buffer", FileIn(o), FALSE))
  BY <1>4, <1>6, FlowThen
<1> QED BY <1>0, <1>5, <1>7 DEF m, L, Had

----------------------------------------------------------------------------
(***************************************************************************)
(* The invariant.                                                          *)
(***************************************************************************)
\* What a number may be open for, the places, and a stream in the list.
Kinds == Opened \cup {"closed", "other"}
Descriptors == Numbers \cup {NoSocket}
Entries == [s : Descriptors, buffer : Descriptors, file : Descriptors]
JobPlaces == {"connect", "streams", "listen", "control", "accept", "relisten"}
Places == JobPlaces \cup {"new", "await", "test", "results", "failed", "ended", "freed", "exit"}

\* The values of the variables.
Tests == [role : {"none", "client", "server"}, proto : {"tcp", "udp"}, n : Nat,
          opts : SUBSET SocketOptions, ctrl_sck : Descriptors, listener : Descriptors,
          prot_listener : Descriptors, streams : Seq(Entries)]
Jobs == [todo : Seq(Calls), lists : SUBSET AddressLists,
         fd : [s : Descriptors, l : Descriptors, buffer : Descriptors, file : Descriptors]]
Histories == [failed : Callers \cup {"", "cookie", "stranger"}, stopped : BOOLEAN, farewell : BOOLEAN,
              wrongClose : BOOLEAN, freedTwice : BOOLEAN]

\* Type correctness.
SocketTypeOK ==
  /\ fds \in [Numbers -> Kinds] /\ sk \in Tests /\ job \in Jobs /\ place \in Places
  /\ past \in Histories

\* After an error or TEST_END the server's fields may name what is closed.
Lax == sk.role = "server" /\ place \in {"results", "failed"}
Sound(n, kinds) == n \in Numbers /\ (fds[n] \in kinds \/ (Lax /\ fds[n] = "closed"))

\* What the fields of struct iperf_test stand for; gone: the listener is closed.
Fields(gone) ==
  /\ sk.ctrl_sck = NoSocket \/ Sound(sk.ctrl_sck, {"data"})
  /\ \A i \in DOMAIN sk.streams : Sound(sk.streams[i].s, {"data"})
  /\ \/ sk.listener = NoSocket \/ Sound(sk.listener, {"listener"})
     \/ gone /\ Sound(sk.listener, {"listener", "closed"})
  /\ sk.proto = "udp" => sk.prot_listener = NoSocket \/ Sound(sk.prot_listener, {"data"})
  /\ sk.proto = "tcp" => \/ sk.prot_listener \in {NoSocket, sk.listener}
                         \/ gone /\ Sound(sk.prot_listener, {"listener", "closed"})

\* The streams in the list own their files.
Files ==
  \A i \in DOMAIN sk.streams :
    /\ sk.streams[i].buffer \in Numbers /\ fds[sk.streams[i].buffer] = "buffer"
    /\ \/ sk.streams[i].file = NoSocket
       \/ sk.streams[i].file \in Numbers /\ fds[sk.streams[i].file] = "file"

\* Where the function under way runs.
Mode == Here(sk.opts, place)

\* What the function under way holds when it is done.
Goal ==
  CASE place = "connect" -> Sock({}, "ctrl")
    [] place = "streams" -> St({}, "data", "no", "buffer", FileIn(sk.opts), FALSE)
    [] place = "listen" -> St({}, "field", "no", "no", "no", FALSE)
    [] place = "control" -> St({}, "ctrl", "field", "no", "no", FALSE)
    [] place = "accept" -> St({}, "data", IF sk.proto = "tcp" THEN "no" ELSE "field", "buffer",
                              FileIn(sk.opts), FALSE)
    [] place = "relisten" -> St({}, "field", "no", "no", "no", TRUE)

\* The descriptors that are held.
Held(a) == {job.fd[x] : x \in {y \in Slots : a[y] \in Opened}}

\* The slots hold what was opened for them.
SlotsOK(a) ==
  \A x \in Slots : /\ a[x] \in Opened => job.fd[x] \in Numbers /\ fds[job.fd[x]] = a[x]
                   /\ a[x] = "no" => job.fd[x] = NoSocket

\* Where a slot may be in which state, and the fields that are stored already.
StatesOK(a) ==
  /\ a.s \in {"no", "data", "listener", "ctrl", "field", "prot"}
  /\ a.l \in {"no", "data", "listener", "field"}
  /\ a.buffer \in {"no", "buffer"} /\ a.file \in {"no", "file"}
  /\ a.s = "ctrl" => place \in {"connect", "control"} /\ job.fd.s = sk.ctrl_sck /\ job.fd.s # NoSocket
  /\ a.s = "prot" => place = "accept" /\ sk.proto = "udp" /\ job.fd.s = sk.prot_listener
  /\ a.s \in {"listener", "field"} => place \in {"listen", "relisten"}
  /\ a.l = "listener" => sk.proto = "tcp" /\ place = "control"
  /\ a.l = "data" => /\ sk.proto = "udp" /\ place \in {"control", "accept"}
                     /\ place = "accept" => a.s = "data"
  /\ a.l = "field" => /\ place \in {"control", "accept"}
                      /\ sk.proto = "tcp" => job.fd.l = sk.listener
                      /\ sk.proto = "udp" => job.fd.l = sk.prot_listener /\ job.fd.l # NoSocket
  /\ a.gone => place \in {"control", "relisten"} /\ sk.proto = "tcp"

\* Fields that are not set yet.
UnsetOK(a) ==
  /\ place \in {"connect", "control"} /\ a.s # "ctrl" => sk.ctrl_sck = NoSocket
  /\ place = "listen" => sk.ctrl_sck = NoSocket /\ sk.prot_listener = NoSocket
  /\ place \in {"listen", "relisten"} /\ a.s # "field" => sk.listener = NoSocket
  /\ place = "control" /\ a.l # "field" => sk.prot_listener = NoSocket
  /\ place = "accept" /\ sk.proto = "udp" /\ a.s \in {"no", "prot"} => sk.prot_listener # NoSocket
  /\ place = "accept" /\ sk.proto = "udp" /\ a.s = "data" /\ a.l # "field" => sk.prot_listener = NoSocket

\* No two owners.
ApartOK(a) ==
  /\ a.s = "data" /\ (sk.role = "client" \/ sk.proto = "tcp") =>
       job.fd.s # sk.ctrl_sck /\ job.fd.s \notin StreamSocketNumbers
  /\ a.buffer = "buffer" => job.fd.buffer \notin StreamFiles
  /\ a.l = "data" => /\ job.fd.l \notin StreamSocketNumbers \cup {sk.ctrl_sck}
                     /\ a.s = "data" => job.fd.s # job.fd.l
  /\ sk.proto = "udp" /\ place \in {"control", "accept"} /\ sk.prot_listener # NoSocket =>
       /\ sk.prot_listener \notin StreamSocketNumbers \cup {sk.ctrl_sck}
       /\ a.s = "data" => job.fd.s # sk.prot_listener

\* Nothing else is open.
AccountsOK(a) ==
  /\ Left({"data"}) \subseteq {sk.ctrl_sck, sk.prot_listener} \cup StreamSocketNumbers \cup Held(a)
  /\ Left({"buffer", "file"}) \subseteq StreamFiles \cup Held(a)
  /\ ~a.gone => Left({"listener"}) \subseteq {sk.listener, sk.prot_listener} \cup Held(a)
  /\ a.gone => Left({"listener"}) \subseteq (IF a.s = "field" THEN {sk.listener} ELSE {}) \cup Held(a)

\* The function under way holds a and leads to its goal.
Doing(a) ==
  /\ a.lists = job.lists /\ Flow(Mode, job.todo, a, Goal)
  /\ SlotsOK(a) /\ StatesOK(a) /\ UnsetOK(a) /\ ApartOK(a) /\ AccountsOK(a) /\ Fields(a.gone)

\* At a function under way there is something that it holds.
JobOK == place \in JobPlaces => \E a \in Holdings : Doing(a)

\* What belongs to a place.
RolesOK ==
  /\ place = "new" <=> sk.role = "none"
  /\ place \in {"connect", "streams"} => sk.role = "client"
  /\ place \in {"listen", "control", "accept", "relisten", "await", "results", "exit"} => sk.role = "server"
  /\ place \notin JobPlaces => job = NoJob
  /\ place \notin {"failed", "ended", "freed", "exit"} => past.failed = ""
  /\ place \in {"new", "listen"} => sk.streams = <<>>
  /\ sk.role # "server" => sk.listener = NoSocket /\ sk.prot_listener = NoSocket
  /\ place = "new" => /\ sk.ctrl_sck = NoSocket
                      /\ \A n \in Numbers : fds[n] \in {"closed", "other"}

\* A function failed that leaves a data socket open.
Spoilt == past.failed \in Spoilers

\* Between functions: what the fields own, and at most one data socket that nothing owns.
RestOK ==
  /\ place = "await" =>
       /\ Fields(FALSE)
       /\ sk.proto = "udp" => /\ sk.prot_listener # NoSocket
                              /\ sk.prot_listener \notin StreamSocketNumbers \cup {sk.ctrl_sck}
  /\ place \in {"test", "results", "failed"} => Fields(TRUE)
  /\ place \in {"await", "test", "results", "failed"} =>
       /\ Left({"listener"}) \subseteq {sk.listener, sk.prot_listener}
       /\ past.failed # "iperf_new_stream" => Left({"buffer", "file"}) \subseteq StreamFiles
       /\ \E x \in Descriptors :
            /\ x # NoSocket => place = "failed" /\ Spoilt
            /\ Left({"data"}) \subseteq {sk.ctrl_sck, sk.prot_listener, x} \cup StreamSocketNumbers

\* At the end: nothing but the exceptions is open.
EndOK ==
  place \in {"ended", "freed"} /\ ~past.stopped =>
    /\ Left({"listener"}) = {}
    /\ past.failed # "iperf_new_stream" =>
         Left({"buffer", "file"}) \subseteq (IF place = "ended" THEN StreamFiles ELSE {})
    /\ \E x \in Descriptors, y \in Descriptors :
         /\ x # NoSocket => Spoilt
         /\ y # NoSocket => ~past.farewell
         /\ Left({"data"}) \subseteq {x, y}

\* The inductive invariant.
SocketInv ==
  /\ SocketTypeOK /\ RolesOK /\ Files /\ JobOK /\ RestOK /\ EndOK
  /\ ~past.wrongClose /\ ~past.freedTwice

----------------------------------------------------------------------------
(***************************************************************************)
(* A function goes on, or fails.                                           *)
(***************************************************************************)
\* One call of the function under way.
LEMMA SameMode ==
  ASSUME place' = place, sk'.proto = sk.proto,
         sk'.opts = sk.opts \/ sk'.opts = sk.opts \cup {"bufsize"}
  PROVE  Mode' = Mode /\ Goal' = Goal
<1>1. ("local" \in sk'.opts) = ("local" \in sk.opts) /\ ("file" \in sk'.opts) = ("file" \in sk.opts)
  OBVIOUS
<1>2. Mode' = Mode
  BY <1>1 DEF Mode, Here, HereAt
<1>3. FileIn(sk.opts)' = FileIn(sk.opts)
  BY <1>1 DEF FileIn
<1>4. Goal' = Goal
  BY <1>3 DEF Goal, Sock, St
<1> QED BY <1>2, <1>4

\* The rest of the invariant when a function goes on.
LEMMA JobGoesOn ==
  ASSUME SocketInv, place \in JobPlaces, place' = place, SocketTypeOK', Files',
         sk'.role = sk.role, sk'.streams = sk.streams, past'.failed = past.failed,
         sk.role # "server" => sk'.listener = NoSocket /\ sk'.prot_listener = NoSocket,
         ~past'.wrongClose, ~past'.freedTwice, NEW b \in Holdings, Doing(b)'
  PROVE  SocketInv'
<1>1. RolesOK'
  BY DEF SocketInv, RolesOK, JobPlaces
<1>2. JobOK'
  BY DEF JobOK
<1>3. RestOK'
  BY DEF RestOK, JobPlaces
<1>4. EndOK'
  BY DEF EndOK, JobPlaces
<1> QED BY <1>1, <1>2, <1>3, <1>4 DEF SocketInv

\* The call c is the next one, and a is held.
Step(c, a) == /\ job.todo # <<>> /\ c = Head(job.todo)
              /\ c \in Calls /\ Fine(Mode, c, a) /\ Flow(Mode, Tail(job.todo), After(c, a), Goal)

\* A function with calls left is one the invariant speaks of.
LEMMA JobUnderWay ==
  ASSUME SocketInv, job.todo # <<>>
  PROVE  /\ place \in JobPlaces
         /\ \E a \in Holdings : \E c : Doing(a) /\ Step(c, a) /\ After(c, a) \in Holdings
<1>1. place \in JobPlaces
  <2>1. NoJob.todo = <<>>
    BY DEF NoJob
  <2> QED BY <2>1 DEF SocketInv, RolesOK
<1>2. PICK a \in Holdings : Doing(a)
  BY <1>1 DEF SocketInv, JobOK
<1> DEFINE c == Head(job.todo)
<1>3. c \in Calls /\ Fine(Mode, c, a) /\ Flow(Mode, Tail(job.todo), After(c, a), Goal)
  BY <1>2, FlowHead DEF Doing
<1>4. After(c, a) \in Holdings
  <2>1. CASE Tail(job.todo) = <<>>
    <3>1. Flow(Mode, <<>>, After(c, a), Goal)
      BY <1>3, <2>1
    <3> QED BY <3>1, FlowEnd
  <2>2. CASE Tail(job.todo) # <<>>
    BY <1>3, <2>2, FlowHead
  <2> QED BY <2>1, <2>2
<1>5. Step(c, a)
  BY <1>3 DEF Step
<1> QED BY <1>1, <1>2, <1>4, <1>5

\* What a call leaves of what is held, as far as numbers are concerned.
Numbered(a, b) ==
  /\ a.s = b.s /\ a.l = b.l /\ a.buffer = b.buffer /\ a.file = b.file /\ a.gone = b.gone

\* When only lists change, what is said of descriptors stays true.
LEMMA SameHeld ==
  ASSUME NEW a \in Holdings, NEW b \in Holdings, Numbered(a, b), job'.fd = job.fd,
         UNCHANGED <<fds, sk, place>>,
         SlotsOK(a), StatesOK(a), UnsetOK(a), ApartOK(a), AccountsOK(a), Fields(a.gone)
  PROVE  SlotsOK(b)' /\ StatesOK(b)' /\ UnsetOK(b)' /\ ApartOK(b)' /\ AccountsOK(b)' /\ Fields(b.gone)'
<1>0. \A x \in Slots : a[x] = b[x]
  BY DEF Numbered, Slots, Holdings
<1>1. SlotsOK(b)'
  BY <1>0 DEF SlotsOK
<1>2. StatesOK(b)'
  BY DEF StatesOK, Numbered
<1>3. UnsetOK(b)'
  BY DEF UnsetOK, Numbered
<1>4. ApartOK(b)'
  BY DEF ApartOK, Numbered, StreamSocketNumbers, StreamFiles
<1>5. Held(b)' = Held(a)
  BY <1>0 DEF Held
<1>6. AccountsOK(b)'
  BY <1>5 DEF AccountsOK, Numbered, Left, StreamSocketNumbers, StreamFiles
<1>7. Fields(b.gone)'
  BY DEF Fields, Numbered, Sound, Lax
<1> QED BY <1>1, <1>2, <1>3, <1>4, <1>6, <1>7

\* The streams keep their files.
LEMMA SameFiles ==
  ASSUME Files, sk'.streams = sk.streams, fds' = fds
  PROVE  Files'
<1> QED BY DEF Files

\* The list of a getaddrinfo is asked for or freed, or nothing happens.
LEMMA ListStep ==
  ASSUME SocketInv, NEW a \in Holdings, NEW c, Doing(a), Step(c, a), After(c, a) \in Holdings,
         place \in JobPlaces, CallWorks, c.op \in {"try", "resolve", "release"}
  PROVE  SocketInv'
<1> DEFINE b == After(c, a)
<1>1. c = Head(job.todo) /\ c \in Calls /\ Fine(Mode, c, a) /\ a.lists = job.lists
  BY DEF Step, Doing
<1>2. /\ c.op = "try" => b = a
      /\ c.op = "resolve" => b = [a EXCEPT !.lists = @ \cup {c.what}]
      /\ c.op = "release" => b = [a EXCEPT !.lists = @ \ {c.what}]
  BY DEF After
<1>3. Numbered(a, b) /\ (c.op = "try" => b.lists = a.lists)
      /\ (c.op = "resolve" => b.lists = a.lists \cup {c.what})
      /\ (c.op = "release" => b.lists = a.lists \ {c.what})
  BY <1>2 DEF Numbered, Holdings
<1> HIDE DEF b
<1>4. /\ UNCHANGED <<fds, sk, place>> /\ past'.failed = past.failed /\ ~past'.wrongClose
      /\ job'.fd = job.fd /\ job'.todo = Tail(job.todo) /\ ~past'.freedTwice /\ job'.lists = b.lists
      /\ past' \in Histories /\ job' = [todo |-> Tail(job.todo), fd |-> job.fd, lists |-> b.lists]
  <2>1. /\ job = [todo |-> job.todo, fd |-> job.fd, lists |-> job.lists]
        /\ past \in Histories /\ ~past.wrongClose /\ ~past.freedTwice
    BY DEF SocketInv, SocketTypeOK, Jobs
  <2>2. CASE c.op = "try"
    <3>1. job' = [job EXCEPT !.todo = Tail(@)] /\ UNCHANGED <<fds, sk, past, place>>
      BY <1>1, <2>2 DEF CallWorks
    <3> QED BY <1>1, <1>3, <2>1, <2>2, <3>1
  <2>3. CASE c.op = "resolve"
    <3>1. job' = [[job EXCEPT !.todo = Tail(@)] EXCEPT !.lists = @ \cup {c.what}] /\ UNCHANGED <<fds, sk, past, place>>
      BY <1>1, <2>3 DEF CallWorks
    <3> QED BY <1>1, <1>3, <2>1, <2>3, <3>1
  <2>4. CASE c.op = "release"
    <3>1. c.what \in job.lists
      BY <1>1, <2>4 DEF Fine
    <3>2. /\ job' = [[job EXCEPT !.todo = Tail(@)] EXCEPT !.lists = @ \ {c.what}] /\ UNCHANGED <<fds, sk, place>>
          /\ past' = [past EXCEPT !.freedTwice = @ \/ c.what \notin job.lists]
      BY <1>1, <2>4 DEF CallWorks
    <3>3. past'.failed = past.failed /\ ~past'.wrongClose /\ ~past'.freedTwice /\ past' \in Histories
      BY <2>1, <3>1, <3>2 DEF Histories
    <3> QED BY <1>1, <1>3, <2>1, <2>4, <3>2, <3>3
  <2> QED BY <2>2, <2>3, <2>4
<1>5. SocketTypeOK'
  <2>1. Tail(job.todo) \in Seq(Calls) /\ b.lists \in SUBSET AddressLists
    <3>1. b \in Holdings
      BY DEF b
    <3>2. job.todo \in Seq(Calls) /\ job.todo # <<>>
      BY DEF Step, SocketInv, SocketTypeOK, Jobs
    <3>3. Tail(job.todo) \in Seq(Calls)
      BY <3>2
    <3> QED BY <3>1, <3>3 DEF Holdings
  <2>2. job' \in Jobs
    <3>1. job.fd \in [s : Descriptors, l : Descriptors, buffer : Descriptors, file : Descriptors]
      BY DEF SocketInv, SocketTypeOK, Jobs
    <3> QED BY <1>4, <2>1, <3>1 DEF Jobs
  <2> QED BY <1>4, <2>2 DEF SocketInv, SocketTypeOK
<1>6. Doing(b)'
  <2>1. Mode' = Mode /\ Goal' = Goal
    BY <1>4, SameMode
  <2>2. Flow(Mode, Tail(job.todo), b, Goal)
    BY DEF Step, b
  <2>3. SlotsOK(b)' /\ StatesOK(b)' /\ UnsetOK(b)' /\ ApartOK(b)' /\ AccountsOK(b)' /\ Fields(b.gone)'
    BY <1>3, <1>4, SameHeld DEF Doing, b
  <2> QED BY <1>4, <2>1, <2>2, <2>3 DEF Doing
<1>7. Files' /\ b \in Holdings
  BY <1>4, SameFiles DEF SocketInv, b
<1>8. sk.role # "server" => sk'.listener = NoSocket /\ sk'.prot_listener = NoSocket
  BY <1>4 DEF SocketInv, RolesOK
<1> QED BY <1>4, <1>5, <1>6, <1>7, <1>8, JobGoesOn

\* Where the job is, no field names what is closed, but the listener's.
LEMMA Strict ==
  ASSUME place \in JobPlaces
  PROVE  ~Lax /\ \A n, kinds : Sound(n, kinds) <=> n \in Numbers /\ fds[n] \in kinds
<1> QED BY DEF Lax, JobPlaces, Sound

\* A number that was closed is opened for the slot x.
LEMMA OpenedHeld ==
  ASSUME SocketTypeOK, Files, place \in JobPlaces, UNCHANGED <<sk, place>>,
         NEW a \in Holdings, NEW b, NEW x \in Slots, NEW k \in Opened, NEW n \in Numbers,
         MayOpen(Mode, x, k, a), b = [a EXCEPT ![x] = k], fds[n] = "closed",
         fds' = [fds EXCEPT ![n] = k], job'.fd = [job.fd EXCEPT ![x] = n],
         SlotsOK(a), StatesOK(a), UnsetOK(a), ApartOK(a), AccountsOK(a), Fields(a.gone)
  PROVE  /\ SlotsOK(b)' /\ StatesOK(b)' /\ UnsetOK(b)' /\ ApartOK(b)' /\ AccountsOK(b)' /\ Fields(b.gone)'
         /\ Files'
<1> USE DEF NoSocket
<1>1. /\ fds \in [Numbers -> Kinds] /\ fds'[n] = k /\ \A y \in Numbers : y # n => fds'[y] = fds[y]
      /\ k \in {"data", "listener", "buffer", "file"} /\ "closed" \notin Opened /\ 0 \notin Numbers
  <2>1. fds \in [Numbers -> Kinds]
    BY DEF SocketTypeOK
  <2>2. 0 \notin Numbers
    BY DEF Numbers
  <2> QED BY <2>1, <2>2 DEF Opened
<1>2. /\ job.fd \in [s : Descriptors, l : Descriptors, buffer : Descriptors, file : Descriptors]
      /\ job'.fd[x] = n /\ \A y \in Slots : y # x => job'.fd[y] = job.fd[y]
  BY DEF SocketTypeOK, Slots, Jobs
<1>3. /\ b[x] = k /\ a[x] = "no" /\ \A y \in Slots : y # x => b[y] = a[y]
      /\ b.gone = a.gone /\ b \in Holdings
  BY DEF Slots, Holdings, MayOpen, SlotStates
<1>4. ~Lax /\ ~Lax' /\ Mode.udp = (sk.proto = "udp") /\ Mode.place = place
  BY Strict DEF Mode, Here, HereAt, Lax
<1>5. \A m \in Numbers : fds[m] # "closed" => m # n /\ fds'[m] = fds[m]
  BY <1>1
<1> HIDE DEF NoSocket
<1>6. SlotsOK(b)'
  <2>1. ASSUME NEW y \in Slots
        PROVE  /\ b[y] \in Opened => job'.fd[y] \in Numbers /\ fds'[job'.fd[y]] = b[y]
               /\ b[y] = "no" => job'.fd[y] = NoSocket
    <3>1. CASE y = x
      BY <1>1, <1>2, <1>3, <3>1
    <3>2. CASE y # x
      BY <1>2, <1>3, <1>1, <1>5, <3>2 DEF SlotsOK
    <3> QED BY <3>1, <3>2
  <2> QED BY <2>1 DEF SlotsOK
<1>7. /\ x = "s" => b.s = k /\ b.l = a.l /\ b.buffer = a.buffer /\ b.file = a.file /\ a.s = "no"
                    /\ job'.fd.s = n /\ job'.fd.l = job.fd.l /\ job'.fd.buffer = job.fd.buffer
      /\ x = "l" => b.s = a.s /\ b.l = k /\ b.buffer = a.buffer /\ b.file = a.file /\ a.l = "no"
                    /\ job'.fd.s = job.fd.s /\ job'.fd.l = n /\ job'.fd.buffer = job.fd.buffer
      /\ x = "buffer" => b.s = a.s /\ b.l = a.l /\ b.buffer = k /\ b.file = a.file /\ a.buffer = "no"
                    /\ job'.fd.s = job.fd.s /\ job'.fd.l = job.fd.l /\ job'.fd.buffer = n
      /\ x = "file" => b.s = a.s /\ b.l = a.l /\ b.buffer = a.buffer /\ b.file = k /\ a.file = "no"
                    /\ job'.fd.s = job.fd.s /\ job'.fd.l = job.fd.l /\ job'.fd.buffer = job.fd.buffer
      /\ x \in {"s", "l", "buffer", "file"}
  BY <1>2, <1>3 DEF Slots
<1>8. StatesOK(b)'
  <2>1. sk.proto \in {"tcp", "udp"}
    BY DEF SocketTypeOK, Tests
  <2>2. CASE x = "s"
    <3>1. /\ k \in {"data", "listener"} /\ (place = "accept" => sk.proto # "udp") /\ (a.gone => k = "listener")
          /\ k = "listener" => place \in {"listen", "relisten"}
      BY <1>1, <1>4, <2>2 DEF MayOpen
    <3> QED BY <1>3, <1>7, <2>1, <2>2, <3>1 DEF StatesOK
  <2>3. CASE x = "l"
    <3>1. /\ sk.proto = "udp" => k = "data" /\ (place = "control" \/ (place = "accept" /\ a.s = "data"))
          /\ sk.proto # "udp" => k = "listener" /\ place = "control" /\ a.gone
      BY <1>1, <1>4, <2>3 DEF MayOpen
    <3> QED BY <1>3, <1>7, <2>1, <2>3, <3>1 DEF StatesOK
  <2>4. CASE x \in {"buffer", "file"}
    BY <1>1, <1>3, <1>4, <1>7, <2>1, <2>4 DEF StatesOK, MayOpen
  <2> QED BY <1>7, <2>2, <2>3, <2>4
<1>9. UnsetOK(b)'
  BY <1>1, <1>3, <1>4, <1>7 DEF UnsetOK, MayOpen
<1>10. ApartOK(b)'
  <2>1. n # sk.ctrl_sck /\ n \notin StreamSocketNumbers
    BY <1>1, <1>4, <1>5 DEF Fields, Sound, StreamSocketNumbers, NoSocket
  <2>2. n \notin StreamFiles
    BY <1>1, <1>5 DEF Files, StreamFiles, NoSocket
  <2>3. StreamSocketNumbers' = StreamSocketNumbers /\ StreamFiles' = StreamFiles
    BY DEF StreamSocketNumbers, StreamFiles
  <2>4. /\ a.s = "data" => job.fd.s # n
        /\ a.l = "data" => job.fd.l # n
    BY <1>5 DEF SlotsOK, Slots, Opened
  <2>5. sk.proto = "udp" /\ sk.prot_listener # NoSocket => sk.prot_listener # n
    BY <1>4, <1>5 DEF Fields, Sound
  <2>6. /\ b.s = "data" /\ (sk.role = "client" \/ sk.proto = "tcp") =>
             job'.fd.s # sk.ctrl_sck /\ job'.fd.s \notin StreamSocketNumbers
        /\ b.buffer = "buffer" => job'.fd.buffer \notin StreamFiles
    BY <1>7, <2>1, <2>2 DEF ApartOK
  <2>7. b.l = "data" => /\ job'.fd.l \notin StreamSocketNumbers \cup {sk.ctrl_sck}
                        /\ b.s = "data" => job'.fd.s # job'.fd.l
    BY <1>7, <2>1, <2>4 DEF ApartOK
  <2>8. sk.proto = "udp" /\ place \in {"control", "accept"} /\ sk.prot_listener # NoSocket =>
          /\ sk.prot_listener \notin StreamSocketNumbers \cup {sk.ctrl_sck}
          /\ b.s = "data" => job'.fd.s # sk.prot_listener
    BY <1>7, <2>5 DEF ApartOK
  <2> QED BY <2>3, <2>6, <2>7, <2>8 DEF ApartOK
<1>11. AccountsOK(b)'
  <2>1. Held(a) \subseteq Held(b)' /\ n \in Held(b)'
    <3>1. \A y \in Slots : a[y] \in Opened => y # x /\ b[y] \in Opened /\ job'.fd[y] = job.fd[y]
      BY <1>2, <1>3 DEF Opened
    <3> QED BY <1>2, <1>3, <3>1 DEF Held
  <2>2. \A K : Left(K)' \subseteq Left(K) \cup {n}
    BY <1>1 DEF Left
  <2>3. StreamSocketNumbers' = StreamSocketNumbers /\ StreamFiles' = StreamFiles
    BY DEF StreamSocketNumbers, StreamFiles
  <2>4. (b.s = "field") = (a.s = "field")
    BY <1>1, <1>7
  <2>5. /\ Left({"data"})' \subseteq {sk.ctrl_sck, sk.prot_listener} \cup StreamSocketNumbers \cup Held(b)'
        /\ Left({"buffer", "file"})' \subseteq StreamFiles \cup Held(b)'
    <3>1. /\ Left({"data"}) \subseteq {sk.ctrl_sck, sk.prot_listener} \cup StreamSocketNumbers \cup Held(a)
          /\ Left({"buffer", "file"}) \subseteq StreamFiles \cup Held(a)
      BY DEF AccountsOK
    <3>2. Left({"data"})' \subseteq Left({"data"}) \cup {n} /\ Left({"buffer", "file"})' \subseteq Left({"buffer", "file"}) \cup {n}
      BY <2>2
    <3> QED BY <2>1, <3>1, <3>2
  <2>6. /\ ~a.gone => Left({"listener"})' \subseteq {sk.listener, sk.prot_listener} \cup Held(b)'
        /\ a.gone => Left({"listener"})' \subseteq (IF a.s = "field" THEN {sk.listener} ELSE {}) \cup Held(b)'
    <3> DEFINE F == IF a.s = "field" THEN {sk.listener} ELSE {}
               G == {sk.listener, sk.prot_listener}
    <3>1. (~a.gone => Left({"listener"}) \subseteq G \cup Held(a)) /\ (a.gone => Left({"listener"}) \subseteq F \cup Held(a))
      BY DEF AccountsOK
    <3> HIDE DEF F, G
    <3>2. (~a.gone => Left({"listener"})' \subseteq G \cup Held(b)') /\ (a.gone => Left({"listener"})' \subseteq F \cup Held(b)')
      BY <2>1, <2>2, <3>1
    <3> QED BY <3>2 DEF F, G
  <2> QED BY <1>3, <2>3, <2>4, <2>5, <2>6 DEF AccountsOK
<1>12. Fields(b.gone)'
  <2>1. a.gone => k = "listener"
    BY DEF MayOpen
  <2>2. \A m, K : Sound(m, K) /\ "closed" \notin K => Sound(m, K)'
    BY <1>4, <1>5 DEF Sound
  <2>3. \A m : a.gone /\ Sound(m, {"listener", "closed"}) => Sound(m, {"listener", "closed"})'
    BY <1>1, <1>4, <2>1 DEF Sound
  <2> QED BY <1>3, <2>2, <2>3 DEF Fields
<1>13. Files'
  BY <1>5 DEF Files
<1> QED BY <1>6, <1>8, <1>9, <1>10, <1>11, <1>12, <1>13

\* A descriptor is opened.
LEMMA OpenStep ==
  ASSUME SocketInv, NEW a \in Holdings, NEW c, Doing(a), Step(c, a), After(c, a) \in Holdings,
         place \in JobPlaces, CallWorks, c.op = "open"
  PROVE  SocketInv'
<1> DEFINE b == After(c, a)
<1>1. c = Head(job.todo) /\ c \in Calls /\ Fine(Mode, c, a) /\ a.lists = job.lists
  BY DEF Step, Doing
<1>2. b = [a EXCEPT ![c.what] = c.as] /\ MayOpen(Mode, c.what, c.as, a)
  BY <1>1 DEF After, Fine
<1>3. c.what \in Slots /\ c.as \in Opened
  BY <1>2 DEF MayOpen, Slots, Opened
<1>4. PICK n \in Numbers : fds[n] = "closed" /\ fds' = [fds EXCEPT ![n] = c.as]
                           /\ job' = [[job EXCEPT !.todo = Tail(@)] EXCEPT !.fd[c.what] = n]
  BY <1>1 DEF CallWorks, Lowest
<1>5. job'.todo = Tail(job.todo) /\ job'.lists = job.lists /\ job'.fd = [job.fd EXCEPT ![c.what] = n]
  BY <1>4 DEF SocketInv, SocketTypeOK
<1>6. UNCHANGED <<sk, past, place>>
  BY <1>1 DEF CallWorks
<1>7. SocketTypeOK'
  <2>1. Tail(job.todo) \in Seq(Calls)
    <3>1. job.todo \in Seq(Calls) /\ job.todo # <<>>
      BY DEF Step, SocketInv, SocketTypeOK, Jobs
    <3> QED BY <3>1
  <2>2. job.fd \in [s : Descriptors, l : Descriptors, buffer : Descriptors, file : Descriptors]
        /\ n \in Descriptors
    BY DEF SocketInv, SocketTypeOK, Descriptors, Jobs
  <2>3. [job.fd EXCEPT ![c.what] = n] \in [s : Descriptors, l : Descriptors, buffer : Descriptors, file : Descriptors]
    BY <1>3, <2>2 DEF Slots
  <2>4. job' \in Jobs
    BY <1>4, <1>5, <2>1, <2>3 DEF SocketInv, SocketTypeOK, Jobs
  <2>5. fds' \in [Numbers -> Kinds]
    BY <1>3, <1>4 DEF SocketInv, SocketTypeOK, Kinds
  <2> QED BY <1>6, <2>4, <2>5 DEF SocketInv, SocketTypeOK
<1>8. /\ SlotsOK(b)' /\ StatesOK(b)' /\ UnsetOK(b)' /\ ApartOK(b)' /\ AccountsOK(b)' /\ Fields(b.gone)'
      /\ Files'
  BY <1>2, <1>3, <1>4, <1>5, <1>6, OpenedHeld DEF SocketInv, Doing
<1>9. Doing(b)'
  <2>1. Mode' = Mode /\ Goal' = Goal
    BY <1>6, SameMode
  <2>2. Flow(Mode, Tail(job.todo), b, Goal)
    BY DEF Step
  <2>3. b.lists = a.lists
    BY <1>2, <1>3 DEF Holdings, Slots
  <2> HIDE DEF b
  <2> QED BY <1>1, <1>5, <1>8, <2>1, <2>2, <2>3 DEF Doing
<1>10. sk.role # "server" => sk'.listener = NoSocket /\ sk'.prot_listener = NoSocket
  BY <1>6 DEF SocketInv, RolesOK
<1>11. ~past'.wrongClose /\ ~past'.freedTwice /\ past'.failed = past.failed
  BY <1>6 DEF SocketInv
<1> HIDE DEF b
<1>12. b \in Holdings
  BY DEF b
<1> QED BY <1>6, <1>7, <1>8, <1>9, <1>10, <1>11, <1>12, JobGoesOn

\* While a function is under way the fields are strict.
LEMMA JobFacts ==
  ASSUME SocketTypeOK, place \in JobPlaces, UNCHANGED <<fds, place>>
  PROVE  /\ ~Lax /\ ~Lax' /\ sk.proto \in {"tcp", "udp"} /\ 0 \notin Numbers /\ NoSocket = 0
         /\ \A m, K : Sound(m, K) <=> m \in Numbers /\ fds[m] \in K
         /\ \A m, K : Sound(m, K)' <=> m \in Numbers /\ fds[m] \in K
<1>1. ~Lax /\ ~Lax'
  BY DEF Lax, JobPlaces
<1>2. sk.proto \in {"tcp", "udp"}
  BY DEF SocketTypeOK, Tests
<1>3. 0 \notin Numbers /\ NoSocket = 0
  BY DEF Numbers, NoSocket
<1>4. \A m, K : Sound(m, K) <=> m \in Numbers /\ fds[m] \in K
  BY <1>1 DEF Sound
<1>5. \A m, K : Sound(m, K)' <=> m \in Numbers /\ fds[m] \in K
  BY <1>1 DEF Sound
<1> QED BY <1>1, <1>2, <1>3, <1>4, <1>5

\* The same streams have the same sockets and files.
LEMMA SameStreams ==
  ASSUME sk'.streams = sk.streams
  PROVE  StreamSocketNumbers' = StreamSocketNumbers /\ StreamFiles' = StreamFiles
<1> QED BY DEF StreamSocketNumbers, StreamFiles

\* The test, when one of its fields is set.
LEMMA Stores ==
  ASSUME SocketTypeOK, NEW v
  PROVE  /\ [sk EXCEPT !.ctrl_sck = v].ctrl_sck = v /\ [sk EXCEPT !.ctrl_sck = v].listener = sk.listener
         /\ [sk EXCEPT !.ctrl_sck = v].prot_listener = sk.prot_listener
         /\ [sk EXCEPT !.listener = v].ctrl_sck = sk.ctrl_sck /\ [sk EXCEPT !.listener = v].listener = v
         /\ [sk EXCEPT !.listener = v].prot_listener = sk.prot_listener
         /\ [sk EXCEPT !.prot_listener = v].ctrl_sck = sk.ctrl_sck
         /\ [sk EXCEPT !.prot_listener = v].listener = sk.listener
         /\ [sk EXCEPT !.prot_listener = v].prot_listener = v
         /\ \A t \in {[sk EXCEPT !.ctrl_sck = v], [sk EXCEPT !.listener = v], [sk EXCEPT !.prot_listener = v]} :
              t.role = sk.role /\ t.proto = sk.proto /\ t.n = sk.n /\ t.opts = sk.opts /\ t.streams = sk.streams
<1>1. sk = [role |-> sk.role, proto |-> sk.proto, n |-> sk.n, opts |-> sk.opts, ctrl_sck |-> sk.ctrl_sck,
            listener |-> sk.listener, prot_listener |-> sk.prot_listener, streams |-> sk.streams]
  BY DEF SocketTypeOK, Tests
<1> QED BY <1>1

\* A slot whose descriptor a field takes over; the others stay.
LEMMA SlotKept ==
  ASSUME NEW a, NEW b, NEW x \in Slots, \A y \in Slots : y # x => b[y] = a[y],
         SlotsOK(a), fds' = fds, job'.fd = job.fd, b[x] \notin Opened \cup {"no"}
  PROVE  SlotsOK(b)'
<1>1. ASSUME NEW y \in Slots
      PROVE  /\ b[y] \in Opened => job'.fd[y] \in Numbers /\ fds'[job'.fd[y]] = b[y]
             /\ b[y] = "no" => job'.fd[y] = NoSocket
  <2>1. CASE y = x
    BY <2>1
  <2>2. CASE y # x
    BY <2>2 DEF SlotsOK
  <2> QED BY <2>1, <2>2
<1> QED BY <1>1 DEF SlotsOK

\* A descriptor is stored in a field of struct iperf_test.
LEMMA KeptControl ==
  ASSUME SocketTypeOK, RolesOK, Files, place \in JobPlaces, UNCHANGED <<fds, place>>, job'.fd = job.fd,
         NEW a \in Holdings, NEW b,
         SlotsOK(a), StatesOK(a), UnsetOK(a), ApartOK(a), AccountsOK(a), Fields(a.gone),
         a.s = "data", place \in {"connect", "control"}, b = [a EXCEPT !.s = "ctrl"],
         sk' = [sk EXCEPT !.ctrl_sck = job.fd.s]
  PROVE  SlotsOK(b)' /\ StatesOK(b)' /\ UnsetOK(b)' /\ ApartOK(b)' /\ AccountsOK(b)' /\ Fields(b.gone)'
<1>1. /\ ~Lax /\ ~Lax' /\ sk.proto \in {"tcp", "udp"} /\ 0 \notin Numbers /\ NoSocket = 0
      /\ \A m, K : Sound(m, K) <=> m \in Numbers /\ fds[m] \in K
      /\ \A m, K : Sound(m, K)' <=> m \in Numbers /\ fds[m] \in K
  BY JobFacts
<1>2. /\ sk'.ctrl_sck = job.fd.s /\ sk'.listener = sk.listener /\ sk'.prot_listener = sk.prot_listener
      /\ sk'.streams = sk.streams /\ sk'.proto = sk.proto /\ sk'.role = sk.role
      /\ StreamSocketNumbers' = StreamSocketNumbers /\ StreamFiles' = StreamFiles
  <2>1. /\ sk'.ctrl_sck = job.fd.s /\ sk'.listener = sk.listener /\ sk'.prot_listener = sk.prot_listener
        /\ sk'.streams = sk.streams /\ sk'.proto = sk.proto /\ sk'.role = sk.role
    BY Stores
  <2> QED BY <2>1, SameStreams
<1>3. /\ b.s = "ctrl" /\ b.l = a.l /\ b.buffer = a.buffer /\ b.file = a.file /\ b.gone = a.gone
       /\ b \in Holdings
  BY DEF Holdings, SlotStates, Opened
<1>4. (\A x \in Slots : x # "s" => b[x] = a[x]) /\ "s" \in Slots
  BY <1>3 DEF Slots, Holdings
<1>5. job.fd.s \in Numbers /\ fds[job.fd.s] = "data" /\ sk.ctrl_sck = 0
  BY <1>1 DEF SlotsOK, Slots, Opened, UnsetOK
<1>6. SlotsOK(b)'
  <2>1. b["s"] \notin Opened \cup {"no"}
    BY <1>3 DEF Opened
  <2> QED BY <1>4, <2>1, SlotKept
<1>7. StatesOK(b)'
  BY <1>1, <1>2, <1>3, <1>5 DEF StatesOK, UnsetOK
<1>8. UnsetOK(b)'
  BY <1>1, <1>2, <1>3, <1>5 DEF UnsetOK, StatesOK
<1>9. ApartOK(b)'
  <2>1. b.buffer = "buffer" => job.fd.buffer \notin StreamFiles
    BY <1>3 DEF ApartOK
  <2>2. b.l = "data" => job.fd.l \notin StreamSocketNumbers \cup {job.fd.s}
    BY <1>3 DEF ApartOK
  <2>3. sk.proto = "udp" /\ place \in {"control", "accept"} /\ sk.prot_listener # NoSocket =>
          sk.prot_listener \notin StreamSocketNumbers \cup {job.fd.s}
    BY DEF ApartOK
  <2> QED BY <1>2, <1>3, <2>1, <2>2, <2>3 DEF ApartOK
<1>10. Held(a) \subseteq Held(b)' \cup {job.fd.s}
  BY <1>4 DEF Held
<1>11. /\ \A K : Left(K)' = Left(K) /\ 0 \notin Left(K)
       /\ \A K : "data" \notin K => job.fd.s \notin Left(K)
  BY <1>1, <1>5 DEF Left
<1>12. AccountsOK(b)'
  BY <1>1, <1>2, <1>3, <1>5, <1>10, <1>11 DEF AccountsOK, StatesOK
<1>13. Fields(b.gone)'
  BY <1>1, <1>2, <1>3, <1>5 DEF Fields, StatesOK, UnsetOK
<1> QED BY <1>6, <1>7, <1>8, <1>9, <1>12, <1>13

\* The listener of the server is stored.
LEMMA KeptListenerS ==
  ASSUME SocketTypeOK, RolesOK, Files, place \in JobPlaces, UNCHANGED <<fds, place>>, job'.fd = job.fd,
         NEW a \in Holdings, NEW b,
         SlotsOK(a), StatesOK(a), UnsetOK(a), ApartOK(a), AccountsOK(a), Fields(a.gone),
         a.s = "listener", place \in {"listen", "relisten"}, b = [a EXCEPT !.s = "field"],
         sk' = [sk EXCEPT !.listener = job.fd.s]
  PROVE  SlotsOK(b)' /\ StatesOK(b)' /\ UnsetOK(b)' /\ ApartOK(b)' /\ AccountsOK(b)' /\ Fields(b.gone)'
<1>1. /\ ~Lax /\ ~Lax' /\ sk.proto \in {"tcp", "udp"} /\ 0 \notin Numbers /\ NoSocket = 0
      /\ \A m, K : Sound(m, K) <=> m \in Numbers /\ fds[m] \in K
      /\ \A m, K : Sound(m, K)' <=> m \in Numbers /\ fds[m] \in K
  BY JobFacts
<1>2. /\ sk'.ctrl_sck = sk.ctrl_sck /\ sk'.listener = job.fd.s /\ sk'.prot_listener = sk.prot_listener
      /\ sk'.streams = sk.streams /\ sk'.proto = sk.proto /\ sk'.role = sk.role
      /\ StreamSocketNumbers' = StreamSocketNumbers /\ StreamFiles' = StreamFiles
  <2>1. /\ sk'.ctrl_sck = sk.ctrl_sck /\ sk'.listener = job.fd.s /\ sk'.prot_listener = sk.prot_listener
        /\ sk'.streams = sk.streams /\ sk'.proto = sk.proto /\ sk'.role = sk.role
    BY Stores
  <2> QED BY <2>1, SameStreams
<1>3. /\ b.s = "field" /\ b.l = a.l /\ b.buffer = a.buffer /\ b.file = a.file /\ b.gone = a.gone
       /\ b \in Holdings
  BY DEF Holdings, SlotStates, Opened
<1>4. (\A x \in Slots : x # "s" => b[x] = a[x]) /\ "s" \in Slots
  BY <1>3 DEF Slots, Holdings
<1>5. job.fd.s \in Numbers /\ fds[job.fd.s] = "listener" /\ sk.listener = 0
  BY <1>1 DEF SlotsOK, Slots, Opened, UnsetOK
<1>6. SlotsOK(b)'
  <2>1. b["s"] \notin Opened \cup {"no"}
    BY <1>3 DEF Opened
  <2> QED BY <1>4, <2>1, SlotKept
<1>7. StatesOK(b)'
  BY <1>1, <1>2, <1>3, <1>5 DEF StatesOK, UnsetOK
<1>8. UnsetOK(b)'
  BY <1>1, <1>2, <1>3, <1>5 DEF UnsetOK, StatesOK
<1>9. ApartOK(b)'
  BY <1>1, <1>2, <1>3, <1>5 DEF ApartOK, RolesOK, StatesOK
<1>10. Held(a) \subseteq Held(b)' \cup {job.fd.s}
  BY <1>4 DEF Held
<1>11. /\ \A K : Left(K)' = Left(K) /\ 0 \notin Left(K)
       /\ \A K : "listener" \notin K => job.fd.s \notin Left(K)
  BY <1>1, <1>5 DEF Left
<1>12. AccountsOK(b)'
  BY <1>1, <1>2, <1>3, <1>5, <1>10, <1>11 DEF AccountsOK, StatesOK
<1>13. Fields(b.gone)'
  BY <1>1, <1>2, <1>3, <1>5 DEF Fields, StatesOK, UnsetOK
<1> QED BY <1>6, <1>7, <1>8, <1>9, <1>12, <1>13

\* The new listener of iperf_tcp_listen is stored.
LEMMA KeptListenerL ==
  ASSUME SocketTypeOK, RolesOK, Files, place \in JobPlaces, UNCHANGED <<fds, place>>, job'.fd = job.fd,
         NEW a \in Holdings, NEW b,
         SlotsOK(a), StatesOK(a), UnsetOK(a), ApartOK(a), AccountsOK(a), Fields(a.gone),
         a.l = "listener", place = "control", a.gone, b = [a EXCEPT !.l = "field", !.gone = FALSE],
         sk' = [sk EXCEPT !.listener = job.fd.l]
  PROVE  SlotsOK(b)' /\ StatesOK(b)' /\ UnsetOK(b)' /\ ApartOK(b)' /\ AccountsOK(b)' /\ Fields(b.gone)'
<1>1. /\ ~Lax /\ ~Lax' /\ sk.proto \in {"tcp", "udp"} /\ 0 \notin Numbers /\ NoSocket = 0
      /\ \A m, K : Sound(m, K) <=> m \in Numbers /\ fds[m] \in K
      /\ \A m, K : Sound(m, K)' <=> m \in Numbers /\ fds[m] \in K
  BY JobFacts
<1>2. /\ sk'.ctrl_sck = sk.ctrl_sck /\ sk'.listener = job.fd.l /\ sk'.prot_listener = sk.prot_listener
      /\ sk'.streams = sk.streams /\ sk'.proto = sk.proto /\ sk'.role = sk.role
      /\ StreamSocketNumbers' = StreamSocketNumbers /\ StreamFiles' = StreamFiles
  <2>1. /\ sk'.ctrl_sck = sk.ctrl_sck /\ sk'.listener = job.fd.l /\ sk'.prot_listener = sk.prot_listener
        /\ sk'.streams = sk.streams /\ sk'.proto = sk.proto /\ sk'.role = sk.role
    BY Stores
  <2> QED BY <2>1, SameStreams
<1>3. /\ b.s = a.s /\ b.l = "field" /\ b.buffer = a.buffer /\ b.file = a.file /\ b.gone = FALSE
       /\ b \in Holdings
  BY DEF Holdings, SlotStates, Opened
<1>4. (\A x \in Slots : x # "l" => b[x] = a[x]) /\ "l" \in Slots
  BY <1>3 DEF Slots, Holdings
<1>5. job.fd.l \in Numbers /\ fds[job.fd.l] = "listener" /\ sk.prot_listener = 0
  BY <1>1 DEF SlotsOK, Slots, Opened, UnsetOK
<1>6. SlotsOK(b)'
  <2>1. b["l"] \notin Opened \cup {"no"}
    BY <1>3 DEF Opened
  <2> QED BY <1>4, <2>1, SlotKept
<1>7. StatesOK(b)'
  BY <1>1, <1>2, <1>3, <1>5 DEF StatesOK, UnsetOK
<1>8. UnsetOK(b)'
  BY <1>1, <1>2, <1>3, <1>5 DEF UnsetOK, StatesOK
<1>9. ApartOK(b)'
  <2>1. sk.proto = "tcp"
    BY DEF StatesOK
  <2>2. /\ a.s = "data" => job.fd.s # sk.ctrl_sck /\ job.fd.s \notin StreamSocketNumbers
        /\ a.buffer = "buffer" => job.fd.buffer \notin StreamFiles
    BY <2>1 DEF ApartOK
  <2> QED BY <1>2, <1>3, <2>1, <2>2 DEF ApartOK
<1>10. Held(a) \subseteq Held(b)' \cup {job.fd.l}
  BY <1>4 DEF Held
<1>11. /\ \A K : Left(K)' = Left(K) /\ 0 \notin Left(K)
       /\ \A K : "listener" \notin K => job.fd.l \notin Left(K)
  BY <1>1, <1>5 DEF Left
<1>12. AccountsOK(b)'
  BY <1>1, <1>2, <1>3, <1>5, <1>10, <1>11 DEF AccountsOK, StatesOK
<1>13. Fields(b.gone)'
  BY <1>1, <1>2, <1>3, <1>5 DEF Fields, StatesOK, UnsetOK
<1> QED BY <1>6, <1>7, <1>8, <1>9, <1>12, <1>13

\* The UDP socket that listens is stored.
LEMMA KeptProtData ==
  ASSUME SocketTypeOK, RolesOK, Files, place \in JobPlaces, UNCHANGED <<fds, place>>, job'.fd = job.fd,
         NEW a \in Holdings, NEW b,
         SlotsOK(a), StatesOK(a), UnsetOK(a), ApartOK(a), AccountsOK(a), Fields(a.gone),
         a.l = "data", place \in {"control", "accept"}, ~a.gone, b = [a EXCEPT !.l = "field"],
         sk' = [sk EXCEPT !.prot_listener = job.fd.l]
  PROVE  SlotsOK(b)' /\ StatesOK(b)' /\ UnsetOK(b)' /\ ApartOK(b)' /\ AccountsOK(b)' /\ Fields(b.gone)'
<1>1. /\ ~Lax /\ ~Lax' /\ sk.proto \in {"tcp", "udp"} /\ 0 \notin Numbers /\ NoSocket = 0
      /\ \A m, K : Sound(m, K) <=> m \in Numbers /\ fds[m] \in K
      /\ \A m, K : Sound(m, K)' <=> m \in Numbers /\ fds[m] \in K
  BY JobFacts
<1>2. /\ sk'.ctrl_sck = sk.ctrl_sck /\ sk'.listener = sk.listener /\ sk'.prot_listener = job.fd.l
      /\ sk'.streams = sk.streams /\ sk'.proto = sk.proto /\ sk'.role = sk.role
      /\ StreamSocketNumbers' = StreamSocketNumbers /\ StreamFiles' = StreamFiles
  <2>1. /\ sk'.ctrl_sck = sk.ctrl_sck /\ sk'.listener = sk.listener /\ sk'.prot_listener = job.fd.l
        /\ sk'.streams = sk.streams /\ sk'.proto = sk.proto /\ sk'.role = sk.role
    BY Stores
  <2> QED BY <2>1, SameStreams
<1>3. /\ b.s = a.s /\ b.l = "field" /\ b.buffer = a.buffer /\ b.file = a.file /\ b.gone = a.gone
       /\ b \in Holdings
  BY DEF Holdings, SlotStates, Opened
<1>4. (\A x \in Slots : x # "l" => b[x] = a[x]) /\ "l" \in Slots
  BY <1>3 DEF Slots, Holdings
<1>5. job.fd.l \in Numbers /\ fds[job.fd.l] = "data" /\ sk.prot_listener = 0 /\ sk.proto = "udp"
  BY <1>1 DEF SlotsOK, Slots, Opened, UnsetOK, StatesOK
<1>6. SlotsOK(b)'
  <2>1. b["l"] \notin Opened \cup {"no"}
    BY <1>3 DEF Opened
  <2> QED BY <1>4, <2>1, SlotKept
<1>7. StatesOK(b)'
  BY <1>1, <1>2, <1>3, <1>5 DEF StatesOK, UnsetOK
<1>8. UnsetOK(b)'
  BY <1>1, <1>2, <1>3, <1>5 DEF UnsetOK, StatesOK
<1>9. ApartOK(b)'
  BY <1>1, <1>2, <1>3, <1>5 DEF ApartOK, RolesOK, StatesOK
<1>10. Held(a) \subseteq Held(b)' \cup {job.fd.l}
  BY <1>4 DEF Held
<1>11. /\ \A K : Left(K)' = Left(K) /\ 0 \notin Left(K)
       /\ \A K : "data" \notin K => job.fd.l \notin Left(K)
  BY <1>1, <1>5 DEF Left
<1>12. AccountsOK(b)'
  BY <1>1, <1>2, <1>3, <1>5, <1>10, <1>11 DEF AccountsOK, StatesOK
<1>13. Fields(b.gone)'
  BY <1>1, <1>2, <1>3, <1>5 DEF Fields, StatesOK, UnsetOK
<1> QED BY <1>6, <1>7, <1>8, <1>9, <1>12, <1>13

\* It is stored once more, or the TCP listener is.
LEMMA KeptProtField ==
  ASSUME SocketTypeOK, RolesOK, Files, place \in JobPlaces, UNCHANGED <<fds, place>>, job'.fd = job.fd,
         NEW a \in Holdings, NEW b,
         SlotsOK(a), StatesOK(a), UnsetOK(a), ApartOK(a), AccountsOK(a), Fields(a.gone),
         a.l = "field", place \in {"control", "accept"}, ~a.gone, b = [a EXCEPT !.l = "field"],
         sk' = [sk EXCEPT !.prot_listener = job.fd.l]
  PROVE  SlotsOK(b)' /\ StatesOK(b)' /\ UnsetOK(b)' /\ ApartOK(b)' /\ AccountsOK(b)' /\ Fields(b.gone)'
<1>1. /\ ~Lax /\ ~Lax' /\ sk.proto \in {"tcp", "udp"} /\ 0 \notin Numbers /\ NoSocket = 0
      /\ \A m, K : Sound(m, K) <=> m \in Numbers /\ fds[m] \in K
      /\ \A m, K : Sound(m, K)' <=> m \in Numbers /\ fds[m] \in K
  BY JobFacts
<1>2. /\ sk'.ctrl_sck = sk.ctrl_sck /\ sk'.listener = sk.listener /\ sk'.prot_listener = job.fd.l
      /\ sk'.streams = sk.streams /\ sk'.proto = sk.proto /\ sk'.role = sk.role
      /\ StreamSocketNumbers' = StreamSocketNumbers /\ StreamFiles' = StreamFiles
  <2>1. /\ sk'.ctrl_sck = sk.ctrl_sck /\ sk'.listener = sk.listener /\ sk'.prot_listener = job.fd.l
        /\ sk'.streams = sk.streams /\ sk'.proto = sk.proto /\ sk'.role = sk.role
    BY Stores
  <2> QED BY <2>1, SameStreams
<1>3. /\ b.s = a.s /\ b.l = "field" /\ b.buffer = a.buffer /\ b.file = a.file /\ b.gone = a.gone
       /\ b \in Holdings
  BY DEF Holdings, SlotStates, Opened
<1>4. (\A x \in Slots : x # "l" => b[x] = a[x]) /\ "l" \in Slots
  BY <1>3 DEF Slots, Holdings
<1>5. /\ sk.proto = "tcp" => job.fd.l = sk.listener /\ sk.prot_listener \in {0, sk.listener}
      /\ sk.proto = "udp" => job.fd.l = sk.prot_listener /\ job.fd.l # 0
  BY <1>1 DEF StatesOK, Fields
<1>6. SlotsOK(b)'
  <2>1. b["l"] \notin Opened \cup {"no"}
    BY <1>3 DEF Opened
  <2> QED BY <1>4, <2>1, SlotKept
<1>7. StatesOK(b)'
  BY <1>1, <1>2, <1>3, <1>5 DEF StatesOK, UnsetOK
<1>8. UnsetOK(b)'
  BY <1>1, <1>2, <1>3, <1>5 DEF UnsetOK, StatesOK
<1>9. ApartOK(b)'
  <2>1. sk.proto = "udp" => sk'.prot_listener = sk.prot_listener
    BY <1>2, <1>5
  <2>2. /\ a.s = "data" /\ (sk.role = "client" \/ sk.proto = "tcp") =>
             job.fd.s # sk.ctrl_sck /\ job.fd.s \notin StreamSocketNumbers
        /\ a.buffer = "buffer" => job.fd.buffer \notin StreamFiles
        /\ sk.proto = "udp" /\ sk.prot_listener # NoSocket =>
             /\ sk.prot_listener \notin StreamSocketNumbers \cup {sk.ctrl_sck}
             /\ a.s = "data" => job.fd.s # sk.prot_listener
    BY DEF ApartOK
  <2> QED BY <1>2, <1>3, <2>1, <2>2 DEF ApartOK
<1>10. Held(a) \subseteq Held(b)'
  BY <1>3, <1>4 DEF Held
<1>11. /\ \A K : Left(K)' = Left(K) /\ 0 \notin Left(K)
       /\ TRUE
  BY <1>1, <1>5 DEF Left
<1>12. AccountsOK(b)'
  BY <1>1, <1>2, <1>3, <1>5, <1>10, <1>11 DEF AccountsOK, StatesOK
<1>13. Fields(b.gone)'
  BY <1>1, <1>2, <1>3, <1>5 DEF Fields, StatesOK, UnsetOK
<1> QED BY <1>6, <1>7, <1>8, <1>9, <1>12, <1>13

\* The UDP socket that got a datagram goes to the stream.
LEMMA KeptProtS ==
  ASSUME SocketTypeOK, RolesOK, Files, place \in JobPlaces, UNCHANGED <<fds, place>>, job'.fd = job.fd,
         NEW a \in Holdings, NEW b,
         SlotsOK(a), StatesOK(a), UnsetOK(a), ApartOK(a), AccountsOK(a), Fields(a.gone),
         a.l = "no", a.s = "prot", place \in {"control", "accept"}, ~a.gone, b = [a EXCEPT !.s = "data"],
         sk' = [sk EXCEPT !.prot_listener = job.fd.l]
  PROVE  SlotsOK(b)' /\ StatesOK(b)' /\ UnsetOK(b)' /\ ApartOK(b)' /\ AccountsOK(b)' /\ Fields(b.gone)'
<1>1. /\ ~Lax /\ ~Lax' /\ sk.proto \in {"tcp", "udp"} /\ 0 \notin Numbers /\ NoSocket = 0
      /\ \A m, K : Sound(m, K) <=> m \in Numbers /\ fds[m] \in K
      /\ \A m, K : Sound(m, K)' <=> m \in Numbers /\ fds[m] \in K
  BY JobFacts
<1>2. /\ sk'.ctrl_sck = sk.ctrl_sck /\ sk'.listener = sk.listener /\ sk'.prot_listener = job.fd.l
      /\ sk'.streams = sk.streams /\ sk'.proto = sk.proto /\ sk'.role = sk.role
      /\ StreamSocketNumbers' = StreamSocketNumbers /\ StreamFiles' = StreamFiles
  <2>1. /\ sk'.ctrl_sck = sk.ctrl_sck /\ sk'.listener = sk.listener /\ sk'.prot_listener = job.fd.l
        /\ sk'.streams = sk.streams /\ sk'.proto = sk.proto /\ sk'.role = sk.role
    BY Stores
  <2> QED BY <2>1, SameStreams
<1>3. /\ b.s = "data" /\ b.l = a.l /\ b.buffer = a.buffer /\ b.file = a.file /\ b.gone = a.gone
       /\ b \in Holdings
  BY DEF Holdings, SlotStates, Opened
<1>4. (\A x \in Slots : x # "s" => b[x] = a[x]) /\ "s" \in Slots
  BY <1>3 DEF Slots, Holdings
<1>5. /\ job.fd.l = 0 /\ job.fd.s = sk.prot_listener /\ job.fd.s \in Numbers /\ fds[job.fd.s] = "data"
      /\ sk.proto = "udp" /\ place = "accept" /\ sk.role = "server"
  BY <1>1 DEF SlotsOK, Slots, StatesOK, Fields, UnsetOK, RolesOK
<1>6. SlotsOK(b)'
  BY <1>3, <1>4, <1>5 DEF SlotsOK, Opened
<1>7. StatesOK(b)'
  BY <1>1, <1>2, <1>3, <1>5 DEF StatesOK, UnsetOK
<1>8. UnsetOK(b)'
  BY <1>1, <1>2, <1>3, <1>5 DEF UnsetOK, StatesOK
<1>9. ApartOK(b)'
  BY <1>1, <1>2, <1>3, <1>5 DEF ApartOK, RolesOK, StatesOK
<1>10. Held(a) \subseteq Held(b)' /\ job.fd.s \in Held(b)'
  <2>1. \A x \in Slots : a[x] \in Opened => b[x] \in Opened /\ job'.fd[x] = job.fd[x]
    <3>1. a["s"] = "prot"
      OBVIOUS
    <3> QED BY <1>4, <3>1 DEF Opened
  <2>2. Held(a) \subseteq Held(b)'
    BY <2>1 DEF Held
  <2>3. b["s"] \in Opened /\ job'.fd["s"] = job.fd.s /\ "s" \in Slots
    BY <1>3, <1>4 DEF Opened
  <2> QED BY <2>2, <2>3 DEF Held
<1>11. /\ \A K : Left(K)' = Left(K) /\ 0 \notin Left(K)
       /\ \A K : "data" \notin K => job.fd.s \notin Left(K)
  BY <1>1, <1>5 DEF Left
<1>12. AccountsOK(b)'
  BY <1>1, <1>2, <1>3, <1>5, <1>10, <1>11 DEF AccountsOK, StatesOK
<1>13. Fields(b.gone)'
  BY <1>1, <1>2, <1>3, <1>5 DEF Fields, StatesOK, UnsetOK
<1> QED BY <1>6, <1>7, <1>8, <1>9, <1>12, <1>13

\* The calls that are left.
LEMMA RestOfJob ==
  ASSUME SocketTypeOK, job.todo # <<>>
  PROVE  LET rest == [job EXCEPT !.todo = Tail(@)]
         IN /\ rest.todo = Tail(job.todo) /\ rest.lists = job.lists /\ rest.fd = job.fd
            /\ rest \in Jobs
<1>1. Tail(job.todo) \in Seq(Calls)
  <2>1. job.todo \in Seq(Calls)
    BY DEF SocketTypeOK, Jobs
  <2> QED BY <2>1
<1> QED BY <1>1 DEF SocketTypeOK, Jobs

\* The numbers that occur are descriptors or none.
LEMMA DescriptorFacts ==
  ASSUME SocketTypeOK
  PROVE  /\ job.fd.s \in Descriptors /\ job.fd.l \in Descriptors
         /\ job.fd.buffer \in Descriptors /\ job.fd.file \in Descriptors
         /\ sk.ctrl_sck \in Descriptors /\ sk.listener \in Descriptors /\ sk.prot_listener \in Descriptors
         /\ Numbers \subseteq Descriptors /\ NoSocket \in Descriptors
<1> QED BY DEF SocketTypeOK, Descriptors, Tests, Jobs

\* A descriptor is stored in a field.
LEMMA KeepStep ==
  ASSUME SocketInv, NEW a \in Holdings, NEW c, Doing(a), Step(c, a), After(c, a) \in Holdings,
         place \in JobPlaces, CallWorks, c.op = "keep"
  PROVE  SocketInv'
<1> DEFINE b == After(c, a)
<1>1. c = Head(job.todo) /\ c \in Calls /\ MayKeep(Mode, c, a) /\ a.lists = job.lists /\ b = Kept(c, a)
  BY DEF Step, Doing, Fine, After
<1>2. sk' = Stored(c) /\ job' = [job EXCEPT !.todo = Tail(@)] /\ UNCHANGED <<fds, past, place>>
  BY <1>1 DEF CallWorks
<1>3. job'.todo = Tail(job.todo) /\ job'.lists = job.lists /\ job'.fd = job.fd
      /\ job' \in Jobs
  BY <1>2, RestOfJob DEF SocketInv, Step
<1>4. SocketTypeOK /\ RolesOK /\ Files /\ SlotsOK(a) /\ StatesOK(a) /\ UnsetOK(a) /\ ApartOK(a)
      /\ AccountsOK(a) /\ Fields(a.gone)
  BY DEF SocketInv, Doing
<1>5. Mode.place = place /\ (Mode.server => place \notin {"connect", "streams"})
  BY DEF Mode, Here, HereAt
<1> DEFINE Good == /\ SlotsOK(b)' /\ StatesOK(b)' /\ UnsetOK(b)' /\ ApartOK(b)' /\ AccountsOK(b)'
                   /\ Fields(b.gone)'
           Sets(t) == /\ t.role = sk.role /\ t.proto = sk.proto /\ t.streams = sk.streams
                      /\ t.opts = sk.opts \/ t.opts = sk.opts \cup {"bufsize"}
                      /\ t.n = sk.n /\ {t.ctrl_sck, t.listener, t.prot_listener} \subseteq Descriptors
                      /\ sk.role # "server" => t.listener = sk.listener /\ t.prot_listener = sk.prot_listener
                      /\ DOMAIN t = DOMAIN sk
<1>6. /\ sk.role # "server" => ~Mode.server
      /\ \A v : /\ DOMAIN [sk EXCEPT !.ctrl_sck = v] = DOMAIN sk
                /\ DOMAIN [sk EXCEPT !.listener = v] = DOMAIN sk
                /\ DOMAIN [sk EXCEPT !.prot_listener = v] = DOMAIN sk
  <2>1. sk.role # "server" => ~Mode.server
    BY <1>4, <1>5 DEF RolesOK, JobPlaces, Mode, Here, HereAt
  <2> QED BY <2>1, <1>4 DEF SocketTypeOK
<1>7. ASSUME c.as = "ctrl_sck" PROVE Good /\ Sets(sk')
  <2>1. c.what = "s" /\ a.s = "data" /\ place \in {"connect", "control"} /\ b = [a EXCEPT !.s = "ctrl"]
    BY <1>1, <1>5, <1>7 DEF MayKeep, Kept
  <2>2. sk' = [sk EXCEPT !.ctrl_sck = job.fd.s]
    BY <1>2, <1>7, <2>1 DEF Stored
  <2>3. Good
    BY <1>2, <1>3, <1>4, <2>1, <2>2, KeptControl
  <2>4. Sets(sk')
    BY <1>4, <1>6, <2>2, Stores, DescriptorFacts
  <2> QED BY <2>3, <2>4
<1>8. ASSUME c.as = "listener" /\ c.what = "s" PROVE Good /\ Sets(sk')
  <2>1. Mode.server /\ a.s = "listener" /\ place \in {"listen", "relisten"} /\ b = [a EXCEPT !.s = "field"]
    BY <1>1, <1>5, <1>8 DEF MayKeep, Kept
  <2>2. sk' = [sk EXCEPT !.listener = job.fd.s]
    BY <1>2, <1>8 DEF Stored
  <2>3. Good
    BY <1>2, <1>3, <1>4, <2>1, <2>2, KeptListenerS
  <2>4. Sets(sk')
    BY <1>4, <1>6, <2>1, <2>2, Stores, DescriptorFacts
  <2> QED BY <2>3, <2>4
<1>9. ASSUME c.as = "listener" /\ c.what # "s" PROVE Good /\ Sets(sk')
  <2>1. /\ c.what = "l" /\ Mode.server /\ a.l = "listener" /\ a.gone /\ place = "control"
        /\ b = [a EXCEPT !.l = "field", !.gone = FALSE]
    BY <1>1, <1>5, <1>9 DEF MayKeep, Kept
  <2>2. sk' = [sk EXCEPT !.listener = job.fd.l]
    BY <1>2, <1>9, <2>1 DEF Stored
  <2>3. Good
    BY <1>2, <1>3, <1>4, <2>1, <2>2, KeptListenerL
  <2>4. Sets(sk')
    BY <1>4, <1>6, <2>1, <2>2, Stores, DescriptorFacts
  <2> QED BY <2>3, <2>4
<1>10. ASSUME c.as = "prot_listener" PROVE Good /\ Sets(sk')
  <2>1. c.what = "l" /\ Mode.server /\ ~a.gone /\ place \in {"control", "accept"}
        /\ (a.l \in {"data", "field"} \/ (a.l = "no" /\ a.s = "prot"))
    BY <1>1, <1>5, <1>10 DEF MayKeep
  <2>2. sk' = [sk EXCEPT !.prot_listener = job.fd.l]
    BY <1>2, <1>10, <2>1 DEF Stored
  <2>3. Good
    <3>1. CASE a.l = "data"
      <4>1. b = [a EXCEPT !.l = "field"]
        BY <1>1, <1>10, <3>1 DEF Kept
      <4> QED BY <1>2, <1>3, <1>4, <2>1, <2>2, <3>1, <4>1, KeptProtData
    <3>2. CASE a.l = "field"
      <4>1. b = [a EXCEPT !.l = "field"]
        BY <1>1, <1>10, <3>2 DEF Kept
      <4> QED BY <1>2, <1>3, <1>4, <2>1, <2>2, <3>2, <4>1, KeptProtField
    <3>3. CASE a.l = "no" /\ a.s = "prot"
      <4>1. b = [a EXCEPT !.s = "data"]
        BY <1>1, <1>10, <3>3 DEF Kept
      <4> QED BY <1>2, <1>3, <1>4, <2>1, <2>2, <3>3, <4>1, KeptProtS
    <3> QED BY <2>1, <3>1, <3>2, <3>3
  <2>4. Sets(sk')
    BY <1>4, <1>6, <2>1, <2>2, Stores, DescriptorFacts
  <2> QED BY <2>3, <2>4
<1>11. ASSUME c.as = "bufsize" PROVE Good /\ Sets(sk')
  <2>1. sk' = [sk EXCEPT !.opts = sk.opts \cup {"bufsize"}] /\ b = a
    BY <1>1, <1>2, <1>11 DEF Stored, Kept
  <2>2. Sets(sk') /\ sk'.ctrl_sck = sk.ctrl_sck /\ sk'.listener = sk.listener
        /\ sk'.prot_listener = sk.prot_listener
    <3>1. sk = [role |-> sk.role, proto |-> sk.proto, n |-> sk.n, opts |-> sk.opts, ctrl_sck |-> sk.ctrl_sck,
                listener |-> sk.listener, prot_listener |-> sk.prot_listener, streams |-> sk.streams]
      BY <1>4 DEF SocketTypeOK, Tests
    <3> QED BY <1>4, <2>1, <3>1, DescriptorFacts
  <2>3. Good
    <3>1. StreamSocketNumbers' = StreamSocketNumbers /\ StreamFiles' = StreamFiles
      BY <2>2, SameStreams
    <3>2. SlotsOK(a)' /\ StatesOK(a)' /\ UnsetOK(a)'
      BY <1>2, <1>3, <1>4, <2>2 DEF SlotsOK, StatesOK, UnsetOK
    <3>3. ApartOK(a)'
      BY <1>2, <1>3, <1>4, <2>2, <3>1 DEF ApartOK
    <3>4. AccountsOK(a)'
      BY <1>2, <1>3, <1>4, <2>2, <3>1 DEF AccountsOK, Left, Held
    <3>5. Fields(a.gone)'
      BY <1>2, <1>3, <1>4, <2>2 DEF Fields, Sound, Lax
    <3> QED BY <2>1, <3>2, <3>3, <3>4, <3>5
  <2> QED BY <2>2, <2>3
<1>12. c.as \in {"ctrl_sck", "listener", "prot_listener", "bufsize"}
  BY <1>1 DEF MayKeep
<1>13. Good /\ Sets(sk')
  BY <1>7, <1>8, <1>9, <1>10, <1>11, <1>12
<1> HIDE DEF b
<1>14. SocketTypeOK'
  <2>1. sk' \in Tests
    <3>1. sk'.opts \in SUBSET SocketOptions
      BY <1>4, <1>13 DEF SocketTypeOK, SocketOptions, Tests
    <3>2. sk' = [x \in DOMAIN sk' |-> sk'[x]]
      BY <1>2, <1>4, <1>12 DEF Stored, SocketTypeOK
    <3>3. DOMAIN sk' = {"role", "proto", "n", "opts", "ctrl_sck", "listener", "prot_listener", "streams"}
      BY <1>4, <1>13 DEF SocketTypeOK, Tests
    <3> QED BY <1>4, <1>13, <3>1, <3>2, <3>3 DEF SocketTypeOK, Tests
  <2> QED BY <1>2, <1>3, <1>4, <2>1 DEF SocketTypeOK
<1>15. Doing(b)'
  <2>1. Mode' = Mode /\ Goal' = Goal
    BY <1>2, <1>13, SameMode
  <2>2. Flow(Mode, Tail(job.todo), b, Goal)
    BY DEF Step, b
  <2>3. b.lists = a.lists
    BY <1>1 DEF Kept, b, Holdings
  <2> QED BY <1>1, <1>3, <1>13, <2>1, <2>2, <2>3 DEF Doing
<1>16. Files'
  BY <1>2, <1>4, <1>13, SameFiles
<1>17. sk.role # "server" => sk'.listener = NoSocket /\ sk'.prot_listener = NoSocket
  BY <1>4, <1>13 DEF RolesOK
<1>18. ~past'.wrongClose /\ ~past'.freedTwice /\ past'.failed = past.failed
  BY <1>2 DEF SocketInv
<1>19. b \in Holdings
  BY DEF b
<1> QED BY <1>2, <1>13, <1>14, <1>15, <1>16, <1>17, <1>18, <1>19, JobGoesOn

\* The number in a field is used.
LEMMA UseStep ==
  ASSUME SocketInv, NEW a \in Holdings, NEW c, Doing(a), Step(c, a), After(c, a) \in Holdings,
         place \in JobPlaces, CallWorks, c.op = "use"
  PROVE  SocketInv'
<1> DEFINE b == After(c, a)
<1>1. c = Head(job.todo) /\ c \in Calls /\ Fine(Mode, c, a) /\ a.lists = job.lists
      /\ b = [a EXCEPT ![c.what] = IF c.as = "listener" THEN "field" ELSE "prot"]
  BY DEF Step, Doing, After
<1>2. job' = [[job EXCEPT !.todo = Tail(@)] EXCEPT !.fd[c.what] = Field(c.as)] /\ UNCHANGED <<fds, sk, past, place>>
  BY <1>1 DEF CallWorks
<1>3. SocketTypeOK /\ RolesOK /\ Files /\ SlotsOK(a) /\ StatesOK(a) /\ UnsetOK(a) /\ ApartOK(a)
      /\ AccountsOK(a) /\ Fields(a.gone)
  BY DEF SocketInv, Doing
<1>4. /\ ~a.gone
      /\ \/ c.what = "s" /\ c.as = "prot_listener" /\ a.s = "no" /\ sk.proto = "udp" /\ place = "accept"
         \/ c.what = "l" /\ c.as = "listener" /\ a.l = "no" /\ sk.proto # "udp" /\ place = "control"
  BY <1>1 DEF Fine, Mode, Here, HereAt
<1>5. job'.todo = Tail(job.todo) /\ job'.lists = job.lists /\ job'.fd = [job.fd EXCEPT ![c.what] = Field(c.as)]
  BY <1>2, <1>3 DEF SocketTypeOK
<1>6. Field(c.as) \in Descriptors
  BY <1>3, <1>4, DescriptorFacts DEF Field
<1>7. SocketTypeOK'
  <2>1. Tail(job.todo) \in Seq(Calls)
    BY <1>3, RestOfJob DEF Step, Jobs
  <2>2. [job.fd EXCEPT ![c.what] = Field(c.as)] \in [s : Descriptors, l : Descriptors, buffer : Descriptors, file : Descriptors]
    BY <1>3, <1>4, <1>6 DEF SocketTypeOK, Jobs
  <2>3. job' \in Jobs
    BY <1>2, <1>3, <1>5, <2>1, <2>2 DEF SocketTypeOK, Jobs
  <2> QED BY <1>2, <1>3, <2>3 DEF SocketTypeOK
<1>8. job.fd \in [s : Descriptors, l : Descriptors, buffer : Descriptors, file : Descriptors]
  BY <1>3 DEF SocketTypeOK, Jobs
<1>9. /\ b.buffer = a.buffer /\ b.file = a.file /\ b.gone = a.gone /\ b.lists = a.lists
      /\ c.what = "s" => /\ b.s = "prot" /\ b.l = a.l /\ job'.fd.s = sk.prot_listener /\ job'.fd.l = job.fd.l
      /\ c.what = "l" => /\ b.s = a.s /\ b.l = "field" /\ job'.fd.s = job.fd.s /\ job'.fd.l = sk.listener
      /\ job'.fd.buffer = job.fd.buffer /\ job'.fd.file = job.fd.file
  <2>1. CASE c.what = "s"
    <3>1. b = [a EXCEPT !.s = "prot"] /\ job'.fd = [job.fd EXCEPT !.s = sk.prot_listener]
      BY <1>1, <1>4, <1>5, <2>1 DEF Field
    <3> QED BY <2>1, <3>1, <1>8 DEF Holdings
  <2>2. CASE c.what = "l"
    <3>1. b = [a EXCEPT !.l = "field"] /\ job'.fd = [job.fd EXCEPT !.l = sk.listener]
      BY <1>1, <1>4, <1>5, <2>2 DEF Field
    <3> QED BY <2>2, <3>1, <1>8 DEF Holdings
  <2> QED BY <1>4, <2>1, <2>2
<1> HIDE DEF b
<1>10. ~Lax /\ ~Lax' /\ sk.proto \in {"tcp", "udp"} /\ NoSocket = 0
       /\ StreamSocketNumbers' = StreamSocketNumbers /\ StreamFiles' = StreamFiles
  BY <1>2, <1>3, JobFacts, SameStreams
<1>11. /\ \A x \in Slots : x = c.what \/ (b[x] = a[x] /\ job'.fd[x] = job.fd[x])
       /\ c.what \in Slots /\ b[c.what] \notin Opened /\ b[c.what] # "no"
  BY <1>4, <1>9 DEF Slots, Opened
<1>12. SlotsOK(b)'
  BY <1>2, <1>3, <1>11 DEF SlotsOK
<1>13. StatesOK(b)'
  BY <1>2, <1>3, <1>4, <1>9, <1>10 DEF StatesOK
<1>14. UnsetOK(b)'
  BY <1>2, <1>3, <1>4, <1>9 DEF UnsetOK
<1>15. ApartOK(b)'
  BY <1>2, <1>3, <1>4, <1>9, <1>10 DEF ApartOK
<1>16. Held(a) \subseteq Held(b)'
  <2>1. a[c.what] = "no"
    BY <1>4
  <2> QED BY <1>11, <2>1 DEF Held, Opened
<1>17. AccountsOK(b)'
  <2>1. b.s = "field" => a.s = "field"
    BY <1>4, <1>9
  <2>2. a.s = "field" => b.s = "field"
    BY <1>4, <1>9
  <2> QED BY <1>2, <1>3, <1>4, <1>9, <1>10, <1>16, <2>1, <2>2 DEF AccountsOK, Left
<1>18. Fields(b.gone)'
  BY <1>2, <1>3, <1>9, <1>10 DEF Fields, Sound
<1>19. Doing(b)'
  <2>1. Mode' = Mode /\ Goal' = Goal
    BY <1>2, SameMode
  <2>2. Flow(Mode, Tail(job.todo), b, Goal)
    BY DEF Step, b
  <2> QED BY <1>1, <1>5, <1>9, <1>12, <1>13, <1>14, <1>15, <1>17, <1>18, <2>1, <2>2 DEF Doing
<1>20. Files'
  BY <1>2, <1>3, SameFiles
<1>21. sk.role # "server" => sk'.listener = NoSocket /\ sk'.prot_listener = NoSocket
  BY <1>2, <1>3 DEF RolesOK
<1>22. ~past'.wrongClose /\ ~past'.freedTwice /\ past'.failed = past.failed
  BY <1>2 DEF SocketInv
<1>23. b \in Holdings
  BY DEF b
<1> QED BY <1>2, <1>7, <1>19, <1>20, <1>21, <1>22, <1>23, JobGoesOn

\* Closing only takes away.
LEMMA Closing ==
  ASSUME SocketTypeOK, NEW S, fds' = CloseAll(S)
  PROVE  /\ fds' \in [Numbers -> Kinds] /\ \A n \in Numbers : n \in S => fds'[n] = "closed"
         /\ \A n \in Numbers : n \notin S => fds'[n] = fds[n]
         /\ \A n \in Numbers : fds'[n] \in {fds[n], "closed"}
         /\ \A K : "closed" \notin K => Left(K)' = Left(K) \ S
<1>1. fds \in [Numbers -> Kinds]
  BY DEF SocketTypeOK
<1>2. fds' \in [Numbers -> Kinds] /\ \A n \in Numbers : fds'[n] = IF n \in S THEN "closed" ELSE fds[n]
  BY <1>1 DEF CloseAll, Kinds
<1> QED BY <1>2 DEF Left

\* The listener is closed by its number in the field.
LEMMA CloseStep ==
  ASSUME SocketInv, NEW a \in Holdings, NEW c, Doing(a), Step(c, a), After(c, a) \in Holdings,
         place \in JobPlaces, CallWorks, c.op = "close"
  PROVE  SocketInv'
<1> DEFINE b == After(c, a)
<1>1. c = Head(job.todo) /\ c \in Calls /\ Fine(Mode, c, a) /\ a.lists = job.lists
      /\ b = [a EXCEPT !.gone = TRUE]
  BY DEF Step, Doing, After
<1>2. /\ place = "control" /\ sk.proto # "udp" /\ a.l = "no" /\ a.s = "ctrl" /\ ~a.gone
      /\ c.as = "listener" /\ Field(c.as) = sk.listener
  BY <1>1 DEF Fine, Mode, Here, HereAt, Field
<1>3. /\ fds' = CloseAll({sk.listener}) /\ job' = [job EXCEPT !.todo = Tail(@)] /\ UNCHANGED <<sk, place>>
      /\ past' = [past EXCEPT !.wrongClose = @ \/ HitsOther({sk.listener}, {"listener"})]
  BY <1>1, <1>2 DEF CallWorks
<1>4. SocketTypeOK /\ RolesOK /\ Files /\ SlotsOK(a) /\ StatesOK(a) /\ UnsetOK(a) /\ ApartOK(a)
      /\ AccountsOK(a) /\ Fields(a.gone)
  BY DEF SocketInv, Doing
<1>5. job'.todo = Tail(job.todo) /\ job'.lists = job.lists /\ job'.fd = job.fd
      /\ job' \in Jobs
  BY <1>3, <1>4, RestOfJob DEF Step
<1>6. b.s = a.s /\ b.l = a.l /\ b.buffer = a.buffer /\ b.file = a.file /\ b.gone = TRUE /\ b.lists = a.lists
  BY <1>1 DEF Holdings
<1> HIDE DEF b
<1>7. ~Lax /\ ~Lax' /\ sk.proto = "tcp" /\ NoSocket = 0 /\ 0 \notin Numbers
      /\ StreamSocketNumbers' = StreamSocketNumbers /\ StreamFiles' = StreamFiles
  <2>1. sk.proto = "tcp"
    BY <1>2, <1>4 DEF SocketTypeOK, Tests
  <2>2. ~Lax /\ ~Lax'
    BY <1>3 DEF Lax, JobPlaces
  <2>3. NoSocket = 0 /\ 0 \notin Numbers
    BY DEF NoSocket, Numbers
  <2> QED BY <1>3, <2>1, <2>2, <2>3, SameStreams
<1>8. sk.listener = 0 \/ (sk.listener \in Numbers /\ fds[sk.listener] = "listener")
  BY <1>2, <1>4, <1>7 DEF Fields, Sound
<1>9. /\ fds' \in [Numbers -> Kinds] /\ \A n \in Numbers : fds[n] # "listener" => fds'[n] = fds[n]
      /\ \A n \in Numbers : n # sk.listener => fds'[n] = fds[n]
      /\ sk.listener \in Numbers => fds'[sk.listener] = "closed"
      /\ \A K : "closed" \notin K => Left(K)' = Left(K) \ {sk.listener}
  <2>1. /\ fds' \in [Numbers -> Kinds] /\ \A n \in Numbers : n \in {sk.listener} => fds'[n] = "closed"
        /\ \A n \in Numbers : n \notin {sk.listener} => fds'[n] = fds[n]
        /\ \A K : "closed" \notin K => Left(K)' = Left(K) \ {sk.listener}
    BY <1>3, <1>4, Closing
  <2> QED BY <1>7, <1>8, <2>1
<1>10. ~HitsOther({sk.listener}, {"listener"})
  BY <1>7, <1>8 DEF HitsOther
<1>11. past' = past
  <2>1. past = [past EXCEPT !.wrongClose = FALSE] /\ past.wrongClose = FALSE
    BY DEF SocketInv, SocketTypeOK, Histories
  <2> QED BY <1>3, <1>10, <2>1
<1>12. SocketTypeOK'
  BY <1>3, <1>4, <1>5, <1>9, <1>11 DEF SocketTypeOK
<1>13. \A x \in Slots : b[x] = a[x]
  BY <1>6 DEF Slots
<1>14. \A x \in Slots : a[x] # "listener"
  BY <1>2, <1>4 DEF Slots, StatesOK
<1>15. SlotsOK(b)'
  BY <1>4, <1>5, <1>9, <1>13, <1>14 DEF SlotsOK
<1>16. StatesOK(b)'
  BY <1>2, <1>3, <1>4, <1>5, <1>6, <1>7 DEF StatesOK
<1>17. UnsetOK(b)'
  BY <1>3, <1>4, <1>5, <1>6 DEF UnsetOK
<1>18. ApartOK(b)'
  BY <1>3, <1>4, <1>5, <1>6, <1>7 DEF ApartOK
<1>19. Held(b)' = Held(a)
  BY <1>5, <1>13 DEF Held
<1>20. AccountsOK(b)'
  <2>1. sk.prot_listener = NoSocket /\ 0 \notin Left({"listener"})
    BY <1>2, <1>4, <1>7 DEF UnsetOK, Left
  <2> QED BY <1>2, <1>3, <1>4, <1>6, <1>7, <1>9, <1>19, <2>1 DEF AccountsOK
<1>21. Fields(b.gone)'
  <2>1. sk.prot_listener = NoSocket
    BY <1>2, <1>4 DEF UnsetOK
  <2>2. \A m : Sound(m, {"data"}) => Sound(m, {"data"})'
    BY <1>7, <1>9 DEF Sound
  <2>3. sk.listener = NoSocket \/ Sound(sk.listener, {"listener", "closed"})'
    BY <1>3, <1>7, <1>8, <1>9 DEF Sound
  <2> QED BY <1>2, <1>3, <1>4, <1>6, <1>7, <2>1, <2>2, <2>3 DEF Fields
<1>22. Doing(b)'
  <2>1. Mode' = Mode /\ Goal' = Goal
    BY <1>3, SameMode
  <2>2. Flow(Mode, Tail(job.todo), b, Goal)
    BY DEF Step, b
  <2> QED BY <1>1, <1>5, <1>6, <1>15, <1>16, <1>17, <1>18, <1>20, <1>21, <2>1, <2>2 DEF Doing
<1>23. Files'
  BY <1>3, <1>4, <1>9 DEF Files
<1>24. sk.role # "server" => sk'.listener = NoSocket /\ sk'.prot_listener = NoSocket
  BY <1>3, <1>4 DEF RolesOK
<1>25. ~past'.wrongClose /\ ~past'.freedTwice /\ past'.failed = past.failed
  BY <1>11 DEF SocketInv
<1>26. b \in Holdings
  BY DEF b
<1> QED BY <1>3, <1>12, <1>22, <1>23, <1>24, <1>25, <1>26, JobGoesOn

\* One call works.
LEMMA CallWorksInv ==
  ASSUME SocketInv, CallWorks
  PROVE  SocketInv'
<1>1. job.todo # <<>> /\ place \in JobPlaces
  BY JobUnderWay DEF CallWorks
<1>2. PICK a \in Holdings : \E c : Doing(a) /\ Step(c, a) /\ After(c, a) \in Holdings
  BY <1>1, JobUnderWay
<1>3. PICK c : Doing(a) /\ Step(c, a) /\ After(c, a) \in Holdings
  BY <1>2
<1>4. c.op \in Operations
  BY <1>3 DEF Step, Calls
<1>5. c.op \in {"try", "resolve", "release"} \/ c.op \in {"open", "keep", "use", "close"}
  BY <1>4 DEF Operations
<1> QED BY <1>1, <1>3, <1>5, ListStep, OpenStep, KeepStep, UseStep, CloseStep

\* What is held is open for what the function opened it for.
LEMMA HeldKinds ==
  ASSUME NEW a \in Holdings, SlotsOK(a), StatesOK(a), NEW n \in Held(a)
  PROVE  \/ n = job.fd.s /\ a.s \in {"data", "listener"} /\ fds[n] = a.s
         \/ n = job.fd.l /\ a.l \in {"data", "listener"} /\ fds[n] = a.l
         \/ n = job.fd.buffer /\ a.buffer = "buffer" /\ fds[n] = "buffer"
         \/ n = job.fd.file /\ a.file = "file" /\ fds[n] = "file"
<1>1. PICK x \in Slots : n = job.fd[x] /\ a[x] \in Opened
  BY DEF Held
<1>2. fds[n] = a[x] /\ x \in {"s", "l", "buffer", "file"}
  BY <1>1 DEF SlotsOK, Slots
<1>3. x = "s" => n = job.fd.s /\ a.s \in Opened /\ fds[n] = a.s
  BY <1>1, <1>2
<1>4. x = "l" => n = job.fd.l /\ a.l \in Opened /\ fds[n] = a.l
  BY <1>1, <1>2
<1>5. x = "buffer" => n = job.fd.buffer /\ a.buffer \in Opened /\ fds[n] = a.buffer
  BY <1>1, <1>2
<1>6. x = "file" => n = job.fd.file /\ a.file \in Opened /\ fds[n] = a.file
  BY <1>1, <1>2
<1> QED BY <1>2, <1>3, <1>4, <1>5, <1>6 DEF StatesOK, Opened

\* A call fails: the function releases what it holds and the test is over.
LEMMA CallFailsInv ==
  ASSUME SocketInv, CallFails
  PROVE  SocketInv'
<1>1. job.todo # <<>> /\ place \in JobPlaces
  BY JobUnderWay DEF CallFails
<1>2. PICK a \in Holdings : \E c : Doing(a) /\ Step(c, a) /\ After(c, a) \in Holdings
  BY <1>1, JobUnderWay
<1>3. PICK c : Doing(a) /\ Step(c, a) /\ After(c, a) \in Holdings
  BY <1>2
<1> DEFINE U == c.undo
           closed == {job.fd[x] : x \in U \ AddressLists}
           asked == {"server", "res"} \cup (IF "local" \in sk.opts THEN {"local"} ELSE {})
<1>4. SocketTypeOK /\ RolesOK /\ Files /\ SlotsOK(a) /\ StatesOK(a) /\ UnsetOK(a) /\ ApartOK(a)
      /\ AccountsOK(a) /\ Fields(a.gone) /\ a.lists = job.lists
  BY <1>3 DEF SocketInv, Doing
<1>5. c = Head(job.todo) /\ c \in Calls /\ Fine(Mode, c, a) /\ c.op \in {"try", "resolve", "open"}
  BY <1>3 DEF Step, CallFails
<1>6. /\ fds' = CloseAll(closed) /\ job' = [NoJob EXCEPT !.lists = job.lists \ U]
      /\ past' = [past EXCEPT !.failed = c.f,
                      !.wrongClose = @ \/ HitsOther(closed, {"data", "listener", "buffer"}),
                      !.freedTwice = @ \/ ~(U \cap asked \subseteq job.lists)]
      /\ place' = (IF place = "listen" THEN "exit" ELSE "failed") /\ sk' = sk
  BY <1>5 DEF CallFails
<1>7. Mode.local = ("local" \in sk.opts) /\ Mode.also = {} /\ (Mode.server <=> sk.role = "server")
  BY <1>1, <1>4 DEF Mode, Here, HereAt, RolesOK, JobPlaces
<1>8. Safe(Mode, c.f, U, a)
  BY <1>5 DEF Fine
<1> HIDE DEF closed
<1>9. /\ a.lists \subseteq U /\ U \cap asked \subseteq a.lists
      /\ a.s = "listener" => "s" \in U
      /\ a.s = "data" => "s" \in U \/ c.f \in Spoilers
      /\ a.l \in {"data", "listener"} => "l" \in U
      /\ a.buffer # "no" \/ a.file # "no" => c.f = "iperf_new_stream"
      /\ "s" \in U => a.s \in {"data", "listener"} \/ (a.s = "ctrl" /\ sk.role = "server")
      /\ "l" \in U => sk.role = "server" /\ a.l \in {"data", "listener", "field"}
      /\ "buffer" \in U => a.buffer = "buffer"
      /\ "file" \notin U
  <2>1. U \cup Mode.also = U
    BY <1>7
  <2>2. Mode.local = ("local" \in sk.opts)
    BY <1>7
  <2> HIDE DEF U
  <2> QED BY <1>7, <1>8, <2>1, <2>2 DEF Safe
<1> HIDE DEF asked
<1>10. job.lists \ U = {} /\ U \cap asked \subseteq job.lists
  BY <1>4, <1>9
<1>11. job' = NoJob
  BY <1>6, <1>10 DEF NoJob
<1>12. /\ ~Lax /\ sk.proto \in {"tcp", "udp"} /\ NoSocket = 0 /\ 0 \notin Numbers
       /\ StreamSocketNumbers' = StreamSocketNumbers /\ StreamFiles' = StreamFiles
  <2>1. ~Lax
    BY <1>1 DEF Lax, JobPlaces
  <2>2. sk.proto \in {"tcp", "udp"}
    BY <1>4 DEF SocketTypeOK, Tests
  <2>3. NoSocket = 0 /\ 0 \notin Numbers
    BY DEF NoSocket, Numbers
  <2> QED BY <1>6, <2>1, <2>2, <2>3, SameStreams
<1>13. U \ AddressLists \subseteq {"s", "l", "buffer"}
  BY <1>5, <1>9 DEF Calls, Names, Slots
<1>14. /\ "s" \in U => job.fd.s \in closed
       /\ "l" \in U => job.fd.l \in closed
  BY DEF closed, AddressLists
<1>15. ASSUME NEW n \in closed
       PROVE  \/ n = job.fd.s /\ "s" \in U
              \/ n = job.fd.l /\ "l" \in U
              \/ n = job.fd.buffer /\ "buffer" \in U
  BY <1>13, <1>15 DEF closed
<1>16. /\ "s" \in U => \/ job.fd.s \in Numbers /\ fds[job.fd.s] = a.s /\ a.s \in {"data", "listener"}
                       \/ job.fd.s \in Numbers /\ fds[job.fd.s] = "data" /\ job.fd.s = sk.ctrl_sck /\ sk.role = "server"
       /\ "buffer" \in U => job.fd.buffer \in Numbers /\ fds[job.fd.buffer] = "buffer" /\ a.buffer = "buffer"
  <2>1. a.s \in {"data", "listener"} => job.fd.s \in Numbers /\ fds[job.fd.s] = a.s
    BY <1>4 DEF SlotsOK, Slots, Opened
  <2>2. a.s = "ctrl" => job.fd.s = sk.ctrl_sck /\ job.fd.s \in Numbers /\ fds[job.fd.s] = "data"
    BY <1>4, <1>12 DEF StatesOK, Fields, Sound
  <2>3. a.buffer = "buffer" => job.fd.buffer \in Numbers /\ fds[job.fd.buffer] = "buffer"
    BY <1>4 DEF SlotsOK, Slots, Opened
  <2> QED BY <1>9, <2>1, <2>2, <2>3
<1>17. "l" \in U => job.fd.l = 0 \/ (job.fd.l \in Numbers /\ fds[job.fd.l] \in {"data", "listener", "closed"})
  <2>1. a.l \in {"data", "listener"} => job.fd.l \in Numbers /\ fds[job.fd.l] = a.l
    BY <1>4 DEF SlotsOK, Slots, Opened
  <2>2. a.l = "field" /\ sk.proto = "tcp" => job.fd.l = sk.listener
    BY <1>4 DEF StatesOK
  <2>3. a.l = "field" /\ sk.proto = "udp" => job.fd.l = sk.prot_listener
    BY <1>4 DEF StatesOK
  <2>4. sk.listener = 0 \/ (sk.listener \in Numbers /\ fds[sk.listener] \in {"listener", "closed"})
    BY <1>4, <1>12 DEF Fields, Sound
  <2>5. sk.proto = "udp" => sk.prot_listener = 0 \/ (sk.prot_listener \in Numbers /\ fds[sk.prot_listener] = "data")
    BY <1>4, <1>12 DEF Fields, Sound
  <2> QED BY <1>9, <1>12, <2>1, <2>2, <2>3, <2>4, <2>5
<1>18. \A n \in closed \cap Numbers : fds[n] \in {"data", "listener", "closed", "buffer"}
  BY <1>12, <1>15, <1>16, <1>17
<1>19. ~HitsOther(closed, {"data", "listener", "buffer"})
  BY <1>18 DEF HitsOther
<1>20. /\ past'.failed = c.f /\ ~past'.wrongClose /\ ~past'.freedTwice
       /\ past' \in Histories
  <2>1. c.f \in Callers \cup {"", "cookie"}
    BY <1>5 DEF Calls
  <2>2. ~past.wrongClose /\ ~past.freedTwice /\ past \in Histories
    BY DEF SocketInv, SocketTypeOK
  <2> QED BY <1>6, <1>10, <1>19, <2>1, <2>2 DEF Histories
<1>21. /\ fds' \in [Numbers -> Kinds] /\ \A n \in Numbers : n \in closed => fds'[n] = "closed"
       /\ \A n \in Numbers : n \notin closed => fds'[n] = fds[n]
       /\ \A n \in Numbers : fds'[n] \in {fds[n], "closed"}
       /\ \A K : "closed" \notin K => Left(K)' = Left(K) \ closed
  BY <1>4, <1>6, Closing
<1>22. SocketTypeOK'
  <2>1. NoJob \in Jobs
    <3>1. <<>> \in Seq(Calls) /\ {} \in SUBSET AddressLists /\ NoSocket \in Descriptors
      BY DEF Descriptors
    <3> QED BY <3>1 DEF NoJob, NoDescriptors, Jobs
  <2>2. place' \in Places
    BY <1>6 DEF Places
  <2> QED BY <1>4, <1>6, <1>11, <1>20, <1>21, <2>1, <2>2 DEF SocketTypeOK
<1>23. RolesOK'
  <2>1. place' \in {"failed", "exit"} /\ (place' = "exit" => sk.role = "server") /\ sk.role # "none"
    BY <1>1, <1>4, <1>6 DEF RolesOK, JobPlaces
  <2> QED BY <1>4, <1>6, <1>11, <2>1 DEF RolesOK, JobPlaces
<1>24. Files'
  <2>1. \A n \in StreamFiles \cap closed : n \in Numbers /\ fds[n] \in {"buffer", "file"} => FALSE
    BY <1>4, <1>12, <1>15, <1>16, <1>17 DEF ApartOK
  <2>2. \A i \in DOMAIN sk.streams : sk.streams[i].buffer \in StreamFiles /\ sk.streams[i].file \in StreamFiles
    BY DEF StreamFiles
  <2> QED BY <1>4, <1>6, <1>21, <2>1, <2>2 DEF Files
<1>25. place' = "failed" => Fields(TRUE)'
  <2>1. CASE sk.role = "server"
    <3>1. ASSUME place' = "failed" PROVE Fields(TRUE)'
      <4>1. Lax'
        BY <1>6, <2>1, <3>1 DEF Lax
      <4>2. \A m, K : Sound(m, K) => Sound(m, K)'
        BY <1>12, <1>21, <4>1 DEF Sound
      <4>3. \A m : Sound(m, {"listener"})' => Sound(m, {"listener", "closed"})'
        BY DEF Sound
      <4> QED BY <1>4, <1>6, <4>2, <4>3 DEF Fields
    <3> QED BY <3>1
  <2>2. CASE sk.role # "server"
    <3>1. \A n \in Numbers : fds[n] = "data" /\ n \in closed => n = job.fd.s /\ a.s = "data"
      BY <1>9, <1>12, <1>15, <1>16, <2>2
    <3>2. sk.role = "client"
      BY <1>1, <1>4, <2>2 DEF RolesOK, SocketTypeOK, JobPlaces
    <3>3. \A n \in Numbers : fds[n] = "data" /\ n \in StreamSocketNumbers \cup {sk.ctrl_sck} => fds'[n] = "data"
      BY <1>4, <1>21, <3>1, <3>2 DEF ApartOK
    <3>4. sk.listener = NoSocket /\ sk.prot_listener = NoSocket
      BY <1>4, <2>2 DEF RolesOK
    <3>5. \A i \in DOMAIN sk.streams : sk.streams[i].s \in StreamSocketNumbers
      BY DEF StreamSocketNumbers
    <3>6. \A n \in StreamSocketNumbers \cup {sk.ctrl_sck} : Sound(n, {"data"}) => Sound(n, {"data"})'
      BY <1>12, <3>3 DEF Sound
    <3> QED BY <1>4, <1>6, <3>4, <3>5, <3>6 DEF Fields
  <2> QED BY <2>1, <2>2
<1>26. ASSUME NEW n \in Held(a)
       PROVE  \/ n = job.fd.s /\ a.s \in {"data", "listener"} /\ fds[n] = a.s
              \/ n = job.fd.l /\ a.l \in {"data", "listener"} /\ fds[n] = a.l
              \/ n = job.fd.buffer /\ a.buffer # "no" /\ fds[n] = "buffer"
              \/ n = job.fd.file /\ a.file # "no" /\ fds[n] = "file"
  BY <1>4, <1>26, HeldKinds
<1>27. Left({"listener"})' \subseteq {sk.listener, sk.prot_listener}
  <2>1. \A n \in Left({"listener"}) \cap Held(a) : n \in closed
    BY <1>9, <1>14, <1>26 DEF Left
  <2>2. Left({"listener"}) \subseteq {sk.listener, sk.prot_listener} \cup Held(a)
    BY <1>4 DEF AccountsOK
  <2> QED BY <1>21, <2>1, <2>2
<1>28. c.f # "iperf_new_stream" => Left({"buffer", "file"})' \subseteq StreamFiles'
  <2>1. c.f # "iperf_new_stream" => Left({"buffer", "file"}) \cap Held(a) = {}
    BY <1>9, <1>26 DEF Left
  <2>2. Left({"buffer", "file"}) \subseteq StreamFiles \cup Held(a)
    BY <1>4 DEF AccountsOK
  <2> QED BY <1>12, <1>21, <2>1, <2>2
<1> DEFINE x == IF a.s = "data" /\ "s" \notin U THEN job.fd.s ELSE NoSocket
<1>29. /\ x \in Descriptors /\ (x # NoSocket => c.f \in Spoilers)
       /\ Left({"data"})' \subseteq {sk.ctrl_sck, sk.prot_listener, x} \cup StreamSocketNumbers'
  <2>1. x \in Descriptors /\ (x # NoSocket => c.f \in Spoilers)
    BY <1>4, <1>9, DescriptorFacts
  <2>2. \A n \in Left({"data"}) \cap Held(a) : n \in closed \/ n = x
    BY <1>9, <1>14, <1>26 DEF Left
  <2>3. Left({"data"}) \subseteq {sk.ctrl_sck, sk.prot_listener} \cup StreamSocketNumbers \cup Held(a)
    BY <1>4 DEF AccountsOK
  <2> QED BY <1>12, <1>21, <2>1, <2>2, <2>3
<1> HIDE DEF x
<1>30. place' \in {"failed", "exit"}
  BY <1>6
<1>31. RestOK'
  <2>1. x # NoSocket => Spoilt'
    BY <1>20, <1>29 DEF Spoilt
  <2>2. x # NoSocket => past'.failed \in Spoilers
    BY <1>20, <1>29
  <2>3. place' = "failed" => \E y \in Descriptors :
            /\ y # NoSocket => place' = "failed" /\ Spoilt'
            /\ Left({"data"})' \subseteq {sk'.ctrl_sck, sk'.prot_listener, y} \cup StreamSocketNumbers'
    BY <1>6, <1>29, <2>1
  <2> QED BY <1>6, <1>20, <1>25, <1>27, <1>28, <1>30, <2>3 DEF RestOK
<1>32. JobOK' /\ EndOK'
  BY <1>30 DEF JobOK, JobPlaces, EndOK
<1> QED BY <1>20, <1>22, <1>23, <1>24, <1>31, <1>32 DEF SocketInv

----------------------------------------------------------------------------
(***************************************************************************)
(* Functions begin and end, and the test with them.                        *)
(***************************************************************************)
\* A function begins: it holds nothing yet.
Nothing(g) == St({}, "no", "no", "no", "no", g)

\* Nothing is held.
LEMMA NothingHeld ==
  ASSUME NEW g \in BOOLEAN
  PROVE  /\ Nothing(g) \in Holdings /\ Nothing(g).lists = {} /\ Nothing(g).s = "no" /\ Nothing(g).l = "no"
         /\ Nothing(g).buffer = "no" /\ Nothing(g).file = "no" /\ Nothing(g).gone = g
         /\ \A x \in Slots : Nothing(g)[x] = "no" /\ Nothing(g)[x] \notin Opened
         /\ Held(Nothing(g)) = {}
<1>1. /\ Nothing(g) \in Holdings /\ Nothing(g).lists = {} /\ Nothing(g).s = "no" /\ Nothing(g).l = "no"
      /\ Nothing(g).buffer = "no" /\ Nothing(g).file = "no" /\ Nothing(g).gone = g
  BY StTyped, Members, OneList DEF Nothing
<1>2. \A x \in Slots : Nothing(g)[x] = "no" /\ Nothing(g)[x] \notin Opened
  BY <1>1 DEF Slots, Opened
<1>3. Held(Nothing(g)) = {}
  BY <1>2 DEF Held
<1> QED BY <1>1, <1>2, <1>3

\* A function that begins holds nothing, and it leads to its goal.
LEMMA JobStarts ==
  ASSUME NEW g \in BOOLEAN, NEW calls, place' \in JobPlaces, Runs(calls),
         Flow(Mode', calls, Nothing(g), Goal'), g => place' = "relisten" /\ sk'.proto = "tcp",
         UnsetOK(Nothing(g))', Fields(g)',
         place' \in {"control", "accept"} /\ sk'.proto = "udp" /\ sk'.prot_listener # NoSocket =>
           sk'.prot_listener \notin StreamSocketNumbers' \cup {sk'.ctrl_sck},
         Left({"data"})' \subseteq {sk'.ctrl_sck, sk'.prot_listener} \cup StreamSocketNumbers',
         Left({"buffer", "file"})' \subseteq StreamFiles',
         ~g => Left({"listener"})' \subseteq {sk'.listener, sk'.prot_listener},
         g => Left({"listener"})' = {}
  PROVE  JobOK' /\ job'.todo = calls
<1> DEFINE a == Nothing(g)
<1>1. /\ a \in Holdings /\ a.lists = {} /\ a.s = "no" /\ a.l = "no"
      /\ a.buffer = "no" /\ a.file = "no" /\ a.gone = g
      /\ \A x \in Slots : a[x] = "no" /\ a[x] \notin Opened
  BY NothingHeld
<1> HIDE DEF a
<1>2. job'.todo = calls /\ job'.lists = {} /\ \A x \in Slots : job'.fd[x] = NoSocket
  BY DEF Runs, NoJob, NoDescriptors, Slots
<1>3. SlotsOK(a)'
  BY <1>1, <1>2 DEF SlotsOK
<1>4. StatesOK(a)'
  BY <1>1 DEF StatesOK
<1>5. ApartOK(a)'
  BY <1>1 DEF ApartOK
<1>6. AccountsOK(a)'
  BY <1>1 DEF AccountsOK
<1>7. Flow(Mode', job'.todo, a, Goal') /\ UnsetOK(a)'
  BY <1>2 DEF a
<1>8. Fields(a.gone)'
  BY <1>1 DEF Fields
<1>9. Doing(a)'
  BY <1>1, <1>2, <1>3, <1>4, <1>5, <1>6, <1>7, <1>8 DEF Doing
<1> QED BY <1>1, <1>2, <1>9 DEF JobOK

\* A function is done: it holds what its caller takes over.
LEMMA JobDone ==
  ASSUME SocketInv, place \in JobPlaces, job.todo = <<>>
  PROVE  Goal \in Holdings /\ Doing(Goal)
<1>1. PICK a \in Holdings : Doing(a)
  BY DEF SocketInv, JobOK
<1>2. Flow(Mode, <<>>, a, Goal)
  BY <1>1 DEF Doing
<1>3. a = Goal
  BY <1>2, FlowEnd
<1> QED BY <1>1, <1>3

\* A row of calls is a sequence.
LEMMA FlowSeq ==
  ASSUME NEW m, NEW a, NEW b, NEW calls, Flow(m, calls, a, b)
  PROVE  calls \in Seq(Calls)
<1> QED BY DEF Flow

\* A job that begins.
LEMMA JobTyped ==
  ASSUME NEW calls \in Seq(Calls), Runs(calls)
  PROVE  job' \in Jobs
<1>1. NoSocket \in Descriptors
  BY DEF Descriptors
<1> QED BY <1>1 DEF Runs, NoJob, NoDescriptors, Jobs

\* iperf_run_client and iperf_run_server begin.
LEMMA BeginRunInv ==
  ASSUME SocketInv, BeginRun
  PROVE  SocketInv'
<1>1. SocketTypeOK /\ RolesOK /\ place = "new" /\ sk.role = "none" /\ job = NoJob /\ past.failed = ""
      /\ sk.streams = <<>> /\ sk.ctrl_sck = NoSocket /\ sk.listener = NoSocket /\ sk.prot_listener = NoSocket
      /\ \A n \in Numbers : fds[n] \in {"closed", "other"}
  <2>1. SocketTypeOK /\ RolesOK /\ place = "new"
    BY DEF SocketInv, BeginRun
  <2>2. sk.role = "none" /\ job = NoJob /\ past.failed = "" /\ sk.streams = <<>>
    BY <2>1 DEF RolesOK, JobPlaces
  <2>3. sk.ctrl_sck = NoSocket /\ sk.listener = NoSocket /\ sk.prot_listener = NoSocket
        /\ \A n \in Numbers : fds[n] \in {"closed", "other"}
    BY <2>1, <2>2 DEF RolesOK
  <2> QED BY <2>1, <2>2, <2>3
<1>2. PICK s \in SocketSettings :
       /\ sk' = [sk EXCEPT !.role = s.role, !.proto = s.proto, !.n = s.streams, !.opts = s.opts]
       /\ IF s.role = "client"
          THEN place' = "connect" /\ Runs(ConnectControl(s.opts))
          ELSE place' = "listen" /\ Runs(NetAnnounce("s", "listener") \o Keep("s", "listener"))
  BY DEF BeginRun
<1>3. UNCHANGED <<fds, past>>
  BY DEF BeginRun
<1>4. s.role \in {"client", "server"} /\ s.proto \in {"tcp", "udp"} /\ s.streams \in Nat
      /\ s.opts \in SUBSET SocketOptions
  BY SocketAssumption
<1>5. /\ sk'.role = s.role /\ sk'.proto = s.proto /\ sk'.opts = s.opts /\ sk'.streams = <<>>
      /\ sk'.ctrl_sck = NoSocket /\ sk'.listener = NoSocket /\ sk'.prot_listener = NoSocket
  BY <1>1, <1>2 DEF SocketTypeOK, Tests
<1>6. sk' \in Tests
  <2> DEFINE O == SUBSET SocketOptions
  <2>1. s.opts \in O
    BY <1>4
  <2>2. sk \in [role : {"none", "client", "server"}, proto : {"tcp", "udp"}, n : Nat,
             opts : O, ctrl_sck : Descriptors, listener : Descriptors,
             prot_listener : Descriptors, streams : Seq(Entries)]
    BY <1>1 DEF SocketTypeOK, Tests
  <2> HIDE DEF O
  <2>3. sk' \in [role : {"none", "client", "server"}, proto : {"tcp", "udp"}, n : Nat,
             opts : O, ctrl_sck : Descriptors, listener : Descriptors,
             prot_listener : Descriptors, streams : Seq(Entries)]
    BY <1>2, <1>4, <2>1, <2>2
  <2> QED BY <2>3 DEF O, Tests
<1>7. StreamSocketNumbers' = {} /\ StreamFiles' = {}
  BY <1>5 DEF StreamSocketNumbers, StreamFiles
<1>8. \A K : K \cap {"closed", "other"} = {} => Left(K)' = {}
  BY <1>1, <1>3 DEF Left
<1>9. Left({"data"})' = {} /\ Left({"buffer", "file"})' = {} /\ Left({"listener"})' = {}
  BY <1>8
<1>10. Fields(FALSE)' /\ Files'
  BY <1>5 DEF Fields, Files
<1> DEFINE u == s.proto = "udp"
<1>11. Mode' = HereAt(s.opts, place', u)
  BY <1>5 DEF Mode, Here
<1>12. \E calls \in Seq(Calls) : Runs(calls) /\ Flow(Mode', calls, Nothing(FALSE), Goal')
  <2>1. CASE s.role = "client"
    <3>1. place' = "connect" /\ Runs(ConnectControl(s.opts))
      BY <1>2, <2>1
    <3>2. Flow(HereAt(s.opts, "connect", u), ConnectControl(s.opts), Sock({}, "no"), Sock({}, "ctrl"))
      BY ConnectControlFlow
    <3>3. Goal' = Sock({}, "ctrl") /\ Sock({}, "no") = Nothing(FALSE)
      BY <3>1 DEF Goal, Sock, Nothing, St
    <3>4. Flow(Mode', ConnectControl(s.opts), Nothing(FALSE), Goal')
      BY <1>11, <3>1, <3>2, <3>3
    <3> QED BY <3>1, <3>4, FlowSeq
  <2>2. CASE s.role # "client"
    <3> DEFINE calls == NetAnnounce("s", "listener") \o Keep("s", "listener")
    <3>1. place' = "listen" /\ Runs(calls)
      BY <1>2, <2>2
    <3>2. Flow(HereAt(s.opts, "listen", u), calls, St({}, "no", "no", "no", "no", FALSE), St({}, "field", "no", "no", "no", FALSE))
      BY ListenFlow
    <3>3. Goal' = St({}, "field", "no", "no", "no", FALSE) /\ St({}, "no", "no", "no", "no", FALSE) = Nothing(FALSE)
      BY <3>1 DEF Goal, Nothing, St
    <3> HIDE DEF calls
    <3>4. Flow(Mode', calls, Nothing(FALSE), Goal')
      BY <1>11, <3>1, <3>2, <3>3
    <3> QED BY <3>1, <3>4, FlowSeq
  <2> QED BY <2>1, <2>2
<1>13. place' \in {"connect", "listen"} /\ (place' = "connect" <=> s.role = "client")
  BY <1>2
<1>14. PICK calls \in Seq(Calls) : Runs(calls) /\ Flow(Mode', calls, Nothing(FALSE), Goal')
  BY <1>12
<1>15. UnsetOK(Nothing(FALSE))'
  BY <1>5, <1>13 DEF UnsetOK
<1>16. JobOK' /\ job'.todo = calls
  <2>1. place' \in JobPlaces /\ place' \notin {"control", "accept"}
    BY <1>13 DEF JobPlaces
  <2>2. /\ Left({"data"})' \subseteq {sk'.ctrl_sck, sk'.prot_listener} \cup StreamSocketNumbers'
        /\ Left({"buffer", "file"})' \subseteq StreamFiles'
        /\ Left({"listener"})' \subseteq {sk'.listener, sk'.prot_listener}
    BY <1>9
  <2> QED BY <1>10, <1>14, <1>15, <2>1, <2>2, JobStarts
<1>17. SocketTypeOK'
  BY <1>1, <1>3, <1>6, <1>13, <1>14, JobTyped DEF SocketTypeOK, Places, JobPlaces
<1>18. RolesOK'
  BY <1>1, <1>3, <1>4, <1>5, <1>13 DEF RolesOK, JobPlaces
<1>19. RestOK' /\ EndOK'
  BY <1>13 DEF RestOK, EndOK
<1> QED BY <1>3, <1>10, <1>16, <1>17, <1>18, <1>19 DEF SocketInv

\* A stream is added to the list with what the function opened for it.
LEMMA Listing ==
  ASSUME SocketTypeOK, Files, NEW a, SlotsOK(a), a.s = "data", a.buffer = "buffer", a.file \in {"file", "no"},
         \A n \in Numbers : fds[n] \in {"buffer", "file"} => fds'[n] = fds[n],
         sk'.streams = Listed
  PROVE  /\ Listed \in Seq(Entries) /\ job.fd.s \in Numbers /\ fds[job.fd.s] = "data" /\ Files'
         /\ StreamSocketNumbers' = StreamSocketNumbers \cup {job.fd.s}
         /\ StreamFiles' = StreamFiles \cup {job.fd.buffer, job.fd.file}
<1> DEFINE e == [s |-> job.fd.s, buffer |-> job.fd.buffer, file |-> job.fd.file]
           q == sk.streams
           N == Len(q)
<1>1. e \in Entries
  BY DescriptorFacts DEF Entries
<1>2. e.s = job.fd.s /\ e.buffer = job.fd.buffer /\ e.file = job.fd.file /\ Listed = Append(q, e)
  BY DEF Listed
<1>3. job.fd.s \in Numbers /\ fds[job.fd.s] = "data" /\ job.fd.buffer \in Numbers
      /\ fds[job.fd.buffer] = "buffer"
      /\ (job.fd.file = NoSocket \/ (job.fd.file \in Numbers /\ fds[job.fd.file] = "file"))
  BY DEF SlotsOK, Slots, Opened
<1> HIDE DEF e
<1>4. q \in Seq(Entries)
  BY DEF SocketTypeOK, Tests
<1>5. /\ sk'.streams \in Seq(Entries) /\ N \in Nat /\ DOMAIN q = 1 .. N /\ DOMAIN sk'.streams = 1 .. N + 1
      /\ \A i \in 1 .. N : sk'.streams[i] = q[i]
      /\ sk'.streams[N + 1] = e
  BY <1>1, <1>2, <1>4
<1> HIDE DEF N
<1>6. \A i \in 1 .. N + 1 : i = N + 1 \/ i \in 1 .. N
  BY <1>5
<1>7. N + 1 \in 1 .. N + 1 /\ 1 .. N \subseteq 1 .. N + 1
  BY <1>5
<1>8. StreamSocketNumbers' = StreamSocketNumbers \cup {job.fd.s}
  BY <1>2, <1>5, <1>6, <1>7 DEF StreamSocketNumbers
<1>9. StreamFiles' = StreamFiles \cup {job.fd.buffer, job.fd.file}
  BY <1>2, <1>5, <1>6, <1>7 DEF StreamFiles
<1>10. Files'
  <2>1. ASSUME NEW i \in 1 .. N + 1
        PROVE  /\ sk'.streams[i].buffer \in Numbers /\ fds'[sk'.streams[i].buffer] = "buffer"
               /\ \/ sk'.streams[i].file = NoSocket
                  \/ sk'.streams[i].file \in Numbers /\ fds'[sk'.streams[i].file] = "file"
    <3>1. CASE i = N + 1
      BY <1>2, <1>3, <1>5, <3>1
    <3>2. CASE i \in 1 .. N
      BY <1>5, <3>2 DEF Files
    <3> QED BY <1>6, <3>1, <3>2
  <2> QED BY <1>5, <2>1 DEF Files
<1> QED BY <1>2, <1>3, <1>5, <1>8, <1>9, <1>10

\* The data sockets of the streams, as a set.
LEMMA StreamsSound ==
  /\ \A K : (\A i \in DOMAIN sk.streams : Sound(sk.streams[i].s, K)) <=> \A n \in StreamSocketNumbers : Sound(n, K)
  /\ \A K : (\A i \in DOMAIN sk.streams : Sound(sk.streams[i].s, K))' <=> \A n \in StreamSocketNumbers' : Sound(n, K)'
<1>1. \A K : (\A i \in DOMAIN sk.streams : Sound(sk.streams[i].s, K)) <=> \A n \in StreamSocketNumbers : Sound(n, K)
  BY DEF StreamSocketNumbers
<1>2. \A K : (\A i \in DOMAIN sk.streams : Sound(sk.streams[i].s, K))' <=> \A n \in StreamSocketNumbers' : Sound(n, K)'
  BY DEF StreamSocketNumbers
<1> QED BY <1>1, <1>2

\* No job.
LEMMA NoJobTyped ==
  NoJob \in Jobs
<1>1. <<>> \in Seq(Calls) /\ {} \in SUBSET AddressLists /\ NoSocket \in Descriptors
  BY DEF Descriptors
<1> QED BY <1>1 DEF NoJob, NoDescriptors, Jobs

\* What is left of the job when it is done.
LEMMA GoalFacts ==
  ASSUME SocketInv, place \in JobPlaces, job.todo = <<>>
  PROVE  /\ SlotsOK(Goal) /\ StatesOK(Goal) /\ UnsetOK(Goal) /\ ApartOK(Goal) /\ AccountsOK(Goal)
         /\ Fields(Goal.gone) /\ Goal \in Holdings
         /\ place = "connect" => /\ Goal.s = "ctrl" /\ Goal.l = "no" /\ Goal.buffer = "no" /\ Goal.file = "no"
                                 /\ ~Goal.gone
         /\ place = "streams" => /\ Goal.s = "data" /\ Goal.l = "no" /\ Goal.buffer = "buffer"
                                 /\ Goal.file \in {"file", "no"} /\ ~Goal.gone
         /\ place = "listen" => /\ Goal.s = "field" /\ Goal.l = "no" /\ Goal.buffer = "no" /\ Goal.file = "no"
                                /\ ~Goal.gone
         /\ place = "control" => /\ Goal.s = "ctrl" /\ Goal.l = "field" /\ Goal.buffer = "no" /\ Goal.file = "no"
                                 /\ ~Goal.gone
         /\ place = "accept" => /\ Goal.s = "data" /\ Goal.l = (IF sk.proto = "tcp" THEN "no" ELSE "field")
                                /\ Goal.buffer = "buffer" /\ Goal.file \in {"file", "no"} /\ ~Goal.gone
         /\ place = "relisten" => /\ Goal.s = "field" /\ Goal.l = "no" /\ Goal.buffer = "no" /\ Goal.file = "no"
                                  /\ Goal.gone
<1>1. Goal \in Holdings /\ Doing(Goal)
  BY JobDone
<1>2. FileIn(sk.opts) \in {"file", "no"}
  BY DEF FileIn
<1>3. /\ place = "connect" => Goal = St({}, "ctrl", "no", "no", "no", FALSE)
      /\ place = "streams" => Goal = St({}, "data", "no", "buffer", FileIn(sk.opts), FALSE)
      /\ place = "listen" => Goal = St({}, "field", "no", "no", "no", FALSE)
      /\ place = "control" => Goal = St({}, "ctrl", "field", "no", "no", FALSE)
      /\ place = "accept" => Goal = St({}, "data", IF sk.proto = "tcp" THEN "no" ELSE "field", "buffer",
                                       FileIn(sk.opts), FALSE)
      /\ place = "relisten" => Goal = St({}, "field", "no", "no", "no", TRUE)
  BY DEF Goal, Sock
<1>5. SlotsOK(Goal) /\ StatesOK(Goal) /\ UnsetOK(Goal) /\ ApartOK(Goal) /\ AccountsOK(Goal) /\ Fields(Goal.gone)
  BY <1>1 DEF Doing
<1>6. place = "connect" => /\ Goal.s = "ctrl" /\ Goal.l = "no" /\ Goal.buffer = "no" /\ Goal.file = "no"
                            /\ ~Goal.gone
  BY <1>3 DEF St
<1>7. place = "streams" => /\ Goal.s = "data" /\ Goal.l = "no" /\ Goal.buffer = "buffer"
                           /\ Goal.file \in {"file", "no"} /\ ~Goal.gone
  BY <1>2, <1>3 DEF St
<1>8. place = "listen" => /\ Goal.s = "field" /\ Goal.l = "no" /\ Goal.buffer = "no" /\ Goal.file = "no"
                           /\ ~Goal.gone
  BY <1>3 DEF St
<1>9. place = "control" => /\ Goal.s = "ctrl" /\ Goal.l = "field" /\ Goal.buffer = "no" /\ Goal.file = "no"
                            /\ ~Goal.gone
  BY <1>3 DEF St
<1>10. place = "accept" => /\ Goal.s = "data" /\ Goal.l = (IF sk.proto = "tcp" THEN "no" ELSE "field")
                           /\ Goal.buffer = "buffer" /\ Goal.file \in {"file", "no"} /\ ~Goal.gone
  BY <1>2, <1>3 DEF St
<1>11. place = "relisten" => /\ Goal.s = "field" /\ Goal.l = "no" /\ Goal.buffer = "no" /\ Goal.file = "no"
                             /\ Goal.gone
  BY <1>3 DEF St
<1> QED BY <1>1, <1>5, <1>6, <1>7, <1>8, <1>9, <1>10, <1>11

\* iperf_create_streams: the next stream of the client, or the test begins.
LEMMA NextStreamInv ==
  ASSUME SocketInv, NextStream
  PROVE  SocketInv'
<1>1. SocketTypeOK /\ RolesOK /\ Files /\ job.todo = <<>> /\ place \in {"connect", "streams"}
      /\ ~past.wrongClose /\ ~past.freedTwice
  BY DEF SocketInv, NextStream
<1>2. place \in JobPlaces /\ sk.role = "client" /\ sk.listener = NoSocket /\ sk.prot_listener = NoSocket
      /\ past.failed = ""
  BY <1>1 DEF RolesOK, JobPlaces
<1>3. UNCHANGED <<fds, past>>
  BY DEF NextStream
<1>4. /\ sk'.role = sk.role /\ sk'.proto = sk.proto /\ sk'.n = sk.n /\ sk'.opts = sk.opts
      /\ sk'.ctrl_sck = sk.ctrl_sck /\ sk'.listener = NoSocket /\ sk'.prot_listener = NoSocket
      /\ sk' = sk \/ (sk' = [sk EXCEPT !.streams = Listed] /\ sk'.streams = Listed)
      /\ place = "connect" => sk' = sk
      /\ place = "streams" => sk' = [sk EXCEPT !.streams = Listed] /\ sk'.streams = Listed
  BY <1>1, <1>2 DEF NextStream, SocketTypeOK, Tests
<1>5. ~Lax /\ ~Lax' /\ NoSocket = 0 /\ 0 \notin Numbers
  <2>1. ~Lax /\ ~Lax'
    BY <1>2, <1>4 DEF Lax
  <2>2. NoSocket = 0 /\ 0 \notin Numbers
    BY DEF Numbers, NoSocket
  <2> QED BY <2>1, <2>2
<1>6. /\ \A n \in StreamSocketNumbers \cup ({sk.ctrl_sck} \ {NoSocket}) : n \in Numbers /\ fds[n] = "data"
      /\ SlotsOK(Goal) /\ StatesOK(Goal) /\ AccountsOK(Goal) /\ ~Goal.gone
  <2>1. Fields(FALSE) /\ SlotsOK(Goal) /\ StatesOK(Goal) /\ AccountsOK(Goal) /\ ~Goal.gone
    <3>1. ~Goal.gone /\ Fields(Goal.gone) /\ SlotsOK(Goal) /\ StatesOK(Goal) /\ AccountsOK(Goal) /\ Goal \in Holdings
      BY <1>1, <1>2, GoalFacts
    <3>2. Goal.gone = FALSE
      BY <3>1 DEF Holdings
    <3> QED BY <3>1, <3>2
  <2>2. (sk.ctrl_sck = NoSocket \/ Sound(sk.ctrl_sck, {"data"})) /\ \A n \in StreamSocketNumbers : Sound(n, {"data"})
    BY <2>1, StreamsSound DEF Fields
  <2> QED BY <1>5, <2>1, <2>2 DEF Sound
<1>7. /\ sk'.streams \in Seq(Entries) /\ Files'
      /\ \A n \in StreamSocketNumbers' : n \in Numbers /\ fds[n] = "data"
      /\ Left({"data"}) \subseteq {sk.ctrl_sck} \cup StreamSocketNumbers'
      /\ Left({"buffer", "file"}) \subseteq StreamFiles'
      /\ Left({"listener"}) = {}
  <2>0. 0 \notin Left({"data"}) /\ 0 \notin Left({"listener"}) /\ 0 \notin Left({"buffer", "file"})
    BY <1>5 DEF Left
  <2>1. /\ Left({"data"}) \subseteq {sk.ctrl_sck, NoSocket} \cup StreamSocketNumbers \cup Held(Goal)
        /\ Left({"buffer", "file"}) \subseteq StreamFiles \cup Held(Goal)
        /\ Left({"listener"}) \subseteq {NoSocket} \cup Held(Goal)
    BY <1>2, <1>6 DEF AccountsOK
  <2>2. Goal \in Holdings
    BY <1>1, <1>2, GoalFacts
  <2>3. CASE place = "connect"
    <3>1. Held(Goal) = {}
      BY <1>1, <1>2, <1>6, <2>2, <2>3, GoalFacts, HeldKinds
    <3>2. StreamSocketNumbers' = StreamSocketNumbers /\ StreamFiles' = StreamFiles /\ sk'.streams = sk.streams
      BY <1>4, <2>3, SameStreams
    <3>3. Files' /\ sk'.streams \in Seq(Entries)
      BY <1>1, <1>3, <3>2, SameFiles DEF SocketTypeOK, Tests
    <3>4. \A n \in StreamSocketNumbers' : n \in Numbers /\ fds[n] = "data"
      BY <1>6, <3>2
    <3>5. /\ Left({"data"}) \subseteq {sk.ctrl_sck} \cup StreamSocketNumbers'
          /\ Left({"buffer", "file"}) \subseteq StreamFiles' /\ Left({"listener"}) = {}
      BY <1>5, <2>0, <2>1, <3>1, <3>2
    <3> QED BY <3>3, <3>4, <3>5
  <2>4. CASE place = "streams"
    <3>1. /\ Goal.s = "data" /\ Goal.l = "no" /\ Goal.buffer = "buffer" /\ Goal.file \in {"file", "no"}
      BY <1>1, <1>2, <2>4, GoalFacts
    <3>2. /\ Listed \in Seq(Entries) /\ job.fd.s \in Numbers /\ fds[job.fd.s] = "data" /\ Files'
          /\ StreamSocketNumbers' = StreamSocketNumbers \cup {job.fd.s}
          /\ StreamFiles' = StreamFiles \cup {job.fd.buffer, job.fd.file}
      BY <1>1, <1>3, <1>4, <1>6, <2>4, <3>1, Listing
    <3>3. \A n \in Held(Goal) : \/ n = job.fd.s /\ fds[n] = "data"
                                \/ n \in {job.fd.buffer, job.fd.file} /\ fds[n] \in {"buffer", "file"}
      BY <1>6, <2>2, <3>1, HeldKinds
    <3>4. /\ Left({"data"}) \cap Held(Goal) \subseteq {job.fd.s}
          /\ Left({"buffer", "file"}) \cap Held(Goal) \subseteq {job.fd.buffer, job.fd.file}
          /\ Left({"listener"}) \cap Held(Goal) = {}
      BY <3>3 DEF Left
    <3>5. sk'.streams = Listed
      BY <1>4, <2>4
    <3>6. \A n \in StreamSocketNumbers' : n \in Numbers /\ fds[n] = "data"
      BY <1>6, <3>2
    <3>7. Left({"data"}) \subseteq {sk.ctrl_sck} \cup StreamSocketNumbers'
      BY <1>5, <2>0, <2>1, <3>2, <3>4
    <3>8. Left({"buffer", "file"}) \subseteq StreamFiles' /\ Left({"listener"}) = {}
      BY <1>5, <2>0, <2>1, <3>2, <3>4
    <3> QED BY <3>2, <3>5, <3>6, <3>7, <3>8
  <2> QED BY <1>1, <2>3, <2>4
<1>8. sk' \in Tests
  BY <1>1, <1>4, <1>7 DEF SocketTypeOK, Tests
<1>9. \A K : Left(K)' = Left(K)
  BY <1>3 DEF Left
<1>10. Fields(TRUE)' /\ Fields(FALSE)'
  <2>1. \A n \in StreamSocketNumbers' : Sound(n, {"data"})'
    BY <1>3, <1>7 DEF Sound
  <2>2. sk'.ctrl_sck = NoSocket \/ Sound(sk.ctrl_sck, {"data"})'
    BY <1>3, <1>4, <1>6 DEF Sound
  <2>3. (\A i \in DOMAIN sk.streams : Sound(sk.streams[i].s, {"data"}))'
    BY <2>1 DEF StreamSocketNumbers
  <2> QED BY <1>4, <2>2, <2>3 DEF Fields
<1>11. CASE Len(sk'.streams) = sk.n
  <2>1. place' = "test" /\ job' = NoJob
    BY <1>11 DEF NextStream
  <2>2. SocketTypeOK'
    BY <1>1, <1>3, <1>8, <2>1, NoJobTyped DEF SocketTypeOK, Places
  <2>3. RolesOK'
    BY <1>1, <1>2, <1>3, <1>4, <2>1 DEF RolesOK, JobPlaces
  <2>4. RestOK'
    <3>1. NoSocket \in Descriptors /\ Left({"data"})' \subseteq {sk'.ctrl_sck, sk'.prot_listener, NoSocket} \cup StreamSocketNumbers'
      BY <1>4, <1>7, <1>9 DEF Descriptors
    <3> QED BY <1>4, <1>7, <1>9, <1>10, <2>1, <3>1 DEF RestOK
  <2>5. JobOK' /\ EndOK'
    BY <2>1 DEF JobOK, JobPlaces, EndOK
  <2> QED BY <1>1, <1>3, <1>7, <2>2, <2>3, <2>4, <2>5 DEF SocketInv
<1>12. CASE Len(sk'.streams) # sk.n
  <2> DEFINE calls == ConnectStream(sk.opts)
  <2>1. place' = "streams" /\ Runs(calls)
    BY <1>12 DEF NextStream
  <2>2. Flow(Here(sk.opts, "streams"), calls, Sock({}, "no"), St({}, "data", "no", "buffer", FileIn(sk.opts), FALSE))
    BY ConnectStreamFlow
  <2> HIDE DEF calls
  <2>3. Flow(Mode', calls, Nothing(FALSE), Goal')
    <3>1. Mode' = Here(sk.opts, "streams")
      BY <1>4, <2>1 DEF Mode, Here
    <3>2. Goal' = St({}, "data", "no", "buffer", FileIn(sk.opts), FALSE)
      <4>1. FileIn(sk.opts)' = FileIn(sk.opts)
        BY <1>4 DEF FileIn
      <4> QED BY <2>1, <4>1 DEF Goal, St
    <3>3. Sock({}, "no") = Nothing(FALSE)
      BY DEF Sock, Nothing
    <3> QED BY <2>2, <3>1, <3>2, <3>3
  <2>4. UnsetOK(Nothing(FALSE))'
    BY <2>1 DEF UnsetOK
  <2>5. JobOK' /\ job'.todo = calls
    <3>1. /\ Left({"data"})' \subseteq {sk'.ctrl_sck, sk'.prot_listener} \cup StreamSocketNumbers'
          /\ Left({"buffer", "file"})' \subseteq StreamFiles'
          /\ Left({"listener"})' \subseteq {sk'.listener, sk'.prot_listener}
      BY <1>4, <1>7, <1>9
    <3>2. place' \in JobPlaces /\ place' \notin {"control", "accept"}
      BY <2>1 DEF JobPlaces
    <3> QED BY <1>10, <2>1, <2>3, <2>4, <3>1, <3>2, JobStarts
  <2>6. SocketTypeOK'
    <3>1. calls \in Seq(Calls)
      BY <2>3, FlowSeq
    <3> QED BY <1>1, <1>3, <1>8, <2>1, <3>1, JobTyped DEF SocketTypeOK, Places, JobPlaces
  <2>7. RolesOK'
    BY <1>1, <1>2, <1>3, <1>4, <2>1 DEF RolesOK, JobPlaces
  <2>8. RestOK' /\ EndOK'
    BY <2>1 DEF RestOK, EndOK
  <2> QED BY <1>1, <1>3, <1>7, <2>5, <2>6, <2>7, <2>8 DEF SocketInv
<1> QED BY <1>11, <1>12

\* The invariant when no function is under way, before and after.
LEMMA NoJobUnderWay ==
  ASSUME SocketInv, place \notin JobPlaces
  PROVE  job = NoJob
<1> QED BY DEF SocketInv, RolesOK

\* The client's end: iperf_client_end, at the end of a test or after an error.
LEMMA ClientEndInv ==
  ASSUME SocketInv, NEW done \in BOOLEAN, ClientEnd(done)
  PROVE  SocketInv'
<1> DEFINE closed == StreamSocketNumbers \cup (IF done THEN {sk.ctrl_sck} ELSE {})
<1>1. SocketTypeOK /\ RolesOK /\ Files /\ RestOK /\ ~past.wrongClose /\ ~past.freedTwice
      /\ sk.role = "client" /\ place \in {"test", "failed"}
  BY DEF SocketInv, ClientEnd
<1>2. /\ fds' = CloseAll(closed) /\ place' = "ended" /\ UNCHANGED <<sk, job>>
      /\ past' = [past EXCEPT !.farewell = done, !.wrongClose = @ \/ HitsOther(closed, {"data"})]
  BY DEF ClientEnd
<1>3. Fields(TRUE) /\ sk.listener = NoSocket /\ sk.prot_listener = NoSocket
  BY <1>1 DEF RestOK, RolesOK
<1>4. NoSocket = 0 /\ 0 \notin Numbers
  BY DEF NoSocket, Numbers
<1>5. ~Lax
  BY <1>1 DEF Lax
<1>6. \A n \in closed : n = NoSocket \/ (n \in Numbers /\ fds[n] = "data")
  <2>1. (sk.ctrl_sck = NoSocket \/ Sound(sk.ctrl_sck, {"data"})) /\ \A n \in StreamSocketNumbers : Sound(n, {"data"})
    BY <1>3, StreamsSound DEF Fields
  <2> QED BY <1>5, <2>1 DEF Sound
<1> HIDE DEF closed
<1>7. ~HitsOther(closed, {"data"})
  BY <1>4, <1>6 DEF HitsOther
<1>8. /\ past'.failed = past.failed /\ past'.stopped = past.stopped /\ past'.farewell = done
      /\ ~past'.wrongClose /\ ~past'.freedTwice
      /\ past' \in Histories
  BY <1>1, <1>2, <1>7 DEF SocketTypeOK, Histories
<1>9. /\ fds' \in [Numbers -> Kinds]
      /\ \A n \in Numbers : n \notin closed => fds'[n] = fds[n]
      /\ \A K : "closed" \notin K => Left(K)' = Left(K) \ closed
  BY <1>1, <1>2, Closing
<1>10. SocketTypeOK'
  BY <1>1, <1>2, <1>8, <1>9 DEF SocketTypeOK, Places
<1>11. RolesOK'
  BY <1>1, <1>2, <1>3, <1>8 DEF RolesOK, JobPlaces
<1>12. Files'
  BY <1>1, <1>2, <1>4, <1>6, <1>9 DEF Files
<1>13. StreamSocketNumbers' = StreamSocketNumbers /\ StreamFiles' = StreamFiles
  BY <1>2, SameStreams
<1>14. 0 \notin Left({"data"}) /\ 0 \notin Left({"listener"})
  BY <1>4 DEF Left
<1>15. PICK x \in Descriptors :
            /\ x # NoSocket => place = "failed" /\ Spoilt
            /\ Left({"data"}) \subseteq {sk.ctrl_sck, sk.prot_listener, x} \cup StreamSocketNumbers
  BY <1>1 DEF RestOK
<1> DEFINE y == IF done THEN NoSocket ELSE sk.ctrl_sck
<1>16. y \in Descriptors /\ (y # NoSocket => ~done)
  BY <1>1, DescriptorFacts
<1>17. Left({"data"})' \subseteq {x, y}
  <2>1. Left({"data"}) \ closed \subseteq {x, y}
    BY <1>3, <1>4, <1>14, <1>15 DEF closed
  <2> QED BY <1>9, <2>1
<1>18. Left({"listener"})' = {}
  <2>1. Left({"listener"}) = {}
    BY <1>1, <1>3, <1>4, <1>14 DEF RestOK
  <2> QED BY <1>9, <2>1
<1>19. past.failed # "iperf_new_stream" => Left({"buffer", "file"})' \subseteq StreamFiles'
  BY <1>1, <1>9, <1>13 DEF RestOK
<1> HIDE DEF y
<1>20. EndOK'
  <2>1. x # NoSocket => Spoilt'
    BY <1>8, <1>15 DEF Spoilt
  <2>2. \E v \in Descriptors, w \in Descriptors :
         /\ v # NoSocket => Spoilt'
         /\ w # NoSocket => ~past'.farewell
         /\ Left({"data"})' \subseteq {v, w}
    BY <1>8, <1>16, <1>17, <2>1
  <2> QED BY <1>2, <1>8, <1>18, <1>19, <2>2 DEF EndOK
<1>21. JobOK' /\ RestOK'
  BY <1>2 DEF JobOK, JobPlaces, RestOK
<1> QED BY <1>8, <1>10, <1>11, <1>12, <1>20, <1>21 DEF SocketInv

\* The user's stop ends the loop and closes nothing.
LEMMA StoppedByUserInv ==
  ASSUME SocketInv, StoppedByUser
  PROVE  SocketInv'
<1>1. SocketTypeOK /\ RolesOK /\ Files /\ ~past.wrongClose /\ ~past.freedTwice /\ place = "test" /\ place' = "ended"
      /\ past' = [past EXCEPT !.stopped = TRUE] /\ UNCHANGED <<fds, sk, job>>
  BY DEF SocketInv, StoppedByUser
<1>2. past' \in Histories
      /\ past'.stopped /\ ~past'.wrongClose /\ ~past'.freedTwice
  BY <1>1 DEF SocketTypeOK, Histories
<1>3. SocketTypeOK' /\ Files'
  BY <1>1, <1>2 DEF SocketTypeOK, Places, Files
<1>4. RolesOK'
  BY <1>1, <1>2 DEF RolesOK, JobPlaces
<1>5. JobOK' /\ RestOK' /\ EndOK'
  BY <1>1, <1>2 DEF JobOK, JobPlaces, RestOK, EndOK
<1> QED BY <1>2, <1>3, <1>4, <1>5 DEF SocketInv

\* iperf_free_test and iperf_reset_test close the files of the streams.
LEMMA FreeStreamsInv ==
  ASSUME SocketInv, FreeStreams
  PROVE  SocketInv'
<1>1. SocketTypeOK /\ RolesOK /\ Files /\ EndOK /\ ~past.wrongClose /\ ~past.freedTwice /\ place = "ended"
      /\ fds' = CloseAll(StreamFiles) /\ place' = "freed" /\ UNCHANGED job
      /\ past' = [past EXCEPT !.wrongClose = @ \/ HitsOther(StreamFiles, {"buffer", "file"})]
      /\ sk' = [sk EXCEPT !.streams = <<>>, !.ctrl_sck = NoSocket, !.listener = NoSocket, !.prot_listener = NoSocket]
  BY DEF SocketInv, FreeStreams
<1>2. NoSocket = 0 /\ 0 \notin Numbers
  BY DEF NoSocket, Numbers
<1>3. ~HitsOther(StreamFiles, {"buffer", "file"})
  BY <1>1, <1>2 DEF HitsOther, StreamFiles, Files
<1>4. /\ past' \in Histories
      /\ past'.failed = past.failed /\ past'.stopped = past.stopped /\ past'.farewell = past.farewell
      /\ ~past'.wrongClose /\ ~past'.freedTwice
  BY <1>1, <1>3 DEF SocketTypeOK, Histories
<1>5. /\ fds' \in [Numbers -> Kinds]
      /\ \A K : "closed" \notin K => Left(K)' = Left(K) \ StreamFiles
  BY <1>1, Closing
<1>6. <<>> \in Seq(Entries) /\ NoSocket \in Descriptors
  BY DEF Descriptors
<1>7. sk' \in Tests
      /\ sk'.streams = <<>> /\ sk'.listener = NoSocket /\ sk'.prot_listener = NoSocket /\ sk'.role = sk.role
  BY <1>1, <1>6 DEF SocketTypeOK, Tests
<1>8. SocketTypeOK'
  BY <1>1, <1>4, <1>5, <1>7 DEF SocketTypeOK, Places
<1>9. RolesOK'
  BY <1>1, <1>4, <1>7 DEF RolesOK, JobPlaces
<1>10. Files'
  BY <1>7 DEF Files
<1>11. JobOK' /\ RestOK'
  BY <1>1 DEF JobOK, JobPlaces, RestOK
<1>12. EndOK'
  <2>1. CASE past.stopped
    BY <1>4, <2>1 DEF EndOK
  <2>2. CASE ~past.stopped
    <3>1. /\ Left({"listener"}) = {}
          /\ past.failed # "iperf_new_stream" => Left({"buffer", "file"}) \subseteq StreamFiles
      BY <1>1, <2>2 DEF EndOK
    <3>2. /\ Left({"listener"})' = {}
          /\ past.failed # "iperf_new_stream" => Left({"buffer", "file"})' = {}
      BY <1>5, <3>1
    <3>3. PICK x \in Descriptors, y \in Descriptors :
             /\ x # NoSocket => Spoilt
             /\ y # NoSocket => ~past.farewell
             /\ Left({"data"}) \subseteq {x, y}
      BY <1>1, <2>2 DEF EndOK
    <3>4. (x # NoSocket => Spoilt') /\ (y # NoSocket => ~past'.farewell) /\ Left({"data"})' \subseteq {x, y}
      BY <1>4, <1>5, <3>3 DEF Spoilt
    <3> QED BY <1>1, <1>4, <3>2, <3>4 DEF EndOK
  <2> QED BY <2>1, <2>2
<1> QED BY <1>4, <1>8, <1>9, <1>10, <1>11, <1>12 DEF SocketInv

\* What a function has opened, when it is done, is stored in the fields.
LEMMA DoneAccounts ==
  ASSUME SocketInv, place \in JobPlaces, job.todo = <<>>, Goal.buffer = "no"
  PROVE  /\ Left({"data"}) \subseteq {sk.ctrl_sck, sk.prot_listener} \cup StreamSocketNumbers
         /\ Left({"buffer", "file"}) \subseteq StreamFiles
         /\ ~Goal.gone => Left({"listener"}) \subseteq {sk.listener, sk.prot_listener}
         /\ Goal.gone => Left({"listener"}) \subseteq {sk.listener}
<1>1. SlotsOK(Goal) /\ StatesOK(Goal) /\ AccountsOK(Goal) /\ Goal \in Holdings
  BY GoalFacts
<1>2. Goal.s \notin Opened /\ Goal.l \notin Opened /\ Goal.file \notin Opened
  <2>1. place \in {"connect", "listen", "control", "relisten"}
    BY GoalFacts DEF JobPlaces
  <2>2. /\ Goal.s \in {"ctrl", "field"} /\ Goal.l \in {"no", "field"} /\ Goal.file = "no"
    BY <2>1, GoalFacts
  <2> QED BY <2>2 DEF Opened
<1>3. Held(Goal) = {}
  BY <1>1, <1>2, HeldKinds DEF Opened
<1> QED BY <1>1, <1>3 DEF AccountsOK

\* A client connects, and iperf_accept begins.
LEMMA ControlComesInv ==
  ASSUME SocketInv, ControlComes
  PROVE  SocketInv'
<1> DEFINE calls == AcceptControl(sk.opts)
<1>1. SocketTypeOK /\ RolesOK /\ Files /\ ~past.wrongClose /\ ~past.freedTwice
      /\ place = "listen" /\ job.todo = <<>> /\ place' = "control" /\ Runs(calls) /\ UNCHANGED <<fds, sk, past>>
  BY DEF SocketInv, ControlComes
<1>2. place \in JobPlaces /\ sk.role = "server" /\ past.failed = "" /\ sk.streams = <<>>
      /\ sk.proto \in {"tcp", "udp"}
  BY <1>1 DEF RolesOK, JobPlaces, SocketTypeOK, Histories, Tests
<1>3. Fields(FALSE) /\ sk.ctrl_sck = NoSocket /\ sk.prot_listener = NoSocket /\ Goal.buffer = "no" /\ ~Goal.gone
  <2>1. ~Goal.gone /\ Fields(Goal.gone) /\ UnsetOK(Goal) /\ Goal \in Holdings /\ Goal.buffer = "no"
    BY <1>1, <1>2, GoalFacts
  <2>2. Goal.gone = FALSE
    BY <2>1 DEF Holdings
  <2> QED BY <1>1, <2>1, <2>2 DEF UnsetOK
<1>4. /\ Left({"data"}) \subseteq {sk.ctrl_sck, sk.prot_listener} \cup StreamSocketNumbers
      /\ Left({"buffer", "file"}) \subseteq StreamFiles
      /\ Left({"listener"}) \subseteq {sk.listener, sk.prot_listener}
  BY <1>1, <1>2, <1>3, DoneAccounts
<1>5. ~Lax /\ ~Lax'
  BY <1>1 DEF Lax
<1>6. Fields(FALSE)'
  BY <1>1, <1>3, <1>5 DEF Fields, Sound
<1>7. Flow(Here(sk.opts, "control"), calls, Sock({}, "no"), Had("ctrl", "field", "no", "no"))
  <2>1. sk.proto \in {"tcp", "udp"}
    BY <1>2
  <2> QED BY <2>1, AcceptControlFlow
<1> HIDE DEF calls
<1>8. Flow(Mode', calls, Nothing(FALSE), Goal')
  <2>1. Mode' = Here(sk.opts, "control")
    BY <1>1 DEF Mode, Here
  <2>2. Goal' = Had("ctrl", "field", "no", "no") /\ Sock({}, "no") = Nothing(FALSE)
    BY <1>1 DEF Goal, St, Sock, Nothing, Had
  <2> QED BY <1>7, <2>1, <2>2
<1>9. UnsetOK(Nothing(FALSE))'
  BY <1>1, <1>3 DEF UnsetOK
<1>10. JobOK' /\ job'.todo = calls
  <2>1. /\ Left({"data"})' \subseteq {sk'.ctrl_sck, sk'.prot_listener} \cup StreamSocketNumbers'
        /\ Left({"buffer", "file"})' \subseteq StreamFiles'
        /\ Left({"listener"})' \subseteq {sk'.listener, sk'.prot_listener}
    BY <1>1, <1>4 DEF Left, StreamSocketNumbers, StreamFiles
  <2>2. place' \in JobPlaces /\ sk'.prot_listener = NoSocket
    BY <1>1, <1>3 DEF JobPlaces
  <2> QED BY <1>1, <1>6, <1>8, <1>9, <2>1, <2>2, JobStarts
<1>11. SocketTypeOK'
  <2>1. calls \in Seq(Calls)
    BY <1>7, FlowSeq
  <2> QED BY <1>1, <2>1, JobTyped DEF SocketTypeOK, Places, JobPlaces
<1>12. RolesOK' /\ Files'
  BY <1>1, <1>2 DEF RolesOK, JobPlaces, Files
<1>13. RestOK' /\ EndOK'
  BY <1>1 DEF RestOK, EndOK
<1> QED BY <1>1, <1>10, <1>11, <1>12, <1>13 DEF SocketInv

\* iperf_accept is done.
LEMMA ControlAcceptedInv ==
  ASSUME SocketInv, ControlAccepted
  PROVE  SocketInv'
<1>1. SocketTypeOK /\ RolesOK /\ Files /\ ~past.wrongClose /\ ~past.freedTwice
      /\ place = "control" /\ job.todo = <<>> /\ place' = "await" /\ job' = NoJob /\ UNCHANGED <<fds, sk, past>>
  BY DEF SocketInv, ControlAccepted
<1>2. place \in JobPlaces /\ sk.role = "server" /\ past.failed = ""
  BY <1>1 DEF RolesOK, JobPlaces
<1>3. /\ Fields(FALSE) /\ Goal.buffer = "no" /\ ~Goal.gone
      /\ sk.proto = "udp" => /\ sk.prot_listener # NoSocket
                             /\ sk.prot_listener \notin StreamSocketNumbers \cup {sk.ctrl_sck}
  <2>1. ~Goal.gone /\ Fields(Goal.gone) /\ StatesOK(Goal) /\ ApartOK(Goal) /\ Goal \in Holdings /\ Goal.buffer = "no"
        /\ Goal.l = "field"
    BY <1>1, <1>2, GoalFacts
  <2>2. Goal.gone = FALSE
    BY <2>1 DEF Holdings
  <2> QED BY <1>1, <2>1, <2>2 DEF StatesOK, ApartOK
<1>4. /\ Left({"data"}) \subseteq {sk.ctrl_sck, sk.prot_listener} \cup StreamSocketNumbers
      /\ Left({"buffer", "file"}) \subseteq StreamFiles
      /\ Left({"listener"}) \subseteq {sk.listener, sk.prot_listener}
  BY <1>1, <1>2, <1>3, DoneAccounts
<1>5. ~Lax /\ ~Lax'
  BY <1>1 DEF Lax
<1>6. Fields(FALSE)'
  BY <1>1, <1>3, <1>5 DEF Fields, Sound
<1>7. SocketTypeOK'
  BY <1>1, NoJobTyped DEF SocketTypeOK, Places
<1>8. RolesOK' /\ Files'
  BY <1>1, <1>2 DEF RolesOK, JobPlaces, Files
<1>9. RestOK'
  <2>1. /\ Left({"data"})' \subseteq {sk'.ctrl_sck, sk'.prot_listener, NoSocket} \cup StreamSocketNumbers'
        /\ Left({"buffer", "file"})' \subseteq StreamFiles'
        /\ Left({"listener"})' \subseteq {sk'.listener, sk'.prot_listener}
    BY <1>1, <1>4 DEF Left, StreamSocketNumbers, StreamFiles
  <2>2. NoSocket \in Descriptors
    BY DEF Descriptors
  <2>3. sk'.proto = "udp" => /\ sk'.prot_listener # NoSocket
                             /\ sk'.prot_listener \notin StreamSocketNumbers' \cup {sk'.ctrl_sck}
    BY <1>1, <1>3 DEF StreamSocketNumbers
  <2> QED BY <1>1, <1>6, <2>1, <2>2, <2>3 DEF RestOK
<1>10. JobOK' /\ EndOK'
  BY <1>1 DEF JobOK, JobPlaces, EndOK
<1> QED BY <1>1, <1>7, <1>8, <1>9, <1>10 DEF SocketInv

\* A stream of the client comes, and the server accepts it.
LEMMA StreamComesInv ==
  ASSUME SocketInv, StreamComes
  PROVE  SocketInv'
<1> DEFINE calls == AcceptStreamCalls(sk.opts)
<1>1. SocketTypeOK /\ RolesOK /\ Files /\ RestOK /\ ~past.wrongClose /\ ~past.freedTwice
      /\ place = "await" /\ place' = "accept" /\ Runs(calls) /\ UNCHANGED <<fds, sk, past>>
  BY DEF SocketInv, StreamComes
<1>2. sk.role = "server" /\ past.failed = "" /\ sk.proto \in {"tcp", "udp"}
  BY <1>1 DEF RolesOK, SocketTypeOK, Histories, Tests
<1>3. /\ Fields(FALSE)
      /\ sk.proto = "udp" => /\ sk.prot_listener # NoSocket
                             /\ sk.prot_listener \notin StreamSocketNumbers \cup {sk.ctrl_sck}
      /\ Left({"listener"}) \subseteq {sk.listener, sk.prot_listener}
      /\ Left({"buffer", "file"}) \subseteq StreamFiles
  BY <1>1, <1>2 DEF RestOK
<1>4. Left({"data"}) \subseteq {sk.ctrl_sck, sk.prot_listener} \cup StreamSocketNumbers
  <2>1. Left({"data"}) \subseteq {sk.ctrl_sck, sk.prot_listener, NoSocket} \cup StreamSocketNumbers
    BY <1>1 DEF RestOK
  <2>2. NoSocket \notin Left({"data"})
    BY DEF NoSocket, Left, Numbers
  <2> QED BY <2>1, <2>2
<1>5. ~Lax /\ ~Lax'
  BY <1>1 DEF Lax
<1>6. Fields(FALSE)'
  BY <1>1, <1>3, <1>5 DEF Fields, Sound
<1>7. Flow(Here(sk.opts, "accept"), calls, Sock({}, "no"),
           Had("data", IF sk.proto = "tcp" THEN "no" ELSE "field", "buffer", FileIn(sk.opts)))
  <2>1. sk.proto \in {"tcp", "udp"}
    BY <1>2
  <2> QED BY <2>1, AcceptStreamFlow
<1> HIDE DEF calls
<1>8. Flow(Mode', calls, Nothing(FALSE), Goal')
  <2>1. Mode' = Here(sk.opts, "accept")
    BY <1>1 DEF Mode, Here
  <2>2. Goal' = Had("data", IF sk.proto = "tcp" THEN "no" ELSE "field", "buffer", FileIn(sk.opts))
    BY <1>1 DEF Goal, St, FileIn, Had
  <2>3. Sock({}, "no") = Nothing(FALSE)
    BY DEF Sock, Nothing
  <2> QED BY <1>7, <2>1, <2>2, <2>3
<1>9. UnsetOK(Nothing(FALSE))'
  <2>1. Nothing(FALSE).s = "no"
    BY NothingHeld
  <2> QED BY <1>1, <1>3, <2>1 DEF UnsetOK
<1>10. JobOK' /\ job'.todo = calls
  <2>1. /\ Left({"data"})' \subseteq {sk'.ctrl_sck, sk'.prot_listener} \cup StreamSocketNumbers'
        /\ Left({"buffer", "file"})' \subseteq StreamFiles'
        /\ Left({"listener"})' \subseteq {sk'.listener, sk'.prot_listener}
    BY <1>1, <1>3, <1>4 DEF Left, StreamSocketNumbers, StreamFiles
  <2>2. place' \in JobPlaces
    BY <1>1 DEF JobPlaces
  <2>3. sk'.proto = "udp" => sk'.prot_listener \notin StreamSocketNumbers' \cup {sk'.ctrl_sck}
    BY <1>1, <1>3 DEF StreamSocketNumbers
  <2> QED BY <1>1, <1>6, <1>8, <1>9, <2>1, <2>2, <2>3, JobStarts
<1>11. SocketTypeOK'
  <2>1. calls \in Seq(Calls)
    BY <1>7, FlowSeq
  <2> QED BY <1>1, <2>1, JobTyped DEF SocketTypeOK, Places, JobPlaces
<1>12. RolesOK' /\ Files'
  BY <1>1, <1>2 DEF RolesOK, JobPlaces, Files
<1>13. RestOK' /\ EndOK'
  BY <1>1 DEF RestOK, EndOK
<1> QED BY <1>1, <1>10, <1>11, <1>12, <1>13 DEF SocketInv

\* A connection with another cookie is closed.
LEMMA StrangerComesInv ==
  ASSUME SocketInv, StrangerComes
  PROVE  SocketInv'
<1>1. SocketTypeOK /\ RolesOK /\ Files /\ ~past.wrongClose /\ ~past.freedTwice /\ place = "accept"
      /\ job.todo # <<>> /\ Head(job.todo).f = "cookie"
      /\ fds' = CloseAll({job.fd.s}) /\ job' = NoJob /\ sk' = sk
  BY DEF SocketInv, StrangerComes
<1>2. \/ place' = "failed" /\ past' = [past EXCEPT !.failed = "stranger"]
      \/ place' = "await" /\ past' = past
  BY DEF StrangerComes
<1>3. PICK a \in Holdings : \E c : Doing(a) /\ Step(c, a) /\ After(c, a) \in Holdings
  BY <1>1, JobUnderWay
<1>4. PICK c : Doing(a) /\ Step(c, a)
  BY <1>3
<1>5. c.f = "cookie" /\ Fine(Mode, c, a)
  BY <1>1, <1>4 DEF Step
<1>6. c.op = "try" /\ c.undo = {"s"} /\ a.s = "data" /\ a.l = "no" /\ ~a.gone /\ sk.proto # "udp"
      /\ Safe(Mode, c.f, c.undo, a)
  BY <1>5 DEF Fine, Mode, Here, HereAt
<1>7. a.buffer = "no" /\ a.file = "no"
  BY <1>5, <1>6 DEF Safe
<1>8. sk.proto = "tcp" /\ sk.role = "server" /\ past.failed = "" /\ ~Lax
  <2>1. sk.proto = "tcp"
    BY <1>1, <1>6 DEF SocketTypeOK, Tests
  <2>2. sk.role = "server" /\ past.failed = ""
    BY <1>1 DEF RolesOK
  <2>3. ~Lax
    BY <1>1 DEF Lax
  <2> QED BY <2>1, <2>2, <2>3
<1>9. SlotsOK(a) /\ StatesOK(a) /\ ApartOK(a) /\ AccountsOK(a) /\ Fields(FALSE)
  <2>1. a.gone = FALSE
    BY <1>6 DEF Holdings
  <2> QED BY <1>4, <2>1 DEF Doing
<1>10. /\ job.fd.s \in Numbers /\ fds[job.fd.s] = "data"
       /\ job.fd.s # sk.ctrl_sck /\ job.fd.s \notin StreamSocketNumbers
  <2>1. job.fd.s \in Numbers /\ fds[job.fd.s] = "data"
    BY <1>6, <1>9 DEF SlotsOK, Slots, Opened
  <2> QED BY <1>6, <1>8, <1>9, <2>1 DEF ApartOK
<1>11. Held(a) \subseteq {job.fd.s}
  BY <1>6, <1>7, <1>9, HeldKinds
<1>12. /\ fds' \in [Numbers -> Kinds] /\ \A n \in Numbers : n \notin {job.fd.s} => fds'[n] = fds[n]
       /\ \A K : "closed" \notin K => Left(K)' = Left(K) \ {job.fd.s}
  BY <1>1, Closing
<1>13. \A n \in Numbers : n = job.fd.s \/ fds'[n] = fds[n]
  BY <1>12
<1>14. StreamSocketNumbers' = StreamSocketNumbers /\ StreamFiles' = StreamFiles
  BY <1>1, SameStreams
<1>15. /\ Left({"data"})' \subseteq {sk.ctrl_sck, sk.prot_listener} \cup StreamSocketNumbers
       /\ Left({"buffer", "file"})' \subseteq StreamFiles
       /\ Left({"listener"})' \subseteq {sk.listener, sk.prot_listener}
  <2>1. /\ Left({"data"}) \ {job.fd.s} \subseteq {sk.ctrl_sck, sk.prot_listener} \cup StreamSocketNumbers
        /\ Left({"buffer", "file"}) \ {job.fd.s} \subseteq StreamFiles
        /\ Left({"listener"}) \ {job.fd.s} \subseteq {sk.listener, sk.prot_listener}
    BY <1>6, <1>9, <1>11 DEF AccountsOK
  <2> QED BY <1>12, <2>1
<1>16. Files'
  BY <1>1, <1>10, <1>13 DEF Files
<1>17. Fields(FALSE)' /\ Fields(TRUE)'
  <2>1. \A n \in StreamSocketNumbers \cup {sk.ctrl_sck} : Sound(n, {"data"}) => Sound(n, {"data"})'
    BY <1>8, <1>10, <1>13 DEF Sound
  <2>2. \A n : Sound(n, {"listener"}) => Sound(n, {"listener"})'
    BY <1>8, <1>10, <1>13 DEF Sound
  <2>3. \A n \in StreamSocketNumbers : Sound(n, {"data"})
    BY <1>9, StreamsSound DEF Fields
  <2>4. (\A i \in DOMAIN sk.streams : Sound(sk.streams[i].s, {"data"}))'
    BY <1>14, <2>1, <2>3, StreamsSound
  <2>5. sk.ctrl_sck = NoSocket \/ Sound(sk.ctrl_sck, {"data"})'
    BY <1>1, <1>9, <2>1 DEF Fields
  <2>6. sk.listener = NoSocket \/ Sound(sk.listener, {"listener"})'
    BY <1>1, <1>9, <2>2 DEF Fields
  <2>7. sk.prot_listener \in {NoSocket, sk.listener}
    BY <1>8, <1>9 DEF Fields
  <2> QED BY <1>1, <1>8, <2>4, <2>5, <2>6, <2>7 DEF Fields
<1>18. /\ past' \in Histories
       /\ ~past'.wrongClose /\ ~past'.freedTwice /\ past'.failed \in {"", "stranger"}
       /\ place' = "await" => past'.failed = ""
       /\ place' \in {"await", "failed"}
  BY <1>1, <1>2, <1>8 DEF SocketTypeOK, Histories
<1>19. SocketTypeOK'
  BY <1>1, <1>12, <1>18, NoJobTyped DEF SocketTypeOK, Places
<1>20. RolesOK'
  BY <1>1, <1>8, <1>18 DEF RolesOK, JobPlaces
<1>21. RestOK'
  <2>1. NoSocket \in Descriptors
      /\ Left({"data"})' \subseteq {sk'.ctrl_sck, sk'.prot_listener, NoSocket} \cup StreamSocketNumbers'
    BY <1>1, <1>14, <1>15 DEF Descriptors
  <2>2. sk'.proto = "tcp"
    BY <1>1, <1>8
  <2> QED BY <1>1, <1>14, <1>15, <1>17, <2>1, <2>2 DEF RestOK
<1>22. JobOK' /\ EndOK'
  BY <1>18 DEF JobOK, JobPlaces, EndOK
<1> QED BY <1>16, <1>18, <1>19, <1>20, <1>21, <1>22 DEF SocketInv

\* What the server holds when a stream is accepted.
LEMMA AcceptDone ==
  ASSUME SocketInv, place = "accept", job.todo = <<>>
  PROVE  /\ SlotsOK(Goal) /\ Goal.s = "data" /\ Goal.buffer = "buffer" /\ Goal.file \in {"file", "no"}
         /\ Fields(FALSE)
         /\ Left({"data"}) \subseteq {sk.ctrl_sck, sk.prot_listener} \cup StreamSocketNumbers \cup {job.fd.s}
         /\ Left({"buffer", "file"}) \subseteq StreamFiles \cup {job.fd.buffer, job.fd.file}
         /\ Left({"listener"}) \subseteq {sk.listener, sk.prot_listener}
         /\ sk.proto = "udp" => /\ sk.prot_listener # NoSocket
                                /\ sk.prot_listener \notin StreamSocketNumbers \cup {sk.ctrl_sck, job.fd.s}
<1>1. place \in JobPlaces /\ sk.proto \in {"tcp", "udp"}
  BY DEF JobPlaces, SocketInv, SocketTypeOK, Tests
<1>2. /\ SlotsOK(Goal) /\ StatesOK(Goal) /\ ApartOK(Goal) /\ AccountsOK(Goal) /\ Fields(Goal.gone) /\ Goal \in Holdings
      /\ Goal.s = "data" /\ Goal.l = (IF sk.proto = "tcp" THEN "no" ELSE "field")
      /\ Goal.buffer = "buffer" /\ Goal.file \in {"file", "no"} /\ ~Goal.gone
  BY <1>1, GoalFacts
<1>3. Goal.gone = FALSE
  BY <1>2 DEF Holdings
<1>4. Goal.l \notin Opened
  BY <1>2 DEF Opened
<1>5. \A n \in Held(Goal) : \/ n = job.fd.s /\ fds[n] = "data"
                            \/ n \in {job.fd.buffer, job.fd.file} /\ fds[n] \in {"buffer", "file"}
  BY <1>2, <1>4, HeldKinds DEF Opened
<1>6. /\ Left({"data"}) \cap Held(Goal) \subseteq {job.fd.s}
      /\ Left({"buffer", "file"}) \cap Held(Goal) \subseteq {job.fd.buffer, job.fd.file}
      /\ Left({"listener"}) \cap Held(Goal) = {}
  BY <1>5 DEF Left
<1>7. /\ Left({"data"}) \subseteq {sk.ctrl_sck, sk.prot_listener} \cup StreamSocketNumbers \cup Held(Goal)
      /\ Left({"buffer", "file"}) \subseteq StreamFiles \cup Held(Goal)
      /\ Left({"listener"}) \subseteq {sk.listener, sk.prot_listener} \cup Held(Goal)
  BY <1>2 DEF AccountsOK
<1>8. /\ Left({"data"}) \subseteq {sk.ctrl_sck, sk.prot_listener} \cup StreamSocketNumbers \cup {job.fd.s}
      /\ Left({"buffer", "file"}) \subseteq StreamFiles \cup {job.fd.buffer, job.fd.file}
      /\ Left({"listener"}) \subseteq {sk.listener, sk.prot_listener}
  BY <1>6, <1>7
<1>9. sk.proto = "udp" => sk.prot_listener # NoSocket
  BY <1>2 DEF StatesOK
<1>10. sk.proto = "udp" => sk.prot_listener \notin StreamSocketNumbers \cup {sk.ctrl_sck, job.fd.s}
  BY <1>2, <1>9 DEF ApartOK
<1> QED BY <1>2, <1>3, <1>8, <1>9, <1>10

\* A stream is accepted. After the last one the listeners change.
LEMMA StreamAcceptedInv ==
  ASSUME SocketInv, StreamAccepted
  PROVE  SocketInv'
<1>1. SocketTypeOK /\ RolesOK /\ Files /\ ~past.wrongClose /\ ~past.freedTwice /\ place = "accept" /\ job.todo = <<>>
  BY DEF SocketInv, StreamAccepted
<1>2. sk.role = "server" /\ past.failed = "" /\ ~Lax /\ sk.proto \in {"tcp", "udp"} /\ past.wrongClose = FALSE
  BY <1>1 DEF RolesOK, Lax, SocketTypeOK, Histories, Tests
<1>3. NoSocket = 0 /\ 0 \notin Numbers
  BY DEF NoSocket, Numbers
<1>4. /\ SlotsOK(Goal) /\ Goal.s = "data" /\ Goal.buffer = "buffer" /\ Goal.file \in {"file", "no"}
      /\ Fields(FALSE)
      /\ Left({"data"}) \subseteq {sk.ctrl_sck, sk.prot_listener} \cup StreamSocketNumbers \cup {job.fd.s}
      /\ Left({"buffer", "file"}) \subseteq StreamFiles \cup {job.fd.buffer, job.fd.file}
      /\ Left({"listener"}) \subseteq {sk.listener, sk.prot_listener}
      /\ sk.proto = "udp" => /\ sk.prot_listener # NoSocket
                             /\ sk.prot_listener \notin StreamSocketNumbers \cup {sk.ctrl_sck, job.fd.s}
  BY <1>1, AcceptDone
<1>5. /\ sk.ctrl_sck = NoSocket \/ (sk.ctrl_sck \in Numbers /\ fds[sk.ctrl_sck] = "data")
      /\ \A n \in StreamSocketNumbers : n \in Numbers /\ fds[n] = "data"
      /\ sk.listener = NoSocket \/ (sk.listener \in Numbers /\ fds[sk.listener] = "listener")
      /\ sk.proto = "udp" => sk.prot_listener \in Numbers /\ fds[sk.prot_listener] = "data"
      /\ sk.proto = "tcp" => sk.prot_listener \in {NoSocket, sk.listener}
      /\ job.fd.s \in Numbers /\ fds[job.fd.s] = "data"
  <2>1. \A n \in StreamSocketNumbers : Sound(n, {"data"})
    BY <1>4, StreamsSound DEF Fields
  <2>2. job.fd.s \in Numbers /\ fds[job.fd.s] = "data"
    BY <1>4 DEF SlotsOK, Slots, Opened
  <2> QED BY <1>2, <1>4, <2>1, <2>2 DEF Fields, Sound
<1> DEFINE anew == sk.proto = "tcp" /\ Recreates(sk.opts)
           field == IF sk.proto = "udp" THEN "prot_listener" ELSE "listener"
\* what the three outcomes have in common
<1>6. ASSUME sk'.streams = Listed, sk'.role = sk.role, sk'.ctrl_sck = sk.ctrl_sck, sk'.proto = sk.proto,
             sk' \in [role : {"none", "client", "server"}, proto : {"tcp", "udp"}, n : Nat,
                      opts : SUBSET SocketOptions, ctrl_sck : Descriptors, listener : Descriptors,
                      prot_listener : Descriptors, streams : {sk'.streams}],
             NEW S, S \subseteq {sk.listener, sk.prot_listener},
             fds' \in [Numbers -> Kinds], \A n \in Numbers : n \notin S => fds'[n] = fds[n],
             \A K : "closed" \notin K => Left(K)' = Left(K) \ S,
             past'.failed = "", ~past'.wrongClose, ~past'.freedTwice,
             past' \in Histories,
             job' \in Jobs,
             place' \in {"await", "test", "relisten"}, place' # "relisten" => job' = NoJob,
             \A n \in S : n \notin StreamSocketNumbers \cup {job.fd.s} /\ (n # NoSocket => n # sk.ctrl_sck)
      PROVE  /\ SocketTypeOK' /\ RolesOK' /\ Files' /\ EndOK'
             /\ (\A i \in DOMAIN sk.streams : Sound(sk.streams[i].s, {"data"}))'
             /\ sk'.ctrl_sck = NoSocket \/ Sound(sk.ctrl_sck, {"data"})'
             /\ Left({"data"})' \subseteq {sk'.ctrl_sck} \cup ({sk.prot_listener} \ S) \cup StreamSocketNumbers'
             /\ Left({"buffer", "file"})' \subseteq StreamFiles'
             /\ Left({"listener"})' \subseteq {sk.listener, sk.prot_listener} \ S
             /\ StreamSocketNumbers' = StreamSocketNumbers \cup {job.fd.s}
  <2>0. /\ \A n \in Numbers : n \notin S => fds'[n] = fds[n]
        /\ \A n \in S : n \notin StreamSocketNumbers \cup {job.fd.s} /\ (n # NoSocket => n # sk.ctrl_sck)
        /\ \A n \in S : n = sk.listener \/ n = sk.prot_listener
    BY <1>6
  <2>1. \A n \in Numbers : fds[n] \in {"buffer", "file"} => fds'[n] = fds[n]
    <3>1. \A n \in S : n \in Numbers => fds[n] \in {"data", "listener"}
      BY <1>2, <1>3, <1>5, <2>0
    <3> QED BY <2>0, <3>1
  <2>2. /\ Listed \in Seq(Entries) /\ Files'
        /\ StreamSocketNumbers' = StreamSocketNumbers \cup {job.fd.s}
        /\ StreamFiles' = StreamFiles \cup {job.fd.buffer, job.fd.file}
    BY <1>1, <1>4, <1>6, <2>1, Listing
  <2>3. sk' \in Tests
    BY <1>6, <2>2 DEF Tests
  <2>4. SocketTypeOK'
    BY <1>6, <2>3 DEF SocketTypeOK, Places, JobPlaces
  <2>5. RolesOK'
    BY <1>2, <1>6 DEF RolesOK, JobPlaces
  <2>6. EndOK'
    BY <1>6 DEF EndOK
  <2>7. \A n \in StreamSocketNumbers' : Sound(n, {"data"})'
    <3>1. \A n \in StreamSocketNumbers' : n \in Numbers /\ fds'[n] = "data"
      BY <1>5, <2>0, <2>2
    <3> QED BY <3>1 DEF Sound
  <2>8. (\A i \in DOMAIN sk.streams : Sound(sk.streams[i].s, {"data"}))'
    BY <2>7, StreamsSound
  <2>9. sk'.ctrl_sck = NoSocket \/ Sound(sk.ctrl_sck, {"data"})'
    <3>1. sk.ctrl_sck = NoSocket \/ (sk.ctrl_sck \in Numbers /\ fds'[sk.ctrl_sck] = "data")
      BY <1>3, <1>5, <2>0
    <3>2. sk'.ctrl_sck = sk.ctrl_sck
      BY <1>6
    <3> QED BY <3>1, <3>2 DEF Sound
  <2>10. /\ Left({"data"})' = Left({"data"}) \ S /\ Left({"buffer", "file"})' = Left({"buffer", "file"}) \ S
         /\ Left({"listener"})' = Left({"listener"}) \ S
    BY <1>6
  <2>11. /\ Left({"data"})' \subseteq {sk'.ctrl_sck} \cup ({sk.prot_listener} \ S) \cup StreamSocketNumbers'
         /\ Left({"buffer", "file"})' \subseteq StreamFiles'
         /\ Left({"listener"})' \subseteq {sk.listener, sk.prot_listener} \ S
    BY <1>4, <1>6, <2>2, <2>10
  <2> QED BY <2>2, <2>4, <2>5, <2>6, <2>8, <2>9, <2>11
<1>7. 0 \notin Left({"data"})' /\ 0 \notin Left({"listener"})' /\ 0 \notin Left({"data"}) /\ 0 \notin Left({"listener"})
  BY <1>3 DEF Left
<1>8. NoSocket \in Descriptors /\ sk.n \in Nat
  BY <1>1 DEF Descriptors, SocketTypeOK, Tests
<1>9. CASE Len(Listed) < sk.n
  <2>1. sk' = [sk EXCEPT !.streams = Listed] /\ place' = "await" /\ job' = NoJob /\ UNCHANGED <<fds, past>>
    BY <1>9 DEF StreamAccepted
  <2>2. sk'.streams = Listed /\ sk'.role = sk.role /\ sk'.ctrl_sck = sk.ctrl_sck /\ sk'.proto = sk.proto
        /\ sk'.listener = sk.listener /\ sk'.prot_listener = sk.prot_listener
        /\ sk' \in [role : {"none", "client", "server"}, proto : {"tcp", "udp"}, n : Nat,
                      opts : SUBSET SocketOptions, ctrl_sck : Descriptors, listener : Descriptors,
                      prot_listener : Descriptors, streams : {sk'.streams}]
    BY <1>1, <2>1 DEF SocketTypeOK, Tests
  <2>3. /\ fds' \in [Numbers -> Kinds] /\ \A n \in Numbers : n \notin {} => fds'[n] = fds[n]
        /\ \A K : "closed" \notin K => Left(K)' = Left(K) \ {}
    BY <1>1, <2>1 DEF SocketTypeOK, Left
  <2>4. past' \in Histories
        /\ past'.failed = "" /\ ~past'.wrongClose /\ ~past'.freedTwice
    BY <1>1, <1>2, <2>1 DEF SocketTypeOK
  <2>5. /\ SocketTypeOK' /\ RolesOK' /\ Files' /\ EndOK'
        /\ (\A i \in DOMAIN sk.streams : Sound(sk.streams[i].s, {"data"}))'
        /\ sk'.ctrl_sck = NoSocket \/ Sound(sk.ctrl_sck, {"data"})'
        /\ Left({"data"})' \subseteq {sk'.ctrl_sck, sk.prot_listener} \cup StreamSocketNumbers'
        /\ Left({"buffer", "file"})' \subseteq StreamFiles'
        /\ Left({"listener"})' \subseteq {sk.listener, sk.prot_listener}
        /\ StreamSocketNumbers' = StreamSocketNumbers \cup {job.fd.s}
    <3> DEFINE S == {}
    <3>1. S \subseteq {sk.listener, sk.prot_listener}
          /\ \A n \in S : n \notin StreamSocketNumbers \cup {job.fd.s} /\ (n # NoSocket => n # sk.ctrl_sck)
      OBVIOUS
    <3>2. \A n \in Numbers : n \notin S => fds'[n] = fds[n]
      BY <2>3
    <3>3. \A K : "closed" \notin K => Left(K)' = Left(K) \ S
      BY <2>3
    <3> HIDE DEF S
    <3>4. /\ SocketTypeOK' /\ RolesOK' /\ Files' /\ EndOK'
          /\ (\A i \in DOMAIN sk.streams : Sound(sk.streams[i].s, {"data"}))'
          /\ sk'.ctrl_sck = NoSocket \/ Sound(sk.ctrl_sck, {"data"})'
          /\ Left({"data"})' \subseteq {sk'.ctrl_sck} \cup ({sk.prot_listener} \ S) \cup StreamSocketNumbers'
          /\ Left({"buffer", "file"})' \subseteq StreamFiles'
          /\ Left({"listener"})' \subseteq {sk.listener, sk.prot_listener} \ S
          /\ StreamSocketNumbers' = StreamSocketNumbers \cup {job.fd.s}
      BY <1>6, <2>1, <2>2, <2>3, <2>4, <3>1, <3>2, <3>3, NoJobTyped
    <3> QED BY <3>4 DEF S
  <2>6. Fields(FALSE)'
    <3>1. sk'.listener = NoSocket \/ Sound(sk.listener, {"listener"})'
      BY <1>5, <2>1, <2>2 DEF Sound
    <3>2. sk'.proto = "udp" => sk'.prot_listener = NoSocket \/ Sound(sk.prot_listener, {"data"})'
      BY <1>5, <2>1, <2>2 DEF Sound
    <3>3. sk'.proto = "tcp" => sk'.prot_listener \in {NoSocket, sk'.listener}
      BY <1>5, <2>2
    <3> QED BY <2>5, <3>1, <3>2, <3>3 DEF Fields
  <2>7. RestOK'
    <3>1. sk'.proto = "udp" => /\ sk'.prot_listener # NoSocket
                               /\ sk'.prot_listener \notin StreamSocketNumbers' \cup {sk'.ctrl_sck}
      BY <1>4, <2>2, <2>5
    <3>2. Left({"data"})' \subseteq {sk'.ctrl_sck, sk'.prot_listener, NoSocket} \cup StreamSocketNumbers'
          /\ Left({"listener"})' \subseteq {sk'.listener, sk'.prot_listener}
      BY <2>2, <2>5
    <3> QED BY <1>8, <2>1, <2>5, <2>6, <3>1, <3>2 DEF RestOK
  <2>8. JobOK'
    BY <2>1 DEF JobOK, JobPlaces
  <2> QED BY <2>4, <2>5, <2>7, <2>8 DEF SocketInv
<1>10. CASE ~(Len(Listed) < sk.n) /\ sk.proto = "tcp" /\ ~Recreates(sk.opts)
  <2>1. sk' = [sk EXCEPT !.streams = Listed, !.prot_listener = NoSocket] /\ place' = "test" /\ job' = NoJob
        /\ UNCHANGED <<fds, past>>
    BY <1>10 DEF StreamAccepted
  <2>2. sk'.streams = Listed /\ sk'.role = sk.role /\ sk'.ctrl_sck = sk.ctrl_sck /\ sk'.proto = sk.proto
        /\ sk'.listener = sk.listener /\ sk'.prot_listener = NoSocket
        /\ sk' \in [role : {"none", "client", "server"}, proto : {"tcp", "udp"}, n : Nat,
                      opts : SUBSET SocketOptions, ctrl_sck : Descriptors, listener : Descriptors,
                      prot_listener : Descriptors, streams : {sk'.streams}]
    BY <1>1, <1>8, <2>1 DEF SocketTypeOK, Tests
  <2>3. /\ fds' \in [Numbers -> Kinds] /\ \A n \in Numbers : n \notin {} => fds'[n] = fds[n]
        /\ \A K : "closed" \notin K => Left(K)' = Left(K) \ {}
    BY <1>1, <2>1 DEF SocketTypeOK, Left
  <2>4. past' \in Histories
        /\ past'.failed = "" /\ ~past'.wrongClose /\ ~past'.freedTwice
    BY <1>1, <1>2, <2>1 DEF SocketTypeOK
  <2>5. /\ SocketTypeOK' /\ RolesOK' /\ Files' /\ EndOK'
        /\ (\A i \in DOMAIN sk.streams : Sound(sk.streams[i].s, {"data"}))'
        /\ sk'.ctrl_sck = NoSocket \/ Sound(sk.ctrl_sck, {"data"})'
        /\ Left({"data"})' \subseteq {sk'.ctrl_sck, sk.prot_listener} \cup StreamSocketNumbers'
        /\ Left({"buffer", "file"})' \subseteq StreamFiles'
        /\ Left({"listener"})' \subseteq {sk.listener, sk.prot_listener}
    <3> DEFINE S == {}
    <3>1. S \subseteq {sk.listener, sk.prot_listener}
          /\ \A n \in S : n \notin StreamSocketNumbers \cup {job.fd.s} /\ (n # NoSocket => n # sk.ctrl_sck)
      OBVIOUS
    <3>2. \A n \in Numbers : n \notin S => fds'[n] = fds[n]
      BY <2>3
    <3>3. \A K : "closed" \notin K => Left(K)' = Left(K) \ S
      BY <2>3
    <3> HIDE DEF S
    <3>4. /\ SocketTypeOK' /\ RolesOK' /\ Files' /\ EndOK'
          /\ (\A i \in DOMAIN sk.streams : Sound(sk.streams[i].s, {"data"}))'
          /\ sk'.ctrl_sck = NoSocket \/ Sound(sk.ctrl_sck, {"data"})'
          /\ Left({"data"})' \subseteq {sk'.ctrl_sck} \cup ({sk.prot_listener} \ S) \cup StreamSocketNumbers'
          /\ Left({"buffer", "file"})' \subseteq StreamFiles'
          /\ Left({"listener"})' \subseteq {sk.listener, sk.prot_listener} \ S
          /\ StreamSocketNumbers' = StreamSocketNumbers \cup {job.fd.s}
      BY <1>6, <2>1, <2>2, <2>3, <2>4, <3>1, <3>2, <3>3, NoJobTyped
    <3> QED BY <3>4 DEF S
  <2>6. Fields(TRUE)'
    <3>1. sk'.listener = NoSocket \/ Sound(sk.listener, {"listener"})'
      BY <1>5, <2>1, <2>2 DEF Sound
    <3> QED BY <1>10, <2>2, <2>5, <3>1 DEF Fields
  <2>7. RestOK'
    <3>1. \A n \in Left({"data"})' : n # sk.prot_listener
      BY <1>3, <1>5, <1>10, <2>1 DEF Left
    <3>2. Left({"data"})' \subseteq {sk'.ctrl_sck, sk'.prot_listener, NoSocket} \cup StreamSocketNumbers'
      BY <2>5, <3>1
    <3>3. Left({"listener"})' \subseteq {sk'.listener, sk'.prot_listener}
      BY <1>5, <1>10, <2>2, <2>5
    <3> QED BY <1>8, <2>1, <2>5, <2>6, <3>2, <3>3 DEF RestOK
  <2>8. JobOK'
    BY <2>1 DEF JobOK, JobPlaces
  <2> QED BY <2>4, <2>5, <2>7, <2>8 DEF SocketInv
<1>11. CASE ~(Len(Listed) < sk.n) /\ sk.proto = "udp"
  <2>1. /\ fds' = CloseAll({sk.prot_listener})
        /\ past' = [past EXCEPT !.wrongClose = @ \/ HitsOther({sk.prot_listener}, {"listener", "data"})]
        /\ sk' = [sk EXCEPT !.streams = Listed, !.prot_listener = NoSocket] /\ place' = "test" /\ job' = NoJob
    BY <1>11 DEF StreamAccepted, Field
  <2>2. sk'.streams = Listed /\ sk'.role = sk.role /\ sk'.ctrl_sck = sk.ctrl_sck /\ sk'.proto = sk.proto
        /\ sk'.listener = sk.listener /\ sk'.prot_listener = NoSocket
        /\ sk' \in [role : {"none", "client", "server"}, proto : {"tcp", "udp"}, n : Nat,
                      opts : SUBSET SocketOptions, ctrl_sck : Descriptors, listener : Descriptors,
                      prot_listener : Descriptors, streams : {sk'.streams}]
    BY <1>1, <1>8, <2>1 DEF SocketTypeOK, Tests
  <2>3. /\ fds' \in [Numbers -> Kinds] /\ \A n \in Numbers : n \notin {sk.prot_listener} => fds'[n] = fds[n]
        /\ \A K : "closed" \notin K => Left(K)' = Left(K) \ {sk.prot_listener}
    BY <1>1, <2>1, Closing
  <2>4. past' \in Histories
        /\ past'.failed = "" /\ ~past'.wrongClose /\ ~past'.freedTwice
    <3>1. ~HitsOther({sk.prot_listener}, {"listener", "data"})
      BY <1>5, <1>11 DEF HitsOther
    <3> QED BY <1>1, <1>2, <2>1, <3>1 DEF SocketTypeOK, Histories
  <2>5. /\ SocketTypeOK' /\ RolesOK' /\ Files' /\ EndOK'
        /\ (\A i \in DOMAIN sk.streams : Sound(sk.streams[i].s, {"data"}))'
        /\ sk'.ctrl_sck = NoSocket \/ Sound(sk.ctrl_sck, {"data"})'
        /\ Left({"data"})' \subseteq {sk'.ctrl_sck} \cup ({sk.prot_listener} \ {sk.prot_listener}) \cup StreamSocketNumbers'
        /\ Left({"buffer", "file"})' \subseteq StreamFiles'
        /\ Left({"listener"})' \subseteq {sk.listener, sk.prot_listener} \ {sk.prot_listener}
    <3> DEFINE S == {sk.prot_listener}
    <3>1. S \subseteq {sk.listener, sk.prot_listener}
          /\ \A n \in S : n \notin StreamSocketNumbers \cup {job.fd.s} /\ (n # NoSocket => n # sk.ctrl_sck)
      BY <1>4, <1>11
    <3>2. \A n \in Numbers : n \notin S => fds'[n] = fds[n]
      BY <2>3
    <3>3. \A K : "closed" \notin K => Left(K)' = Left(K) \ S
      BY <2>3
    <3> HIDE DEF S
    <3>4. /\ SocketTypeOK' /\ RolesOK' /\ Files' /\ EndOK'
          /\ (\A i \in DOMAIN sk.streams : Sound(sk.streams[i].s, {"data"}))'
          /\ sk'.ctrl_sck = NoSocket \/ Sound(sk.ctrl_sck, {"data"})'
          /\ Left({"data"})' \subseteq {sk'.ctrl_sck} \cup ({sk.prot_listener} \ S) \cup StreamSocketNumbers'
          /\ Left({"buffer", "file"})' \subseteq StreamFiles'
          /\ Left({"listener"})' \subseteq {sk.listener, sk.prot_listener} \ S
      BY <1>6, <2>1, <2>2, <2>3, <2>4, <3>1, <3>2, <3>3, NoJobTyped
    <3> QED BY <3>4 DEF S
  <2>6. Fields(TRUE)'
    <3>1. sk'.listener = NoSocket \/ Sound(sk.listener, {"listener"})'
      <4>1. sk.listener # NoSocket => sk.listener # sk.prot_listener
        BY <1>5, <1>11
      <4> QED BY <1>5, <2>2, <2>3, <4>1 DEF Sound
    <3> QED BY <1>11, <2>2, <2>5, <3>1 DEF Fields
  <2>7. RestOK'
    <3>1. Left({"data"})' \subseteq {sk'.ctrl_sck, sk'.prot_listener, NoSocket} \cup StreamSocketNumbers'
      BY <2>5
    <3>2. Left({"listener"})' \subseteq {sk'.listener, sk'.prot_listener}
      BY <2>2, <2>5
    <3> QED BY <1>8, <2>1, <2>5, <2>6, <3>1, <3>2 DEF RestOK
  <2>8. JobOK'
    BY <2>1 DEF JobOK, JobPlaces
  <2> QED BY <2>4, <2>5, <2>7, <2>8 DEF SocketInv
<1>12. CASE ~(Len(Listed) < sk.n) /\ sk.proto = "tcp" /\ Recreates(sk.opts)
  <2> DEFINE calls == NetAnnounce("s", "listener") \o Keep("s", "listener")
  <2>1. /\ fds' = CloseAll({sk.listener})
        /\ past' = [past EXCEPT !.wrongClose = @ \/ HitsOther({sk.listener}, {"listener", "data"})]
        /\ sk' = [sk EXCEPT !.streams = Listed, !.listener = NoSocket] /\ place' = "relisten" /\ Runs(calls)
    BY <1>12 DEF StreamAccepted, Field
  <2>2. sk'.streams = Listed /\ sk'.role = sk.role /\ sk'.ctrl_sck = sk.ctrl_sck /\ sk'.proto = sk.proto
        /\ sk'.listener = NoSocket /\ sk'.prot_listener = sk.prot_listener /\ sk'.opts = sk.opts
        /\ sk' \in [role : {"none", "client", "server"}, proto : {"tcp", "udp"}, n : Nat,
                      opts : SUBSET SocketOptions, ctrl_sck : Descriptors, listener : Descriptors,
                      prot_listener : Descriptors, streams : {sk'.streams}]
    BY <1>1, <1>8, <2>1 DEF SocketTypeOK, Tests
  <2>3. /\ fds' \in [Numbers -> Kinds] /\ \A n \in Numbers : n \notin {sk.listener} => fds'[n] = fds[n]
        /\ \A n \in Numbers : n \in {sk.listener} => fds'[n] = "closed"
        /\ \A K : "closed" \notin K => Left(K)' = Left(K) \ {sk.listener}
    BY <1>1, <2>1, Closing
  <2>4. past' \in Histories
        /\ past'.failed = "" /\ ~past'.wrongClose /\ ~past'.freedTwice
    <3>1. ~HitsOther({sk.listener}, {"listener", "data"})
      BY <1>3, <1>5, <1>12 DEF HitsOther
    <3> QED BY <1>1, <1>2, <2>1, <3>1 DEF SocketTypeOK, Histories
  <2>5. Flow(HereAt(sk.opts, "relisten", sk.proto = "udp"), calls, St({}, "no", "no", "no", "no", TRUE),
             St({}, "field", "no", "no", "no", TRUE))
    BY ListenFlow
  <2> HIDE DEF calls
  <2>6. Flow(Mode', calls, Nothing(TRUE), Goal')
    <3>1. Mode' = HereAt(sk.opts, "relisten", sk.proto = "udp")
      BY <2>1, <2>2 DEF Mode, Here
    <3>2. Goal' = St({}, "field", "no", "no", "no", TRUE) /\ St({}, "no", "no", "no", "no", TRUE) = Nothing(TRUE)
      BY <2>1 DEF Goal, Nothing, St
    <3> QED BY <2>5, <3>1, <3>2
  <2>7. calls \in Seq(Calls)
    BY <2>6, FlowSeq
  <2>8. job' \in Jobs
    BY <2>1, <2>7, JobTyped
  <2>9. /\ SocketTypeOK' /\ RolesOK' /\ Files' /\ EndOK'
        /\ (\A i \in DOMAIN sk.streams : Sound(sk.streams[i].s, {"data"}))'
        /\ sk'.ctrl_sck = NoSocket \/ Sound(sk.ctrl_sck, {"data"})'
        /\ Left({"data"})' \subseteq {sk'.ctrl_sck} \cup ({sk.prot_listener} \ {sk.listener}) \cup StreamSocketNumbers'
        /\ Left({"buffer", "file"})' \subseteq StreamFiles'
        /\ Left({"listener"})' \subseteq {sk.listener, sk.prot_listener} \ {sk.listener}
    <3> DEFINE S == {sk.listener}
    <3>1. S \subseteq {sk.listener, sk.prot_listener}
          /\ \A n \in S : n \notin StreamSocketNumbers \cup {job.fd.s} /\ (n # NoSocket => n # sk.ctrl_sck)
      BY <1>3, <1>5
    <3>2. \A n \in Numbers : n \notin S => fds'[n] = fds[n]
      BY <2>3
    <3>3. \A K : "closed" \notin K => Left(K)' = Left(K) \ S
      BY <2>3
    <3> HIDE DEF S
    <3>4. /\ SocketTypeOK' /\ RolesOK' /\ Files' /\ EndOK'
          /\ (\A i \in DOMAIN sk.streams : Sound(sk.streams[i].s, {"data"}))'
          /\ sk'.ctrl_sck = NoSocket \/ Sound(sk.ctrl_sck, {"data"})'
          /\ Left({"data"})' \subseteq {sk'.ctrl_sck} \cup ({sk.prot_listener} \ S) \cup StreamSocketNumbers'
          /\ Left({"buffer", "file"})' \subseteq StreamFiles'
          /\ Left({"listener"})' \subseteq {sk.listener, sk.prot_listener} \ S
      <4>1. place' \in {"await", "test", "relisten"} /\ (place' # "relisten" => job' = NoJob)
        BY <2>1
      <4> QED BY <1>6, <2>2, <2>3, <2>4, <2>8, <3>1, <3>2, <3>3, <4>1
    <3> QED BY <3>4 DEF S
  <2>10. Fields(TRUE)'
    <3>1. sk'.prot_listener = NoSocket \/ Sound(sk.prot_listener, {"listener", "closed"})'
      BY <1>5, <1>12, <2>2, <2>3 DEF Sound
    <3> QED BY <1>12, <2>2, <2>9, <3>1 DEF Fields
  <2>11. UnsetOK(Nothing(TRUE))'
    BY <2>1, <2>2 DEF UnsetOK
  <2>12. JobOK' /\ job'.todo = calls
    <3>1. Left({"data"})' \subseteq {sk'.ctrl_sck, sk'.prot_listener} \cup StreamSocketNumbers'
          /\ Left({"buffer", "file"})' \subseteq StreamFiles'
      BY <2>2, <2>9
    <3>2. Left({"listener"})' = {}
      BY <1>3, <1>5, <1>7, <1>12, <2>9
    <3>3. place' \in JobPlaces /\ place' = "relisten" /\ sk'.proto = "tcp"
      BY <1>12, <2>1, <2>2 DEF JobPlaces
    <3> QED BY <2>1, <2>6, <2>10, <2>11, <3>1, <3>2, <3>3, JobStarts
  <2>13. RestOK'
    BY <2>1 DEF RestOK
  <2> QED BY <2>4, <2>9, <2>12, <2>13 DEF SocketInv
<1> QED BY <1>2, <1>9, <1>10, <1>11, <1>12

\* The listener of the server listens again.
LEMMA RelistenedInv ==
  ASSUME SocketInv, Relistened
  PROVE  SocketInv'
<1>1. SocketTypeOK /\ RolesOK /\ Files /\ ~past.wrongClose /\ ~past.freedTwice
      /\ place = "relisten" /\ job.todo = <<>> /\ place' = "test" /\ job' = NoJob /\ UNCHANGED <<fds, past>>
      /\ sk' = [sk EXCEPT !.prot_listener = NoSocket]
  BY DEF SocketInv, Relistened
<1>2. place \in JobPlaces /\ sk.role = "server" /\ past.failed = ""
  BY <1>1 DEF RolesOK, JobPlaces
<1>3. Fields(TRUE) /\ Goal.buffer = "no" /\ Goal.gone /\ sk.proto = "tcp"
  <2>1. Goal.gone /\ Fields(Goal.gone) /\ StatesOK(Goal) /\ Goal \in Holdings /\ Goal.buffer = "no"
    BY <1>1, <1>2, GoalFacts
  <2>2. Goal.gone = TRUE
    BY <2>1 DEF Holdings
  <2> QED BY <2>1, <2>2 DEF StatesOK
<1>4. /\ Left({"data"}) \subseteq {sk.ctrl_sck, sk.prot_listener} \cup StreamSocketNumbers
      /\ Left({"buffer", "file"}) \subseteq StreamFiles
      /\ Left({"listener"}) \subseteq {sk.listener}
  BY <1>1, <1>2, <1>3, DoneAccounts
<1>5. ~Lax /\ ~Lax'
  BY <1>1 DEF Lax
<1>6. sk.prot_listener \notin Left({"data"})
  <2>1. NoSocket \notin Left({"data"})
    BY DEF NoSocket, Left, Numbers
  <2>2. sk.listener \notin Left({"data"})
    BY <1>3, <1>5, <2>1 DEF Fields, Sound, Left
  <2> QED BY <1>3, <1>5, <2>1, <2>2 DEF Fields, Sound, Left
<1>7. NoSocket \in Descriptors
  BY DEF Descriptors
<1>8. /\ sk' \in Tests
      /\ sk'.prot_listener = NoSocket /\ sk'.listener = sk.listener /\ sk'.ctrl_sck = sk.ctrl_sck
      /\ sk'.streams = sk.streams /\ sk'.role = sk.role /\ sk'.proto = "tcp"
  BY <1>1, <1>3, <1>7 DEF SocketTypeOK, Tests
<1>9. Fields(TRUE)'
  BY <1>1, <1>3, <1>5, <1>8 DEF Fields, Sound
<1>10. SocketTypeOK'
  BY <1>1, <1>8, NoJobTyped DEF SocketTypeOK, Places
<1>11. RolesOK' /\ Files'
  BY <1>1, <1>2, <1>8 DEF RolesOK, JobPlaces, Files
<1>12. RestOK'
  <2>1. /\ Left({"data"})' \subseteq {sk'.ctrl_sck, sk'.prot_listener, NoSocket} \cup StreamSocketNumbers'
        /\ Left({"buffer", "file"})' \subseteq StreamFiles'
        /\ Left({"listener"})' \subseteq {sk'.listener, sk'.prot_listener}
    BY <1>1, <1>4, <1>6, <1>8 DEF Left, StreamSocketNumbers, StreamFiles
  <2> QED BY <1>1, <1>7, <1>9, <2>1 DEF RestOK
<1>13. JobOK' /\ EndOK'
  BY <1>1 DEF JobOK, JobPlaces, EndOK
<1> QED BY <1>1, <1>10, <1>11, <1>12, <1>13 DEF SocketInv

\* After an error or TEST_END a field may keep the number of what was closed.
LEMMA LaxSound ==
  ASSUME NEW S, Lax', \A n \in Numbers : fds'[n] = fds[n] \/ fds'[n] = "closed"
  PROVE  \A n, K : Sound(n, K) => Sound(n, K)'
<1> QED BY DEF Sound

\* TEST_END, or CLIENT_TERMINATE: the data sockets are closed.
LEMMA ServerTestEndInv ==
  ASSUME SocketInv, ServerTestEnd
  PROVE  SocketInv'
<1> DEFINE S == StreamSocketNumbers
<1>1. SocketTypeOK /\ RolesOK /\ Files /\ RestOK /\ ~past.wrongClose /\ ~past.freedTwice
      /\ sk.role = "server" /\ place = "test" /\ place' = "results" /\ UNCHANGED <<sk, job>>
      /\ fds' = CloseAll(S) /\ past' = [past EXCEPT !.wrongClose = @ \/ HitsOther(S, {"data"})]
  BY DEF SocketInv, ServerTestEnd
<1>2. past.failed = "" /\ job = NoJob
  BY <1>1 DEF RolesOK, JobPlaces
<1>3. Fields(TRUE) /\ ~Lax /\ Lax'
  BY <1>1 DEF RestOK, Lax
<1>4. NoSocket = 0 /\ 0 \notin Numbers
  BY DEF NoSocket, Numbers
<1>5. \A n \in S : n \in Numbers /\ fds[n] = "data"
  <2>1. \A n \in StreamSocketNumbers : Sound(n, {"data"})
    BY <1>3, StreamsSound DEF Fields
  <2> QED BY <1>3, <2>1 DEF Sound
<1> HIDE DEF S
<1>6. ~HitsOther(S, {"data"})
  BY <1>5 DEF HitsOther
<1>7. /\ past'.failed = "" /\ ~past'.wrongClose /\ ~past'.freedTwice
      /\ past' \in Histories
  BY <1>1, <1>2, <1>6 DEF SocketTypeOK, Histories
<1>8. /\ fds' \in [Numbers -> Kinds]
      /\ \A n \in Numbers : n \notin S => fds'[n] = fds[n]
      /\ \A n \in Numbers : n \in S => fds'[n] = "closed"
      /\ \A K : "closed" \notin K => Left(K)' = Left(K) \ S
  BY <1>1, Closing
<1>9. SocketTypeOK'
  BY <1>1, <1>7, <1>8 DEF SocketTypeOK, Places
<1>10. RolesOK'
  BY <1>1, <1>2, <1>7 DEF RolesOK, JobPlaces
<1>11. Files'
  BY <1>1, <1>4, <1>5, <1>8 DEF Files
<1>12. StreamSocketNumbers' = StreamSocketNumbers /\ StreamFiles' = StreamFiles
  BY <1>1, SameStreams
<1>13. Fields(TRUE)'
  <2>1. \A n, K : Sound(n, K) => Sound(n, K)'
    BY <1>3, <1>8, LaxSound
  <2>2. (\A i \in DOMAIN sk.streams : Sound(sk.streams[i].s, {"data"}))'
    BY <1>1, <1>3, <2>1 DEF Fields
  <2> QED BY <1>1, <1>3, <2>1, <2>2 DEF Fields
<1>14. RestOK'
  <2>1. PICK x \in Descriptors :
            /\ x # NoSocket => place = "failed" /\ Spoilt
            /\ Left({"data"}) \subseteq {sk.ctrl_sck, sk.prot_listener, x} \cup StreamSocketNumbers
    BY <1>1 DEF RestOK
  <2>2. x = NoSocket
    BY <1>1, <2>1
  <2>3. /\ Left({"listener"}) \subseteq {sk.listener, sk.prot_listener}
        /\ Left({"buffer", "file"}) \subseteq StreamFiles
    BY <1>1, <1>2 DEF RestOK
  <2>4. /\ Left({"data"})' \subseteq {sk'.ctrl_sck, sk'.prot_listener, x} \cup StreamSocketNumbers'
        /\ Left({"buffer", "file"})' \subseteq StreamFiles'
        /\ Left({"listener"})' \subseteq {sk'.listener, sk'.prot_listener}
    BY <1>1, <1>8, <1>12, <2>1, <2>3
  <2> QED BY <1>1, <1>13, <2>2, <2>4 DEF RestOK
<1>15. JobOK' /\ EndOK'
  BY <1>1 DEF JobOK, JobPlaces, EndOK
<1> QED BY <1>7, <1>9, <1>10, <1>11, <1>14, <1>15 DEF SocketInv

\* server_timer_proc closes and frees the streams and closes the control socket.
LEMMA ServerTimerFiresInv ==
  ASSUME SocketInv, ServerTimerFires
  PROVE  SocketInv'
<1> DEFINE S == StreamSocketNumbers \cup StreamFiles \cup {sk.ctrl_sck}
<1>1. SocketTypeOK /\ RolesOK /\ Files /\ RestOK /\ ~past.wrongClose /\ ~past.freedTwice
      /\ sk.role = "server" /\ place = "test" /\ place' = "failed" /\ UNCHANGED job
      /\ sk' = [sk EXCEPT !.streams = <<>>, !.ctrl_sck = NoSocket]
      /\ fds' = CloseAll(S) /\ past' = [past EXCEPT !.wrongClose = @ \/ HitsOther(S, {"data", "buffer", "file"})]
  BY DEF SocketInv, ServerTimerFires
<1>2. past.failed = "" /\ job = NoJob
  BY <1>1 DEF RolesOK, JobPlaces
<1>3. Fields(TRUE) /\ ~Lax
  BY <1>1 DEF RestOK, Lax
<1>4. NoSocket = 0 /\ 0 \notin Numbers
  BY DEF NoSocket, Numbers
<1>5. \A n \in S \cap Numbers : fds[n] \in {"data", "buffer", "file"}
  <2>1. (sk.ctrl_sck = NoSocket \/ Sound(sk.ctrl_sck, {"data"})) /\ \A n \in StreamSocketNumbers : Sound(n, {"data"})
    BY <1>3, StreamsSound DEF Fields
  <2>2. \A n \in StreamFiles : n = NoSocket \/ fds[n] \in {"buffer", "file"}
    BY <1>1 DEF Files, StreamFiles
  <2> QED BY <1>3, <1>4, <2>1, <2>2 DEF Sound
<1>6. ~HitsOther(S, {"data", "buffer", "file"})
  BY <1>5 DEF HitsOther
<1> HIDE DEF S
<1>7. /\ past'.failed = "" /\ ~past'.wrongClose /\ ~past'.freedTwice
      /\ past' \in Histories
  BY <1>1, <1>2, <1>6 DEF SocketTypeOK, Histories
<1>8. /\ fds' \in [Numbers -> Kinds]
      /\ \A n \in Numbers : n \notin S => fds'[n] = fds[n]
      /\ \A n \in Numbers : n \in S => fds'[n] = "closed"
      /\ \A K : "closed" \notin K => Left(K)' = Left(K) \ S
  BY <1>1, Closing
<1>9. <<>> \in Seq(Entries) /\ NoSocket \in Descriptors
  BY DEF Descriptors
<1>10. sk' \in Tests
      /\ sk'.streams = <<>> /\ sk'.ctrl_sck = NoSocket /\ sk'.listener = sk.listener
      /\ sk'.prot_listener = sk.prot_listener /\ sk'.role = sk.role /\ sk'.proto = sk.proto
  BY <1>1, <1>9 DEF SocketTypeOK, Tests
<1>11. SocketTypeOK'
  BY <1>1, <1>7, <1>8, <1>10 DEF SocketTypeOK, Places
<1>12. RolesOK'
  BY <1>1, <1>2, <1>7, <1>10 DEF RolesOK, JobPlaces
<1>13. Files'
  BY <1>10 DEF Files
<1>14. Lax'
  BY <1>1, <1>10 DEF Lax
<1>15. Fields(TRUE)'
  <2>1. \A n, K : Sound(n, K) => Sound(n, K)'
    BY <1>8, <1>14, LaxSound
  <2>2. (\A i \in DOMAIN sk.streams : Sound(sk.streams[i].s, {"data"}))'
    BY <1>10
  <2> QED BY <1>3, <1>10, <2>1, <2>2 DEF Fields
<1>16. RestOK'
  <2>1. PICK x \in Descriptors :
            /\ x # NoSocket => place = "failed" /\ Spoilt
            /\ Left({"data"}) \subseteq {sk.ctrl_sck, sk.prot_listener, x} \cup StreamSocketNumbers
    BY <1>1 DEF RestOK
  <2>2. x = NoSocket
    BY <1>1, <2>1
  <2>3. /\ Left({"listener"}) \subseteq {sk.listener, sk.prot_listener}
        /\ Left({"buffer", "file"}) \subseteq StreamFiles
    BY <1>1, <1>2 DEF RestOK
  <2>4. /\ Left({"data"}) \ S \subseteq {sk.prot_listener, x}
        /\ Left({"buffer", "file"}) \ S = {}
    BY <2>1, <2>3 DEF S
  <2>5. /\ Left({"data"})' \subseteq {sk'.ctrl_sck, sk'.prot_listener, x} \cup StreamSocketNumbers'
        /\ Left({"buffer", "file"})' \subseteq StreamFiles'
        /\ Left({"listener"})' \subseteq {sk'.listener, sk'.prot_listener}
    BY <1>8, <1>10, <2>3, <2>4
  <2> QED BY <1>1, <1>15, <2>2, <2>5 DEF RestOK
<1>17. JobOK' /\ EndOK'
  BY <1>1 DEF JobOK, JobPlaces, EndOK
<1> QED BY <1>7, <1>11, <1>12, <1>13, <1>16, <1>17 DEF SocketInv

\* cleanup_server closes by the numbers in the fields.
LEMMA CleanupServerInv ==
  ASSUME SocketInv, CleanupServer
  PROVE  SocketInv'
<1> DEFINE S == StreamSocketNumbers \cup {sk.ctrl_sck, sk.listener, sk.prot_listener}
<1>1. SocketTypeOK /\ RolesOK /\ Files /\ RestOK /\ ~past.wrongClose /\ ~past.freedTwice
      /\ sk.role = "server" /\ place \in {"await", "test", "results", "failed"} /\ place' = "ended"
      /\ UNCHANGED <<sk, job>> /\ fds' = CloseAll(S)
      /\ past' = [past EXCEPT !.wrongClose = @ \/ HitsOther(S, {"data", "listener"})]
  BY DEF SocketInv, CleanupServer
<1>2. job = NoJob
  BY <1>1 DEF RolesOK, JobPlaces
<1>3. Fields(FALSE) \/ Fields(TRUE)
  BY <1>1 DEF RestOK
<1>4. NoSocket = 0 /\ 0 \notin Numbers
  BY DEF NoSocket, Numbers
<1>5. \A n \in S : n = NoSocket \/ (n \in Numbers /\ fds[n] \in {"data", "listener", "closed"})
  <2>1. (sk.ctrl_sck = NoSocket \/ Sound(sk.ctrl_sck, {"data"})) /\ \A n \in StreamSocketNumbers : Sound(n, {"data"})
    BY <1>3, StreamsSound DEF Fields
  <2>2. sk.listener = NoSocket \/ Sound(sk.listener, {"listener", "closed"})
    BY <1>3 DEF Fields, Sound
  <2>3. sk.proto \in {"tcp", "udp"}
    BY <1>1 DEF SocketTypeOK, Tests
  <2>4. sk.prot_listener \in {NoSocket, sk.listener} \/ Sound(sk.prot_listener, {"data", "listener", "closed"})
    BY <1>3, <2>3 DEF Fields, Sound
  <2> QED BY <2>1, <2>2, <2>4 DEF Sound
<1> HIDE DEF S
<1>6. ~HitsOther(S, {"data", "listener"})
  BY <1>4, <1>5 DEF HitsOther
<1>7. /\ past'.failed = past.failed /\ past'.stopped = past.stopped /\ past'.farewell = past.farewell
      /\ ~past'.wrongClose /\ ~past'.freedTwice
      /\ past' \in Histories
  BY <1>1, <1>6 DEF SocketTypeOK, Histories
<1>8. /\ fds' \in [Numbers -> Kinds]
      /\ \A n \in Numbers : n \notin S => fds'[n] = fds[n]
      /\ \A K : "closed" \notin K => Left(K)' = Left(K) \ S
  BY <1>1, Closing
<1>9. SocketTypeOK'
  BY <1>1, <1>7, <1>8 DEF SocketTypeOK, Places
<1>10. RolesOK'
  BY <1>1, <1>2, <1>7 DEF RolesOK, JobPlaces
<1>11. Files'
  BY <1>1, <1>4, <1>5, <1>8 DEF Files
<1>12. StreamFiles' = StreamFiles
  BY <1>1, SameStreams
<1>13. EndOK'
  <2>1. PICK x \in Descriptors :
            /\ x # NoSocket => place = "failed" /\ Spoilt
            /\ Left({"data"}) \subseteq {sk.ctrl_sck, sk.prot_listener, x} \cup StreamSocketNumbers
    BY <1>1 DEF RestOK
  <2>2. /\ Left({"listener"}) \subseteq {sk.listener, sk.prot_listener}
        /\ past.failed # "iperf_new_stream" => Left({"buffer", "file"}) \subseteq StreamFiles
    BY <1>1 DEF RestOK
  <2>3. Left({"data"}) \ S \subseteq {x, NoSocket} /\ Left({"listener"}) \ S = {}
    BY <2>1, <2>2 DEF S
  <2>4. /\ Left({"data"})' \subseteq {x, NoSocket} /\ Left({"listener"})' = {}
        /\ past'.failed # "iperf_new_stream" => Left({"buffer", "file"})' \subseteq StreamFiles'
    BY <1>7, <1>8, <1>12, <2>2, <2>3
  <2>5. (x # NoSocket => Spoilt') /\ NoSocket \in Descriptors
    BY <1>7, <2>1 DEF Spoilt, Descriptors
  <2> QED BY <1>1, <2>4, <2>5 DEF EndOK
<1>14. JobOK' /\ RestOK'
  BY <1>1 DEF JobOK, JobPlaces, RestOK
<1> QED BY <1>7, <1>9, <1>10, <1>11, <1>13, <1>14 DEF SocketInv

\* What the other threads of the app do leaves the descriptors of the test alone;
\* and next to a server no number that was closed is taken.
Elsewhere ==
  /\ fds' \in [Numbers -> Kinds] /\ UNCHANGED <<sk, job, place, past>>
  /\ \A n \in Numbers : fds'[n] = fds[n] \/ {fds[n], fds'[n]} \subseteq {"closed", "other"}
  /\ sk.role # "client" => \A n \in Numbers : fds[n] = "closed" => fds'[n] = "closed"

\* They keep the invariant.
LEMMA ElsewhereInv ==
  ASSUME SocketInv, Elsewhere
  PROVE  SocketInv'
<1>1. SocketTypeOK /\ RolesOK /\ Files /\ JobOK /\ RestOK /\ EndOK /\ ~past.wrongClose /\ ~past.freedTwice
  BY DEF SocketInv
<1>2. /\ fds' \in [Numbers -> Kinds] /\ sk' = sk /\ job' = job /\ place' = place /\ past' = past
      /\ \A n \in Numbers : fds'[n] = fds[n] \/ {fds[n], fds'[n]} \subseteq {"closed", "other"}
      /\ sk.role # "client" => \A n \in Numbers : fds[n] = "closed" => fds'[n] = "closed"
  BY DEF Elsewhere
<1>3. \A n \in Numbers : fds[n] \in Opened => fds'[n] = fds[n]
  BY <1>2 DEF Opened
<1>4. \A n \in Numbers : fds'[n] \in Opened => fds'[n] = fds[n]
  BY <1>2 DEF Opened
<1>5. \A K : K \subseteq Opened => Left(K)' = Left(K)
  BY <1>3, <1>4 DEF Left
<1>6. Left({"data"})' = Left({"data"}) /\ Left({"listener"})' = Left({"listener"})
      /\ Left({"buffer", "file"})' = Left({"buffer", "file"})
  BY <1>5 DEF Opened
<1>7. StreamSocketNumbers' = StreamSocketNumbers /\ StreamFiles' = StreamFiles
  BY <1>2, SameStreams
<1>8. \A n, K : K \subseteq Opened /\ Sound(n, K) => Sound(n, K)'
  <2>1. Lax' <=> Lax
    BY <1>2 DEF Lax
  <2>2. Lax => sk.role # "client"
    BY DEF Lax
  <2> QED BY <1>2, <1>3, <2>1, <2>2 DEF Sound
<1>9. sk.role = "server" => \A n : Sound(n, {"listener", "closed"}) => Sound(n, {"listener", "closed"})'
  <2>1. sk.role = "server" => \A n \in Numbers : fds[n] = "closed" => fds'[n] = "closed"
    BY <1>2
  <2>2. \A n \in Numbers : fds[n] = "listener" => fds'[n] = "listener"
    BY <1>3 DEF Opened
  <2> QED BY <2>1, <2>2 DEF Sound
<1>10. \A g \in BOOLEAN : Fields(g) => Fields(g)'
  <2>1. \A n : (Sound(n, {"data"}) => Sound(n, {"data"})') /\ (Sound(n, {"listener"}) => Sound(n, {"listener"})')
    BY <1>8 DEF Opened
  <2>2. sk.role # "server" => sk.listener = NoSocket /\ sk.prot_listener = NoSocket
    BY <1>1 DEF RolesOK
  <2>3. (\A i \in DOMAIN sk.streams : Sound(sk.streams[i].s, {"data"})) =>
        (\A i \in DOMAIN sk.streams : Sound(sk.streams[i].s, {"data"}))'
    BY <1>2, <2>1
  <2>4. ASSUME NEW g \in BOOLEAN, Fields(g)
        PROVE  Fields(g)'
    <3>1. sk.ctrl_sck = NoSocket \/ Sound(sk.ctrl_sck, {"data"})'
      <4>1. sk.ctrl_sck = NoSocket \/ Sound(sk.ctrl_sck, {"data"})
        BY <2>4 DEF Fields
      <4> QED BY <1>2, <2>1, <4>1
    <3>2. (\A i \in DOMAIN sk.streams : Sound(sk.streams[i].s, {"data"}))'
      BY <2>3, <2>4 DEF Fields
    <3>3. sk.listener = NoSocket \/ Sound(sk.listener, {"listener"})' \/ (g /\ Sound(sk.listener, {"listener", "closed"})')
      <4>1. sk.listener = NoSocket \/ Sound(sk.listener, {"listener"}) \/ (g /\ Sound(sk.listener, {"listener", "closed"}))
        BY <2>4 DEF Fields
      <4> QED BY <1>2, <1>9, <2>1, <2>2, <4>1
    <3>4. sk.proto = "udp" => sk.prot_listener = NoSocket \/ Sound(sk.prot_listener, {"data"})'
      <4>1. sk.proto = "udp" => sk.prot_listener = NoSocket \/ Sound(sk.prot_listener, {"data"})
        BY <2>4 DEF Fields
      <4> QED BY <1>2, <2>1, <4>1
    <3>5. sk.proto = "tcp" => \/ sk.prot_listener \in {NoSocket, sk.listener}
                              \/ g /\ Sound(sk.prot_listener, {"listener", "closed"})'
      <4>1. sk.proto = "tcp" => \/ sk.prot_listener \in {NoSocket, sk.listener}
                                \/ g /\ Sound(sk.prot_listener, {"listener", "closed"})
        BY <2>4 DEF Fields
      <4> QED BY <1>2, <1>9, <2>2, <4>1
    <3> QED BY <1>2, <3>1, <3>2, <3>3, <3>4, <3>5 DEF Fields
  <2> QED BY <2>4
<1>11. SocketTypeOK'
  BY <1>1, <1>2 DEF SocketTypeOK
<1>12. RolesOK'
  <2>1. sk.ctrl_sck = sk'.ctrl_sck /\ (place = "new" => \A n \in Numbers : fds'[n] \in {"closed", "other"})
    <3>1. place = "new" => \A n \in Numbers : fds[n] \in {"closed", "other"}
      BY <1>1 DEF RolesOK
    <3> QED BY <1>2, <3>1
  <2> QED BY <1>1, <1>2, <2>1 DEF RolesOK, JobPlaces
<1>13. Files'
  BY <1>1, <1>2, <1>3 DEF Files, Opened
<1>14. JobOK'
  <2>1. ASSUME NEW a \in Holdings, Doing(a)
        PROVE  Doing(a)'
    <3>1. /\ a.lists = job.lists /\ Flow(Mode, job.todo, a, Goal)
          /\ SlotsOK(a) /\ StatesOK(a) /\ UnsetOK(a) /\ ApartOK(a) /\ AccountsOK(a) /\ Fields(a.gone)
      BY <2>1 DEF Doing
    <3>2. Mode' = Mode /\ Goal' = Goal
      BY <1>2 DEF Mode, Here, Goal
    <3>3. SlotsOK(a)'
      BY <1>2, <1>3, <3>1 DEF SlotsOK
    <3>4. StatesOK(a)' /\ UnsetOK(a)'
      BY <1>2, <3>1 DEF StatesOK, UnsetOK
    <3>5. ApartOK(a)'
      BY <1>2, <1>7, <3>1 DEF ApartOK
    <3>6. Held(a)' = Held(a)
      BY <1>2 DEF Held
    <3>7. AccountsOK(a)'
      BY <1>2, <1>6, <1>7, <3>1, <3>6 DEF AccountsOK
    <3>8. Fields(a.gone)'
      BY <1>10, <3>1 DEF Holdings
    <3> QED BY <1>2, <3>1, <3>2, <3>3, <3>4, <3>5, <3>7, <3>8 DEF Doing
  <2> QED BY <1>1, <1>2, <2>1 DEF JobOK
<1>15. RestOK'
  <2>1. place = "await" => Fields(FALSE)'
    BY <1>1, <1>10 DEF RestOK
  <2>2. place \in {"test", "results", "failed"} => Fields(TRUE)'
    BY <1>1, <1>10 DEF RestOK
  <2>3. Spoilt' = Spoilt
    BY <1>2 DEF Spoilt
  <2>4. place \in {"await", "test", "results", "failed"} =>
          /\ Left({"listener"})' \subseteq {sk'.listener, sk'.prot_listener}
          /\ past'.failed # "iperf_new_stream" => Left({"buffer", "file"})' \subseteq StreamFiles'
          /\ \E x \in Descriptors :
               /\ x # NoSocket => place' = "failed" /\ Spoilt'
               /\ Left({"data"})' \subseteq {sk'.ctrl_sck, sk'.prot_listener, x} \cup StreamSocketNumbers'
    BY <1>1, <1>2, <1>6, <1>7, <2>3 DEF RestOK
  <2>5. place = "await" /\ sk.proto = "udp" =>
          /\ sk'.prot_listener # NoSocket
          /\ sk'.prot_listener \notin StreamSocketNumbers' \cup {sk'.ctrl_sck}
    BY <1>1, <1>2, <1>7 DEF RestOK
  <2> QED BY <1>2, <2>1, <2>2, <2>4, <2>5 DEF RestOK
<1>16. EndOK'
  <2>1. Spoilt' = Spoilt
    BY <1>2 DEF Spoilt
  <2> QED BY <1>1, <1>2, <1>6, <1>7, <2>1 DEF EndOK
<1> QED BY <1>1, <1>2, <1>11, <1>12, <1>13, <1>14, <1>15, <1>16 DEF SocketInv

\* The other threads open and close descriptors.
LEMMA OthersInv ==
  ASSUME SocketInv, OtherOpens \/ \E n \in Numbers : OtherCloses(n)
  PROVE  SocketInv'
<1>1. fds \in [Numbers -> Kinds] /\ {"closed", "other"} \subseteq Kinds
  BY DEF SocketInv, SocketTypeOK, Kinds
<1>2. CASE OtherOpens
  <2>1. PICK n \in Numbers : fds[n] = "closed" /\ fds' = [fds EXCEPT ![n] = "other"]
    BY <1>2 DEF OtherOpens, Lowest
  <2>2. sk.role = "client" /\ UNCHANGED <<sk, job, place, past>>
    BY <1>2 DEF OtherOpens
  <2>3. Elsewhere
    BY <1>1, <2>1, <2>2 DEF Elsewhere
  <2> QED BY <2>3, ElsewhereInv
<1>3. CASE \E n \in Numbers : OtherCloses(n)
  <2>1. PICK n \in Numbers : OtherCloses(n)
    BY <1>3
  <2>2. fds[n] = "other" /\ fds' = [fds EXCEPT ![n] = "closed"] /\ UNCHANGED <<sk, job, place, past>>
    BY <2>1 DEF OtherCloses
  <2>3. Elsewhere
    BY <1>1, <2>2 DEF Elsewhere
  <2> QED BY <2>3, ElsewhereInv
<1> QED BY <1>2, <1>3

\* At the beginning nothing is open.
LEMMA SocketInitInv ==
  SocketInit => SocketInv
<1> SUFFICES ASSUME SocketInit
             PROVE  SocketInv
  OBVIOUS
<1>1. NoSocket \in Descriptors /\ <<>> \in Seq(Entries) /\ {} \in SUBSET SocketOptions /\ 0 \in Nat
  BY DEF Descriptors
<1>2. SocketTypeOK
  <2>1. fds \in [Numbers -> Kinds]
    BY DEF SocketInit, Kinds
  <2>2. sk \in Tests
    BY <1>1 DEF SocketInit, Tests
  <2>3. past \in Histories
    BY DEF SocketInit, Histories
  <2>4. place \in Places /\ job = NoJob
    BY DEF SocketInit, Places
  <2> QED BY <2>1, <2>2, <2>3, <2>4, NoJobTyped DEF SocketTypeOK
<1>3. RolesOK
  BY DEF SocketInit, RolesOK, JobPlaces
<1>4. place = "new" /\ sk.streams = <<>> /\ ~past.wrongClose /\ ~past.freedTwice
  BY DEF SocketInit
<1>5. Files /\ JobOK /\ RestOK /\ EndOK
  BY <1>4 DEF Files, JobOK, JobPlaces, RestOK, EndOK
<1> QED BY <1>2, <1>3, <1>4, <1>5 DEF SocketInv

\* Every step keeps the invariant.
LEMMA SocketStep ==
  SocketInv /\ [SocketNext]_socketVars => SocketInv'
<1> SUFFICES ASSUME SocketInv, [SocketNext]_socketVars
             PROVE  SocketInv'
  OBVIOUS
<1>1. CASE BeginRun \/ CallWorks \/ CallFails \/ NextStream
  BY <1>1, BeginRunInv, CallWorksInv, CallFailsInv, NextStreamInv
<1>2. CASE StoppedByUser \/ FreeStreams \/ \E done \in BOOLEAN : ClientEnd(done)
  BY <1>2, StoppedByUserInv, FreeStreamsInv, ClientEndInv
<1>3. CASE ControlComes \/ ControlAccepted \/ StreamComes \/ StrangerComes \/ StreamAccepted \/ Relistened
  BY <1>3, ControlComesInv, ControlAcceptedInv, StreamComesInv, StrangerComesInv, StreamAcceptedInv, RelistenedInv
<1>4. CASE ServerTestEnd \/ ServerTimerFires \/ CleanupServer
  BY <1>4, ServerTestEndInv, ServerTimerFiresInv, CleanupServerInv
<1>5. CASE OtherOpens \/ \E n \in Numbers : OtherCloses(n)
  BY <1>5, OthersInv
<1>6. CASE UNCHANGED socketVars
  <2>1. /\ UNCHANGED <<sk, job, place, past>> /\ fds' = fds /\ fds \in [Numbers -> Kinds]
    BY <1>6 DEF socketVars, SocketInv, SocketTypeOK
  <2>2. Elsewhere
    BY <2>1 DEF Elsewhere
  <2> QED BY <2>2, ElsewhereInv
<1> QED BY <1>1, <1>2, <1>3, <1>4, <1>5, <1>6 DEF SocketNext

----------------------------------------------------------------------------
(***************************************************************************)
(* What holds in every state.                                              *)
(***************************************************************************)
\* The invariant holds in every reachable state.
THEOREM SocketsInvariant ==
  SocketSpec => []SocketInv
<1>1. SocketInit => SocketInv
  BY SocketInitInv
<1>2. SocketInv /\ [SocketNext]_socketVars => SocketInv'
  BY SocketStep
<1> QED BY <1>1, <1>2, PTL DEF SocketSpec

\* Nothing is released twice: no close of the code hits a number that is open for
\* something else, and the lists of getaddrinfo are freed once and none is left
\* (net.c, iperf_tcp.c, cleanup_server).
THEOREM SocketsReleasedOnce ==
  SocketSpec => []ReleasedOnce
<1>1. SocketInv => ReleasedOnce
  <2> SUFFICES ASSUME SocketInv
               PROVE  ReleasedOnce
    OBVIOUS
  <2>1. ASSUME job.todo = <<>>
        PROVE  job.lists = {}
    <3>1. CASE place \in JobPlaces
      <4>1. Doing(Goal)
        BY <2>1, <3>1, JobDone
      <4>2. Goal.lists = {}
        BY <3>1 DEF Goal, JobPlaces, Sock, St
      <4> QED BY <4>1, <4>2 DEF Doing
    <3>2. CASE place \notin JobPlaces
      BY <3>2, NoJobUnderWay DEF NoJob
    <3> QED BY <3>1, <3>2
  <2>2. ~past.wrongClose /\ ~past.freedTwice
    BY DEF SocketInv
  <2> QED BY <2>1, <2>2 DEF ReleasedOnce
<1> QED BY <1>1, SocketsInvariant, PTL

\* The number of descriptors that are left, from the numbers they may have.
LEMMA AtMost ==
  ASSUME NEW S, NEW x, NEW y, S \subseteq {x, y}
  PROVE  /\ IsFiniteSet(S) /\ Cardinality(S) \in Nat /\ Cardinality(S) <= 2
         /\ (x \notin S \/ y \notin S) => Cardinality(S) <= 1
         /\ (x \notin S /\ y \notin S) => Cardinality(S) = 0
<1>1. \A v : IsFiniteSet({v}) /\ Cardinality({v}) = 1
  BY FS_Singleton
<1>2. IsFiniteSet({x, y}) /\ Cardinality({x, y}) <= 2
  <2>1. IsFiniteSet({x} \cup {y}) /\ Cardinality({x} \cup {y}) \in {Cardinality({x}), Cardinality({x}) + 1}
    <3>1. IsFiniteSet({x})
      BY <1>1
    <3>2. /\ IsFiniteSet({x} \cup {y})
          /\ Cardinality({x} \cup {y}) = IF y \in {x} THEN Cardinality({x}) ELSE Cardinality({x}) + 1
      BY <3>1, FS_AddElement
    <3> QED BY <3>2
  <2>2. {x, y} = {x} \cup {y} /\ Cardinality({x}) = 1
    BY <1>1
  <2>3. Cardinality({x} \cup {y}) \in {1, 2}
    BY <2>1, <2>2
  <2>4. Cardinality({x} \cup {y}) <= 2
    BY <2>3
  <2> QED BY <2>1, <2>2, <2>4
<1>3. \A T : IsFiniteSet(T) /\ S \subseteq T => IsFiniteSet(S) /\ Cardinality(S) <= Cardinality(T)
  BY FS_Subset
<1>4. IsFiniteSet(S) /\ Cardinality(S) \in Nat
  BY <1>2, <1>3, FS_CardinalityType
<1>5. Cardinality(S) <= 2
  BY <1>2, <1>3, <1>4, FS_CardinalityType
<1>6. x \notin S \/ y \notin S => Cardinality(S) <= 1
  <2>1. x \notin S \/ y \notin S => S \subseteq {x} \/ S \subseteq {y}
    OBVIOUS
  <2> QED BY <1>1, <1>3, <2>1
<1>7. x \notin S /\ y \notin S => Cardinality(S) = 0
  BY FS_EmptySet
<1> QED BY <1>4, <1>5, <1>6, <1>7

\* When a test is freed no descriptor of it is open, but the ones that the user's
\* stop, a farewell that cannot be written and the functions that do not close
\* their data socket leave (net.c, iperf_udp.c, iperf_free_stream).
THEOREM SocketsAccounted ==
  SocketSpec => []DescriptorsAccounted
<1>1. SocketInv => DescriptorsAccounted
  <2> SUFFICES ASSUME SocketInv, place = "freed", ~past.stopped
               PROVE  /\ Left({"listener"}) = {}
                      /\ Left({"buffer", "file"}) # {} => past.failed = "iperf_new_stream"
                      /\ Cardinality(Left({"data"})) <= (IF Spoilt THEN 1 ELSE 0) + (IF past.farewell THEN 0 ELSE 1)
    BY DEF DescriptorsAccounted, Spoilt, Spoilers
  <2>1. /\ Left({"listener"}) = {}
        /\ past.failed # "iperf_new_stream" => Left({"buffer", "file"}) \subseteq {}
        /\ \E x \in Descriptors, y \in Descriptors :
             /\ x # NoSocket => Spoilt
             /\ y # NoSocket => ~past.farewell
             /\ Left({"data"}) \subseteq {x, y}
    BY DEF SocketInv, EndOK
  <2>2. PICK x \in Descriptors, y \in Descriptors :
             /\ x # NoSocket => Spoilt
             /\ y # NoSocket => ~past.farewell
             /\ Left({"data"}) \subseteq {x, y}
    BY <2>1
  <2>3. NoSocket \notin Left({"data"})
    BY DEF NoSocket, Left, Numbers
  <2> DEFINE L == Left({"data"})
  <2>4. /\ L \subseteq {x, y} /\ (~Spoilt => x \notin L) /\ (past.farewell => y \notin L)
    BY <2>2, <2>3
  <2> HIDE DEF L
  <2>5. /\ Cardinality(L) \in Nat /\ Cardinality(L) <= 2
        /\ (x \notin L \/ y \notin L) => Cardinality(L) <= 1
        /\ (x \notin L /\ y \notin L) => Cardinality(L) = 0
    BY <2>4, AtMost
  <2>6. Cardinality(L) <= (IF Spoilt THEN 1 ELSE 0) + (IF past.farewell THEN 0 ELSE 1)
    <3>1. CASE Spoilt /\ ~past.farewell
      BY <2>5, <3>1
    <3>2. CASE Spoilt /\ past.farewell
      BY <2>4, <2>5, <3>2
    <3>3. CASE ~Spoilt /\ ~past.farewell
      BY <2>4, <2>5, <3>3
    <3>4. CASE ~Spoilt /\ past.farewell
      BY <2>4, <2>5, <3>4
    <3> QED BY <3>1, <3>2, <3>3, <3>4
  <2> QED BY <2>1, <2>6 DEF L
<1> QED BY <1>1, SocketsInvariant, PTL
=============================================================================
