--------------------------- MODULE IperfArguments ---------------------------
(* The arguments of a test: the form of the app builds them or a user types  *)
(* them, and iperf_parse_arguments reads them, one parse after the other in  *)
(* the same process. getopt_long keeps its position in the static variable   *)
(* optind. An option is a letter or a name and a number; texts are numbers   *)
(* too. Configured as the app is built (no SCTP, sendfile, flow labels, SSL).*)
EXTENDS Integers, SequencesExt

CONSTANTS Forms,        \* what users enter in the form
          Typed,        \* commands users type, sequences of any options
          FileSizes,    \* sizes of the file given with -F
          MaxParses     \* bound: parses in one process
ASSUME ArgumentsAssumption ==
  /\ MaxParses \in Nat /\ FileSizes \subseteq Nat
  /\ \A cmd \in Typed : cmd \in Seq(Range(cmd))

VARIABLES getopt,       \* optind, in words
          parsed,       \* the last parse: the command, where it began, its result
          parses        \* history: how many

argumentVars == <<getopt, parsed, parses>>

MB == 1024 * 1024
UdpRate == MB
TcpBlockSize == 128 * 1024

\* iperf_defaults: what a new test has before its arguments are read.
Defaults ==
  [role |-> "none", reverse |-> FALSE, bidirectional |-> FALSE, mode |-> "RECEIVER",
   sender_has_retransmits |-> FALSE, protocol |-> "tcp", server_port |-> 5201,
   interval |-> 10, duration |-> 10, omit |-> 0, bytes |-> 0, blocks |-> 0,
   blksize |-> TcpBlockSize, rate |-> 0, burst |-> 0, num_streams |-> 1,
   bind_port |-> 0, socket_bufsize |-> 0, mss |-> 0, tos |-> 0, idle_timeout |-> 0,
   rcv_timeout |-> 120000, file |-> FALSE, limit_interval |-> 50]

\* The locals of the function; "at" is optind, err IENONE as long as nothing is refused.
Begin(from) == [set |-> Defaults, blksize |-> 0, flags |-> {}, err |-> "IENONE", at |-> from]

Refuse(p, err) == [p EXCEPT !.err = err]
Flag(p, f) == [p EXCEPT !.flags = @ \cup f]
Check(p, wrong, err) == IF p.err = "IENONE" /\ wrong THEN Refuse(p, err) ELSE p

----------------------------------------------------------------------------
(* The direction of a test depends on three options in any order.            *)
CheckSenderHasRetransmits(s) ==
  [s EXCEPT !.sender_has_retransmits = s.mode # "RECEIVER" /\ s.protocol = "tcp"]

Towards(s, sender) ==
  CASE s.role = sender -> "SENDER" [] s.role = "none" -> s.mode [] OTHER -> "RECEIVER"

\* Mutant of SetRole: a role that comes after --bidir sets one direction.
SetRoleOneWay(s, role) ==
  LET t == [s EXCEPT !.role = role]
  IN CheckSenderHasRetransmits(
       [t EXCEPT !.mode = Towards(t, IF t.reverse THEN "s" ELSE "c")])

SetRole(s, role) ==
  LET t == [s EXCEPT !.role = role]
  IN CheckSenderHasRetransmits(
       [t EXCEPT !.mode = IF t.reverse THEN Towards(t, "s")
                          ELSE IF t.bidirectional THEN "BIDIRECTIONAL"
                          ELSE Towards(t, "c")])

SetReverse(s) ==
  LET t == [s EXCEPT !.reverse = TRUE]
  IN CheckSenderHasRetransmits([t EXCEPT !.mode = Towards(t, "s")])

SetBidirectional(s) == [s EXCEPT !.bidirectional = TRUE, !.mode = "BIDIRECTIONAL"]

SetProtocol(s, prot) == CheckSenderHasRetransmits([s EXCEPT !.protocol = prot])

----------------------------------------------------------------------------
(* The cases of the switch, in its order. Most options are a number with     *)
(* limits, for a field, for one of the roles.                                *)
Number(field, low, high, err, flags) ==
  [field |-> field, low |-> low, high |-> high, err |-> err, flags |-> flags]
Client == {"client"}
Server == {"server"}
NoLimit == 1000000000

ParseNumber(p, o, n) ==
  IF o.arg < n.low \/ o.arg > n.high THEN Refuse(p, n.err)
  ELSE Flag([p EXCEPT !.set = [@ EXCEPT ![n.field] = o.arg]], n.flags)

\* -p, -i (tenths of a second, 0 for none), -D or -1, -V or -J
ParseGeneral(p, o) ==
  CASE o.opt = "p" -> ParseNumber(p, o, Number("server_port", 1, 65535, "IEBADPORT", {}))
    [] o.opt = "i" -> IF o.arg = 0 THEN [p EXCEPT !.set.interval = 0]
                      ELSE ParseNumber(p, o, Number("interval", 1, 600, "IEINTERVAL", {}))
    [] o.opt = "1" -> Flag(p, Server)
    [] o.opt = "V" -> p

ParseRole(p, o) ==
  IF p.set.role \notin {"none", o.opt} THEN Refuse(p, "IESERVCLIENT")
  ELSE [p EXCEPT !.set = SetRole(@, o.opt)]

\* -u, -b rate, -b rate/burst (here the burst), --server-bitrate-limit .../interval
ParseRate(p, o) ==
  CASE o.opt = "u" -> Flag([p EXCEPT !.set = SetProtocol(@, "udp")], Client)
    [] o.opt = "b" -> Flag([p EXCEPT !.set.rate = o.arg], {"rate", "client"})
    [] o.opt = "b/" -> ParseNumber(p, o, Number("burst", 1, 1000, "IEBURST", {"rate", "client"}))
    [] o.opt = "server-bitrate-limit" ->
         IF o.arg = 0 THEN Flag([p EXCEPT !.set.limit_interval = 0], Server)
         ELSE ParseNumber(p, o, Number("limit_interval", 1, 600, "IETOTALINTERVAL", Server))
    [] o.opt = "sctp" -> Refuse(p, "IEUNIMP")

ParseEnd(p, o) ==
  CASE o.opt = "t" -> ParseNumber(p, o, Number("duration", 0, 86400, "IEDURATION", {"duration", "client"}))
    [] o.opt = "n" -> ParseNumber(p, o, Number("bytes", 0, NoLimit, "IENONE", Client))
    [] o.opt = "k" -> ParseNumber(p, o, Number("blocks", 0, NoLimit, "IENONE", Client))
    [] o.opt = "l" -> Flag([p EXCEPT !.blksize = o.arg], Client)

ParseDirection(p, o) ==
  CASE o.opt = "P" -> ParseNumber(p, o, Number("num_streams", -NoLimit, 128, "IENUMSTREAMS", Client))
    [] o.opt = "R" -> IF p.set.bidirectional THEN Refuse(p, "IEREVERSEBIDIR")
                      ELSE Flag([p EXCEPT !.set = SetReverse(@)], Client)
    [] o.opt = "bidir" -> IF p.set.reverse THEN Refuse(p, "IEREVERSEBIDIR")
                          ELSE Flag([p EXCEPT !.set = SetBidirectional(@)], Client)
    [] o.opt = "w" -> ParseNumber(p, o, Number("socket_bufsize", -NoLimit, 512 * MB, "IEBUFSIZE", Client))

\* --cport, -M, -S; -L and -Z are refused in this build
ParseSocketOption(p, o) ==
  CASE o.opt = "cport" -> ParseNumber(p, o, Number("bind_port", 1, 65535, "IEBADPORT", {}))
    [] o.opt = "M" -> ParseNumber(p, o, Number("mss", -NoLimit, 9 * 1024, "IEMSS", Client))
    [] o.opt = "N" -> Flag(p, Client)
    [] o.opt = "S" -> ParseNumber(p, o, Number("tos", 0, 255, "IEBADTOS", Client))
    [] o.opt = "L" -> Refuse(p, "IEUNIMP")
    [] o.opt = "Z" -> Refuse(p, "IENOSENDFILE")

ParseMeasurement(p, o) ==
  CASE o.opt = "O" -> ParseNumber(p, o, Number("omit", 0, 600, "IEOMIT", Client))
    [] o.opt = "F" -> [p EXCEPT !.set.file = TRUE]
    [] o.opt = "idle-timeout" -> ParseNumber(p, o, Number("idle_timeout", 1, 86400, "IEIDLETIMEOUT", Server))
    [] o.opt = "rcv-timeout" -> ParseNumber(p, o, Number("rcv_timeout", 100, 86400000, "IERCVTIMEOUT", {}))

\* -T, -C and the like (a field nothing depends on), -d and the like; an
\* unknown option, -h and -v end the process
ParseRest(p, o) ==
  CASE o.opt = "T" -> Flag(p, Client)
    [] o.opt = "d" -> p
    [] OTHER -> Refuse(p, "exit")

Words(o) == IF o.opt \in {"1", "V", "s", "u", "sctp", "R", "bidir", "N", "Z", "d", "h", "skip-rx-copy"}
            THEN 1 ELSE 2

\* getopt_long and one turn of the loop. Words before optind are not looked at,
\* nor is an argument whose option lies before it.
ParseOption(p, o) ==
  LET q == [p EXCEPT !.at = @ + Words(o)]
  IN IF p.err # "IENONE" THEN p
     ELSE CASE o.opt \in {"p", "i", "1", "V"} -> ParseGeneral(q, o)
            [] o.opt \in {"s", "c"} -> ParseRole(q, o)
            [] o.opt \in {"u", "b", "b/", "server-bitrate-limit", "sctp"} -> ParseRate(q, o)
            [] o.opt \in {"t", "n", "k", "l"} -> ParseEnd(q, o)
            [] o.opt \in {"P", "R", "bidir", "w"} -> ParseDirection(q, o)
            [] o.opt \in {"cport", "M", "N", "S", "L", "Z"} -> ParseSocketOption(q, o)
            [] o.opt \in {"O", "F", "idle-timeout", "rcv-timeout"} -> ParseMeasurement(q, o)
            [] OTHER -> ParseRest(q, o)

ParseOptions(cmd, from) == FoldLeft(ParseOption, Begin(from), cmd)

----------------------------------------------------------------------------
(* After the loop.                                                           *)
CheckRole(p) ==
  LET q == Check(p, p.set.role = "c" /\ "server" \in p.flags, "IESERVERONLY")
      r == Check(q, p.set.role = "s" /\ "client" \in p.flags, "IECLIENTONLY")
  IN Check(r, p.set.role = "c" /\ p.set.file /\ p.set.protocol = "udp", "IEUDPFILETRANSFER")

CheckBlockSize(p) ==
  LET udp == p.set.protocol = "udp"
      size == IF p.blksize = 0 /\ ~udp THEN TcpBlockSize ELSE p.blksize
      q == Check(p, (~udp /\ size <= 0) \/ size > MB, "IEBLOCKSIZE")
      r == Check(q, udp /\ size > 0 /\ (size < 16 \/ size > 65507), "IEUDPBLOCKSIZE")
  IN [r EXCEPT !.set.blksize = size]

SetDefaultRate(p) ==
  IF "rate" \in p.flags THEN p
  ELSE [p EXCEPT !.set.rate = IF p.set.protocol = "udp" THEN UdpRate ELSE 0]

TwoEnds(timed, s) ==
  \/ timed /\ (s.bytes # 0 \/ s.blocks # 0)
  \/ s.bytes # 0 /\ s.blocks # 0

\* A file without another end is sent once; bytes or blocks replace the duration.
CheckEnd(p, size) ==
  LET timed == "duration" \in p.flags
      sized == p.set.bytes # 0 \/ p.set.blocks # 0
      q == IF ~sized /\ ~timed /\ p.set.file /\ p.set.role = "c"
           THEN [p EXCEPT !.set.bytes = size] ELSE p
      r == IF (q.set.bytes # 0 \/ q.set.blocks # 0) /\ ~timed
           THEN [q EXCEPT !.set.duration = 0] ELSE q
  IN Check(r, TwoEnds(timed, r.set), "IEENDCONDITIONS")

\* optind is set to 0 here, not on the way out of an error before.
ResetGetopt(p) ==
  IF p.err = "IENONE" THEN Check([p EXCEPT !.at = 0], p.set.role = "none", "IENOROLE") ELSE p

StartsAt(cmd, n) == 1 + FoldLeft(LAMBDA sum, o : sum + Words(o), 0, SubSeq(cmd, 1, n - 1))

Unread(cmd, from) ==
  LET later == {n \in DOMAIN cmd : StartsAt(cmd, n) >= from}
  IN IF later = {} THEN <<>>
     ELSE SubSeq(cmd, CHOOSE n \in later : \A m \in later : n <= m, Len(cmd))

\* optind 0 makes getopt start anew, at word 1 (word 0 is the program).
From(optind) == IF optind = 0 THEN 1 ELSE optind

Parsed(cmd, from, size) ==
  LET first == Unread(cmd, from)
      p == ParseOptions(first, IF first = <<>> THEN from
                               ELSE StartsAt(cmd, Len(cmd) - Len(first) + 1))
      end == IF p.err = "IENONE" THEN [p EXCEPT !.at = IF @ > from THEN @ ELSE from] ELSE p
  IN ResetGetopt(CheckEnd(SetDefaultRate(CheckBlockSize(CheckRole(end))), size))

----------------------------------------------------------------------------
(* What the form of the app asks for (getIperfArguments).                    *)
O(opt, arg) == [opt |-> opt, arg |-> arg]
If(c, options) == IF c THEN options ELSE <<>>

FormArguments(f) ==
  <<O("c", 0), O("p", f.port), O("t", f.duration), O("i", 10 * f.interval)>>
  \o If(f.parallel # 0, <<O("P", f.parallel)>>)
  \o If(f.direction = "Download (-R)", <<O("R", 0)>>)
  \o If(f.direction = "Bidirectional (--bidir)", <<O("bidir", 0)>>)
  \o If(f.udp, <<O("u", 0), O("b", f.bandwidth)>>)
  \o If(f.debug, <<O("d", 0)>>)

Nothing == [cmd |-> <<>>, from |-> 1, err |-> "IENONE", set |-> Defaults]

ArgumentsInit == getopt = 1 /\ parsed = Nothing /\ parses = 0

\* runIperfLive makes a new test for every call, and parses the arguments.
\* The process is gone after an exit().
ParseArguments(cmd, size) ==
  /\ parses < MaxParses /\ parsed.err # "exit"
  /\ LET p == Parsed(cmd, From(getopt), size)
     IN /\ getopt' = p.at
        /\ parsed' = [cmd |-> cmd, from |-> From(getopt), err |-> p.err, set |-> p.set]
  /\ parses' = parses + 1

ArgumentsNext ==
  \E size \in FileSizes :
    \/ \E f \in Forms : ParseArguments(FormArguments(f), size)
    \/ \E cmd \in Typed : ParseArguments(cmd, size)

ArgumentsSpec == ArgumentsInit /\ [][ArgumentsNext]_argumentVars
----------------------------------------------------------------------------
Given(cmd, x) == \E n \in DOMAIN cmd : cmd[n].opt = x

\* Arguments that are accepted mean the same in every order: the direction
\* follows from -c, -R and --bidir, retransmissions are expected of a TCP sender
\* only, one condition ends the test (iperf_parse_arguments and the setters it
\* calls), and the next parse begins at its first argument. After a refused
\* command it may begin in the middle, and what is accepted then is another
\* matter.
AcceptedArgumentsAgree ==
  LET s == parsed.set
      given(x) == Given(parsed.cmd, x)
      sized == (IF s.bytes # 0 THEN 1 ELSE 0) + (IF s.blocks # 0 THEN 1 ELSE 0)
  IN parsed.cmd # <<>> /\ parsed.err = "IENONE" =>
       /\ getopt = 0
       /\ parsed.from = 1 =>
            /\ s.role = (IF given("c") THEN "c" ELSE "s")
            /\ s.mode = IF given("bidir") THEN "BIDIRECTIONAL"
                        ELSE IF given("c") /\ ~given("R") THEN "SENDER" ELSE "RECEIVER"
            /\ s.sender_has_retransmits = (s.mode # "RECEIVER" /\ ~given("u"))
            /\ sized + (IF s.duration # 0 THEN 1 ELSE 0) <= 1
            /\ sized = 0 /\ ~given("t") => s.duration = Defaults.duration
            /\ s.protocol = "udp" => ~s.file /\ (s.rate = UdpRate \/ given("b") \/ given("b/"))
=============================================================================
