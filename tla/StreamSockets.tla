---------------------------- MODULE StreamSockets ---------------------------
(* The descriptors of a test: the control socket, the listeners, the data    *)
(* sockets and the files of the streams, and the address lists on the way    *)
(* (net.c, iperf_tcp.c, iperf_udp.c, iperf_new_stream). Each function is a   *)
(* row of system calls, any of which may fail, with what the function        *)
(* releases then. A process gives out the lowest free number, and in the app *)
(* other threads open and close descriptors all the time: a number that is   *)
(* closed twice may by then be somebody else's.                              *)
(* Configured as the app is built: no SO_BINDTODEVICE, MPTCP, flow labels,   *)
(* keepalive, user timeout. Options that cannot make a call fail are left    *)
(* out (pacing, the return value of iperf_common_sockopts at the client).    *)
EXTENDS Integers, Sequences, FiniteSets

CONSTANTS SocketSettings,   \* role, protocol, number of streams, options
          MaxDescriptors,   \* bound: descriptors of the process
          MaxOthers         \* bound: descriptors of the app's other threads

\* The options of a test that decide which calls are made. "small": the buffers
\* of a UDP socket are too small by default.
SocketOptions == {"no_delay", "mss", "bufsize", "congestion", "tos", "local", "cport",
                  "file", "small"}

ASSUME SocketAssumption ==
  /\ MaxDescriptors \in Nat /\ MaxOthers \in Nat
  /\ \A s \in SocketSettings : /\ s.role \in {"client", "server"}
                               /\ s.proto \in {"tcp", "udp"}
                               /\ s.streams \in Nat \ {0}
                               /\ s.opts \subseteq SocketOptions

VARIABLES fds,     \* what each number is open for
          sk,      \* struct iperf_test: settings, ctrl_sck, listener, prot_listener, streams
          job,     \* the function under way: calls left, descriptors and lists it holds
          place,   \* position of iperf_run_client or iperf_run_server
          past     \* history: the function that failed, stops, wrong releases

socketVars == <<fds, sk, job, place, past>>

Numbers == 1 .. MaxDescriptors
NoSocket == 0                     \* -1 in the code
AddressLists == {"local", "server", "res"}

NoDescriptors == [s |-> NoSocket, l |-> NoSocket, buffer |-> NoSocket, file |-> NoSocket]
NoJob == [todo |-> <<>>, fd |-> NoDescriptors, lists |-> {}]

SocketInit ==
  /\ fds = [n \in Numbers |-> "closed"]
  /\ sk = [role |-> "none", proto |-> "tcp", n |-> 0, opts |-> {}, ctrl_sck |-> NoSocket,
           listener |-> NoSocket, prot_listener |-> NoSocket, streams |-> <<>>]
  /\ job = NoJob /\ place = "new"
  /\ past = [failed |-> "", stopped |-> FALSE, farewell |-> TRUE,
             wrongClose |-> FALSE, freedTwice |-> FALSE]

----------------------------------------------------------------------------
(* Calls. "undo" is what the function f releases when the call fails.        *)
Resolve(f, list, undo) == <<[op |-> "resolve", f |-> f, what |-> list, as |-> "", undo |-> undo]>>
Open(f, x, kind, undo) == <<[op |-> "open", f |-> f, what |-> x, as |-> kind, undo |-> undo]>>
Tries(f, n, undo) == [i \in 1 .. n |-> [op |-> "try", f |-> f, what |-> "", as |-> "", undo |-> undo]]
\* What cannot fail.
Release(list) == <<[op |-> "release", f |-> "", what |-> list, as |-> "", undo |-> {}]>>
Keep(x, field) == <<[op |-> "keep", f |-> "", what |-> x, as |-> field, undo |-> {}]>>
Use(x, field) == <<[op |-> "use", f |-> "", what |-> x, as |-> field, undo |-> {}]>>
Close(field) == <<[op |-> "close", f |-> "", what |-> "", as |-> field, undo |-> {}]>>
When(c, calls) == IF c THEN calls ELSE <<>>

CreateSocket(o) ==
  When("local" \in o, Resolve("create_socket", "local", {}))
  \o Resolve("create_socket", "server", {"local"})
  \o Open("create_socket", "s", "data", {"local", "server"})
  \o When("local" \in o, Tries("create_socket", 1, {"s", "local", "server"}) \o Release("local"))
  \o When("local" \notin o /\ "cport" \in o, Tries("create_socket", 1, {"s", "server"}))

\* Mutant of NetDial: the list of the server is freed as soon as it is used.
NetDialFreesEarly(o) ==
  CreateSocket(o) \o Release("server") \o Tries("netdial", 1, {"s", "server"})

NetDial(o) == CreateSocket(o) \o Tries("netdial", 1, {"s", "server"}) \o Release("server")

NetAnnounce(x, kind) ==
  Resolve("netannounce", "res", {}) \o Open("netannounce", x, kind, {"res"})
  \o Tries("netannounce", 3, {x, "res"})            \* SO_REUSEADDR, IPV6_V6ONLY, bind
  \o Release("res")
  \o When(kind = "listener", Tries("netannounce", 1, {x}))     \* listen

----------------------------------------------------------------------------
(* TCP. The listener that took the control connection is thrown away if it   *)
(* lacks an option; until the new one listens the field keeps its number.    *)
Recreates(o) == o \cap {"no_delay", "mss", "bufsize"} # {}

OptionCalls(o) ==
  (IF "no_delay" \in o THEN 1 ELSE 0) + (IF "mss" \in o THEN 1 ELSE 0)
  + (IF "bufsize" \in o THEN 2 ELSE 0)

TcpListenAnew(o) ==
  Close("listener") \o Resolve("iperf_tcp_listen", "res", {})
  \o Open("iperf_tcp_listen", "l", "listener", {"res"})
  \o Tries("iperf_tcp_listen", OptionCalls(o) + 3, {"l", "res"})
  \o Release("res") \o Tries("iperf_tcp_listen", 1, {"l"}) \o Keep("l", "listener")

TcpListen(o) ==
  (IF Recreates(o) THEN TcpListenAnew(o) ELSE Use("l", "listener"))
  \o Tries("iperf_tcp_listen", 2, {"l"})             \* SO_SNDBUF, SO_RCVBUF read back

TcpAccept == Open("iperf_tcp_accept", "s", "data", {}) \o Tries("cookie", 1, {"s"})

TcpConnectOptions(o) ==
  Tries("iperf_tcp_connect", OptionCalls(o) + 2, {"s", "server"})

\* Mutant of TcpConnect: the socket stays open when the cookie cannot be sent.
TcpConnectKeeps(o) ==
  CreateSocket(o) \o TcpConnectOptions(o)
  \o Tries("iperf_tcp_connect", 1, {"s", "server"}) \o Release("server")
  \o Tries("iperf_tcp_connect", 1, {})

TcpConnect(o) ==
  CreateSocket(o) \o TcpConnectOptions(o)
  \o Tries("iperf_tcp_connect", 1, {"s", "server"}) \o Release("server")
  \o Tries("iperf_tcp_connect", 1, {"s"})            \* the cookie

Congestion(o) ==
  When("congestion" \in o, Tries("iperf_create_streams", 2, {"s"}))

----------------------------------------------------------------------------
(* UDP. Buffers that are too small by default are enlarged once; the size    *)
(* then holds for the streams that follow. The socket that got the first     *)
(* datagram of a stream becomes its data socket, and a new one listens.      *)
BufferCheck(f, o) == Tries(f, IF "bufsize" \in o THEN 4 ELSE 2, {})

BufferChecks(f, o) ==
  BufferCheck(f, o)
  \o When("small" \in o /\ "bufsize" \notin o,
          Keep("s", "bufsize") \o BufferCheck(f, o \cup {"bufsize"}))

UdpListen == NetAnnounce("l", "data")

UdpAccept(o) ==
  Use("s", "prot_listener")
  \o Tries("iperf_udp_accept", 2, {})                \* recvfrom, connect
  \o BufferChecks("iperf_udp_accept", o)
  \o Keep("l", "prot_listener") \o UdpListen \o Keep("l", "prot_listener")
  \o Tries("iperf_udp_accept", 1, {})                \* the reply

UdpConnect(o) ==
  NetDial(o) \o BufferChecks("iperf_udp_connect", o)
  \o Tries("iperf_udp_connect", 3, {})               \* write, recv, the reply is one

----------------------------------------------------------------------------
(* The callers. iperf_new_stream does not close the socket it is given.      *)
NewStreamCalls(o) ==
  Open("iperf_new_stream", "buffer", "buffer", {})
  \o Tries("iperf_new_stream", 3, {})                \* unlink, ftruncate, mmap
  \o When("file" \in o, Open("iperf_new_stream", "file", "file", {}))
  \o Tries("iperf_new_stream", 3, {"buffer"})        \* readentropy, iperf_init_stream

ConnectControl(o) ==
  NetDial(o \ {"cport"}) \o Keep("s", "ctrl_sck") \o Tries("iperf_connect", 2, {})

ConnectStream(o) ==
  (IF sk.proto = "tcp" THEN TcpConnect(o) \o Congestion(o) ELSE UdpConnect(o))
  \o NewStreamCalls(o)

\* iperf_accept: what fails in it, or in the listener it starts, also closes
\* the control socket, whose number stays in ctrl_sck.
AcceptControl(o) ==
  LET listen == IF sk.proto = "tcp" THEN TcpListen(o) ELSE UdpListen
  IN Open("iperf_accept", "s", "data", {}) \o Keep("s", "ctrl_sck")
     \o Tries("iperf_accept", 4, {"s"})              \* TCP_NODELAY, cookie, state, parameters
     \o [i \in DOMAIN listen |-> [listen[i] EXCEPT !.undo = @ \cup {"s"}]]
     \o Keep("l", "prot_listener") \o Tries("iperf_accept", 1, {"s"})

AcceptStreamCalls(o) ==
  (IF sk.proto = "tcp" THEN TcpAccept ELSE UdpAccept(o))
  \o When("tos" \in o, Tries("iperf_common_sockopts", 1, {}))
  \o When(sk.proto = "tcp", Congestion(o))
  \o NewStreamCalls(o)

----------------------------------------------------------------------------
(* Closing by number. *)
Lowest(n) == fds[n] = "closed" /\ \A m \in 1 .. n - 1 : fds[m] # "closed"

CloseAll(S) == [n \in Numbers |-> IF n \in S THEN "closed" ELSE fds[n]]

\* Whether a close of S hits a descriptor that is not open for one of kinds.
HitsOther(S, kinds) == \E n \in S \cap Numbers : fds[n] \notin kinds \cup {"closed"}

StreamSocketNumbers == {sk.streams[i].s : i \in DOMAIN sk.streams}
StreamFiles == {sk.streams[i].buffer : i \in DOMAIN sk.streams}
               \cup {sk.streams[i].file : i \in DOMAIN sk.streams}

(* One call works or fails. When no number is free, nothing can be opened. *)
Field(field) ==
  CASE field = "ctrl_sck" -> sk.ctrl_sck
    [] field = "listener" -> sk.listener
    [] field = "prot_listener" -> sk.prot_listener

Stored(c) ==
  CASE c.as = "ctrl_sck" -> [sk EXCEPT !.ctrl_sck = job.fd[c.what]]
    [] c.as = "listener" -> [sk EXCEPT !.listener = job.fd[c.what]]
    [] c.as = "prot_listener" -> [sk EXCEPT !.prot_listener = job.fd[c.what]]
    [] c.as = "bufsize" -> [sk EXCEPT !.opts = @ \cup {"bufsize"}]

CallWorks ==
  /\ job.todo # <<>>
  /\ LET c == Head(job.todo)
         rest == [job EXCEPT !.todo = Tail(@)]
     IN \/ /\ c.op = "try"
           /\ job' = rest /\ UNCHANGED <<fds, sk, past>>
        \/ /\ c.op = "resolve"
           /\ job' = [rest EXCEPT !.lists = @ \cup {c.what}] /\ UNCHANGED <<fds, sk, past>>
        \/ /\ c.op = "open"
           /\ \E n \in Numbers :
                /\ Lowest(n) /\ fds' = [fds EXCEPT ![n] = c.as]
                /\ job' = [rest EXCEPT !.fd[c.what] = n]
           /\ UNCHANGED <<sk, past>>
        \/ /\ c.op = "release"
           /\ job' = [rest EXCEPT !.lists = @ \ {c.what}]
           /\ past' = [past EXCEPT !.freedTwice = @ \/ c.what \notin job.lists]
           /\ UNCHANGED <<fds, sk>>
        \/ /\ c.op = "keep"
           /\ sk' = Stored(c) /\ job' = rest /\ UNCHANGED <<fds, past>>
        \/ /\ c.op = "use"
           /\ job' = [rest EXCEPT !.fd[c.what] = Field(c.as)] /\ UNCHANGED <<fds, sk, past>>
        \/ /\ c.op = "close"
           /\ fds' = CloseAll({Field(c.as)}) /\ job' = rest
           /\ past' = [past EXCEPT !.wrongClose = @ \/ HitsOther({Field(c.as)}, {"listener"})]
           /\ UNCHANGED sk
  /\ UNCHANGED place

\* A list that was never asked for is NULL: freeing it does nothing.
CallFails ==
  /\ job.todo # <<>> /\ Head(job.todo).op \in {"try", "resolve", "open"}
  /\ LET c == Head(job.todo)
         closed == {job.fd[x] : x \in c.undo \ AddressLists}
         asked == {"server", "res"} \cup (IF "local" \in sk.opts THEN {"local"} ELSE {})
     IN /\ fds' = CloseAll(closed)
        /\ job' = [NoJob EXCEPT !.lists = job.lists \ c.undo]
        /\ past' = [past EXCEPT !.failed = c.f,
                      !.wrongClose = @ \/ HitsOther(closed, {"data", "listener", "buffer"}),
                      !.freedTwice = @ \/ ~(c.undo \cap asked \subseteq job.lists)]
  /\ place' = IF place = "listen" THEN "exit" ELSE "failed"
  /\ UNCHANGED sk

----------------------------------------------------------------------------
(* iperf_run_client *)
Runs(calls) == job' = [NoJob EXCEPT !.todo = calls]

BeginRun ==
  /\ place = "new"
  /\ \E s \in SocketSettings :
       /\ sk' = [sk EXCEPT !.role = s.role, !.proto = s.proto, !.n = s.streams, !.opts = s.opts]
       /\ IF s.role = "client"
          THEN place' = "connect" /\ Runs(ConnectControl(s.opts))
          ELSE place' = "listen" /\ Runs(NetAnnounce("s", "listener") \o Keep("s", "listener"))
  /\ UNCHANGED <<fds, past>>

Listed == Append(sk.streams, [s |-> job.fd.s, buffer |-> job.fd.buffer, file |-> job.fd.file])

NextStream ==
  /\ job.todo = <<>> /\ place \in {"connect", "streams"}
  /\ sk' = IF place = "connect" THEN sk ELSE [sk EXCEPT !.streams = Listed]
  /\ IF Len(sk'.streams) = sk.n THEN place' = "test" /\ job' = NoJob
     ELSE place' = "streams" /\ Runs(ConnectStream(sk.opts))
  /\ UNCHANGED <<fds, past>>

\* Mutant of ClientEnd: a farewell that fails is an error, cleaned up again.
ClientEndTwice(written) ==
  LET closed == StreamSocketNumbers \cup (IF written THEN {sk.ctrl_sck} ELSE {})
  IN /\ sk.role = "client" /\ place \in {"test", "failed"}
     /\ fds' = CloseAll(closed)
     /\ past' = [past EXCEPT !.farewell = written,
                   !.wrongClose = @ \/ HitsOther(closed, {"data"})]
     /\ place' = IF written THEN "ended" ELSE "failed"
     /\ UNCHANGED <<sk, job>>

\* iperf_client_end, at the end of a test or from cleanup_and_fail. It leaves
\* the control socket open if IPERF_DONE cannot be written.
ClientEnd(written) ==
  LET closed == StreamSocketNumbers \cup (IF written THEN {sk.ctrl_sck} ELSE {})
  IN /\ sk.role = "client" /\ place \in {"test", "failed"}
     /\ fds' = CloseAll(closed)
     /\ past' = [past EXCEPT !.farewell = written,
                   !.wrongClose = @ \/ HitsOther(closed, {"data"})]
     /\ place' = "ended"
     /\ UNCHANGED <<sk, job>>

\* forceStopIperfTest ends the loop with IPERF_DONE: nothing is closed.
StoppedByUser ==
  /\ sk.role = "client" /\ place = "test"
  /\ place' = "ended" /\ past' = [past EXCEPT !.stopped = TRUE]
  /\ UNCHANGED <<fds, sk, job>>

\* iperf_free_test and iperf_reset_test, with iperf_free_stream for each stream.
FreeStreams ==
  /\ place = "ended"
  /\ fds' = CloseAll(StreamFiles)
  /\ past' = [past EXCEPT !.wrongClose = @ \/ HitsOther(StreamFiles, {"buffer", "file"})]
  /\ sk' = [sk EXCEPT !.streams = <<>>, !.ctrl_sck = NoSocket,
                      !.listener = NoSocket, !.prot_listener = NoSocket]
  /\ place' = "freed" /\ UNCHANGED job

----------------------------------------------------------------------------
(* iperf_run_server *)
ControlComes ==
  /\ place = "listen" /\ job.todo = <<>>
  /\ place' = "control" /\ Runs(AcceptControl(sk.opts))
  /\ UNCHANGED <<fds, sk, past>>

ControlAccepted ==
  /\ place = "control" /\ job.todo = <<>>
  /\ place' = "await" /\ job' = NoJob
  /\ UNCHANGED <<fds, sk, past>>

StreamComes ==
  /\ place = "await"
  /\ place' = "accept" /\ Runs(AcceptStreamCalls(sk.opts))
  /\ UNCHANGED <<fds, sk, past>>

\* A connection with another cookie: iperf_tcp_accept closes the socket, and
\* returns its number all the same. Setting the TOS of a closed socket fails
\* and ends the test; otherwise is_closed finds it out.
StrangerComes ==
  /\ place = "accept" /\ job.todo # <<>> /\ Head(job.todo).f = "cookie"
  /\ fds' = CloseAll({job.fd.s}) /\ job' = NoJob
  /\ IF "tos" \in sk.opts
     THEN place' = "failed" /\ past' = [past EXCEPT !.failed = "stranger"]
     ELSE place' = "await" /\ UNCHANGED past
  /\ UNCHANGED sk

\* The stream is listed. After the last one the UDP listener is closed, or the
\* TCP listener is replaced by one without the options of the test.
StreamAccepted ==
  /\ place = "accept" /\ job.todo = <<>>
  /\ IF Len(Listed) < sk.n
     THEN /\ sk' = [sk EXCEPT !.streams = Listed]
          /\ place' = "await" /\ job' = NoJob /\ UNCHANGED <<fds, past>>
     ELSE LET field == IF sk.proto = "udp" THEN "prot_listener" ELSE "listener"
              anew == sk.proto = "tcp" /\ Recreates(sk.opts)
          IN IF sk.proto = "tcp" /\ ~anew
             THEN /\ sk' = [sk EXCEPT !.streams = Listed, !.prot_listener = NoSocket]
                  /\ place' = "test" /\ job' = NoJob /\ UNCHANGED <<fds, past>>
             ELSE /\ fds' = CloseAll({Field(field)})
                  /\ past' = [past EXCEPT !.wrongClose = @ \/
                                HitsOther({Field(field)}, {"listener", "data"})]
                  /\ sk' = IF anew THEN [sk EXCEPT !.streams = Listed, !.listener = NoSocket]
                           ELSE [sk EXCEPT !.streams = Listed, !.prot_listener = NoSocket]
                  /\ place' = IF anew THEN "relisten" ELSE "test"
                  /\ IF anew THEN Runs(NetAnnounce("s", "listener") \o Keep("s", "listener"))
                     ELSE job' = NoJob

Relistened ==
  /\ place = "relisten" /\ job.todo = <<>>
  /\ sk' = [sk EXCEPT !.prot_listener = NoSocket]
  /\ place' = "test" /\ job' = NoJob
  /\ UNCHANGED <<fds, past>>

\* TEST_END, or CLIENT_TERMINATE: the data sockets are closed and stay listed.
ServerTestEnd ==
  /\ sk.role = "server" /\ place = "test"
  /\ fds' = CloseAll(StreamSocketNumbers)
  /\ past' = [past EXCEPT !.wrongClose = @ \/ HitsOther(StreamSocketNumbers, {"data"})]
  /\ place' = "results" /\ UNCHANGED <<sk, job>>

\* server_timer_proc, after which select fails.
ServerTimerFires ==
  LET closed == StreamSocketNumbers \cup StreamFiles \cup {sk.ctrl_sck}
  IN /\ sk.role = "server" /\ place = "test"
     /\ fds' = CloseAll(closed)
     /\ past' = [past EXCEPT !.wrongClose = @ \/ HitsOther(closed, {"data", "buffer", "file"})]
     /\ sk' = [sk EXCEPT !.streams = <<>>, !.ctrl_sck = NoSocket]
     /\ place' = "failed" /\ UNCHANGED job

\* cleanup_server, after an error or at the end: closes by the numbers in the
\* fields, also those of sockets that are closed.
CleanupServer ==
  LET closed == StreamSocketNumbers \cup {sk.ctrl_sck, sk.listener, sk.prot_listener}
  IN /\ sk.role = "server" /\ place \in {"await", "test", "results", "failed"}
     /\ fds' = CloseAll(closed)
     /\ past' = [past EXCEPT !.wrongClose = @ \/ HitsOther(closed, {"data", "listener"})]
     /\ place' = "ended" /\ UNCHANGED <<sk, job>>

----------------------------------------------------------------------------
(* The rest of the app: files and sockets of other threads. *)
OtherOpens ==
  /\ sk.role = "client" /\ Cardinality({n \in Numbers : fds[n] = "other"}) < MaxOthers
  /\ \E n \in Numbers : Lowest(n) /\ fds' = [fds EXCEPT ![n] = "other"]
  /\ UNCHANGED <<sk, job, place, past>>

OtherCloses(n) ==
  /\ fds[n] = "other" /\ fds' = [fds EXCEPT ![n] = "closed"]
  /\ UNCHANGED <<sk, job, place, past>>

SocketNext ==
  \/ BeginRun \/ CallWorks \/ CallFails
  \/ NextStream \/ StoppedByUser \/ FreeStreams
  \/ ControlComes \/ ControlAccepted \/ StreamComes \/ StrangerComes \/ StreamAccepted
  \/ Relistened \/ ServerTestEnd \/ ServerTimerFires \/ CleanupServer
  \/ OtherOpens
  \/ \E written \in BOOLEAN : ClientEnd(written)
  \/ \E n \in Numbers : OtherCloses(n)

SocketSpec == SocketInit /\ [][SocketNext]_socketVars
----------------------------------------------------------------------------
Left(kinds) == {n \in Numbers : fds[n] \in kinds}

\* When a test has ended and is freed, no descriptor of it is open, whichever
\* call of whichever function failed, except: what the user's stop leaves, the
\* control socket if IPERF_DONE could not be written, and the data socket of
\* one stream if its UDP handshake or iperf_new_stream failed, or the server
\* could not set its TOS (net.c, iperf_tcp.c, iperf_udp.c, iperf_free_stream).
DescriptorsAccounted ==
  place = "freed" /\ ~past.stopped =>
    /\ Left({"listener"}) = {}
    /\ Left({"buffer", "file"}) # {} => past.failed = "iperf_new_stream"
    /\ LET spoilt == past.failed \in {"iperf_udp_connect", "iperf_udp_accept", "netannounce",
                                      "iperf_new_stream", "iperf_common_sockopts"}
       IN Cardinality(Left({"data"}))
            <= (IF spoilt THEN 1 ELSE 0) + (IF past.farewell THEN 0 ELSE 1)

\* Nothing is released twice: no close ever hits a descriptor that something else
\* has opened (the numbers the code closes a second time, the control socket and
\* the listener of a refused client and the data sockets after TEST_END, are not
\* in use again, and the client, whose process is the app, closes no number
\* twice), and on every path the lists of getaddrinfo are freed once (net.c,
\* iperf_tcp.c, cleanup_server).
ReleasedOnce ==
  /\ ~past.wrongClose /\ ~past.freedTwice
  /\ job.todo = <<>> => job.lists = {}
=============================================================================
