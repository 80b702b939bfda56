# CellularLab in TLA+

CellularLab is an Android app that runs iperf3 3.19 inside its own process and shows
the result. This directory holds TLA+ models of the parts of it where several threads,
processes or callbacks meet, the TLC configurations that check them, and proofs that
TLAPS checks. Paths below are relative to `src/`; `K` stands for
`app/src/main/java/com/abhishek/cellularlab`, `C` for `app/src/main/cpp/iperf`, and `I`
for `C/iperf-3.19`.

    tlc -workers 2 -config OneClient.cfg MCOneClient     # a run (PROJECT.json lists them)
    tlapm ControlProtocol_proofs.tla     # the proofs: one module each, named ..._proofs

## The system

| Part | State it keeps | Operations | Talks to |
|---|---|---|---|
| Tabs: `RunTestFragment`, `CommandLineFragment` (`K/ui`) | the buttons, the current `IperfTestManage`, strategy flags | click Start, New Test, Stop; reset | manager (calls), timer |
| Test manager: `IperfTestManage.kt` (`K/tests/iperf`) | a coroutine, the job of an iteration, stop/error/reset flags, loss history, log files | startTest, stopTests, finalizeTest, ramp strategies, append | JNI (calls and callbacks), main thread (posted work) |
| Timer of the screen: `IperfRunner.kt` | a job per text view | startTimer, stopTimer | manager |
| JNI layer: `C/iperf_jni.c` | `global_test`, `reader_thread`, `stop_requested`, a pipe per call | runIperfLive, readerThreadFunc, forceStopIperfTest | client (calls), manager (callbacks) |
| iperf3 client: `I/iperf_client_api.c` | `struct iperf_test`: state, done, ctrl_sck, streams, threads, timers | iperf_run_client and the handler of each state | server (control and data connections) |
| iperf3 server: `I/iperf_server_api.c` | the same structure, one client at a time | iperf_run_server, iperf_accept, handlers, timers, cleanup | clients |
| Common iperf3 code: `I/iperf_api.c`, `timer.c`, `iperf_udp.c`, `iperf_tcp.c`, `net.c` | parameters, results, timer list, packet counters | send/receive, exchange, throttle, statistics | client, server |
| History: `ResultHistoryFragment.kt`, `HistoryAdapter.kt`, `LogEntry.kt` | the list of log files, an AI summary per file | refresh, delete, ask the AI | files, external service |
| The rest | `MainActivity`, viewer, profiles, cJSON, SCTP, authentication, units, errors, tests, `main.c` | | |

The Android build (`app/src/main/cpp/CMakeLists.txt`) contains the client but not
`iperf_server_api.c`, `iperf_sctp.c`, `iperf_auth.c` and `main.c`. The server is
modelled because it is the peer every test talks to.

What is hard, and what makes each part correct:

* **JNI layer.** The thread of a call, its reader thread and the UI thread share three
  static variables without a lock. Correct: a finished call leaves nothing that calls
  back, pointers do not dangle, a call always returns, a stop is reported and harms
  nothing.
* **Client and server.** A one-byte state is stored straight from the socket into a
  variable that a stop writes too; JSON bodies travel between the states; either end may
  close, time out or vanish. Correct: no body is taken for a state, streams pair up with
  opposite roles, results are only exchanged with the client being served, both ends
  come to an end.
* **Manager and tabs.** Main thread, coroutine and job interleave; cancelling does not
  interrupt native code; callbacks finalize a test that a stop may finalize too.
  Correct: native calls do not overlap, a running test can be stopped, at most one native
  call begins after a stop, every test gives the Start button back.
* **Timer list.** Procedures create, cancel and reset timers of the list that is being
  walked. Correct: it behaves as a set of timers with due times.
* **UDP accounting, rates, results.** Two threads count and report without a lock; each
  end leaves its omit period at its own time. Correct: losses are losses, intervals add
  up, a rate and a quota are kept, both ends tell the same of a test, but for a unit that
  a thread is in the middle of.
* **Sockets.** A dozen system calls lie between a socket and its stream and any may fail.
  Correct: what was opened is closed, once.
* **Arguments and parameters.** Static and reused structures carry values from one parse,
  or one client, to the next. Correct: a test means what was asked, whatever came before.
* **Strategies.** A dialog is answered during a later iteration, flags outlive a test.
  Correct: the load stays within what was asked for.
* **Logs, history, AI summary.** Coroutines list and parse files that a test appends to
  and a user deletes; the position of a row is read late, when Delete is clicked. Correct: logs are
  complete, the list is that of the logs that exist, a summary is that of its log.

`PROJECT.json` lists every hazard at its line, with the properties that cover it.

## The modules

| Module | Models | Extends |
|---|---|---|
| `IperfClient` | `iperf_run_client`, its stream threads, and what `forceStopIperfTest` does to a test | |
| `IperfServer` | `iperf_run_server` | `IperfClient` (which has the connections) |
| `TestSession` | abstract specification of the control protocol | |
| `ControlProtocol` | clients, server, stops and a network that is lost; refines `TestSession` | `IperfServer` |
| `IperfServer_proofs` | lemmas about single steps of client and server | `IperfServer`, `TLAPS` |
| `ControlProtocol_proofs` | the theorems about `ControlProtocol`, the refinement of `TestSession` among them | `ControlProtocol`, `IperfServer_proofs` |
| `IperfJni` | calls of `runIperfLive`, their reader threads, `forceStopIperfTest` | `IperfServer` |
| `IperfJni_proofs` | the theorems about `IperfJni` | `IperfJni`, `IperfServer_proofs` |
| `TestManager` | the tabs, `IperfTestManage`, the elapsed timer | |
| `TestManager_proofs` | the theorems about `TestManager` | `TestManager`, `TLAPS` |
| `TimerSet` | abstract specification of the timer list: timers with due times, passes that fire the due ones | |
| `TimerList` | `timer.c` and the loops of client and server that use it; refines `TimerSet` | |
| `UdpCounters` | a UDP stream: numbers, losses, intervals, the end of the omit period | |
| `SendRate` | `iperf_send_mt`, `iperf_check_throttle`, quotas of bytes and blocks, `iperf_check_total_rate` | |
| `StreamSockets` | descriptors and address lists from `netdial`/`netannounce` to `iperf_free_stream` | |
| `IperfArguments` | `iperf_parse_arguments`, the form's arguments, the static `optind` | |
| `TestParameters` | `send_parameters`, `get_parameters`, `iperf_reset_test` over several clients | |
| `TestResults` | `send_results`, `get_results`, what `iperf_print_results` shows | |
| `BandwidthStrategy` | the strategies of `startTest` and the dialog that reduces the bandwidth | |
| `LogHistory` | log files, the history list, deletion, AI summaries | |
| `Traffic_proofs` | theorems about what a stream sends and counts, and about the load it is asked for | `SendRate`, `UdpCounters`, `BandwidthStrategy`, `TLAPS` |
| `Resources_proofs` | theorems about the descriptors of a test | `StreamSockets`, `TLAPS` |
| `LogHistory_proofs` | theorems about the logs and the history | `LogHistory`, `TLAPS` |
| `Parts_proofs` | theorems about the parameters, the timers and the arguments of a test, the refinement of `TimerSet` among them | `TestParameters`, `TimerList`, `IperfArguments`, `TLAPS` |
| `MCParts` | the parts from `TimerList` to `LogHistory`, side by side | all of them |
| other `MC...` | the modes of the tests of a run | the module they are named after |

**IperfClient.** `test[t]` is the part of `struct iperf_test` that control flow reads,
plus the position (`pc`) of the thread that executes the function. Every read or write of
`state`, `done` or the control socket that another thread can get in between is a step:
`LoopTop` is the loop condition, `SelectReadable`/`SelectTimeout` are the returns of
`select`, `ReadState` is the `read()` into `test->state`, the `Handle...` actions are the
cases of the switch (which reads the variable again), `Run` creates the threads, runs
the timers and tests for the end (which does not come while the test is omitting),
`JoinSenders` and `SendTestEnd` follow, `LoopExit` and `CleanupAndFail` are the exits.
`ClientFails` are the exits through calls of the system that hardly ever fail: options of
the control socket, `select`, the timers, threads that cannot be created, cancelled or
joined. Threads of the last kind are `left` behind. `Interrupted` is what a signal does
to a client that is a process of its own. `net[t]` is the control connection as TCP shows it: two
queues, a peer that may have closed, a close that may reset the connection and lose what
was not read. `backlog` holds the connections the server has not accepted, control and
data alike, in order. Data streams carry no data; a stream is its direction.
`ctrl = "closed"` is a descriptor whose number the code keeps after `close`.

**IperfServer.** `srv` is the server's test. Waits inside a handler (`Nread` of the
cookie, the parameters, the results) are positions of their own, and each may end in the
timeout of `Nread`. `Cleanup` is `cleanup_server` followed by the return; `ServerListen`
is the next round of the loop in `main.c`. `ServerFails` are the failing calls of the
system that lead to `cleanup_server`, the states already told to the client included.
The `CLIENT_TERMINATE` of an interrupted client ends the test like `IPERF_DONE`.

**ControlProtocol** adds `Start`, the network (`Cut`) and a stop in its three statements
(`StopBegins`, `StopSends`, `StopShuts`), an interrupted client (`Interrupt`), and two
history variables for the refinement: `stopped` and `exchanged`. **TestSession** says: one client is admitted at a time,
results are exchanged only with that client, a call that returns success has exchanged
results or was stopped. The mapping is `holder <- srv.ctrl`,
`outcome <- [t |-> test[t].result]`.

**IperfJni** has one record per call (`call[c]`: position, memory of its test, reader,
pipe, what was called back), the static variables (`jni`) and the UI thread (`stop`). A
call runs the actions of `IperfClient` on its own test. After any of them it may have a line
to print, and does nothing more until the line is in the pipe: with a full pipe
(`PrintLine`) the client waits for the reader. A step that uses freed memory or
NULL sets `jni.fault`, and nothing happens after that: undefined behaviour is not
described further. `forceStopIperfTest` loads the pointer for the test in its condition,
uses that value up to `iperf_set_send_state`, and loads it again for `shutdown`, because
the calls in between keep the compiler from merging the loads.

**TestManager** has the widgets of each tab, each manager with its coroutine
(`mgr[m].pc`), flags and the job of its iteration, and the main thread: the stop it
executes and the finalizations posted to it. The stop has three steps (its flag, the
native stop, the cancellation), and so has the beginning of a native call: the look at the
flag (`Top`), the launch of the job (`Launch`), its dispatch (`Enter`). A stop may fall
between any of them. The estimate of a hybrid test is a native call of the coroutine
itself, before it looks at any flag. Cancellation stops a coroutine at its next
suspension (`LoopCancelled`) and keeps a job from beginning (`Enter`), but does not
interrupt a native call. What `runIperfLive` does is reduced to what `IperfJni` shows:
`onComplete` is its last callback, after a failed setup there is `onError` alone, and it
may never return. The history variables `late` and `lateTimer` count what a test does
after its own stop. `OnComplete` merges the callback with the return right after it.

**TimerList.** `heap` holds the cells and the heads of the two static lists with their
links, as `list_add`, `list_remove` and `list_resort` leave them; `ptr` are the four
pointers of a test. `FireTimer` is one turn of `tmr_run`: the procedure (`TimerProc`, one
per kind of timer, with the timers it resets or cancels) and what becomes of the cell. The
loop around it is that of a test: the timers are created in the order of the code, each
creation may fail, `select` waits until the first is due, the test's end cancels them. The
mapping to **TimerSet** is `due[k]`, the due time of the cell that stands for `k`; cells,
links and the free list disappear. `TimerSet` says that a pass fires timers that were due
when it began, in the order of their due times, and which it may leave for the next.

**UdpCounters.** The receiving thread is divided at every update of a counter the main
thread reads (`UdpReceive`, `AddToInterval`, `CountGap`/`CountOutOfOrder`, `SetHighest`),
and the main thread at every read (`iperf_stats_callback`) and at the steps of
`iperf_reset_stats`. Datagrams are counted at TEST_RUNNING alone, reports are also made
after it (`phase`), as the server does at TEST_END. The network loses, reorders and repeats datagrams. Jitter is a
floating point average that nothing depends on, and is left out.

**SendRate.** A call of `iperf_send_mt` is divided at its sends, each of which may write a
part of a block, and at its looks at the clock. The stream counts what it writes or reads
in one step (`WritePart`, `ReadPart`), the test in another (`CountPart`, `CountRead`), and
`iperf_reset_stats` clears the counters of the test and of the stream in two (`OmitOver`,
`OmitStream`), so that a part can be in one and not in the other. The counters are C11
atomics here; the test's bytes and blocks change in one step, as a test ends by one of them
and never by both. The ring of
the bitrate limit has `RingSize` entries whatever the window is: what a window with more,
or with none, gives is undefined, and any outcome is allowed. Units of a block replace bytes, ticks
replace microseconds; a test lasts a day at most (`MAX_TIME`), which keeps the 64-bit sums
far from their limits.

**StreamSockets.** A function of the code is a row of system calls with what it releases
if one fails (`NetDial`, `TcpConnect`, `UdpAccept`, ...). `CallWorks` and `CallFails` are
the only steps inside a function; the actions around them are what `iperf_run_client` and
`iperf_run_server` do between two functions. Numbers are given out as the kernel does, the
lowest first, and other threads of the process open and close theirs in between, which is
what makes a second `close` of a number dangerous.

**IperfArguments.** A command is a sequence of options; `ParseOption` applies the setter of
each, `ParseOptions` is the loop over them, `Parsed` adds the checks at the end. The form
is translated by `FormArguments`. The static `optind` of `getopt_long` stays where a
refused parse left it.

**TestParameters** and **TestResults.** A JSON object is a function from the members that
are there to their values. `TestParameters` has one server and one client after the other;
`Sticky` names the parameters `iperf_reset_test` does not give back. `TestResults` has
both ends of one test, each with its counters, its own end of the omit period and its own
summary; a server of before 3.17, which does not say what it omitted, is one of the cases.
A sender numbers a unit, writes it and counts it in three steps and may be cancelled
between them; a receiver reads it, counts it and looks at its number; datagrams are lost,
come late, also after the end of the omit period, and come twice. A thread that is in the
middle of a unit when its main thread notes, clears, sends or prints the counters is
remembered in `caught`: its stream is exempt from the equations that this can break, and
from no others.

**BandwidthStrategy.** `trial` is the coroutine of `startTest` with its variables, `modes`
the flags of the fragment, `dialogs` the dialogs nobody has answered yet. An iteration
reports the highest rate of any of its lines (`peak`, in per cent of its load) and, apart
from that, the share of its packets that arrived. The smart ramp goes up when the app's
"achieved" rate is 90 % of the target; that is the maximum of every rate printed, of single
intervals and of the sender's own summary too (`IperfTestManage.kt:223-227`), so an
iteration of which far less than 90 % was sent, or arrived, can have it, against
`README.md:92` of the app. `LoadWithinBounds` states what the code does. It also has to except the reduction: the
new bandwidth is computed from the step of the ramp (50, line 107), not from the bandwidth
entered, so that agreeing to reduce a test of 20 Mbit/s has it continue with 40.

**LogHistory.** `disk` maps the names of files to the texts in them and the time of their
last write. What runs on the main thread is one action (`Resume`, `ShowRows`,
`ConfirmDelete`, `Analyze`); a coroutine on `Dispatchers.IO` takes a step per file
(`ListFiles`, `ParseFile`, `AnswerArrives`, `WriteAnswer`). A text stands for one of the
lines the history looks for. An exception that nothing catches sets `crashed`, and nothing
happens after it. No two writes have the same time: a second write within the resolution
of `lastModified` would go unnoticed in the app and is outside the model.

**MCParts.** These parts share no state in the code. One run checks them all: every
behaviour is one of a single part while the others stay as they began, so the states add
up instead of multiplying, and each property is one of its part.

The definitions named "Mutant of ..." are not used by any specification. Each is a
plausible mistake in the definition after it; with the mistake put in, TLC finds the
property named in `PROJECT.json` violated, so the property does depend on that code.

## The runs

| Run | Configuration | Bounds | Shows |
|---|---|---|---|
| `sessions` | `ControlProtocol.cfg` | a sender that may be stopped, a receiver that may be interrupted, 1 stream, failing calls, no cut | `TypeOK`, `OneClientAtATime`, `NoSenderAfterTestEnd`, the refinement of `TestSession` (1.46 million states) |
| `one_client` | `OneClient.cfg` | one bidirectional client, 2 streams a direction, stop, cut, failing calls | `StreamRolesComplementary`, `NoDesync`, `ClientReturns`, `ServerFreesUp`, `StopEndsCall` (28 000 states) |
| `jni_calls` | `IperfJni.cfg` | two calls, 1 line in the pipe, 1 stop | `CompletedCallIsQuiet`, `DanglingOnlyAfterError`, `StopIsReported` (589 000 states) |
| `one_call` | `OneCall.cfg` | one bidirectional call, 2 stops, cut, failing calls | `WorkersJoinedUnlessStopped`, `CallReturns` (389 000 states) |
| `test_manager` | `TestManager.cfg` | one tab, 2 tests, 2 iterations, hybrid or not | seven properties of `TestManager`, that the Start button comes back among them (1.16 million states, under 3 minutes) |
| `parts` | `Parts.cfg` | see below | the refinement of `TimerSet` and the 18 invariants of the parts (2.58 million states, 3 minutes) |
| `vanished_client` | `Vanished.cfg` | one receiving client, cut | `ServerFreesUp` is violated |
| `graceful_stop` | `GracefulStop.cfg` | one call, 1 stop | `GracefulStop` is violated |
| `stop_unblocks` | `StopUnblocks.cfg` | one call, 1 stop, cut | `StopUnblocks` is violated |
| `early_reset` | `EarlyReset.cfg` | one test | `ResetAfterComplete` is violated |
| `refused_arguments` | `RefusedArguments.cfg` | one test of the command tab | `StartComesBack` is violated |
| `other_deleted` | `OtherDeleted.cfg` | one test, 2 parts, 2 loads, 2 dialogs | `DeletesWhatWasAsked` is violated |

`CHECK_DEADLOCK FALSE` is set everywhere because every one of these systems may stop:
the calls are over, the clients have returned, nobody clicks, or a fault has ended the
process. That nothing hangs earlier is what the liveness properties say.

Bounds: `Tests` (clients, calls), `NumStreams`, `Omits` (tests with an omit period),
`MayStop`, `MayCut`, `MayInterrupt`, `MayFail` (tests during which a call of the system may
fail), `MaxStops`, `MaxLines`, `Managers`, `Iterations`. Two clients are enough for one to be served and one
refused or cleaned up; two calls are enough for a call to see what the one before left in
the static variables; a pipe of one line is full after one write; two managers are enough
for a test to begin while the native call of the one before runs; two iterations contain
a first and a last one, and the pause, back-off and error flag between them. Modes differ
between runs so that sender, receiver and bidirectional tests all occur.

What the bounds of `parts` let happen, part by part:

| Part | Bounds | Enough because |
|---|---|---|
| `TimerList` | `MaxTests` 1, `MaxClock` 5, `Grace` 1; durations 0 and 2, omit 0 and 1, intervals of 1 and 2, bounded or not, both roles | all four timers are on the list at once, with equal and different due times; the omit timer moves the others while the list is walked; passes come late |
| `UdpCounters` | `MaxPackets` 3, `MaxDups` 1, `MaxIntervals` 2 | a gap, a late datagram that fills it, one that comes twice, and an interval before, in and after the end of the omit period |
| `SendRate` | `BlockSize` 2, `Multisend` 2, `LastTick` 4, `MaxBytes` 6, `RingSize` 2; ten kinds of stream, senders and receivers | blocks cut into parts, bursts, quotas on either side of the end of an omit period, parts in the middle of being counted then; windows of no interval, of as many as the ring has and of more |
| `StreamSockets` | two streams, `MaxDescriptors` 12, `MaxOthers` 1; TCP and UDP, both roles, the options that add calls | every call of every function fails once, before and after a first stream exists, with a foreign descriptor that takes a freed number |
| `IperfArguments` | every order of eleven sets of options, 16 forms, `MaxParses` 2, files of 0 and 7 bytes | every order of options that depend on each other; a parse after a refused one |
| `TestParameters` | clients that set one parameter each, `MaxServed` 3 | a value of the first client meets two later ones |
| `TestResults` | 12 kinds of tests, 1 to 3 units a stream, `MaxCopies` 1, `MaxLost` 1 | a unit in and one after the omit period of either end, a datagram lost in it that comes after it, one that comes twice, a thread in the middle of a unit at every step of the main threads; two streams and two directions with a unit or two each |
| `BandwidthStrategy` | 8 forms with 2 or 4 iterations, `Peaks` 0, 90 and 120, `Shares` 0 and 100, `Estimates` 0, 5 and 60, `MaxStarts` 2 | three high losses in a row and an iteration after them; a second test sees the flags of the first |
| `LogHistory` | one test of 2 iterations whose log has two parts, 2 loads, 1 request at a time, `MaxLoads` 2, `MaxDialogs` 2, logs of up to 2 texts | two loads overlap with each other, with writes and with a deletion; a summary of either part |

`parts` checks safety and a refinement that has no fairness. Fairness, in the other runs:
weak fairness of every thread, because a thread that can run does; strong
fairness of `TimeUp`, because the timer is looked at each time round the loop and will be
due at one of them. Nothing is assumed of users, of the network (it may be lost or not),
of calls of the system that fail, of transfers that end early, nor of stream threads. In
`TestManager` the main thread, the coroutines and the jobs are fair, but nothing says that
a native call ends: `StartComesBackUnlessRefused` excepts a call that hangs while nobody
stops it (`CallHangs`), and shows that a stop gives the button back even then.
Timeouts of `Nread`, `netdial` and `select` are steps that may be taken at any moment when
the code waits with one, so weak fairness makes a wait with a timeout end, and a wait
without one may last.

### What the violations mean

* `vanished_client`: `iperf_server_api.c:676` skips the receive timeout when the server
  only sends. If the network of a `-R` client is lost before the test's timers are made,
  nothing wakes the server, although lines 640-644 say a test in which nothing is
  received "should be forced to end".
* `graceful_stop`: a call whose pipe or arguments fail (`iperf_jni.c:132-158`) frees its
  test and returns; only the end of a test that ran sets `global_test` to NULL (line 183).
  A stop that comes then reads `global_test->done` of freed memory (line 89). Its comment
  is "Gracefully requests iperf to stop" (line 73). That a stop may also have a test freed
  under its senders is what `WorkersJoinedUnlessStopped` excepts.
* `stop_unblocks`: while the client connects, `ctrl_sck` is -1. The stop then sends
  nothing and shuts nothing down ("Unblocks select()", `iperf_jni.c:92`), and `done` is
  cleared again by `create_client_timers`.
* `early_reset`: `stopTests` finalizes at once; the reset that "Only runs after runJob's
  onComplete" (`RunTestFragment.kt:151`, `CommandLineFragment.kt:143`) runs while the
  native call does.
* `other_deleted`: the dialog asks "Are you sure you want to delete this log file?"
  (`HistoryAdapter.kt:164`) about the row whose menu was opened, but "Delete" takes the
  position its holder has by then and deletes `logs[pos]` (lines 166-170). If a refresh
  shows its rows while the dialog is open, the log of another row is deleted.
* `refused_arguments`: `runIperfLive` reports arguments it cannot parse with `onError`
  alone; the test is never finalized and its inputs stay disabled, against "Re-enable
  inputs on completion" (`CommandLineFragment.kt:168`).

The passing properties with "Unless" or "Only" in their names say exactly how far these
faults reach: `WorkersJoinedUnlessStopped`, `DanglingOnlyAfterError`,
`StartComesBackUnlessRefused`, and `TimerStopsUnlessStopped`, which excepts the timer of a
test that was stopped before its coroutine started it, and no other. So does
`CurrentWhenUnchanged`: nothing orders two loads of the history, so the older listing may be shown last while the
change is already noted, and no later resume loads again. `StartComesBackUnlessRefused`
is checked with at least one iteration: with 0, which the form accepts, the loop body is
never entered and nothing finalizes the test.

Other passing properties state what the code does where that is less than its comments
or its README say. Each exception is as narrow as TLC and the proofs allow:

* `AtMostOneLateCall`: a stop that comes between the look at its flag
  (`IperfTestManage.kt:146`) and the dispatch of the job (launched at 207), or before the
  estimate of a hybrid test, does not keep that call from being made: one call, never two.
* `EndsWithQuota`: `iperf_reset_stats` "Reset[s] all of a test's stats back to zero"
  (`iperf_api.c:3478`), but of the test's own counters only those of what was sent (3499).
  A client that receives N bytes with `-O` and `-n` ends when it has received them in the
  omit period and after it together.
* `LossWithinTotal`: a datagram that is lost in the omit period and arrives after it takes
  one off the losses of the measured period, which can then be -1 in the summary, although
  `iperf_udp.c:149-154` guards against a count below zero. With a server of before
  3.17 that lost datagrams of the omit period, the JSON of a stream subtracts the -1
  that stands for an unknown number (`iperf_api.c:4132`); the sums and the text do not.
* `ReportsAgree`: a sender is cancelled, or cleared, between its write and its count, and a
  receiver between its read and its count, so one unit of such a stream may be missing on
  one side; the network's copies of datagrams count as received.
* `RateLimitExact`: the window of `--server-bitrate-limit` may be longer than the ring
  of 60 intervals (`iperf_api.c:1883-1888`, 3425), or of none (`/0`, line 1328); of these
  nothing is promised.
* `LoadWithinBounds`: what a smart ramp needs to go up, see `BandwidthStrategy` above.

## The proofs

`ControlProtocol_proofs` proves, for any set of clients, any modes, any number of streams,
and any stops and cuts:

* `Types`: `Spec => []TypeOK`;
* `OneAtATime`: `Spec => []OneClientAtATime`;
* `SendersJoined`: `Spec => []NoSenderAfterTestEnd`;
* `Synchronised`: `Spec => []NoDesync`;
* `RolesAgree`: `Spec => []StreamRolesComplementary`;
* `Refinement`: `Spec => SessionSpec`, the protocol implements `TestSession`.

They rest on `ClientAssumption` (modes, at least one stream), `ServerAssumption` (`NoTest`
is not a client) and `ProtocolAssumption` (`MayStop`, `MayCut`, `MayFail` and `MayInterrupt`
are sets of clients, `MayFail` of none besides; the app cannot be interrupted, so
nobody may be both stopped and interrupted). One
invariant, `IInv`, carries all of them; besides `TypeOK` it has two parts about the
server and six about each client:

* `Serving`: in which positions the server has a client;
* `Accepting`: the streams it has accepted are those that receive, then those that send,
  never more than its client creates, and all of them once the test runs;
* `StreamsInOrder(t)`: the client creates its streams in the order of its mode, and what
  the server accepted plus what waits in the backlog is no more than that. With
  `Accepting` this gives `RolesAgree`: both ends count the same streams in the same order;
* `EndedOnceSaid(t)`: `TEST_END` and everything that answers it, wherever it is, in the
  client's state, in either queue or in the server's position, means that the senders were
  joined. The property speaks of the client's state alone; but the state is what the
  server sent, so it has to be followed around the whole loop;
* `ResultsAwaited(t)`: a body of results is in at most one queue, once, and only while the
  client waits for it or after it has given up. A stop that overwrites the state while the
  body is under way is why this is not a matter of states;
* `NoFarewell(t)`: the server never says `IPERF_DONE`, so a client whose state it is has
  been stopped or has finished;
* `Admitted(t)` and `Success(t)`: what `OneClientAtATime` and the refinement say, with the
  moments in which a success is decided and not yet returned.

The steps of `TestSession` follow from `IInv`: `Admit` is the server's `AcceptClient`,
`Exchange` the results it receives and answers, `Return` the end of `iperf_run_client`
or its failure, `Release` the server's `Cleanup` or its timer, and every other step is a
stutter.
`IperfServer_proofs` has the lemmas: for each action, which clients it leaves alone and
that it keeps the types; then, once for all client events and once for all steps of the
server, what they may do to the queues (`ClientQueues`, `ServerQueues`) and to the
positions and states (`ClientTurn`, `ServerTurn`). The invariants are kept by arguments
about these summaries, and `IperfJni_proofs` uses the same ones. TLC checked `IInv` with two
clients and with one bidirectional client before it was proved.

`IperfJni_proofs` proves, for any set of tests, any modes, any number of streams, lines
and stops, and any behaviour of the server and the network:

* `JniTypesCorrect`: `Spec => []JniTypeOK`;
* `CompletionIsQuiet`: `Spec => []CompletedCallIsQuiet`;
* `DanglingPointer`: `Spec => []DanglingOnlyAfterError`;
* `ThreadsJoined`: `Spec => []WorkersJoinedUnlessStopped`;
* `StopsAreReported`: `Spec => []StopIsReported`.

They rest on the assumptions `JniAssumption` (NULL is not a test; `MayCut` and `MayFail` are
sets of tests; the bounds are numbers)
and, the first three, on one inductive invariant, `Inv`. `CompletedCallIsQuiet` and
`DanglingOnlyAfterError` are not inductive: that the
reader of a completed call has ended depends on `JoinReader` having waited for the right
thread, but the code joins the static `reader_thread`. `Inv` therefore adds `Alone` (one
call is in flight), `Statics` (in which positions `global_test` and `reader_thread` are
those of the call in flight), `Memory` (when the test of a call is live and freed),
`Readers` (an ended reader has emptied its pipe) and `Failed` (a returned call that
`global_test` still names has failed in its setup). None of these speaks of the client,
the server or the network, so steps of theirs are covered by one lemma, `FrameInv`;
`CallInv` has a case per step of a call and of its reader, `StopInv` covers the stop,
`NextInv` puts them together.

The last two do involve the client, and need `TInv`: `Inv` with the types and, for each
call, `Threads` and `Reported`. `Threads(c)` is `EndedOnceSaid` for a test whose memory is
in use, and says that unless a stop marked it, an `IPERF_DONE` in its state was put there
by the client's own end, after the senders were joined. Threads that could not be joined are exempt
(`left`): the code gives up on them. `Reported(c)` follows
`stop_requested`: it is set from the moment a stop has begun until the call has read it,
and a stop that has not marked its test yet will find `global_test` gone once the call has
forgotten the request.

`TestManager_proofs` proves, for any tabs, any number of tests and any number of
iterations (0 included):

* `TypesCorrect`: `Spec => []TypeOK`;
* `OneJob`: `Spec => []OneJobPerManager`;
* `FinalizedAtMostTwice`: `Spec => []FinalizedOnce`;
* `NoOverlap`: `Spec => []CallsDoNotOverlap`;
* `StopReachesTheCall`: `Spec => []RunningTestCanBeStopped`;
* `OneLateCall`: `Spec => []AtMostOneLateCall`;
* `TimerStops`: `Spec => []TimerStopsUnlessStopped`.

They rest on `ManagerAssumption` (the two kinds of tabs are disjoint, None is neither a
tab nor a manager, the count is a number). The inductive invariant `Inv` adds to the
types: `Unborn` (a test nobody started has no job and nothing posted), `Jobs` (the job for
every position of the loop, and that an unfinished job belongs to an iteration that
counts), `Owners` and `Stops` (a tab with a Stop button knows its manager, which was not
stopped yet: a test is stopped once), `Finalized` (the stop finalizes a test once, its
last iteration once: `Final` says the latter can do it no more) and `Buttons` (while
nobody stops a test, one that is not finalized has the buttons of its tab). That calls of
a tab do not overlap follows from the last two: an unfinished call means a test that is
not finalized, which holds its tab's Stop button and keeps its Start button disabled, and
a tab has one manager. `Kept` takes care of the steps that neither start, stop nor
finalize a test; they have only to preserve the types, `Jobs` and `Final`. TLC checked
`Inv` with a tab of each kind, two managers and two iterations before it was proved.

For `OneLateCall`, `Lates` says at which positions a stopped test may be once a call of it
has begun after its stop: at ones from which the loop reads the flag before it launches
anything. `TimerStops` needs `Timers`, which is the property together with the tab
the test belongs to; that nobody finalizes a test before it has started its timer, but its
own stop, is `Fresh`.

`Parts_proofs` has the theorems about three parts of a test; they share nothing but the
module. For any clients and any number of them at one server it proves
`ServedAsAskedAlways`: `ParametersSpec => []ServedAsAsked`. It rests on
`ParametersAssumption` (values are numbers; a parameter that is only sent when set has 0
as its default, or the client cannot ask for 0). The invariant says what the server holds
between two tests (`ServerReset`), what the client under way sends (`ClientKnown`), and
where a sticky value can come from (`StickyKnown`): the property alone does not say what
the next client will find.

About the timer list it proves, for any settings of any number of tests, any grace period and
passes that come as late as they like, from `TimerAssumption` (times and bounds are numbers):

* `TimersLinkedAlways`: `TimerSpec => []TimersLinked`;
* `TimerSetImplemented`: `TimerSpec => TimerSetSpec`, the refinement of `TimerSet`.

`TimersLinked` follows the links from the first cell. The proof turns that around: it gives
each list a name, a sequence of cells, and says that the links are those of the sequence
(`IsActive`, `IsFree`). `ChainIs` shows that following the links finds the sequence, as
four cells are enough: there is a timer of each kind at most (`RoomForTimer`). Then what
`list_add`, `list_remove`, `list_resort` and the four functions of `timer.c` do to pointers is
shown to be putting a cell into a sequence, taking it out or moving it (`AddList`,
`RemoveList`, `ResortList`), with every cell on one list (`Lists`), the list sorted, and
the other cells in their order (`SameOrder`). The invariant, `TimerInv`, says besides
that the pointers of the test name exactly the cells of the active list (`Named`), and, of
a pass under way, that the cell it goes on with is still on the list and that what precedes
it has fired (`WalkOK`). This is where the code is delicate: `tmr_run` takes the next
cell before it moves the present one, and the omit timer moves two others meanwhile.
Until it fires everything that precedes the next cell has fired; after that only those
that precede a next cell which is due, and `TimerSet` promises no more than that.
For the refinement the due time of a kind is that of the cell its pointer names (`DueIs`), and
each action is a step of `TimerSet` or none (`TimerSetStep`).

For any options in any order, from the form or typed, and any number of parses in one process
it proves `AcceptedArgumentsAgreeAlways`: `ArgumentsSpec => []AcceptedArgumentsAgree`, from
`ArgumentsAssumption` (a command is a sequence; nothing is assumed of its options). The
property holds of one parse whatever came before, so the argument is about the loop.
`Told` says what the fields that depend on each other are when a set of options has been
read and none refused: `OptionTells` has a lemma for each option they depend on and shows
that the others leave them alone (`Plain`). It is more than the property says, for `-s`
makes a server of `-R` a sender and `--bidir` keeps the retransmissions it had: such
fields are wrong in the middle of the loop, and only the check of the client's options
after it (`RoleChecked`) refuses them. A fold over a sequence is a function on sets of
positions; that it exists is shown by its least counterexample (`TurnsExist`).

`Traffic_proofs` has the theorems about what a stream sends and counts. It proves, for every
rate, burst, quota, block size, ring and window, however blocks are cut into parts and the
steps of the two threads interleave, from `RateAssumption` (numbers; a block, a call and a
ring have at least one part):

* `RateKeptAlways`: `RateSpec => []RateKept`;
* `QuotaTransferred`: `RateSpec => []EndsWithQuota`;
* `RateLimitExactAlways`: `RateSpec => []RateLimitExact`.

That a stream is at most one burst ahead is not inductive: the light that lets it send may
have been set some blocks ago. `GreenMeansBehind` says that the stream was not ahead when
it was set, and `CallLimited` how much one call can have sent since. For the quota, `QInv`
adds `QuotaCounts`: the bytes the test has counted, with those of the part that is between
its write and its count, are those sent since the omit period ended and the part that was
in between then; the blocks counted are no more than fit into them but for one, the
block that was under way when the period ended. `DoneMeasured` says that a test
that is over is not omitting, so that no later reset takes the count back. For a receiver,
`ReadsCounted` (in `SidesInv`) says that everything it read is counted, or about to be, the
omit period included: nothing clears what the test has received. TLC checked `QInv` before
it was proved.

For the limit of a server, `LimitInv` says where in the ring the last intervals are
(`RingKeepsWindow`) and that as many of its entries as the window has add up to them, if the
window fits in the ring. The sum is a recursive function
(`SumTo`); that it exists, and what it is after one term was replaced or all were shifted,
is shown for a least number for which it would not hold, as the induction theorems of the
library cannot be used.

`Traffic_proofs` also proves, for any number of datagrams, lost, reordered and repeated in
any way, and any interleaving with the callbacks of the main thread, from `UdpAssumption`
(the bounds are numbers):

* `LossIsRealAlways`: `UdpSpec => []LossIsReal`;
* `OmittedStaysOmitted`: `UdpSpec => []OmittedLossStaysOmitted`;
* `ReportsAddUp`: `UdpSpec => []IntervalsAddUp`.

The properties are about the moments between two datagrams, the last two when no callback
runs either; `UdpInv` adds what holds in between (`NotLookedAt`: a late datagram that has
arrived is still counted as lost; `GapCounted`: the gap is counted, the highest number not
yet set). `OInv` adds the same about the measured period alone (`OmittedKept`), and two
statements about each position of the main thread: `BytesBounded`, whatever races, and
`ExactIfNotRaced`. A report is begun, emptied and recorded in different steps, so the
bytes in hand and those reported are added up differently in each. TLC checked `OInv`
before it was proved.

For any forms, highest rates, shares, estimates and answers `Traffic_proofs` proves
`LoadBounded`: `StrategySpec => []LoadWithinBounds`, from `StrategyAssumption` (rates and
estimates are numbers, shares are percentages; a
bandwidth is a number, as the field only takes digits). The property speaks of an iteration
that runs; `SInv` says of each position what the next load will be. `LoadsBounded` bounds
the load, the step of the ramp and the step that waits to be stored: a step is never below
10 nor above both 50 and what was asked for. `NotBack` says that as long as nothing is
reduced a load is the step of its strategy, which is no less than the load before;
`GoesUpIfShown` follows the 90% from the report to the step; `TcpUnlimited` says that a TCP
test without the hybrid flag never has losses to offer a reduction for. The
proof corrected the property: a load can be below 10 Mbit/s also when the estimate of a
hybrid test is, which `Estimates` 0 and 30 had hidden; the run now has 5 and 60. TLC checked
`SInv` with bandwidths from 0 to 120 before it was proved.

`Resources_proofs` proves, for any number of streams, descriptors and other threads'
descriptors, any options and whichever call of whichever function fails, from
`SocketAssumption` (the bounds are numbers, a test has a stream, its options are those of
the model):

* `SocketsInvariant`: `SocketSpec => []SocketInv`, with the types;
* `SocketsReleasedOnce`: `SocketSpec => []ReleasedOnce`;
* `SocketsAccounted`: `SocketSpec => []DescriptorsAccounted`.

What a failing call has to release depends on what its function holds just then, and the
properties do not say what that is. A function is a row of calls put together from shorter
ones (`iperf_connect` calls `netdial`, which calls `create_socket`), so the proof speaks of
what is held between two calls (`Holdings`: the lists, what each local variable is open
for, whether the listener is closed). `Flow(m, row, a, b)` says that a row, begun with `a`,
leads to `b`, and that every call on the way may be made (`Fine`): a call that may fail
releases what is held then and nothing else (`Safe`). A lemma for each function of `net.c`,
`iperf_tcp.c`, `iperf_udp.c` and `iperf_api.c` shows its flow for all options, and follows
from those of the functions it calls.

The invariant has, besides the types, a part for each kind of moment. While a function is
under way, `JobOK` says that it holds some `a` from which its remaining calls lead to its
`Goal`, that its variables are open for what `a` says (`SlotsOK`, `StatesOK`), that no field
and no stream has the same number (`ApartOK`), and that whatever is open is held by
somebody (`AccountsOK`). `Fields` and `Files` say what the fields of `struct iperf_test`
and the streams in its list own. `RestOK` speaks of the moments between functions and after
a failure, when at most one data socket, of the functions that forget theirs, is owned by
nobody; `EndOK` of the end. The server keeps numbers that it has closed: `Lax` is the span
from its error, or from `TEST_END`, to `cleanup_server`, in which a field may name a closed
number but never one that another thread has opened. TLC checked `SocketInv` (27 000 states)
before it was proved.

`LogHistory_proofs` proves, for any number of tests, parts, loads and requests and any
deletions, and without an assumption about the constants:

* `RowsHaveFilesAlways`: `LogSpec => []RowsHaveFiles`;
* `SummaryAlways`: `LogSpec => []SummaryOfThisLog`;
* `CurrentAlways`: `LogSpec => []CurrentWhenUnchanged`;
* `LogsCompleteAlways`: `LogSpec => []LogsComplete`.

For the first, `IInv` says that while no log was deleted during a load, each load and the
list hold logs that exist, each once (so that deleting one row leaves no other row of that
log), and that the position of an open dialog is one of the list. This says nothing once
a deletion has raced, but the other two still have to know what the names stand for:
`NamesOK` says it whatever was deleted, so that no log is ever taken for a summary. With
it, `SummariesOK` follows the texts of a summary from the request to the file and from
the file to the view: each log begins with them. A log grows only at its end, or loses a
part to a deletion, which is what `cut` remembers.

`CInv` is about the logs not written since `shouldRefreshLogs` recorded the newest time
(`Old`): while loads did not overlap, each of them is in the list with its present texts,
or, during the load, still to be parsed or parsed with its present texts, newest first.
When `shouldRefreshLogs` finds no change, every log is `Old`, and the number of logs that
it compares leaves no room for a row more. TLC checked `CInv` (3.7 million states, two
loads, two dialogs) before it was proved.

`LInv` says of each log that was not cut that its files are the parts 1 to some number, all
but the last of them full, and that they hold what the test appended (`WholeLog`):
`getWritableLogFile` then finds the last part or the one behind it, never a gap, and a
text goes to the end of the whole. `FlattenSeq` is recursive; the lemmas about it
(`FlatExists` to `FlattenLast`) show, again for a least length for which they would not
hold, what it gives when a sequence is appended or the last one grows. TLC checked `LInv`
(4.4 million states: two tests, parts of one text and of two) before it was proved.

Three lemmas stand in for the library's induction theorems, which take an operator:
`LeastNumber` (a set of numbers that is not empty has a least one, from the library's
well-founded order of the naturals), `Largest` (so has one that is bounded a largest),
and `WritablePartExists` (of the parts of a log, finitely many are full: there is one to
append to, which the `CHOOSE` of the model needs).

Only model-checked: all liveness, which the prover does not handle, and the two properties of
`TestResults`. The provers have no induction over data; what is proved of `FlattenSeq`, of the
sum of the ring and of the loop over the arguments had to be shown for least
counterexamples, one recursive definition at a time.
`TypeOK` of `TestManager` and `JniTypeOK` are proved and not checked by a run.

## What is not modelled

* Content on the control connection: in `ControlProtocol` parameters, results and cookies
  (a client's cookie is its identity) are bodies that arrive whole, are not what was
  expected, or do not arrive. What parameters and results say is in `TestParameters` and
  `TestResults`. How `JSON_read` and `JSON_write` frame a body, and cJSON, which parses it,
  are in neither.
* Time on the control connection: a timeout may happen whenever the code waits with one.
  The statistics, reporter and omit timers only wake the loop there (`SelectTimeout`);
  when they fire and what they do is in `TimerList`, `UdpCounters` and `TestResults`.
* The text and JSON of reports, jitter, round trip times; units, host names, DSCP, the
  locale and the other utilities. Nothing the properties tell apart depends on them.
* SCTP, authentication, `main.c` beyond its loop: not in the Android build.
* Server: its stream threads and how they are cancelled, its idle restart (off by
  default). The bitrate limit is in `SendRate`, the UDP listener in `StreamSockets`.
* Exits of `iperf_run_client` before it connects (a log file, the CPU affinity, JSON output),
  a `listen` that fails, and failing thread attributes at the server, which goes on. `select`
  that is interrupted by a signal which does not end the process.
* Multipath TCP: `HAVE_IPPROTO_MPTCP` is not defined in the configuration of the Android
  build, so the app neither sends nor reads that parameter.
* The emulation of thread cancellation by a signal (`iperf_pthread.c`): cancelling and
  joining a thread is one step.
* History: sharing and opening a log, the sign of a row, the key and the model of the AI
  service, the text view of a test. Two writes of a file within the resolution of its
  modification time.
* One call of `runIperfLive` at a time in `IperfJni`. `TestManager` shows for one tab
  that calls overlap only after a stop; two tabs can overlap at any time, and
  `PROJECT.json` lists that as a hazard without a property.
* Configuration changes of the activity, and a process that is killed: no state of a test
  survives it.

## The plan

Done: the control protocol, the JNI layer, the manager's loop, timers, UDP accounting,
rates, sockets, arguments, parameters, results, strategies, logs and history; theorems
about every safety property that a passing run checks, but those of the results.

Left, in this order:

1. An invariant of `TestResults` for threads that are in the middle of a unit, and from it
   theorems about `LossWithinTotal` and `ReportsAgree`.
2. `BandwidthStrategy` composed with the loop of `TestManager`, so that a stop falls
   between a dialog and its answer.
3. The stream threads of the server, with `server_timer_proc` freeing streams that they
   still use.
4. Two tabs at once on the static variables of `IperfJni`.
5. The framing of bodies that arrive in parts.
