--------------------------- MODULE IperfJni_proofs ---------------------------
(***************************************************************************)
(* What the calls of runIperfLive leave behind, for any tests, any server  *)
(* and any number of stops.  Inv speaks of the calls and of the static     *)
(* variables of iperf_jni.c alone: a step of the server, of a stream thread*)
(* or of the network does not touch either.  TInv adds what iperf_run_client*)
(* has done with the stream threads by the time the memory is freed, and   *)
(* what a call remembers of the stops.                                     *)
(***************************************************************************)
EXTENDS IperfJni, IperfServer_proofs

\* The positions of a call in which its test is the one global_test points to, and
\* those in which its reader thread is the one reader_thread names.
Owning  == {"setup", "run", "fclose", "free", "unset"}
Joining == {"run", "fclose", "free", "unset", "join", "final", "reset"}
Joined  == {"final", "reset", "complete"}
Freed   == {"unset", "join", "final", "reset", "complete"}

\* One call is in flight.
Alone == \A c, d \in InFlight : c = d

\* The static variables belong to the call in flight.
Statics ==
  \A c \in Tests :
    /\ call[c].pc \in Owning => jni.global_test = c
    /\ call[c].pc \in Joining => jni.reader_thread = c
    /\ call[c].pc \in {"join", "final", "reset", "complete"} => jni.global_test = NULL
    /\ call[c].pc = "idle" => jni.global_test # c

Memory ==
  \A c \in Tests :
    /\ call[c].pc = "idle" => call[c].mem = "none" /\ ~call[c].completed
    /\ call[c].pc \in {"setup", "run", "fclose", "free"} =>
         call[c].mem = "live" /\ ~call[c].completed
    /\ call[c].pc \in Freed => call[c].mem = "freed" /\ ~call[c].completed

Readers ==
  \A c \in Tests :
    /\ call[c].pc \in Joined => call[c].reader = "ended"
    /\ call[c].pc \in {"run", "fclose"} => call[c].out = "open"
    /\ call[c].reader = "ended" => call[c].pipe = 0 /\ call[c].out = "closed"
    /\ call[c].pc \in {"idle", "setup"} => call[c].reader = "none"

\* A setup that failed called onError.
Failed ==
  \A c \in Tests :
    jni.global_test = c /\ call[c].pc = "returned" => ~call[c].completed /\ call[c].errors = 1

Inv ==
  /\ JniTypeOK
  /\ Alone /\ Statics /\ Memory /\ Readers /\ Failed
  /\ CompletedCallIsQuiet

-----------------------------------------------------------------------------
\* The static variables and the calls at the start.
LEMMA InitInv == Init => Inv
  BY JniAssumption
  DEF Init, Inv, JniTypeOK, CallType, StaticsType, StopType, Alone, InFlight, Statics,
      Memory, Readers, Failed, CompletedCallIsQuiet, Owning, Joining, Joined, Freed

\* Everything but the calls, the static variables and the stop leaves Inv alone.
LEMMA FrameInv == Inv /\ UNCHANGED jvars => Inv'
  BY DEF jvars, Inv, JniTypeOK, Alone, InFlight, Statics, Memory, Readers, Failed,
         CompletedCallIsQuiet

\* Whether a step of iperf_run_client prints is remembered by its call.
LEMMA ThenPrintsBoolean ==
  ASSUME NEW c \in Tests, ThenPrints(c)
  PROVE  \E p \in BOOLEAN : call' = [call EXCEPT ![c].prints = p]
  BY DEF ThenPrints, Prints

\* Every step of a call and of its reader thread keeps Inv.
LEMMA CallInv ==
  ASSUME Inv, NEW c \in Tests,
         New(c) \/ CallStep(c) \/ TimeUp(c) \/ CallFails(c) \/ Reader(c)
  PROVE  Inv'
<1> USE JniAssumption
<1>1. CASE New(c)
  <2>1. JniTypeOK'
    <3>1. call[c] \in CallType
      BY DEF Inv, JniTypeOK
    <3>2. [call[c] EXCEPT !.pc = "setup", !.mem = "live"] \in CallType
      BY <3>1 DEF CallType
    <3>3. 1 \in 0 .. 1
      OBVIOUS
    <3>4. [call[c] EXCEPT !.pc = "returned", !.errors = 1] \in CallType
      BY <3>1, <3>3 DEF CallType
    <3>5. call' \in [Tests -> CallType]
      BY <1>1, <3>2, <3>4 DEF New, Inv, JniTypeOK
    <3>6. jni' \in StaticsType
      BY <1>1 DEF New, Inv, JniTypeOK, StaticsType
    <3> QED
      BY <1>1, <3>5, <3>6 DEF New, Inv, JniTypeOK
  <2>2. Alone'
    BY <1>1 DEF New, In, Inv, Alone, InFlight, JniTypeOK, CallType, StaticsType
  <2>3. Statics'
    BY <1>1 DEF New, In, Inv, Statics, Alone, InFlight, JniTypeOK, CallType, StaticsType,
                Owning, Joining
  <2>4. Memory'
    BY <1>1 DEF New, In, Inv, Memory, Statics, Alone, InFlight, JniTypeOK, CallType,
                StaticsType, Owning, Freed
  <2>5. Readers'
    BY <1>1 DEF New, In, Inv, Readers, Statics, JniTypeOK, CallType, StaticsType, Joining,
                Joined
  <2>6. Failed'
    BY <1>1 DEF New, In, Inv, Failed, Statics, Memory, JniTypeOK, CallType, StaticsType,
                Owning
  <2>7. CompletedCallIsQuiet'
    BY <1>1 DEF New, In, Inv, CompletedCallIsQuiet, Statics, Memory, Readers, JniTypeOK,
                CallType, StaticsType,
           Owning, Freed, Joined
  <2> QED BY <2>1, <2>2, <2>3, <2>4, <2>5, <2>6, <2>7 DEF Inv
<1>2. CASE SetupFails(c)
  BY SMTT(20), <1>2 DEF SetupFails, In, Inv, JniTypeOK, CallType, StaticsType, Alone, InFlight,
              Statics, Memory, Readers, Failed,
           CompletedCallIsQuiet, Owning, Joining, Joined, Freed
<1>3. CASE Setup(c)
  BY <1>3 DEF Setup, In, Inv, JniTypeOK, CallType, StaticsType, Alone, InFlight, Statics,
              Memory, Readers, Failed,
           CompletedCallIsQuiet, Owning, Joining, Joined, Freed
<1>4. CASE Client(c) \/ TimeUp(c) \/ CallFails(c)
  <2>1. PICK p \in BOOLEAN : call' = [call EXCEPT ![c].prints = p]
    BY <1>4, ThenPrintsBoolean DEF Client, TimeUp, CallFails
  <2>2. UNCHANGED <<jni, stop>>
    BY <1>4 DEF Client, TimeUp, CallFails, ThenPrints
  <2> QED
    BY <2>1, <2>2
    DEF Inv, JniTypeOK, CallType, StaticsType, Alone, InFlight, Statics, Memory, Readers,
        Failed, CompletedCallIsQuiet, Owning, Joining, Joined, Freed
<1>15. CASE PrintLine(c)
  <2>1. JniTypeOK'
    <3>1. call[c] \in CallType /\ call[c].pipe < MaxLines
      BY <1>15 DEF PrintLine, Inv, JniTypeOK
    <3>2. call[c].pipe + 1 \in 0 .. MaxLines
      BY <3>1 DEF CallType
    <3> DEFINE n == call[c].pipe + 1
    <3>3. call' = [call EXCEPT ![c] = [call[c] EXCEPT !.pipe = n, !.prints = FALSE]]
      BY <1>15, <3>1 DEF PrintLine, CallType, Inv, JniTypeOK
    <3>4. n \in 0 .. MaxLines
      BY <3>2
    <3> HIDE DEF n
    <3>5. [call[c] EXCEPT !.pipe = n, !.prints = FALSE] \in CallType
      BY <3>1, <3>4 DEF CallType
    <3>6. call' \in [Tests -> CallType]
      BY <3>5, <3>3 DEF Inv, JniTypeOK
    <3> QED
      BY <1>15, <3>6 DEF PrintLine, In, Inv, JniTypeOK
  <2>2. /\ UNCHANGED jni /\ call[c].pc = "run" /\ call \in [Tests -> CallType]
        /\ \A u \in Tests \ {c} : call'[u] = call[u]
        /\ call'[c].pc = call[c].pc /\ call'[c].mem = call[c].mem
        /\ call'[c].reader = call[c].reader /\ call'[c].out = call[c].out
        /\ call'[c].completed = call[c].completed /\ call'[c].errors = call[c].errors
    BY <1>15 DEF PrintLine, In, Inv, JniTypeOK, CallType
  <2>3. call[c].reader # "ended"
    BY <2>2 DEF Inv, Readers
  <2>4. Alone' /\ Statics' /\ Memory' /\ Readers' /\ Failed' /\ CompletedCallIsQuiet'
    BY <2>2, <2>3
    DEF Inv, Alone, InFlight, Statics, Memory, Readers, Failed, CompletedCallIsQuiet,
        Owning, Joining, Joined, Freed
  <2> QED BY <2>1, <2>4 DEF Inv
<1>5. CASE ClientReturned(c)
  <2>1. JniTypeOK'
    <3>1. call[c] \in CallType
      BY DEF Inv, JniTypeOK
    <3>2. call[c].errors \in 0 .. 1
      BY <3>1 DEF CallType
    <3> DEFINE e == IF test[c].result = "fail" /\ jni.global_test # NULL
                    THEN 1 ELSE call[c].errors
    <3>3. call' = [call EXCEPT ![c] = [call[c] EXCEPT !.pc = "fclose", !.errors = e]]
      BY <1>5, <3>1 DEF ClientReturned, CallType, Inv, JniTypeOK
    <3>4. e \in 0 .. 1
      BY <3>2
    <3> HIDE DEF e
    <3>5. [call[c] EXCEPT !.pc = "fclose", !.errors = e] \in CallType
      BY <3>1, <3>4 DEF CallType
    <3>6. call' \in [Tests -> CallType]
      BY <3>5, <3>3 DEF Inv, JniTypeOK
    <3> QED
      BY <1>5, <3>6 DEF ClientReturned, ClientAt, In, Inv, JniTypeOK
  <2>2. Alone'
    BY <1>5 DEF ClientReturned, ClientAt, In, Inv, Alone, InFlight, JniTypeOK, CallType, StaticsType
  <2>3. Statics'
    BY <1>5 DEF ClientReturned, ClientAt, In, Inv, Statics, Alone, InFlight, JniTypeOK, CallType,
                StaticsType, Owning, Joining
  <2>4. Memory'
    BY <1>5 DEF ClientReturned, ClientAt, In, Inv, Memory, Statics, Alone, InFlight, JniTypeOK,
                CallType, StaticsType, Owning, Freed
  <2>5. Readers'
    BY <1>5 DEF ClientReturned, ClientAt, In, Inv, Readers, Statics, JniTypeOK, CallType, StaticsType,
                Joining, Joined
  <2>6. Failed'
    BY <1>5 DEF ClientReturned, ClientAt, In, Inv, Failed, Statics, Memory, JniTypeOK, CallType,
                StaticsType, Owning
  <2>7. CompletedCallIsQuiet'
    BY <1>5 DEF ClientReturned, ClientAt, In, Inv, CompletedCallIsQuiet, Statics, Memory, Readers,
                JniTypeOK, CallType, StaticsType,
           Owning, Freed, Joined
  <2> QED BY <2>1, <2>2, <2>3, <2>4, <2>5, <2>6, <2>7 DEF Inv
<1>6. CASE CloseOutput(c)
  BY <1>6 DEF CloseOutput, In, Inv, JniTypeOK, CallType, StaticsType, Alone, InFlight,
              Statics, Memory, Readers, Failed,
           CompletedCallIsQuiet, Owning, Joining, Joined, Freed
<1>7. CASE Free(c)
  BY <1>7 DEF Free, In, Go, Inv, JniTypeOK, CallType, StaticsType, Alone, InFlight, Statics,
              Memory, Readers, Failed,
           CompletedCallIsQuiet, Owning, Joining, Joined, Freed
<1>8. CASE Unset(c)
  BY <1>8 DEF Unset, In, Go, Inv, JniTypeOK, CallType, StaticsType, Alone, InFlight, Statics,
              Memory, Readers, Failed,
           CompletedCallIsQuiet, Owning, Joining, Joined, Freed
<1>9. CASE JoinReader(c)
  BY <1>9 DEF JoinReader, In, Go, Inv, JniTypeOK, CallType, StaticsType, Alone, InFlight,
              Statics, Memory, Readers, Failed,
           CompletedCallIsQuiet, Owning, Joining, Joined, Freed
<1>10. CASE FinalMessage(c)
  <2>1. JniTypeOK'
    <3>1. call[c] \in CallType
      BY DEF Inv, JniTypeOK
    <3> PICK m \in {"none", "stopped", "failed", "ok"} :
           call' = [call EXCEPT ![c].pc = "reset", ![c].said = m]
      BY <1>10 DEF FinalMessage
    <3>2. [call[c] EXCEPT !.pc = "reset", !.said = m] \in CallType
      BY <3>1 DEF CallType
    <3>3. call' \in [Tests -> CallType]
      BY <3>2 DEF Inv, JniTypeOK
    <3> QED
      BY <1>10, <3>3 DEF FinalMessage, In, Inv, JniTypeOK
  <2>2. Alone'
    BY <1>10 DEF FinalMessage, In, Inv, Alone, InFlight, JniTypeOK, CallType, StaticsType
  <2>3. Statics'
    BY <1>10 DEF FinalMessage, In, Inv, Statics, Alone, InFlight, JniTypeOK, CallType,
                 StaticsType, Owning, Joining
  <2>4. Memory'
    BY <1>10 DEF FinalMessage, In, Inv, Memory, Statics, Alone, InFlight, JniTypeOK,
                 CallType, StaticsType, Owning, Freed
  <2>5. Readers'
    BY <1>10 DEF FinalMessage, In, Inv, Readers, Statics, JniTypeOK, CallType, StaticsType,
                 Joining, Joined
  <2>6. Failed'
    BY <1>10 DEF FinalMessage, In, Inv, Failed, Statics, Memory, JniTypeOK, CallType,
                 StaticsType, Owning
  <2>7. CompletedCallIsQuiet'
    BY <1>10 DEF FinalMessage, In, Inv, CompletedCallIsQuiet, Statics, Memory, Readers,
                 JniTypeOK, CallType, StaticsType,
           Owning, Freed, Joined
  <2> QED BY <2>1, <2>2, <2>3, <2>4, <2>5, <2>6, <2>7 DEF Inv
<1>11. CASE Reset(c)
  <2>1. JniTypeOK'
    <3>1. call[c] \in CallType
      BY DEF Inv, JniTypeOK
    <3>2. [call[c] EXCEPT !.pc = "complete"] \in CallType
      BY <3>1 DEF CallType
    <3>3. call' \in [Tests -> CallType]
      BY <1>11, <3>2 DEF Reset, Go, Inv, JniTypeOK
    <3>4. jni' \in StaticsType
      BY <1>11 DEF Reset, Inv, JniTypeOK, StaticsType
    <3> QED
      BY <1>11, <3>3, <3>4 DEF Reset, Inv, JniTypeOK
  <2>2. Alone'
    BY <1>11 DEF Reset, In, Go, Inv, Alone, InFlight, JniTypeOK, CallType, StaticsType
  <2>3. Statics'
    BY <1>11 DEF Reset, In, Go, Inv, Statics, Alone, InFlight, JniTypeOK, CallType,
                 StaticsType, Owning, Joining
  <2>4. Memory'
    BY <1>11 DEF Reset, In, Go, Inv, Memory, Statics, Alone, InFlight, JniTypeOK, CallType,
                 StaticsType, Owning, Freed
  <2>5. Readers'
    BY <1>11 DEF Reset, In, Go, Inv, Readers, Statics, JniTypeOK, CallType, StaticsType,
                 Joining, Joined
  <2>6. Failed'
    BY <1>11 DEF Reset, In, Go, Inv, Failed, Statics, Memory, JniTypeOK, CallType,
                 StaticsType, Owning
  <2>7. CompletedCallIsQuiet'
    BY <1>11 DEF Reset, In, Go, Inv, CompletedCallIsQuiet, Statics, Memory, Readers,
                 JniTypeOK, CallType, StaticsType,
           Owning, Freed, Joined
  <2> QED BY <2>1, <2>2, <2>3, <2>4, <2>5, <2>6, <2>7 DEF Inv
<1>12. CASE Complete(c)
  <2>1. JniTypeOK'
    <3>1. call[c] \in CallType
      BY DEF Inv, JniTypeOK
    <3>2. [call[c] EXCEPT !.pc = "returned", !.completed = TRUE] \in CallType
      BY <3>1 DEF CallType
    <3>3. call' \in [Tests -> CallType]
      BY <1>12, <3>2 DEF Complete, Inv, JniTypeOK
    <3> QED
      BY <1>12, <3>3 DEF Complete, In, Inv, JniTypeOK
  <2>2. Alone'
    BY <1>12 DEF Complete, In, Inv, Alone, InFlight, JniTypeOK, CallType, StaticsType
  <2>3. Statics'
    BY <1>12 DEF Complete, In, Inv, Statics, Alone, InFlight, JniTypeOK, CallType,
                 StaticsType, Owning, Joining
  <2>4. Memory'
    BY <1>12 DEF Complete, In, Inv, Memory, Statics, Alone, InFlight, JniTypeOK, CallType,
                 StaticsType, Owning, Freed
  <2>5. Readers'
    BY <1>12 DEF Complete, In, Inv, Readers, Statics, JniTypeOK, CallType, StaticsType,
                 Joining, Joined
  <2>6. Failed'
    BY <1>12 DEF Complete, In, Inv, Failed, Statics, Memory, JniTypeOK, CallType,
                 StaticsType, Owning
  <2>7. CompletedCallIsQuiet'
    BY <1>12 DEF Complete, In, Inv, CompletedCallIsQuiet, Statics, Memory, Readers,
                 JniTypeOK, CallType, StaticsType,
           Owning, Freed, Joined
  <2> QED BY <2>1, <2>2, <2>3, <2>4, <2>5, <2>6, <2>7 DEF Inv
<1>13. CASE ReadLine(c)
  BY <1>13 DEF ReadLine, Inv, JniTypeOK, CallType, StaticsType, Alone, InFlight, Statics,
               Memory, Readers, Failed,
           CompletedCallIsQuiet, Owning, Joining, Joined, Freed
<1>14. CASE ReaderEnds(c)
  BY <1>14 DEF ReaderEnds, Inv, JniTypeOK, CallType, StaticsType, Alone, InFlight, Statics,
               Memory, Readers, Failed,
           CompletedCallIsQuiet, Owning, Joining, Joined, Freed
<1> QED BY <1>1, <1>2, <1>3, <1>4, <1>5, <1>6, <1>7, <1>8, <1>9, <1>10, <1>11, <1>12, <1>13, <1>14,
         <1>15
        DEF CallStep, Reader

\* The UI thread writes stop, the flags of jni and, through the pointer, the test.
LEMMA StopInv == Inv /\ (RequestStop \/ StopStep) => Inv'
<1> SUFFICES ASSUME Inv, RequestStop \/ StopStep PROVE Inv'
  OBVIOUS
<1>1. UNCHANGED call
  BY DEF RequestStop, StopStep, CheckStop, MarkStop, SendStop, ShutStop
<1>2. UNCHANGED <<jni.global_test, jni.reader_thread>>
  BY DEF Inv, JniTypeOK, StaticsType, RequestStop, StopStep, CheckStop, MarkStop, SendStop,
         ShutStop, Using
<1>3. jni' \in StaticsType
  BY DEF Inv, JniTypeOK, StaticsType, RequestStop, StopStep, CheckStop, MarkStop, SendStop,
         ShutStop, Using
<1>4. stop' \in StopType
  <2>1. CASE RequestStop
    <3>1. stop.count + 1 \in 0 .. MaxStops
      BY <2>1, JniAssumption DEF RequestStop, Inv, JniTypeOK, StopType
    <3> QED
      BY <2>1, <3>1 DEF RequestStop, Inv, JniTypeOK, StopType
  <2>2. CASE CheckStop
    BY <2>2 DEF CheckStop, Using, Inv, JniTypeOK, StaticsType, StopType
  <2>3. CASE MarkStop
    <3>1. stop.target # NULL => stop.marked \cup {stop.target} \subseteq Tests
      BY DEF Inv, JniTypeOK, StopType
    <3> QED
      BY <2>3, <3>1 DEF MarkStop, Using, Inv, JniTypeOK, StopType
  <2>4. CASE SendStop
    BY <2>4 DEF SendStop, Using, Inv, JniTypeOK, StopType
  <2>5. CASE ShutStop
    BY <2>5 DEF ShutStop, Using, Inv, JniTypeOK, StopType
  <2> QED BY <2>1, <2>2, <2>3, <2>4, <2>5 DEF StopStep
<1> QED
  BY <1>1, <1>2, <1>3, <1>4
  DEF Inv, JniTypeOK, Alone, InFlight, Statics, Memory, Readers, Failed,
      CompletedCallIsQuiet

\* Every step keeps Inv.
LEMMA NextInv == Inv /\ [Next]_vars => Inv'
<1> SUFFICES ASSUME Inv, [Next]_vars PROVE Inv'
  OBVIOUS
<1>1. CASE UNCHANGED vars
  BY <1>1, FrameInv DEF vars
<1>2. ASSUME NEW c \in Tests, ThreadExits(c) \/ Cut(c) PROVE Inv'
  BY <1>2, FrameInv DEF ThreadExits, Cut
<1>3. CASE Server \/ ServerCallFails
  BY <1>3, FrameInv DEF Server, ServerCallFails
<1> QED BY <1>1, <1>2, <1>3, CallInv, StopInv DEF Next

\* The invariant of the calls and the static variables holds in every state.
THEOREM InvHolds == Spec => []Inv
<1>1. Init => Inv
  BY InitInv
<1>2. Inv /\ [Next]_vars => Inv'
  BY NextInv
<1> QED BY <1>1, <1>2, PTL DEF Spec

-----------------------------------------------------------------------------
(* The results *)

\* The type invariant of what iperf_jni.c keeps.
THEOREM JniTypesCorrect == Spec => []JniTypeOK
<1>1. Inv => JniTypeOK
  BY DEF Inv
<1> QED BY <1>1, InvHolds, PTL

\* After onComplete nothing of a call can call back: the reader thread was joined after
\* it had passed on every line, and neither the memory nor the pointer is left.
THEOREM CompletionIsQuiet == Spec => []CompletedCallIsQuiet
<1>1. Inv => CompletedCallIsQuiet
  BY DEF Inv
<1> QED BY <1>1, InvHolds, PTL

\* global_test dangles only between iperf_free_test and the assignment after it, or
\* when the call could not be set up.
THEOREM DanglingPointer == Spec => []DanglingOnlyAfterError
<1>1. Inv => DanglingOnlyAfterError
  BY JniAssumption
  DEF Inv, DanglingOnlyAfterError, JniTypeOK, CallType, StaticsType, Statics, Memory, Failed,
      Owning,
      Freed
<1> QED BY <1>1, InvHolds, PTL

-----------------------------------------------------------------------------
(* The threads of the tests, and what the stops are reported as *)

\* The threads of the test of call c, as far as its memory is in use: the senders
\* are gone wherever the end shows, unless somebody else said it, and at the end
\* every thread that could be joined.
Threads(c) ==
  /\ call[c].pc \in {"idle", "setup"} => test[c].pc = "idle" /\ test[c].live = {}
  /\ call[c].pc \in {"fclose", "free"} => test[c].pc = "ret"
  /\ call[c].mem # "freed" => EndedOnceSaid(c)
  /\ NoFarewell(c)
  /\ /\ c \notin stop.marked /\ call[c].mem # "freed"
     /\ \/ test[c].pc \in {"end", "joinrcv"}
        \/ test[c].state = "IPERF_DONE" /\ test[c].pc # "ret"
     => Ended(c)
  /\ c \notin stop.marked /\ (test[c].pc = "ret" \/ call[c].mem = "freed") =>
       test[c].live \subseteq test[c].left

\* The positions of a call before it has forgotten that a stop was requested.
Remembering == {"setup", "run", "fclose", "free", "unset", "join", "final", "reset"}

\* A stop that has marked a test, or may still, is remembered by the call.
Reported(c) ==
  /\ call[c].pc = "returned" => call[c].mem # "live"
  /\ call[c].pc = "idle" => c \notin stop.marked
  /\ call[c].said # "none" => call[c].pc \in {"reset", "complete", "returned"}
  /\ call[c].pc \in Remembering /\ (c \in stop.marked \/ stop.pc # "idle") => jni.stop_requested
  /\ c \in stop.marked => call[c].said \in {"none", "stopped"}
  /\ stop.pc \in {"send", "shut"} /\ c = stop.target => c \in stop.marked

TInv ==
  /\ Inv /\ ServerTypeOK /\ Serving
  /\ \A c \in Tests : Threads(c) /\ Reported(c)

-----------------------------------------------------------------------------
\* A call whose test is left alone keeps Threads when it moves on as runIperfLive
\* does.
LEMMA ThreadsKept ==
  ASSUME NEW u \in Tests, Threads(u),
         test'[u] = test[u], net'[u] = net[u], UNCHANGED srv,
         stop.marked \subseteq stop'.marked,
         call'[u].pc \in {"idle", "setup"} => call[u].pc \in {"idle", "setup"},
         call'[u].pc \in {"fclose", "free"} =>
           call[u].pc \in {"fclose", "free"} \/ test[u].pc = "ret",
         call[u].mem = "freed" => call'[u].mem = "freed",
         call'[u].mem = "freed" => \/ call[u].mem = "freed" \/ test[u].pc = "ret"
                                   \/ test[u].live = {}
  PROVE  Threads(u)'
  BY DEF Threads, EndedOnceSaid, Ended, NoFarewell

\* A client event keeps Threads: the threads are gone when iperf_run_client returns,
\* unless a stop had made the loop end early.
LEMMA ClientEventThreads ==
  ASSUME ClientTypeOK, NEW t \in Tests, ClientEvent(t), UNCHANGED srv, Threads(t),
         stop.marked \subseteq stop'.marked, t \in stop'.marked \/ SaysDone(t),
         call'[t].mem = call[t].mem,
         \/ call'[t].pc = call[t].pc /\ Outside(t)
         \/ call[t].mem # "freed" /\ call'[t].pc = "run"
  PROVE  Threads(t)'
<1>1. test[t] \in TestType /\ test'[t] \in TestType
  BY ClientEventFrame DEF TestFrame, ClientTypeOK
<1>2. ClientTurn(t)
  BY ClientEventTurn
<1>3. Outside(t) => /\ test'[t].pc = test[t].pc
                    /\ test'[t].live \subseteq test[t].live
  BY OutsideFields
<1>4. call'[t].pc \in {"idle", "setup"} => test'[t].pc = "idle" /\ test'[t].live = {}
  BY <1>3 DEF Threads
<1>5. call'[t].pc \in {"fclose", "free"} => test'[t].pc = "ret"
  BY <1>3 DEF Threads
<1>6. call'[t].mem # "freed" => EndedOnceSaid(t)'
  BY ClientEventEnded DEF Threads
<1>7. NoFarewell(t)'
  BY ClientEventFarewell DEF Threads
<1>8. Ended(t) => Ended(t)'
  BY <1>2 DEF ClientTurn, Ended
<1>9. ASSUME t \notin stop'.marked, call'[t].mem # "freed",
             \/ test'[t].pc \in {"end", "joinrcv"}
             \/ test'[t].state = "IPERF_DONE" /\ test'[t].pc # "ret"
      PROVE  Ended(t)
  <2>1. EndedOnceSaid(t) /\ t \notin stop.marked /\ call[t].mem # "freed"
    BY <1>9 DEF Threads
  <2>2. CASE test'[t].pc = "end"
    BY <2>1, <2>2, <1>2 DEF ClientTurn, Threads, EndedOnceSaid
  <2>3. CASE test'[t].pc = "joinrcv"
    BY <2>1, <2>3, <1>2 DEF ClientTurn, Threads
  <2>4. CASE test'[t].state = "IPERF_DONE" /\ test'[t].pc # "ret"
    <3>1. net[t].toCli # <<>> => Head(net[t].toCli) # "IPERF_DONE"
      BY HeadQueued DEF Threads, NoFarewell
    <3>2. test[t].state = "IPERF_DONE" \/ test[t].pc = "end"
      BY <2>4, <3>1, <1>9 DEF SaysDone
    <3>3. test[t].pc # "ret"
      BY <2>4, <1>2 DEF ClientTurn
    <3> QED BY <2>1, <3>2, <3>3 DEF Threads
  <2> QED BY <1>9, <2>2, <2>3, <2>4
<1>10. ASSUME t \notin stop'.marked, test'[t].pc = "ret" \/ call'[t].mem = "freed"
       PROVE  test'[t].live \subseteq test'[t].left
  <2>1. t \notin stop.marked
    BY <1>10
  <2>2. CASE call[t].mem = "freed"
    <3>1. Outside(t)
      BY <1>10, <2>2
    <3> QED BY <2>1, <2>2, <3>1, OutsideFields DEF Threads
  <2>3. CASE call[t].mem # "freed" /\ test'[t].pc = "ret"
    <3>1. \/ test[t].pc = "ret" \/ test'[t].live \subseteq test'[t].left
          \/ test[t].pc = "joinrcv" /\ "rcv" \notin test'[t].live
      BY <2>3, <1>2 DEF ClientTurn
    <3>2. CASE test[t].pc = "ret"
      <4>1. test'[t].live \subseteq test[t].live /\ test[t].left \subseteq test'[t].left
        BY <3>2, <1>2 DEF ClientTurn
      <4> QED BY <2>1, <3>2, <4>1 DEF Threads
    <3>3. CASE test[t].pc = "joinrcv" /\ "rcv" \notin test'[t].live
      <4>1. "snd" \notin test[t].live
        BY <2>1, <2>3, <3>3 DEF Threads, Ended
      <4>2. test'[t].live \subseteq test[t].live
        BY <3>3, <1>2 DEF ClientTurn
      <4>3. test'[t].live \subseteq {"snd", "rcv"}
        BY <1>1 DEF TestType
      <4> QED BY <4>1, <4>2, <4>3, <3>3
    <3> QED BY <3>1, <3>2, <3>3
  <2> QED BY <1>10, <2>2, <2>3
<1> QED BY <1>4, <1>5, <1>6, <1>7, <1>8, <1>9, <1>10 DEF Threads

\* A step of the server keeps Threads: it tells no client that the test is done.
LEMMA ServerStepThreads ==
  ASSUME ServerTypeOK, NEW u \in Tests, ServerFrame, UNCHANGED jvars, Threads(u)
  PROVE  Threads(u)'
<1>1. test' = test /\ call' = call /\ stop' = stop
  BY DEF ServerFrame, jvars
<1>2. NoFarewell(u)'
  BY ServerStepFarewell DEF Threads
<1>3. call[u].mem # "freed" => EndedOnceSaid(u)'
  BY ServerStepEnded DEF Threads
<1> QED BY <1>1, <1>2, <1>3 DEF Threads, Ended

\* What a call does to its own test is a client event, or leaves the test alone.
LEMMA CallThreads ==
  ASSUME Inv, ServerTypeOK, NEW c \in Tests,
         \/ New(c) \/ CallStep(c) \/ TimeUp(c) \/ CallFails(c) \/ Reader(c)
         \/ ThreadExits(c) \/ Cut(c),
         \A u \in Tests : Threads(u)
  PROVE  ServerTypeOK' /\ UNCHANGED srv /\ \A u \in Tests : Threads(u)'
<1>0. /\ ClientTypeOK /\ call \in [Tests -> CallType] /\ call[c] \in CallType
      /\ test[c] \in TestType
  BY DEF Inv, JniTypeOK, ServerTypeOK, ClientTypeOK
<1> USE <1>0
\* A client event of c.
<1>1. ASSUME ClientEvent(c), UNCHANGED <<srv, stop>>, SaysDone(c),
             \A u \in Tests \ {c} : call'[u] = call[u],
             call'[c].mem = call[c].mem,
             \/ call'[c].pc = call[c].pc /\ Outside(c)
             \/ call[c].mem # "freed" /\ call'[c].pc = "run"
      PROVE  ServerTypeOK' /\ UNCHANGED srv /\ \A u \in Tests : Threads(u)'
  <2>1. TestFrame(c) /\ NetFrame(c) /\ ClientTypeOK'
    BY <1>1, ClientEventFrame
  <2>2. ASSUME NEW u \in Tests PROVE Threads(u)'
    <3>1. CASE u = c
      BY <1>1, <3>1, ClientEventThreads
    <3>2. CASE u # c
      <4>1. test'[u] = test[u] /\ net'[u] = net[u] /\ call'[u] = call[u]
        BY <2>1, <3>2, <1>1 DEF TestFrame, NetFrame
      <4> QED BY <4>1, <1>1, ThreadsKept
    <3> QED BY <3>1, <3>2
  <2> QED BY <1>1, <2>1, <2>2 DEF ServerTypeOK
\* A step of the call that leaves the tests, the server and the stops alone.
<1>2. ASSUME UNCHANGED <<svars, stop>>,
             \A u \in Tests \ {c} : call'[u] = call[u],
             call'[c].pc \in {"idle", "setup"} => call[c].pc \in {"idle", "setup"},
             call'[c].pc \in {"fclose", "free"} =>
               call[c].pc \in {"fclose", "free"} \/ test[c].pc = "ret",
             call[c].mem = "freed" => call'[c].mem = "freed",
             call'[c].mem = "freed" => \/ call[c].mem = "freed" \/ test[c].pc = "ret"
                                       \/ test[c].live = {}
      PROVE  ServerTypeOK' /\ UNCHANGED srv /\ \A u \in Tests : Threads(u)'
  <2>1. ServerTypeOK' /\ UNCHANGED <<test, net, srv>>
    BY <1>2 DEF svars, cvars, ServerTypeOK, ClientTypeOK
  <2>2. ASSUME NEW u \in Tests PROVE Threads(u)'
    <3>1. CASE u = c
      BY <1>2, <2>1, <3>1, ThreadsKept
    <3>2. CASE u # c
      <4>1. call'[u] = call[u]
        BY <1>2, <3>2
      <4> QED BY <4>1, <2>1, <1>2, ThreadsKept
    <3> QED BY <3>1, <3>2
  <2> QED BY <2>1, <2>2
<1>3. CASE New(c)
  <2>1. /\ UNCHANGED <<svars, stop>> /\ call[c].pc = "idle"
        /\ \A u \in Tests \ {c} : call'[u] = call[u]
        /\ \/ call'[c].pc = "setup" /\ call'[c].mem = "live"
           \/ call'[c].pc = "returned" /\ call'[c].mem = call[c].mem
    BY <1>3 DEF New, In, CallType
  <2>2. call[c].mem = "none"
    BY <2>1 DEF Inv, Memory
  <2> QED BY <2>1, <2>2, <1>2
<1>4. CASE SetupFails(c)
  <2>1. /\ UNCHANGED <<svars, stop>> /\ call[c].pc = "setup"
        /\ \A u \in Tests \ {c} : call'[u] = call[u]
        /\ call'[c].pc = "returned" /\ call'[c].mem = "freed"
    BY <1>4 DEF SetupFails, In, CallType
  <2>2. test[c].live = {}
    BY <2>1 DEF Threads
  <2> QED BY <2>1, <2>2, <1>2
<1>5. CASE Setup(c)
  <2>1. /\ RunClient(c) /\ UNCHANGED <<srv, stop>> /\ call[c].pc = "setup"
        /\ \A u \in Tests \ {c} : call'[u] = call[u]
        /\ call'[c].pc = "run" /\ call'[c].mem = call[c].mem
    BY <1>5 DEF Setup, In, CallType
  <2>2. ClientEvent(c) /\ SaysDone(c)
    BY <2>1, OwnEventDone DEF OwnEvent
  <2>3. call[c].mem # "freed"
    BY <2>1 DEF Inv, Memory
  <2> QED BY <2>1, <2>2, <2>3, <1>1
<1>6. CASE Client(c) \/ TimeUp(c) \/ CallFails(c)
  <2>1. PICK p \in BOOLEAN : call' = [call EXCEPT ![c].prints = p]
    BY <1>6, ThenPrintsBoolean DEF Client, TimeUp, CallFails
  <2>2. UNCHANGED <<srv, stop>> /\ call[c].pc = "run"
    BY <1>6 DEF Client, TimeUp, CallFails, ThenPrints, ClientAt, In
  <2>3. OwnEvent(c)
    BY <1>6 DEF Client, TimeUp, CallFails, OwnEvent
  <2>4. /\ \A u \in Tests \ {c} : call'[u] = call[u]
        /\ call'[c].pc = call[c].pc /\ call'[c].mem = call[c].mem
    BY <2>1 DEF CallType
  <2>5. ClientEvent(c) /\ SaysDone(c)
    BY <2>3, OwnEventDone
  <2>6. call[c].mem # "freed"
    BY <2>2 DEF Inv, Memory
  <2> QED BY <2>2, <2>4, <2>5, <2>6, <1>1
<1>7. CASE PrintLine(c)
  <2>1. /\ UNCHANGED <<svars, stop>>
        /\ \A u \in Tests \ {c} : call'[u] = call[u]
        /\ call'[c].mem = call[c].mem /\ call'[c].pc = call[c].pc
    BY <1>7 DEF PrintLine, CallType
  <2> QED BY <2>1, <1>2
<1>8. CASE ThreadExits(c) \/ Cut(c)
  <2>1. OwnEvent(c) /\ Outside(c) /\ UNCHANGED <<srv, stop, call>>
    BY <1>8 DEF ThreadExits, Cut, OwnEvent, Outside, jvars
  <2>2. ClientEvent(c) /\ SaysDone(c)
    BY <2>1, OwnEventDone
  <2> QED BY <2>1, <2>2, <1>1
<1>9. CASE ClientReturned(c)
  <2>1. /\ UNCHANGED <<svars, stop>> /\ test[c].pc = "ret"
        /\ \A u \in Tests \ {c} : call'[u] = call[u]
        /\ call'[c].pc = "fclose" /\ call'[c].mem = call[c].mem
    BY <1>9 DEF ClientReturned, At, CallType
  <2> QED BY <2>1, <1>2
<1>10. CASE CloseOutput(c) \/ Unset(c) \/ JoinReader(c)
  <2>1. /\ UNCHANGED <<svars, stop>> /\ call[c].pc \in {"fclose", "unset", "join"}
        /\ \A u \in Tests \ {c} : call'[u] = call[u]
        /\ call'[c].mem = call[c].mem /\ call'[c].pc \in {"free", "join", "final"}
        /\ call'[c].pc = "free" => call[c].pc = "fclose"
    BY <1>10 DEF CloseOutput, Unset, JoinReader, In, Go, CallType
  <2> QED BY <2>1, <1>2
<1>11. CASE FinalMessage(c)
  <2>1. PICK m : call' = [call EXCEPT ![c].pc = "reset", ![c].said = m]
    BY <1>11 DEF FinalMessage
  <2>2. /\ UNCHANGED <<svars, stop>>
        /\ \A u \in Tests \ {c} : call'[u] = call[u]
        /\ call'[c].mem = call[c].mem /\ call'[c].pc = "reset"
    BY <1>11, <2>1 DEF FinalMessage, CallType
  <2> QED BY <2>2, <1>2
<1>12. CASE Reset(c) \/ Complete(c)
  <2>1. /\ UNCHANGED <<svars, stop>>
        /\ \A u \in Tests \ {c} : call'[u] = call[u]
        /\ call'[c].mem = call[c].mem /\ call'[c].pc \in {"complete", "returned"}
    BY <1>12 DEF Reset, Complete, Go, CallType
  <2> QED BY <2>1, <1>2
<1>13. CASE Reader(c)
  <2>1. /\ UNCHANGED <<svars, stop>>
        /\ \A u \in Tests \ {c} : call'[u] = call[u]
        /\ call'[c].mem = call[c].mem /\ call'[c].pc = call[c].pc
    BY <1>13 DEF Reader, ReadLine, ReaderEnds, CallType
  <2> QED BY <2>1, <1>2
<1>14. CASE Free(c)
  <2>1. call[c].pc = "free" /\ jni.global_test = c /\ c # NULL
    BY <1>14, JniAssumption DEF Free, In, Inv, Statics, Owning
  <2>2. test[c].pc = "ret"
    BY <2>1 DEF Threads
  <2> DEFINE r == [NewTest EXCEPT !.pc = "ret", !.ctrl = test[c].ctrl, !.live = test[c].live,
                                  !.left = test[c].left, !.result = test[c].result]
  <2>3. /\ UNCHANGED <<net, backlog, srv, stop>> /\ test' = [test EXCEPT ![c] = r]
        /\ \A u \in Tests \ {c} : call'[u] = call[u]
        /\ call'[c].pc = "unset" /\ call'[c].mem = "freed"
    BY <1>14, <2>1 DEF Free, CallType
  <2>4. <<>> \in Seq({"snd", "rcv"})
    OBVIOUS
  <2>5. r \in TestType /\ r.live = test[c].live /\ r.left = test[c].left /\ r.pc = "ret"
    BY ZenonT(40), <2>4 DEF NewTest, TestType, Messages, States
  <2> HIDE DEF r
  <2>6. TestFrame(c) /\ test'[c] = r
    BY <2>3, <2>5, TestFramed
  <2>7. ServerTypeOK'
    BY <2>3, <2>6 DEF ServerTypeOK, ClientTypeOK, TestFrame
  <2>8. ASSUME NEW u \in Tests PROVE Threads(u)'
    <3>1. CASE u = c
      <4>1. test'[c].live = test[c].live /\ test'[c].left = test[c].left
        BY <2>5, <2>6
      <4>2. c \notin stop'.marked => test'[c].live \subseteq test'[c].left
        BY <2>2, <2>3, <4>1 DEF Threads
      <4>3. NoFarewell(c)'
        BY <2>3 DEF Threads, NoFarewell
      <4> QED BY <3>1, <2>3, <4>2, <4>3 DEF Threads
    <3>2. CASE u # c
      <4>1. test'[u] = test[u] /\ call'[u] = call[u]
        BY <2>3, <2>6, <3>2 DEF TestFrame
      <4> QED BY <4>1, <2>3, ThreadsKept
    <3> QED BY <3>1, <3>2
  <2> QED BY <2>3, <2>7, <2>8
<1> QED BY <1>3, <1>4, <1>5, <1>6, <1>7, <1>8, <1>9, <1>10, <1>11, <1>12, <1>13, <1>14
        DEF CallStep

\* A stop keeps Threads: it marks the test before it makes it look done.
LEMMA StopThreads ==
  ASSUME Inv, ServerTypeOK, RequestStop \/ StopStep,
         \A u \in Tests : Threads(u) /\ Reported(u)
  PROVE  ServerTypeOK' /\ UNCHANGED srv /\ \A u \in Tests : Threads(u)'
<1>0. ClientTypeOK /\ jni \in StaticsType /\ stop \in StopType
  BY DEF Inv, JniTypeOK, ServerTypeOK
<1>1. UNCHANGED <<srv, call>>
  BY DEF RequestStop, StopStep, CheckStop, MarkStop, SendStop, ShutStop, svars
<1>2. stop.marked \subseteq stop'.marked
  BY <1>0 DEF RequestStop, StopStep, CheckStop, MarkStop, SendStop, ShutStop, Using, StopType
\* A stop that uses the test of g.
<1>3. ASSUME NEW g \in Tests, Outside(g), g \in stop'.marked \/ SaysDone(g)
      PROVE  ServerTypeOK' /\ UNCHANGED srv /\ \A u \in Tests : Threads(u)'
  <2>1. ClientEvent(g)
    BY <1>0, <1>3, OutsideFields
  <2>2. TestFrame(g) /\ NetFrame(g) /\ ClientTypeOK'
    BY <2>1, <1>0, ClientEventFrame
  <2>3. ASSUME NEW u \in Tests PROVE Threads(u)'
    <3>1. CASE u = g
      BY <1>0, <1>1, <1>2, <1>3, <2>1, <3>1, ClientEventThreads
    <3>2. CASE u # g
      <4>1. test'[u] = test[u] /\ net'[u] = net[u]
        BY <2>2, <3>2 DEF TestFrame, NetFrame
      <4> QED BY <4>1, <1>1, <1>2, ThreadsKept
    <3> QED BY <3>1, <3>2
  <2> QED BY <1>1, <2>2, <2>3 DEF ServerTypeOK
<1>4. CASE UNCHANGED cvars
  <2>1. ServerTypeOK' /\ UNCHANGED <<test, net>>
    BY <1>1, <1>4 DEF cvars, ServerTypeOK, ClientTypeOK
  <2> QED BY <1>1, <1>2, <2>1, ThreadsKept
<1>5. CASE RequestStop
  BY <1>4, <1>5 DEF RequestStop, svars
<1>6. CASE CheckStop
  BY <1>4, <1>6 DEF CheckStop, Using
<1>7. CASE MarkStop
  <2>1. CASE stop.target # NULL /\ call[stop.target].mem = "live"
    <3>1. stop.target \in Tests
      BY <2>1, <1>0 DEF StopType
    <3>2. Outside(stop.target)
      BY <1>7, <2>1 DEF MarkStop, Using, Outside
    <3>3. stop.target \in stop'.marked
      BY <1>7, <2>1, <1>0 DEF MarkStop, Using, StopType
    <3> QED BY <1>3, <3>1, <3>2, <3>3
  <2> QED BY <1>4, <1>7, <2>1 DEF MarkStop, Using
<1>8. CASE SendStop
  <2>1. CASE stop.target # NULL /\ call[stop.target].mem = "live"
    <3>1. stop.target \in Tests
      BY <2>1, <1>0 DEF StopType
    <3>2. Outside(stop.target)
      BY <1>8, <2>1 DEF SendStop, Using, Outside
    <3>3. stop.target \in stop'.marked
      BY <1>8, <3>1, <1>2 DEF SendStop, StopIn, Reported
    <3> QED BY <1>3, <3>1, <3>2, <3>3
  <2> QED BY <1>4, <1>8, <2>1 DEF SendStop, Using
<1>9. CASE ShutStop
  <2>1. CASE jni.global_test # NULL /\ call[jni.global_test].mem = "live"
    <3>1. jni.global_test \in Tests
      BY <2>1, <1>0 DEF StaticsType
    <3>2. Outside(jni.global_test) /\ OwnEvent(jni.global_test)
      BY <1>9, <2>1 DEF ShutStop, Using, Outside, OwnEvent
    <3>3. SaysDone(jni.global_test)
      BY <1>0, <3>1, <3>2, OwnEventDone
    <3> QED BY <1>3, <3>1, <3>2, <3>3
  <2> QED BY <1>4, <1>9, <2>1 DEF ShutStop, Using
<1> QED BY <1>5, <1>6, <1>7, <1>8, <1>9 DEF StopStep

\* A step of a call keeps Reported: stop_requested is reset only after the final
\* message.
LEMMA CallReported ==
  ASSUME Inv, NEW c \in Tests,
         New(c) \/ CallStep(c) \/ TimeUp(c) \/ CallFails(c) \/ Reader(c),
         \A u \in Tests : Reported(u)
  PROVE  \A u \in Tests : Reported(u)'
<1>0. call \in [Tests -> CallType] /\ call[c] \in CallType /\ jni \in StaticsType
  BY DEF Inv, JniTypeOK
<1> USE <1>0
<1>1. CASE New(c)
  <2>1. call[c].mem = "none"
    BY <1>1 DEF New, In, Inv, Memory
  <2> QED BY <1>1, <2>1 DEF New, In, Reported, Remembering, CallType, StaticsType
<1>2. CASE SetupFails(c)
  BY <1>2 DEF SetupFails, In, Reported, Remembering, CallType, StaticsType
<1>3. CASE Setup(c)
  BY <1>3 DEF Setup, In, Reported, Remembering, CallType, StaticsType
<1>4. CASE Client(c) \/ TimeUp(c) \/ CallFails(c)
  <2>1. PICK p \in BOOLEAN : call' = [call EXCEPT ![c].prints = p]
    BY <1>4, ThenPrintsBoolean DEF Client, TimeUp, CallFails
  <2>2. UNCHANGED <<jni, stop>>
    BY <1>4 DEF Client, TimeUp, CallFails, ThenPrints
  <2> QED BY <2>1, <2>2 DEF Reported, Remembering, CallType
<1>13. CASE PrintLine(c)
  BY <1>13 DEF PrintLine, Reported, Remembering, CallType
<1>5. CASE ClientReturned(c)
  <2>1. PICK e : call' = [call EXCEPT ![c].pc = "fclose", ![c].errors = e]
    BY <1>5 DEF ClientReturned
  <2> QED BY <1>5, <2>1 DEF ClientReturned, ClientAt, In, Reported, Remembering, CallType
<1>6. CASE CloseOutput(c) \/ JoinReader(c)
  BY <1>6 DEF CloseOutput, JoinReader, In, Go, Reported, Remembering, CallType
<1>7. CASE Unset(c)
  BY <1>7 DEF Unset, In, Go, Reported, Remembering, CallType, StaticsType
<1>8. CASE Free(c)
  <2>1. jni.global_test = c /\ c # NULL
    BY <1>8, JniAssumption DEF Free, In, Inv, Statics, Owning
  <2> QED BY <1>8, <2>1 DEF Free, In, Reported, Remembering, CallType, StaticsType
<1>9. CASE FinalMessage(c)
  <2>1. PICK m : /\ call' = [call EXCEPT ![c].pc = "reset", ![c].said = m]
                 /\ jni.stop_requested => m = "stopped"
    BY <1>9 DEF FinalMessage
  <2>2. c \in stop.marked => jni.stop_requested
    BY <1>9 DEF FinalMessage, In, Reported, Remembering
  <2>3. UNCHANGED <<jni, stop>> /\ call[c].pc = "final"
    BY <1>9 DEF FinalMessage, In
  <2>4. /\ \A u \in Tests \ {c} : call'[u] = call[u]
        /\ call'[c].pc = "reset" /\ call'[c].said = m /\ call'[c].mem = call[c].mem
    BY <2>1 DEF CallType
  <2> QED BY <2>1, <2>2, <2>3, <2>4 DEF Reported, Remembering
<1>10. CASE Reset(c)
  <2>1. \A u \in Tests \ {c} : call[u].pc \in {"idle", "returned"}
    BY <1>10 DEF Reset, In, Inv, Alone, InFlight
  <2> QED BY <1>10, <2>1 DEF Reset, In, Go, Reported, Remembering, CallType, StaticsType
<1>11. CASE Complete(c)
  <2>1. call[c].mem = "freed"
    BY <1>11 DEF Complete, In, Inv, Memory, Freed
  <2> QED BY <1>11, <2>1 DEF Complete, In, Reported, Remembering, CallType
<1>12. CASE Reader(c)
  BY <1>12 DEF Reader, ReadLine, ReaderEnds, Reported, Remembering, CallType
<1> QED BY <1>1, <1>2, <1>3, <1>4, <1>5, <1>6, <1>7, <1>8, <1>9, <1>10, <1>11, <1>12,
         <1>13
        DEF CallStep

\* A stop keeps Reported: it is requested before a test is marked, and only a test
\* whose memory is in use is marked.
LEMMA StopReported ==
  ASSUME Inv, RequestStop \/ StopStep, \A u \in Tests : Reported(u)
  PROVE  \A u \in Tests : Reported(u)'
<1>0. /\ jni \in StaticsType /\ stop \in StopType /\ UNCHANGED call
      /\ \A u \in Tests : call[u] \in CallType
  BY DEF Inv, JniTypeOK, RequestStop, StopStep, CheckStop, MarkStop, SendStop, ShutStop
<1> USE <1>0
<1>1. CASE RequestStop
  BY <1>1 DEF RequestStop, StopIn, Reported, StaticsType, StopType
<1>2. CASE CheckStop
  BY ZenonT(40), <1>2 DEF CheckStop, Using, StopIn, Reported, StaticsType, StopType
<1>3. CASE MarkStop
  <2>1. CASE stop.target # NULL /\ call[stop.target].mem = "live"
    <3> DEFINE g == stop.target
    <3>1. g \in Tests
      BY <2>1 DEF StopType
    <3>2. /\ UNCHANGED jni /\ stop.pc = "mark" /\ stop'.pc = "send" /\ stop'.target = g
          /\ stop'.marked = stop.marked \cup {g}
      BY <1>3, <2>1 DEF MarkStop, StopIn, Using, StopType
    <3>3. call[g].pc \in {"setup", "run", "fclose", "free"}
      BY <2>1, <3>1 DEF Inv, Memory, Freed, Reported, CallType
    <3>4. jni.stop_requested /\ call[g].said = "none"
      BY <3>1, <3>2, <3>3 DEF Reported, Remembering
    <3> QED BY <3>1, <3>2, <3>3, <3>4 DEF Reported
  <2> QED BY <1>3, <2>1 DEF MarkStop, StopIn, Using, Reported, StaticsType
<1>4. CASE SendStop
  BY <1>4 DEF SendStop, StopIn, Using, Reported, StaticsType, StopType
<1>5. CASE ShutStop
  BY ZenonT(40), <1>5 DEF ShutStop, StopIn, Using, Reported, StaticsType, StopType
<1> QED BY <1>1, <1>2, <1>3, <1>4, <1>5 DEF StopStep

-----------------------------------------------------------------------------
\* No test has threads, and no stop was requested, at the start.
LEMMA InitTInv == Init => TInv
<1> SUFFICES ASSUME Init PROVE TInv
  OBVIOUS
<1> USE JniAssumption
<1>1. <<>> \in Seq(Messages) /\ <<>> \in Seq([test : Tests, kind : {"ctrl", "data"}])
      /\ <<>> \in Seq({"snd", "rcv"})
  OBVIOUS
<1>2. NewTest \in TestType
  BY <1>1 DEF NewTest, TestType, Messages, States
<1>3. ServerTypeOK /\ Serving
  BY <1>1, <1>2 DEF Init, ClientInit, ServerTypeOK, ClientTypeOK, NetType, IdleServer,
                    ServerType, Messages, States,
           Serving
<1>4. ASSUME NEW c \in Tests PROVE Threads(c) /\ Reported(c)
  <2>1. /\ test[c].pc = "idle" /\ test[c].live = {} /\ test[c].state = "NONE"
        /\ net[c].toCli = <<>> /\ net[c].toSrv = <<>> /\ srv.pc = "closed"
        /\ call[c].pc = "idle" /\ call[c].mem = "none" /\ call[c].said = "none"
        /\ stop.marked = {} /\ stop.pc = "idle"
    BY DEF Init, ClientInit, NewTest, IdleServer
  <2> QED BY <2>1, QueuedEmpty
          DEF Threads, EndedOnceSaid, NoFarewell, Reported, Remembering
<1> QED BY <1>3, <1>4, InitInv DEF TInv

\* Every step keeps TInv.
LEMMA NextTInv == TInv /\ [Next]_vars => TInv'
<1> SUFFICES ASSUME TInv, [Next]_vars PROVE TInv'
  OBVIOUS
<1>0. Inv /\ ServerTypeOK /\ Serving /\ (\A u \in Tests : Threads(u)) /\ \A u \in Tests : Reported(u)
  BY DEF TInv
<1>1. Inv'
  BY <1>0, NextInv
<1>2. CASE UNCHANGED vars
  BY ZenonT(40), <1>2, <1>1, <1>0
  DEF TInv, vars, svars, cvars, jvars, ServerTypeOK, ClientTypeOK, Serving, Threads,
      EndedOnceSaid,
      Ended, NoFarewell, Reported
<1>3. ASSUME NEW c \in Tests,
             New(c) \/ CallStep(c) \/ TimeUp(c) \/ CallFails(c) \/ Reader(c)
      PROVE  TInv'
  <2>1. ServerTypeOK' /\ UNCHANGED srv /\ \A u \in Tests : Threads(u)'
    BY <1>0, <1>3, CallThreads
  <2>2. \A u \in Tests : Reported(u)'
    BY <1>0, <1>3, CallReported
  <2> QED BY <1>0, <1>1, <2>1, <2>2 DEF TInv, Serving
<1>4. ASSUME NEW c \in Tests, ThreadExits(c) \/ Cut(c) PROVE TInv'
  <2>1. ServerTypeOK' /\ UNCHANGED srv /\ \A u \in Tests : Threads(u)'
    BY <1>0, <1>4, CallThreads
  <2>2. \A u \in Tests : Reported(u)'
    BY <1>0, <1>4 DEF ThreadExits, Cut, jvars, Reported
  <2> QED BY <1>0, <1>1, <2>1, <2>2 DEF TInv, Serving
<1>5. CASE RequestStop \/ StopStep
  <2>1. ServerTypeOK' /\ UNCHANGED srv /\ \A u \in Tests : Threads(u)'
    BY <1>0, <1>5, StopThreads
  <2>2. \A u \in Tests : Reported(u)'
    BY <1>0, <1>5, StopReported
  <2> QED BY <1>0, <1>1, <2>1, <2>2 DEF TInv, Serving
<1>6. CASE Server \/ ServerCallFails
  <2>1. ServerFrame /\ ServerTypeOK' /\ UNCHANGED jvars
    BY <1>0, <1>6, ServerStepFrame DEF Server, ServerCallFails, ServerEvent
  <2>2. \A u \in Tests : Threads(u)'
    BY <1>0, <2>1, ServerStepThreads
  <2>3. \A u \in Tests : Reported(u)'
    BY <1>0, <2>1 DEF jvars, Reported
  <2> QED BY <1>1, <2>1, <2>2, <2>3 DEF TInv, ServerFrame
<1> QED BY <1>2, <1>3, <1>4, <1>5, <1>6 DEF Next

\* The invariant of threads and stops holds in every state.
THEOREM TInvHolds == Spec => []TInv
<1> QED BY InitTInv, NextTInv, PTL DEF Spec

\* No thread on freed memory without a stop (WorkersJoinedUnlessStopped): when
\* iperf_free_test frees a test that no stop has marked, iperf_run_client had joined
\* its stream threads on every path by which it returns.
THEOREM ThreadsJoined == Spec => []WorkersJoinedUnlessStopped
<1>1. TInv => WorkersJoinedUnlessStopped
  BY DEF TInv, Threads, WorkersJoinedUnlessStopped
<1> QED BY <1>1, TInvHolds, PTL

\* A stop is reported (StopIsReported): when forceStopIperfTest has marked a test,
\* the final message of its call is that the test was stopped, whatever the result.
THEOREM StopsAreReported == Spec => []StopIsReported
<1>1. TInv => StopIsReported
  BY DEF TInv, Reported, StopIsReported
<1> QED BY <1>1, TInvHolds, PTL
=============================================================================
