------------------------------ MODULE TimerList -----------------------------
(* The timer list of iperf3 (timer.c) and its user, the loop of a test: the  *)
(* timers a client or a server sets when a test starts, the select() that    *)
(* waits for the first of them, the pass over the list, and their removal.   *)
EXTENDS Naturals, Sequences, FiniteSets

CONSTANTS Settings,        \* the settings of the tests, see SettingsType
          MaxTests,        \* bound: tests one after the other
          MaxClock,        \* bound: length of a test
          Grace            \* what the server adds to the duration
ASSUME TimerAssumption ==
  /\ MaxTests \in Nat /\ MaxClock \in Nat /\ Grace \in Nat
  /\ \A s \in Settings : /\ s.role \in {"client", "server"}
                         /\ s.duration \in Nat /\ s.omit \in Nat
                         /\ s.stats \in Nat /\ s.reporter \in Nat
                         /\ s.capped \in BOOLEAN

VARIABLES heap,    \* the static variables timers and free_timers, and the cells
          ptr,     \* test->timer, omit_timer, stats_timer, reporter_timer
          clock,   \* iperf_time_now
          loop,    \* position of the thread that runs the test
          walk,    \* the locals of tmr_run
          tst,     \* the test: its settings, done, omitting
          fired,   \* history: the timers fired in this call of tmr_run
          tests    \* history: tests begun

timerVars == <<heap, ptr, clock, loop, walk, tst, fired, tests>>

TimerKinds == {"timer", "stats", "reporter", "omit"}
MaxCells == 4
Cells == 1 .. MaxCells
NoCell == 0            \* a NULL pointer
NoTime == 0 - 1        \* no timeout, no due time

\* A cell: what it is for, its interval, when it is due, its links.
FreeCell(n) == [proc |-> "none", usecs |-> 0, periodic |-> FALSE, time |-> 0,
                prev |-> NoCell, next |-> n]
NoTest == [role |-> "none", duration |-> 0, omit |-> 0, stats |-> 0,
           reporter |-> 0, capped |-> FALSE, done |-> FALSE, omitting |-> FALSE]

----------------------------------------------------------------------------
(* The list. MaxCells cells can follow each other; one more is a cycle.      *)
Follows(h, c) == IF c = NoCell THEN NoCell ELSE h.cell[c].next

Chain(h, c1) ==
  LET c2 == Follows(h, c1)
      c3 == Follows(h, c2)
      c4 == Follows(h, c3)
      c5 == Follows(h, c4)
      cells == <<c1, c2, c3, c4, c5>>
  IN SubSeq(cells, 1, Cardinality({n \in 1 .. 5 : cells[n] # NoCell}))

Active(h) == Chain(h, h.timers)
Free(h) == Chain(h, h.free)
Elements(s) == {s[n] : n \in DOMAIN s}

Linked(h, before, t, after) ==
  [h EXCEPT !.timers = IF before = NoCell THEN t ELSE @,
            !.cell = [c \in Cells |->
              CASE c = t -> [h.cell[c] EXCEPT !.prev = before, !.next = after]
                [] c = before -> [h.cell[c] EXCEPT !.next = t]
                [] c = after -> [h.cell[c] EXCEPT !.prev = t]
                [] OTHER -> h.cell[c]]]

\* Before the first timer that is due later, that is behind those due at the
\* same time.
ListAdd(h, t) ==
  LET list == Active(h)
      later == {n \in DOMAIN list : h.cell[t].time < h.cell[list[n]].time}
      n == IF later = {} THEN Len(list) + 1
           ELSE CHOOSE i \in later : \A j \in later : i <= j
  IN Linked(h, IF n = 1 THEN NoCell ELSE list[n - 1], t,
            IF n > Len(list) THEN NoCell ELSE list[n])

\* The cell itself keeps its links.
ListRemove(h, t) ==
  LET p == h.cell[t].prev
      n == h.cell[t].next
  IN [h EXCEPT !.timers = IF p = NoCell THEN n ELSE @,
               !.cell = [c \in Cells |->
                 CASE c = p -> [h.cell[c] EXCEPT !.next = n]
                   [] c = n -> [h.cell[c] EXCEPT !.prev = p]
                   [] OTHER -> h.cell[c]]]

ListResort(h, t) == ListAdd(ListRemove(h, t), t)

TmrCell(h) == IF h.free # NoCell THEN h.free ELSE h.made + 1

TmrCreate(h, now, proc, usecs, periodic) ==
  LET t == TmrCell(h)
      g == IF h.free # NoCell THEN [h EXCEPT !.free = h.cell[t].next]
           ELSE [h EXCEPT !.made = t]
  IN ListAdd([g EXCEPT !.cell[t] = [proc |-> proc, usecs |-> usecs,
                periodic |-> periodic, time |-> now + usecs,
                prev |-> NoCell, next |-> NoCell]], t)

TmrCancel(h, t) ==
  LET g == ListRemove(h, t)
  IN [g EXCEPT !.cell[t] = FreeCell(g.free), !.free = t]

TmrReset(h, now, t) ==
  ListResort([h EXCEPT !.cell[t].time = now + h.cell[t].usecs], t)

\* Mutant of Reschedule: the new time is set, the list is not sorted again.
RescheduleInPlace(h, t) == [h EXCEPT !.cell[t].time = @ + h.cell[t].usecs]

\* Rescheduling counts from the time the timer was due, not from now.
Reschedule(h, t) ==
  ListResort([h EXCEPT !.cell[t].time = @ + h.cell[t].usecs], t)

TmrTimeout(h, now) ==
  IF h.timers = NoCell THEN NoTime
  ELSE LET first == h.cell[h.timers].time IN IF first < now THEN now ELSE first

----------------------------------------------------------------------------
(* A test starts: the timers are made one after the other; a timer whose     *)
(* interval is 0 is not set. Memory may run out when no freed cell is left.  *)
TimerInit ==
  /\ heap = [timers |-> NoCell, free |-> NoCell, made |-> 0,
             cell |-> [c \in Cells |-> FreeCell(NoCell)]]
  /\ ptr = [k \in TimerKinds |-> NoCell]
  /\ clock = 0 /\ tests = 0 /\ tst = NoTest /\ fired = {}
  /\ loop = [at |-> "idle", until |-> NoTime]
  /\ walk = [t |-> NoCell, now |-> 0]

CreationOrder == <<"timer", "stats", "reporter", "omit", "top">>
After(k) == CreationOrder[1 + CHOOSE i \in 1 .. 4 : CreationOrder[i] = k]

Interval(k) ==
  CASE k = "timer" -> IF tst.duration = 0 THEN 0
                      ELSE tst.duration + tst.omit
                           + (IF tst.role = "server" THEN Grace ELSE 0)
    [] k = "stats" -> tst.stats
    [] k = "reporter" -> tst.reporter
    [] k = "omit" -> tst.omit

BeginTest ==
  /\ loop.at = "idle" /\ tests < MaxTests
  /\ \E s \in Settings :
       tst' = [k \in DOMAIN NoTest |-> IF k \in {"done", "omitting"} THEN FALSE ELSE s[k]]
  /\ tests' = tests + 1
  /\ ptr' = [k \in TimerKinds |-> NoCell]
  /\ loop' = [loop EXCEPT !.at = "timer"]
  /\ UNCHANGED <<heap, clock, walk, fired>>

CreateTimer(k) ==
  /\ loop.at = k
  /\ IF Interval(k) = 0 THEN UNCHANGED <<heap, ptr>>
     ELSE /\ heap' = TmrCreate(heap, clock, k, Interval(k), k \in {"stats", "reporter"})
          /\ ptr' = [ptr EXCEPT ![k] = TmrCell(heap)]
  /\ tst' = IF k = "omit" THEN [tst EXCEPT !.omitting = tst.omit # 0] ELSE tst
  /\ loop' = [loop EXCEPT !.at = After(k)]
  /\ UNCHANGED <<clock, walk, fired, tests>>

CreateFails(k) ==
  /\ loop.at = k /\ Interval(k) # 0 /\ heap.free = NoCell
  /\ loop' = [loop EXCEPT !.at = "cancel"]
  /\ UNCHANGED <<heap, ptr, clock, walk, tst, fired, tests>>

----------------------------------------------------------------------------
(* A round of the loop. select() returns when a message comes, when the      *)
(* first timer is due, or earlier when the loop caps the wait because it     *)
(* watches whether data arrives. The client runs the timers in each round,   *)
(* the server only when the wait was over or there was none.                 *)
AwaitTimer ==
  /\ loop.at = "top"
  /\ loop' = [at |-> "select", until |-> TmrTimeout(heap, clock)]
  /\ UNCHANGED <<heap, ptr, clock, walk, tst, fired, tests>>

RunsTimers(message) ==
  tst.role = "client" \/ ~message \/ loop.until = clock

SelectReturns(message) ==
  /\ loop.at = "select"
  /\ message \/ tst.capped \/ (loop.until # NoTime /\ loop.until <= clock)
  /\ IF RunsTimers(message)
     THEN /\ walk' = [t |-> heap.timers, now |-> clock]
          /\ loop' = [at |-> "walk", until |-> NoTime]
     ELSE /\ loop' = [at |-> "top", until |-> NoTime]
          /\ UNCHANGED walk
  /\ UNCHANGED <<heap, ptr, clock, tst, fired, tests>>

\* Mutant of TimerProc: the pointer to a timer that has fired stays.
ForgetfulProc(k) ==
  CASE k = "timer" -> tst' = [tst EXCEPT !.done = TRUE] /\ UNCHANGED ptr
    [] k = "omit" -> tst' = [tst EXCEPT !.omitting = FALSE] /\ UNCHANGED ptr
    [] OTHER -> UNCHANGED <<ptr, tst>>

\* The procedures. The statistics and the reports change no timer.
TimerProc(k) ==
  CASE k = "timer" -> /\ ptr' = [ptr EXCEPT !.timer = NoCell]
                      /\ tst' = [tst EXCEPT !.done = TRUE]
    [] k = "omit" -> /\ ptr' = [ptr EXCEPT !.omit = NoCell]
                     /\ tst' = [tst EXCEPT !.omitting = FALSE]
    [] OTHER -> UNCHANGED <<ptr, tst>>

ResetIf(h, t) == IF t = NoCell THEN h ELSE TmrReset(h, walk.now, t)

ProcHeap(k) ==
  IF k = "omit" THEN ResetIf(ResetIf(heap, ptr.stats), ptr.reporter) ELSE heap

\* One round of the loop in tmr_run. The successor is read before the
\* procedure runs, which may move it.
FireTimer ==
  LET t == walk.t
      next == heap.cell[t].next
      k == heap.cell[t].proc
  IN /\ loop.at = "walk" /\ t # NoCell
     /\ heap.cell[t].time <= walk.now
     /\ TimerProc(k)
     /\ \E h \in {ProcHeap(k)} :
          heap' = IF h.cell[t].periodic THEN Reschedule(h, t) ELSE TmrCancel(h, t)
     /\ walk' = [walk EXCEPT !.t = next]
     /\ fired' = fired \cup {k}
     /\ UNCHANGED <<clock, loop, tests>>

WalkEnds ==
  /\ loop.at = "walk"
  /\ walk.t # NoCell => heap.cell[walk.t].time > walk.now
  /\ loop' = [loop EXCEPT !.at = IF tst.role = "client" /\ ~tst.omitting /\ tst.done
                                 THEN "cancel" ELSE "top"]
  /\ walk' = [t |-> NoCell, now |-> 0]
  /\ fired' = {}
  /\ UNCHANGED <<heap, ptr, clock, tst, tests>>

----------------------------------------------------------------------------
(* The test is over, or has failed. The client removes the timers when the   *)
(* test is freed, the server in cleanup_server, which also clears the        *)
(* pointers because iperf_reset_test removes timers too.                     *)
TestOver ==
  /\ loop.at = "top" /\ loop' = [loop EXCEPT !.at = "cancel"]
  /\ UNCHANGED <<heap, ptr, clock, walk, tst, fired, tests>>

CancelOrder ==
  IF tst.role = "server" THEN <<"stats", "reporter", "omit", "timer">>
  ELSE <<"omit", "timer", "stats", "reporter">>

CancelTimers ==
  LET CancelIf(h, t) == IF t = NoCell THEN h ELSE TmrCancel(h, t)
      h[n \in 0 .. 4] == IF n = 0 THEN heap ELSE CancelIf(h[n - 1], ptr[CancelOrder[n]])
  IN /\ loop.at = "cancel"
     /\ heap' = h[4]
     /\ ptr' = [k \in TimerKinds |-> NoCell]
     /\ tst' = NoTest
     /\ loop' = [loop EXCEPT !.at = "idle"]
     /\ UNCHANGED <<clock, walk, fired, tests>>

\* Time is counted anew when no test runs.
Tick ==
  /\ \/ loop.at \in {"omit", "top", "select", "walk"} /\ clock < MaxClock /\ clock' = clock + 1
     \/ loop.at = "idle" /\ clock # 0 /\ clock' = 0
  /\ UNCHANGED <<heap, ptr, loop, walk, tst, fired, tests>>

RunLoop ==
  \/ AwaitTimer \/ FireTimer \/ WalkEnds \/ CancelTimers
  \/ \E message \in BOOLEAN : SelectReturns(message)

TimerNext ==
  \/ BeginTest \/ RunLoop \/ TestOver \/ Tick
  \/ \E k \in TimerKinds : CreateTimer(k) \/ CreateFails(k)

TimerSpec == TimerInit /\ [][TimerNext]_timerVars
----------------------------------------------------------------------------
\* The lists stay what they seem: the links of the active list agree in both
\* directions, the list is sorted except for the timer whose procedure is about
\* to be rescheduled, each cell ever made is on exactly one of the two lists
\* once, and a pointer of the test is NULL or names the active timer of its
\* kind, whatever the procedures do to the list while it is walked (timer.c).
TimersLinked ==
  LET list == Active(heap)
      spare == Free(heap)
  IN /\ Len(list) + Len(spare) = heap.made
     /\ Elements(list) \cup Elements(spare) = 1 .. heap.made
     /\ \A n \in DOMAIN list :
          /\ heap.cell[list[n]].prev = (IF n = 1 THEN NoCell ELSE list[n - 1])
          /\ n > 1 => heap.cell[list[n - 1]].time <= heap.cell[list[n]].time
     /\ \A k \in TimerKinds :
          IF ptr[k] = NoCell THEN \A n \in DOMAIN list : heap.cell[list[n]].proc # k
          ELSE ptr[k] \in Elements(list) /\ heap.cell[ptr[k]].proc = k

DueTime(k) ==
  LET mine == {c \in Cells : heap.cell[c].proc = k}
  IN IF mine = {} THEN NoTime ELSE heap.cell[CHOOSE c \in mine : TRUE].time

\* The list implements a set of timers: a pass fires what was due when it began,
\* in order. Only a periodic timer that is due a second time, because the pass
\* comes late, and timers behind the end of the omit period, which moves the
\* timer the walk would go on with, are left for the next pass (timer.c).
TS == INSTANCE TimerSet WITH Kinds <- TimerKinds, Never <- NoTime, Mover <- "omit",
                             pass <- walk.now, due <- [k \in TimerKinds |-> DueTime(k)]
TimerSetSpec == TS!SetSpec
=============================================================================
