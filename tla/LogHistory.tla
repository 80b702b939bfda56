----------------------------- MODULE LogHistory -----------------------------
(* The files of the app: the logs that tests write, part by part            *)
(* (IperfTestManage.append), the history that lists them, refreshed by       *)
(* coroutines on other threads (ResultHistoryFragment), the dialog that      *)
(* deletes one and the AI summary that is kept beside it (HistoryAdapter).   *)
(* What runs on the main thread is one action; a coroutine on Dispatchers.IO *)
(* takes a step for each file it touches. A text stands for a line that the  *)
(* history looks for; the others do not matter to it.                        *)
EXTENDS Integers, SequencesExt

CONSTANTS Plans,        \* how many iterations each test is asked for
          PartSize,     \* MAX_LOG_SIZE, in texts
          MaxAnalyzed,  \* MAX_LOG_CHARS, in texts
          Loads,        \* bound: loads under way at a time, as 1 .. n
          Requests,     \* bound: requests under way at a time, as 1 .. n
          MaxLoads,     \* bound: loads begun
          MaxDialogs    \* bound: dialogs and requests begun
ASSUME LogAssumption ==
  /\ Plans \in Seq(Nat \ {0})
  /\ {PartSize, MaxAnalyzed, MaxLoads, MaxDialogs} \subseteq Nat

VARIABLES disk,         \* the directory: name -> [texts, time]
          fileTime,        \* the file system's time
          written,        \* what each test did and appended
          recorded,     \* lastLogFileCount, lastLogFileModified
          loads, logs,  \* coroutines of refreshLogEntries, rows of the adapter
          refreshing,   \* swipeRefreshLayout.isRefreshing
          dialog,       \* the popup and the dialog: the row's entry, its holder's position
          requests,     \* coroutines of the AI analysis
          shown,        \* the summary shown last
          crashed,      \* an exception ended the app
          seen          \* history: what made the list unreliable; bounded counts

logVars == <<disk, fileTime, written, recorded, loads, logs, refreshing, dialog, requests,
             shown, crashed, seen>>

None == [log |-> <<>>]
Idle == [pc |-> "idle"]

LogInit ==
  /\ disk = <<>> /\ fileTime = 1
  /\ written = [t \in DOMAIN Plans |-> [begun |-> 0, open |-> FALSE, texts |-> <<>>, cut |-> FALSE]]
  /\ recorded = [count |-> 0, modified |-> 0]
  /\ loads = [l \in Loads |-> Idle] /\ logs = <<>> /\ refreshing = FALSE
  /\ dialog = None /\ requests = [r \in Requests |-> Idle] /\ shown = None
  /\ crashed = FALSE
  /\ seen = [overlapped |-> FALSE, raced |-> FALSE, wrong |-> FALSE,
             loads |-> 0, dialogs |-> 0]

----------------------------------------------------------------------------
(* Files *)

LogName(t, p) == <<"iPerf3", t, p>>

\* Mutant of AiFile: the summary is kept for the test, not for the part.
AiFileOfTest(f) == <<"AI", f[2], 1>>

AiFile(f) == <<"AI", f[2], f[3]>>

LogFiles == {f \in DOMAIN disk : f[1] = "iPerf3"}

\* No two writes get the same time.
WriteFile(f, texts) ==
  /\ fileTime' = fileTime + 1
  /\ disk' = [g \in DOMAIN disk \cup {f} |->
                IF g = f THEN [texts |-> texts, time |-> fileTime'] ELSE disk[g]]

(* Tests *)

\* getWritableLogFile: the first part that does not exist or is not full.
WritablePart(t) ==
  CHOOSE p \in 1 .. Cardinality(LogFiles) + 1 :
    LET free(q) == LogName(t, q) \in DOMAIN disk => Len(disk[LogName(t, q)].texts) < PartSize
    IN free(p) /\ \A q \in 1 .. p - 1 : ~free(q)

Content(f) == IF f \in DOMAIN disk THEN disk[f].texts ELSE <<>>

\* Mutant of AppendText: writeText for appendText.
Overwrite(t, text) == WriteFile(LogName(t, WritablePart(t)), <<text>>)

AppendText(t, text) ==
  LET f == LogName(t, WritablePart(t)) IN WriteFile(f, Append(Content(f), text))

Appended(t, text, changes) ==
  /\ AppendText(t, text)
  /\ written' = [written EXCEPT ![t] = [changes EXCEPT !.texts = Append(@, text)]]
  /\ UNCHANGED <<recorded, loads, logs, refreshing, dialog, requests, shown, crashed, seen>>

StartIteration(t) ==
  /\ ~crashed /\ ~written[t].open /\ written[t].begun < Plans[t]
  /\ Appended(t, "starting", [written[t] EXCEPT !.begun = @ + 1, !.open = TRUE])

EndIteration(t) ==
  /\ ~crashed /\ written[t].open
  /\ \E text \in {"done", "error"} : Appended(t, text, [written[t] EXCEPT !.open = FALSE])

----------------------------------------------------------------------------
(* The list *)

\* Mutant of Signature: only the number of files is looked at.
CountOnly == [count |-> Cardinality(DOMAIN disk), modified |-> 0]

\* What shouldRefreshLogs compares: the number of files, of any kind, and the
\* time of the one written last.
Signature ==
  [count |-> Cardinality(DOMAIN disk), modified |-> Max({disk[f].time : f \in DOMAIN disk} \cup {0})]

Loading == \E l \in Loads : loads[l] # Idle

\* refreshLogEntries
Launch ==
  /\ seen.loads < MaxLoads
  /\ \E l \in Loads :
       /\ loads[l] = Idle /\ \A k \in 1 .. l - 1 : loads[k] # Idle
       /\ loads' = [loads EXCEPT ![l] = [pc |-> "list", todo |-> <<>>, rows |-> <<>>]]
  /\ seen' = [seen EXCEPT !.loads = @ + 1, !.overlapped = @ \/ Loading]

\* onResume: the tab is chosen or the app comes back, with a dialog open or not.
Resume ==
  /\ ~crashed /\ Signature # recorded
  /\ recorded' = Signature
  /\ Launch
  /\ UNCHANGED <<disk, fileTime, written, logs, refreshing, dialog, requests, shown, crashed>>

\* The layout takes no swipe while it shows that it refreshes.
Swipe ==
  /\ ~crashed /\ ~refreshing /\ dialog = None
  /\ refreshing' = TRUE
  /\ Launch
  /\ UNCHANGED <<disk, fileTime, written, recorded, logs, dialog, requests, shown, crashed>>

Newest(s) == \A i, j \in DOMAIN s : i < j => disk[s[i]].time >= disk[s[j]].time

\* The logs by the time of their last write, the newest first.
Listings ==
  {s \in [1 .. Cardinality(LogFiles) -> LogFiles] :
     Newest(s) /\ \A i, j \in DOMAIN s : s[i] = s[j] => i = j}

ListFiles(l) ==
  /\ ~crashed /\ loads[l] # Idle /\ loads[l].pc = "list"
  /\ \E s \in Listings :
       loads' = [loads EXCEPT ![l] = [pc |-> "parse", todo |-> s, rows |-> <<>>]]
  /\ UNCHANGED <<disk, fileTime, written, recorded, logs, refreshing, dialog, requests, shown, crashed, seen>>

\* A row shows what parseLogDetails finds in the texts of one file.
Row(f, texts) == [log |-> f, texts |-> texts]

\* A file that is gone throws, and nothing catches it.
ParseFile(l) ==
  /\ ~crashed /\ loads[l] # Idle /\ loads[l].pc = "parse" /\ loads[l].todo # <<>>
  /\ LET f == Head(loads[l].todo)
     IN IF f \in DOMAIN disk
        THEN /\ loads' = [loads EXCEPT ![l] = [pc |-> "parse", todo |-> Tail(@.todo),
                                               rows |-> Append(@.rows, Row(f, disk[f].texts))]]
             /\ UNCHANGED crashed
        ELSE crashed' = TRUE /\ UNCHANGED loads
  /\ UNCHANGED <<disk, fileTime, written, recorded, logs, refreshing, dialog, requests, shown, seen>>

\* Back on the main thread. notifyDataSetChanged has the holders bound anew, to
\* any row or to none: an open dialog keeps its holder.
ShowRows(l) ==
  /\ ~crashed /\ loads[l] # Idle /\ loads[l].pc = "parse" /\ loads[l].todo = <<>>
  /\ logs' = loads[l].rows /\ refreshing' = FALSE
  /\ loads' = [loads EXCEPT ![l] = Idle]
  /\ IF dialog = None THEN UNCHANGED dialog
     ELSE \E i \in 0 .. Len(logs') : dialog' = [dialog EXCEPT !.position = i]
  /\ UNCHANGED <<disk, fileTime, written, recorded, requests, shown, crashed, seen>>

----------------------------------------------------------------------------
(* Deletion *)

OpenDialog(i) ==
  /\ ~crashed /\ dialog = None /\ seen.dialogs < MaxDialogs
  /\ dialog' = [log |-> logs[i].log, position |-> i]
  /\ seen' = [seen EXCEPT !.dialogs = @ + 1]
  /\ UNCHANGED <<disk, fileTime, written, recorded, loads, logs, refreshing, requests, shown, crashed>>

Cancel ==
  /\ ~crashed /\ dialog # None /\ dialog' = None
  /\ UNCHANGED <<disk, fileTime, written, recorded, loads, logs, refreshing, requests, shown, crashed, seen>>

\* Mutant of WithoutRow: removeAt is forgotten.
WithRow(i) == logs

WithoutRow(i) == SubSeq(logs, 1, i - 1) \o SubSeq(logs, i + 1, Len(logs))

\* The file deleted is that of the holder's position; without one nothing happens,
\* and a file that is gone leaves its row.
ConfirmDelete ==
  /\ ~crashed /\ dialog # None /\ dialog' = None
  /\ LET i == dialog.position
         f == logs[i].log
     IN IF i # 0 /\ f \in DOMAIN disk
        THEN /\ disk' = [g \in DOMAIN disk \ {f} |-> disk[g]]
             /\ logs' = WithoutRow(i)
             /\ written' = [written EXCEPT ![f[2]].cut = TRUE]
             /\ seen' = [seen EXCEPT !.raced = @ \/ Loading, !.wrong = @ \/ f # dialog.log]
        ELSE UNCHANGED <<disk, logs, written, seen>>
  /\ UNCHANGED <<fileTime, recorded, loads, refreshing, requests, shown, crashed>>

----------------------------------------------------------------------------
(* The AI summary *)

View(f) == shown' = [log |-> f, texts |-> disk[AiFile(f)].texts]

\* A summary that exists is shown; a log that is gone throws on the main thread;
\* one that is too long is refused.
Analyze(i) ==
  LET f == logs[i].log IN
  /\ ~crashed /\ dialog = None /\ seen.dialogs < MaxDialogs
  /\ seen' = [seen EXCEPT !.dialogs = @ + 1]
  /\ \/ AiFile(f) \in DOMAIN disk /\ View(f) /\ UNCHANGED <<requests, crashed>>
     \/ /\ {f, AiFile(f)} \cap DOMAIN disk = {}
        /\ crashed' = TRUE /\ UNCHANGED <<requests, shown>>
     \/ /\ AiFile(f) \notin DOMAIN disk /\ f \in DOMAIN disk
        /\ Len(disk[f].texts) > MaxAnalyzed /\ UNCHANGED <<requests, shown, crashed>>
     \/ /\ AiFile(f) \notin DOMAIN disk /\ f \in DOMAIN disk
        /\ Len(disk[f].texts) <= MaxAnalyzed
        /\ \E r \in Requests :
             /\ requests[r] = Idle /\ \A q \in 1 .. r - 1 : requests[q] # Idle
             /\ requests' = [requests EXCEPT ![r] = [pc |-> "sent", log |-> f,
                                                     prompt |-> disk[f].texts]]
        /\ UNCHANGED <<shown, crashed>>
  /\ UNCHANGED <<disk, fileTime, written, recorded, loads, logs, refreshing, dialog>>

Stage(r, pc) == ~crashed /\ requests[r] # Idle /\ requests[r].pc = pc

\* sendGeminiRequest fails: a dialog.
RequestFails(r) ==
  /\ Stage(r, "sent")
  /\ requests' = [requests EXCEPT ![r] = Idle]
  /\ UNCHANGED <<disk, fileTime, written, recorded, loads, logs, refreshing, dialog, shown, crashed, seen>>

\* It answers: writeText empties the file, writes it, and the viewer reads it.
AnswerArrives(r) ==
  /\ Stage(r, "sent")
  /\ WriteFile(AiFile(requests[r].log), <<>>)
  /\ requests' = [requests EXCEPT ![r].pc = "opened"]
  /\ UNCHANGED <<written, recorded, loads, logs, refreshing, dialog, shown, crashed, seen>>

WriteAnswer(r) ==
  /\ Stage(r, "opened")
  /\ WriteFile(AiFile(requests[r].log), requests[r].prompt)
  /\ requests' = [requests EXCEPT ![r].pc = "written"]
  /\ UNCHANGED <<written, recorded, loads, logs, refreshing, dialog, shown, crashed, seen>>

ViewAnswer(r) ==
  /\ Stage(r, "written")
  /\ View(requests[r].log)
  /\ requests' = [requests EXCEPT ![r] = Idle]
  /\ UNCHANGED <<disk, fileTime, written, recorded, loads, logs, refreshing, dialog, crashed, seen>>

----------------------------------------------------------------------------
LogNext ==
  \/ \E t \in DOMAIN written : StartIteration(t) \/ EndIteration(t)
  \/ Resume \/ Swipe
  \/ \E l \in Loads : ListFiles(l) \/ ParseFile(l) \/ ShowRows(l)
  \/ \E i \in DOMAIN logs : OpenDialog(i) \/ Analyze(i)
  \/ Cancel \/ ConfirmDelete
  \/ \E r \in Requests : RequestFails(r) \/ AnswerArrives(r) \/ WriteAnswer(r) \/ ViewAnswer(r)

LogSpec == LogInit /\ [][LogNext]_logVars
----------------------------------------------------------------------------
(* Properties *)

\* The parts of a log, in order, are what the test appended, whatever the other
\* test, the history and the analyses do, unless the user deleted one of them
\* (append, getWritableLogFile).
LogsComplete ==
  \A t \in DOMAIN written :
    LET parts == Cardinality({f \in LogFiles : f[2] = t})
    IN ~written[t].cut => FlattenSeq([p \in 1 .. parts |-> Content(LogName(t, p))]) = written[t].texts

\* The list is that of the logs that exist, the newest first, each with what its
\* file says now.
Current ==
  /\ {logs[i] : i \in DOMAIN logs} = {Row(f, disk[f].texts) : f \in LogFiles}
  /\ Len(logs) = Cardinality(LogFiles)
  /\ Newest([i \in DOMAIN logs |-> logs[i].log])

Settled == ~crashed /\ ~Loading /\ recorded = Signature

\* When shouldRefreshLogs finds no change and nothing loads, the list is current,
\* unless loads overlapped (nothing orders them: the older listing may be shown
\* last) or a log was deleted while one was under way (what is recorded may be
\* met again then).
CurrentWhenUnchanged == Settled /\ ~seen.overlapped /\ ~seen.raced => Current

\* Every row has its file and nothing throws, unless a log was deleted while a
\* load was under way (parseLogDetails, readText).
RowsHaveFiles ==
  ~seen.raced => ~crashed /\ \A i \in DOMAIN logs : logs[i].log \in DOMAIN disk

\* "Are you sure you want to delete this log file?" (HistoryAdapter.kt:164): the
\* file deleted is that of the row whose menu was opened.
DeletesWhatWasAsked == ~seen.wrong

\* The summary shown for a log is about that very log, as it was when it was sent
\* or emptied by a write under way, unless a part of its test was deleted.
SummaryOfThisLog ==
  shown # None /\ ~written[shown.log[2]].cut => IsPrefix(shown.texts, Content(shown.log))
=============================================================================
