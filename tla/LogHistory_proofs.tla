-------------------------- MODULE LogHistory_proofs --------------------------
(* A log holds what its test appended, every row of the history has its file *)
(* and no load throws, a list that shouldRefreshLogs finds unchanged is       *)
(* current, and a summary is about the log it is shown for, whatever the      *)
(* tests, the user and the analyses do: for any number of tests, parts, loads *)
(* and requests.                                                              *)
EXTENDS LogHistory, TLAPS, FiniteSetTheorems, SequenceTheorems

Texts == {"starting", "done", "error"}

SeenOK ==
  seen = [overlapped |-> seen.overlapped, raced |-> seen.raced, wrong |-> seen.wrong,
          loads |-> seen.loads, dialogs |-> seen.dialogs]

Rows == [log : DOMAIN disk, texts : Seq(Texts)]

\* The files of the directory can be counted and hold texts; a request under way
\* remembers the texts it was asked about.
FilesOK ==
  /\ IsFiniteSet(DOMAIN disk)
  /\ \A f \in DOMAIN disk : disk[f].texts \in Seq(Texts)

RequestsOK ==
  /\ DOMAIN requests = Requests
  /\ \A r \in Requests :
       \/ requests[r] = Idle
       \/ /\ requests[r] = [pc |-> requests[r].pc, log |-> requests[r].log, prompt |-> requests[r].prompt]
          /\ requests[r].prompt \in Seq(Texts)

\* What a load has found and will look at: logs that exist, each once.
LoadShape(d) ==
  /\ \A i, j \in 1 .. Len(d.todo) : d.todo[i] = d.todo[j] => i = j
  /\ \A i, j \in 1 .. Len(d.rows) : d.rows[i].log = d.rows[j].log => i = j
  /\ \A i \in 1 .. Len(d.todo), j \in 1 .. Len(d.rows) : d.todo[i] # d.rows[j].log

LoadOK(d) == LoadShape(d) /\ d.todo \in Seq(DOMAIN disk) /\ d.rows \in Seq(Rows)

LoadsOK ==
  /\ DOMAIN loads = Loads
  /\ \A l \in Loads : loads[l] = Idle \/ LoadOK(loads[l])

ListOK ==
  /\ logs \in Seq(Rows)
  /\ \A i, j \in 1 .. Len(logs) : logs[i].log = logs[j].log => i = j

DialogOK ==
  dialog = None \/ /\ dialog = [log |-> dialog.log, position |-> dialog.position]
                   /\ dialog.position \in 0 .. Len(logs)

\* The inductive invariant.
IInv ==
  /\ SeenOK /\ FilesOK /\ RequestsOK /\ DOMAIN written = DOMAIN Plans
  /\ ~seen.raced => ~crashed /\ LoadsOK /\ ListOK /\ DialogOK

----------------------------------------------------------------------------
(* Sequences *)

\* A sequence over a set is one over a larger set.
LEMMA SeqWider ==
  ASSUME NEW S, NEW T, S \subseteq T, NEW s \in Seq(S)
  PROVE  s \in Seq(T)
OBVIOUS

\* A sequence without its element i: the others, in order.
LEMMA SeqWithout ==
  ASSUME NEW S, NEW s \in Seq(S), NEW i \in 1 .. Len(s)
  PROVE  LET w == SubSeq(s, 1, i - 1) \o SubSeq(s, i + 1, Len(s))
         IN /\ w \in Seq(S)
            /\ Len(w) = Len(s) - 1
            /\ \A k \in 1 .. Len(w) : w[k] = s[IF k < i THEN k ELSE k + 1]
<1> DEFINE a == SubSeq(s, 1, i - 1)
           b == SubSeq(s, i + 1, Len(s))
           w == a \o b
<1>1. a \in Seq(S) /\ Len(a) = i - 1 /\ \A k \in 1 .. i - 1 : a[k] = s[k]
  OBVIOUS
<1>2. b \in Seq(S) /\ Len(b) = Len(s) - i /\ \A k \in 1 .. Len(s) - i : b[k] = s[i + k]
  OBVIOUS
<1>3. /\ w \in Seq(S) /\ Len(w) = Len(a) + Len(b)
      /\ \A k \in 1 .. Len(a) + Len(b) : w[k] = IF k <= Len(a) THEN a[k] ELSE b[k - Len(a)]
  <2> HIDE DEF a, b
  <2> QED BY <1>1, <1>2, ConcatProperties DEF w
<1> HIDE DEF a, b, w
<1>4. ASSUME NEW k \in 1 .. Len(w)
      PROVE  w[k] = s[IF k < i THEN k ELSE k + 1]
  <2>1. CASE k < i
    BY <1>1, <1>2, <1>3, <2>1
  <2>2. CASE ~(k < i)
    <3>1. w[k] = b[k - (i - 1)]
      BY <1>1, <1>2, <1>3, <2>2
    <3>2. k - (i - 1) \in 1 .. Len(s) - i /\ i + (k - (i - 1)) = k + 1
      BY <1>1, <1>2, <1>3, <2>2
    <3>3. b[k - (i - 1)] = s[i + (k - (i - 1))]
      BY <1>2, <3>2
    <3> QED BY <3>1, <3>2, <3>3, <2>2
  <2> QED BY <2>1, <2>2
<1>5. Len(w) = Len(s) - 1
  BY <1>1, <1>2, <1>3
<1> QED BY <1>3, <1>4, <1>5 DEF a, b, w

\* The first of the files left gives the next row: the files and rows stay apart.
LEMMA RowMoves ==
  ASSUME NEW D, NEW todo \in Seq(D), todo # <<>>, NEW R, NEW rows \in Seq(R), NEW row \in R,
         row.log = Head(todo), LoadShape([pc |-> "parse", todo |-> todo, rows |-> rows])
  PROVE  LoadShape([pc |-> "parse", todo |-> Tail(todo), rows |-> Append(rows, row)])
<1> DEFINE a == Tail(todo)
           b == Append(rows, row)
<1>1. /\ Len(todo) \in Nat \ {0} /\ Head(todo) = todo[1]
      /\ Len(a) = Len(todo) - 1 /\ \A i \in 1 .. Len(a) : a[i] = todo[i + 1]
  OBVIOUS
<1>2. /\ Len(rows) \in Nat /\ Len(b) = Len(rows) + 1
      /\ \A i \in 1 .. Len(rows) : b[i] = rows[i]
      /\ b[Len(rows) + 1] = row
  OBVIOUS
<1>3. /\ \A i, j \in 1 .. Len(todo) : todo[i] = todo[j] => i = j
      /\ \A i, j \in 1 .. Len(rows) : rows[i].log = rows[j].log => i = j
      /\ \A i \in 1 .. Len(todo), j \in 1 .. Len(rows) : todo[i] # rows[j].log
  BY DEF LoadShape
<1> HIDE DEF a, b
<1>4. ASSUME NEW i \in 1 .. Len(a), NEW j \in 1 .. Len(a), a[i] = a[j] PROVE i = j
  <2>1. i + 1 \in 1 .. Len(todo) /\ j + 1 \in 1 .. Len(todo) /\ todo[i + 1] = todo[j + 1]
    BY <1>1, <1>4
  <2>2. i + 1 = j + 1
    BY <2>1, <1>3
  <2> QED BY <2>2
<1>5. ASSUME NEW i \in 1 .. Len(b), NEW j \in 1 .. Len(b), b[i].log = b[j].log PROVE i = j
  <2>1. \A k \in 1 .. Len(rows) : rows[k].log # row.log
    BY <1>1, <1>3
  <2>2. i \in 1 .. Len(rows) \/ i = Len(rows) + 1
    BY <1>2
  <2>3. j \in 1 .. Len(rows) \/ j = Len(rows) + 1
    BY <1>2
  <2>4. CASE i \in 1 .. Len(rows) /\ j \in 1 .. Len(rows)
    BY <1>2, <1>3, <1>5, <2>4
  <2>5. CASE i \in 1 .. Len(rows) /\ j = Len(rows) + 1
    BY <1>2, <1>5, <2>1, <2>5
  <2>6. CASE i = Len(rows) + 1 /\ j \in 1 .. Len(rows)
    BY <1>2, <1>5, <2>1, <2>6
  <2>7. CASE i = Len(rows) + 1 /\ j = Len(rows) + 1
    BY <2>7
  <2> QED BY <2>2, <2>3, <2>4, <2>5, <2>6, <2>7
<1>6. ASSUME NEW i \in 1 .. Len(a), NEW j \in 1 .. Len(b) PROVE a[i] # b[j].log
  <2>1. i + 1 \in 1 .. Len(todo) /\ i + 1 # 1 /\ 1 \in 1 .. Len(todo) /\ a[i] = todo[i + 1]
    BY <1>1
  <2>2. CASE j \in 1 .. Len(rows)
    BY <1>2, <1>3, <2>1, <2>2
  <2>3. CASE j = Len(rows) + 1
    <3>1. b[j].log = todo[1]
      BY <1>1, <1>2, <2>3
    <3>2. todo[i + 1] # todo[1]
      BY <1>3, <2>1
    <3> QED BY <2>1, <3>1, <3>2
  <2> QED BY <1>2, <2>2, <2>3
<1>7. LoadShape([pc |-> "parse", todo |-> a, rows |-> b])
  BY <1>4, <1>5, <1>6 DEF LoadShape
<1> QED BY <1>7 DEF a, b

----------------------------------------------------------------------------
(* Steps *)

\* It holds at first.
LEMMA InitHolds == LogInit => IInv
<1> SUFFICES ASSUME LogInit PROVE IInv
  OBVIOUS
<1>1. DOMAIN disk = {}
  BY DEF LogInit
<1>2. FilesOK
  BY <1>1, FS_EmptySet DEF FilesOK
<1>3. SeenOK
  BY DEF LogInit, SeenOK
<1>4. RequestsOK /\ LoadsOK
  BY DEF LogInit, RequestsOK, LoadsOK
<1>5. ListOK /\ DialogOK /\ ~crashed
  BY DEF LogInit, ListOK, DialogOK, None
<1>6. DOMAIN written = DOMAIN Plans
  BY DEF LogInit
<1> QED BY <1>2, <1>3, <1>4, <1>5, <1>6 DEF IInv

\* A load that is e after a step.
LEMMA LoadBecomes ==
  ASSUME NEW l \in Loads, NEW e, loads'[l] = e, LoadShape(e),
         e.todo \in Seq(DOMAIN disk'), e.rows \in Seq(Rows')
  PROVE  LoadOK(loads[l])'
<1>1. LoadShape(loads'[l])
  BY Zenon
<1>2. LoadShape(loads[l])'
  BY <1>1 DEF LoadShape
<1> QED BY <1>2 DEF LoadOK

\* A write adds its file, and keeps what holds of loads, rows and the dialog.
LEMMA WriteKeeps ==
  ASSUME FilesOK, NEW f, NEW texts \in Seq(Texts), WriteFile(f, texts)
  PROVE  /\ FilesOK'
         /\ UNCHANGED loads /\ LoadsOK => LoadsOK'
         /\ UNCHANGED logs /\ ListOK => ListOK'
<1>1. DOMAIN disk' = DOMAIN disk \cup {f}
  BY DEF WriteFile
<1>2. IsFiniteSet(DOMAIN disk')
  BY <1>1, FS_AddElement DEF FilesOK
<1>3. \A g \in DOMAIN disk' : disk'[g].texts \in Seq(Texts)
  BY DEF WriteFile, FilesOK
<1>4. Rows \subseteq Rows'
  BY <1>1 DEF Rows
<1>5. ASSUME UNCHANGED loads, LoadsOK PROVE LoadsOK'
  <2> SUFFICES ASSUME NEW l \in Loads, loads[l] # Idle PROVE LoadOK(loads[l])'
    BY <1>5 DEF LoadsOK
  <2>1. LoadOK(loads[l])
    BY <1>5 DEF LoadsOK
  <2>2. loads[l].todo \in Seq(DOMAIN disk') /\ loads[l].rows \in Seq(Rows')
    BY <2>1, <1>1, <1>4, SeqWider DEF LoadOK
  <2> QED BY <2>1, <2>2, <1>5, LoadBecomes DEF LoadOK
<1>6. ASSUME UNCHANGED logs, ListOK PROVE ListOK'
  <2>1. logs \in Seq(Rows')
    BY <1>6, <1>4, SeqWider DEF ListOK
  <2> QED BY <2>1, <1>6 DEF ListOK
<1> QED BY <1>2, <1>3, <1>5, <1>6 DEF FilesOK

\* A step that leaves the directory alone.
LEMMA SameDisk ==
  ASSUME UNCHANGED disk
  PROVE  /\ FilesOK => FilesOK'
         /\ Rows' = Rows
         /\ UNCHANGED loads /\ LoadsOK => LoadsOK'
         /\ UNCHANGED logs /\ ListOK => ListOK'
<1>1. Rows' = Rows
  BY DEF Rows
<1>2. FilesOK => FilesOK'
  BY DEF FilesOK
<1>3. UNCHANGED loads /\ LoadsOK => LoadsOK'
  BY <1>1 DEF LoadsOK, LoadOK, LoadShape
<1>4. UNCHANGED logs /\ ListOK => ListOK'
  BY <1>1 DEF ListOK
<1> QED BY <1>1, <1>2, <1>3, <1>4

\* A text of a test.
LEMMA AppendedKeeps ==
  ASSUME IInv, NEW t \in DOMAIN Plans, NEW text \in Texts, NEW changes, Appended(t, text, changes)
  PROVE  IInv'
<1>1. PICK f : WriteFile(f, Append(Content(f), text))
  BY DEF Appended, AppendText
<1>2. Content(f) \in Seq(Texts)
  BY DEF IInv, FilesOK, Content
<1>3. Append(Content(f), text) \in Seq(Texts)
  BY <1>2
<1>4. UNCHANGED <<loads, logs, dialog, requests, crashed, seen>>
  BY DEF Appended
<1>5. FilesOK' /\ (LoadsOK => LoadsOK') /\ (ListOK => ListOK')
  BY <1>1, <1>3, <1>4, WriteKeeps DEF IInv
<1>6. (DialogOK => DialogOK') /\ RequestsOK'
  BY <1>4 DEF IInv, DialogOK, RequestsOK
<1>7. DOMAIN written' = DOMAIN Plans /\ SeenOK'
  BY DEF Appended, IInv, SeenOK
<1> QED BY <1>4, <1>5, <1>6, <1>7 DEF IInv

\* An iteration that begins or ends.
LEMMA TestKeeps ==
  ASSUME IInv, NEW t \in DOMAIN written, StartIteration(t) \/ EndIteration(t)
  PROVE  IInv'
<1>1. t \in DOMAIN Plans
  BY DEF IInv
<1>2. CASE StartIteration(t)
  <2>1. "starting" \in Texts
    BY DEF Texts
  <2> QED BY <1>1, <1>2, <2>1, AppendedKeeps DEF StartIteration
<1>3. CASE EndIteration(t)
  <2>1. PICK text \in {"done", "error"} : Appended(t, text, [written[t] EXCEPT !.open = FALSE])
    BY <1>3 DEF EndIteration
  <2>2. text \in Texts
    BY <2>1 DEF Texts
  <2> QED BY <1>1, <2>1, <2>2, AppendedKeeps
<1> QED BY <1>2, <1>3

\* A load that begins.
LEMMA LaunchKeeps ==
  ASSUME IInv, Launch, UNCHANGED <<disk, written, logs, dialog, requests, crashed>>
  PROVE  IInv'
<1>1. PICK l \in Loads :
        loads' = [loads EXCEPT ![l] = [pc |-> "list", todo |-> <<>>, rows |-> <<>>]]
  BY DEF Launch
<1>2. SeenOK' /\ seen'.raced = seen.raced
  BY DEF Launch, IInv, SeenOK
<1>3. FilesOK' /\ RequestsOK' /\ Rows' = Rows /\ (ListOK => ListOK') /\ (DialogOK => DialogOK')
  BY SameDisk DEF IInv, RequestsOK, DialogOK
<1>4. ASSUME LoadsOK PROVE LoadsOK'
  <2> SUFFICES ASSUME NEW k \in Loads PROVE loads'[k] = Idle \/ LoadOK(loads[k])'
    BY <1>1, <1>4 DEF LoadsOK
  <2>1. CASE k = l
    BY <1>1, <1>4, <2>1 DEF LoadsOK, LoadOK, LoadShape
  <2>2. CASE k # l
    <3>1. loads'[k] = loads[k]
      BY <1>1, <1>4, <2>2 DEF LoadsOK
    <3> QED BY <1>3, <1>4, <3>1 DEF LoadsOK, LoadOK, LoadShape
  <2> QED BY <2>1, <2>2
<1> QED BY <1>2, <1>3, <1>4 DEF IInv

\* The directory is listed.
LEMMA ListKeeps ==
  ASSUME IInv, NEW l \in Loads, ListFiles(l)
  PROVE  IInv'
<1>1. PICK s \in Listings : loads' = [loads EXCEPT ![l] = [pc |-> "parse", todo |-> s, rows |-> <<>>]]
  BY DEF ListFiles
<1>2. Cardinality(LogFiles) \in Nat /\ LogFiles \subseteq DOMAIN disk
  BY FS_Subset, FS_CardinalityType DEF IInv, FilesOK, LogFiles
<1>3. /\ s \in Seq(DOMAIN disk) /\ DOMAIN s = 1 .. Len(s)
      /\ \A i, j \in 1 .. Len(s) : s[i] = s[j] => i = j
  BY <1>2 DEF Listings
<1>4. FilesOK' /\ RequestsOK' /\ Rows' = Rows /\ (ListOK => ListOK') /\ (DialogOK => DialogOK')
  BY SameDisk DEF IInv, ListFiles, RequestsOK, DialogOK
<1>5. ASSUME LoadsOK PROVE LoadsOK'
  <2> SUFFICES ASSUME NEW k \in Loads PROVE loads'[k] = Idle \/ LoadOK(loads[k])'
    BY <1>1, <1>5 DEF LoadsOK
  <2>1. CASE k = l
    <3>2. loads'[l] = [pc |-> "parse", todo |-> s, rows |-> <<>>]
      BY <1>1, <1>5 DEF LoadsOK
    <3> DEFINE e == [pc |-> "parse", todo |-> s, rows |-> <<>>]
    <3>3. LoadShape(e)
      BY <1>3 DEF LoadShape
    <3>4. e.todo \in Seq(DOMAIN disk') /\ e.rows \in Seq(Rows')
      BY <1>3 DEF ListFiles
    <3> HIDE DEF e
    <3> QED BY <2>1, <3>2, <3>3, <3>4, LoadBecomes DEF e
  <2>2. CASE k # l
    <3>1. loads'[k] = loads[k]
      BY <1>1, <1>5, <2>2 DEF LoadsOK
    <3> QED BY <1>4, <1>5, <3>1, LoadBecomes DEF LoadsOK, LoadOK, ListFiles
  <2> QED BY <2>1, <2>2
<1>6. UNCHANGED <<seen, crashed, written>> /\ SeenOK'
  BY DEF ListFiles, IInv, SeenOK
<1> QED BY <1>4, <1>5, <1>6 DEF IInv

\* A file is parsed: it exists, and its row is a new one.
LEMMA ParseKeeps ==
  ASSUME IInv, NEW l \in Loads, ParseFile(l)
  PROVE  IInv'
<1>1. FilesOK' /\ RequestsOK' /\ Rows' = Rows /\ (ListOK => ListOK') /\ (DialogOK => DialogOK')
  BY SameDisk DEF IInv, ParseFile, RequestsOK, DialogOK
<1>2. UNCHANGED <<seen, written, disk>> /\ SeenOK'
  BY DEF ParseFile, IInv, SeenOK
<1>3. ASSUME ~seen.raced PROVE ~crashed' /\ LoadsOK'
  <2> DEFINE d == loads[l]
             f == Head(d.todo)
             e == [pc |-> "parse", todo |-> Tail(d.todo), rows |-> Append(d.rows, Row(f, disk[f].texts))]
  <2>1. LoadsOK /\ LoadOK(d) /\ d.todo # <<>> /\ d.pc = "parse"
    BY <1>3 DEF IInv, LoadsOK, ParseFile
  <2>2. /\ f \in DOMAIN disk /\ f = d.todo[1]
        /\ Tail(d.todo) \in Seq(DOMAIN disk)
    <3>1. PICK s : s = d.todo
      OBVIOUS
    <3>2. s \in Seq(DOMAIN disk) /\ s # <<>>
      BY <2>1, <3>1 DEF LoadOK
    <3>3. Head(s) \in DOMAIN disk /\ Head(s) = s[1]
      BY <3>2
    <3>4. Tail(s) \in Seq(DOMAIN disk)
      BY <3>2
    <3> QED BY <3>1, <3>3, <3>4
  <2>3. loads' = [loads EXCEPT ![l] = e] /\ ~crashed'
    BY <2>2 DEF ParseFile
  <2>4. Row(f, disk[f].texts) \in Rows
    BY <2>2 DEF IInv, FilesOK, Row, Rows
  <2>5. LoadShape(e)
    <3>1. LoadShape([pc |-> "parse", todo |-> d.todo, rows |-> d.rows])
      BY <2>1 DEF LoadOK, LoadShape
    <3>2. Row(f, disk[f].texts).log = f
      BY DEF Row
    <3>3. d.todo \in Seq(DOMAIN disk) /\ d.rows \in Seq(Rows)
      BY <2>1 DEF LoadOK
    <3> HIDE DEF d
    <3> QED BY <2>1, <2>4, <3>1, <3>2, <3>3, RowMoves
  <2>6. e.todo \in Seq(DOMAIN disk) /\ e.rows \in Seq(Rows)
    BY <2>1, <2>2, <2>4 DEF LoadOK
  <2>7. ASSUME NEW k \in Loads PROVE loads'[k] = Idle \/ LoadOK(loads[k])'
    <3>1. CASE k = l
      <4>1. loads'[k] = e
        BY <2>1, <2>3, <3>1 DEF LoadsOK
      <4> HIDE DEF e
      <4> QED BY <4>1, <2>5, <2>6, <1>1, <1>2, LoadBecomes
    <3>2. CASE k # l
      <4>1. loads'[k] = loads[k]
        BY <2>1, <2>3, <3>2 DEF LoadsOK
      <4> QED BY <1>1, <1>2, <2>1, <4>1, LoadBecomes DEF LoadsOK, LoadOK
    <3> QED BY <3>1, <3>2
  <2> QED BY <2>1, <2>3, <2>7 DEF LoadsOK
<1> QED BY <1>1, <1>2, <1>3 DEF IInv

\* The rows of a load are shown; an open dialog gets a position among them.
LEMMA ShowKeeps ==
  ASSUME IInv, NEW l \in Loads, ShowRows(l)
  PROVE  IInv'
<1>1. FilesOK' /\ RequestsOK' /\ Rows' = Rows
  BY SameDisk DEF IInv, ShowRows, RequestsOK
<1>2. UNCHANGED <<seen, written, disk, crashed>> /\ SeenOK'
  BY DEF ShowRows, IInv, SeenOK
<1>3. ASSUME ~seen.raced PROVE LoadsOK' /\ ListOK' /\ DialogOK'
  <2>1. LoadsOK /\ LoadOK(loads[l]) /\ DialogOK
    BY <1>3 DEF IInv, LoadsOK, ShowRows
  <2>2. loads' = [loads EXCEPT ![l] = Idle] /\ logs' = loads[l].rows
    BY DEF ShowRows
  <2>3. ListOK'
    BY <1>1, <2>1, <2>2 DEF ListOK, LoadOK, LoadShape
  <2>4. ASSUME NEW k \in Loads PROVE loads'[k] = Idle \/ LoadOK(loads[k])'
    <3>1. CASE k = l
      BY <2>1, <2>2, <3>1 DEF LoadsOK
    <3>2. CASE k # l
      <4>1. loads'[k] = loads[k]
        BY <2>1, <2>2, <3>2 DEF LoadsOK
      <4> QED BY <1>1, <1>2, <2>1, <4>1, LoadBecomes DEF LoadsOK, LoadOK
    <3> QED BY <3>1, <3>2
  <2>5. DialogOK'
    <3>1. CASE dialog = None
      BY <3>1 DEF ShowRows, DialogOK
    <3>2. CASE dialog # None
      <4>1. PICK i \in 0 .. Len(logs') : dialog' = [dialog EXCEPT !.position = i]
        BY <3>2 DEF ShowRows
      <4>2. dialog = [log |-> dialog.log, position |-> dialog.position]
        BY <2>1, <3>2 DEF DialogOK
      <4>3. dialog' = [log |-> dialog.log, position |-> i]
        BY <4>1, <4>2
      <4> QED BY <4>3 DEF DialogOK
    <3> QED BY <3>1, <3>2
  <2> QED BY <2>1, <2>2, <2>3, <2>4, <2>5 DEF LoadsOK
<1> QED BY <1>1, <1>2, <1>3 DEF IInv

\* The menu of a row is opened, or closed without an answer.
LEMMA DialogKeeps ==
  ASSUME IInv, Cancel \/ \E i \in DOMAIN logs : OpenDialog(i)
  PROVE  IInv'
<1>1. UNCHANGED <<disk, written, loads, logs, requests, crashed>>
  BY DEF Cancel, OpenDialog
<1>2. FilesOK' /\ RequestsOK' /\ (LoadsOK => LoadsOK') /\ (ListOK => ListOK')
  BY <1>1, SameDisk DEF IInv, RequestsOK
<1>3. SeenOK' /\ seen'.raced = seen.raced
  BY DEF Cancel, OpenDialog, IInv, SeenOK
<1>4. ListOK => DialogOK'
  <2> SUFFICES ASSUME ListOK PROVE DialogOK'
    OBVIOUS
  <2>1. CASE Cancel
    BY <2>1 DEF Cancel, DialogOK
  <2>2. ASSUME NEW i \in DOMAIN logs, OpenDialog(i) PROVE DialogOK'
    <3>1. i \in 0 .. Len(logs)
      BY DEF ListOK
    <3>2. dialog' = [log |-> logs[i].log, position |-> i]
      BY <2>2 DEF OpenDialog
    <3> QED BY <1>1, <3>1, <3>2 DEF DialogOK
  <2> QED BY <2>1, <2>2
<1> QED BY <1>1, <1>2, <1>3, <1>4 DEF IInv

\* A log is deleted with its row. While a load is under way nothing is claimed from
\* then on; otherwise no load holds the file, and no other row does.
LEMMA DeleteKeeps ==
  ASSUME IInv, ConfirmDelete
  PROVE  IInv'
<1> DEFINE i == dialog.position
           f == logs[i].log
<1>1. UNCHANGED <<loads, requests, crashed>> /\ dialog' = None
  BY DEF ConfirmDelete
<1>2. RequestsOK' /\ DialogOK'
  BY <1>1 DEF IInv, RequestsOK, DialogOK
<1>3. CASE ~(i # 0 /\ f \in DOMAIN disk)
  <2>1. UNCHANGED <<disk, logs, written, seen>>
    BY <1>3, Zenon DEF ConfirmDelete
  <2>2. FilesOK' /\ SeenOK' /\ (LoadsOK => LoadsOK') /\ (ListOK => ListOK')
    BY <1>1, <2>1, SameDisk DEF IInv, SeenOK
  <2> QED BY <1>1, <1>2, <2>1, <2>2 DEF IInv
<1>4. CASE i # 0 /\ f \in DOMAIN disk
  <2>1. /\ disk' = [g \in DOMAIN disk \ {f} |-> disk[g]]
        /\ logs' = WithoutRow(i)
        /\ written' = [written EXCEPT ![f[2]].cut = TRUE]
        /\ seen' = [seen EXCEPT !.raced = @ \/ Loading, !.wrong = @ \/ f # dialog.log]
    BY <1>4, Zenon DEF ConfirmDelete
  <2>2. FilesOK'
    <3>1. DOMAIN disk' = DOMAIN disk \ {f}
      BY <2>1
    <3>2. IsFiniteSet(DOMAIN disk')
      BY <3>1, FS_RemoveElement DEF IInv, FilesOK
    <3>3. \A g \in DOMAIN disk' : disk'[g].texts \in Seq(Texts)
      BY <2>1 DEF IInv, FilesOK
    <3> QED BY <3>2, <3>3 DEF FilesOK
  <2>3. DOMAIN written' = DOMAIN Plans
    BY <2>1 DEF IInv
  <2>4. SeenOK' /\ (seen'.raced <=> seen.raced \/ Loading)
    <3>1. SeenOK
      BY DEF IInv
    <3>2. PICK a, b : seen' = [seen EXCEPT !.raced = a, !.wrong = b] /\ a = (seen.raced \/ Loading)
      BY <2>1, Zenon
    <3>3. SeenOK' /\ seen'.raced = a
      BY <3>1, <3>2 DEF SeenOK
    <3> QED BY <3>2, <3>3
  <2>5. ASSUME ~seen'.raced PROVE LoadsOK' /\ ListOK'
    <3>1. ~seen.raced /\ ~Loading
      BY <2>4, <2>5
    <3>2. LoadsOK /\ ListOK /\ DialogOK
      BY <3>1 DEF IInv
    <3>3. LoadsOK'
      BY <1>1, <3>1, <3>2 DEF LoadsOK, Loading
    <3>4. i \in 1 .. Len(logs)
      BY <1>4, <3>2 DEF ConfirmDelete, DialogOK, ListOK
    <3>5. /\ logs' \in Seq(Rows) /\ Len(logs') = Len(logs) - 1
          /\ \A k \in 1 .. Len(logs') : logs'[k] = logs[IF k < i THEN k ELSE k + 1]
      <4> HIDE DEF i
      <4> QED BY <2>1, <3>2, <3>4, SeqWithout DEF WithoutRow, ListOK
    <3>6. ASSUME NEW k \in 1 .. Len(logs')
          PROVE  /\ (IF k < i THEN k ELSE k + 1) \in 1 .. Len(logs)
                 /\ (IF k < i THEN k ELSE k + 1) # i
      BY <3>2, <3>4, <3>5 DEF ListOK
    <3>7. ASSUME NEW k \in 1 .. Len(logs') PROVE logs'[k] \in Rows'
      <4>1. logs'[k].log # f
        BY <3>2, <3>4, <3>5, <3>6 DEF ListOK
      <4>2. logs'[k] \in Rows
        BY <3>5
      <4>3. DOMAIN disk' = DOMAIN disk \ {f}
        BY <2>1
      <4> QED BY <4>1, <4>2, <4>3 DEF Rows
    <3>8. logs' \in Seq(Rows')
      BY <3>5, <3>7
    <3>9. ASSUME NEW k \in 1 .. Len(logs'), NEW m \in 1 .. Len(logs'), logs'[k].log = logs'[m].log
          PROVE  k = m
      <4>1. (IF k < i THEN k ELSE k + 1) = (IF m < i THEN m ELSE m + 1)
        BY <3>2, <3>5, <3>6, <3>9 DEF ListOK
      <4>2. k \in Int /\ m \in Int /\ i \in Int
        BY <3>4, <3>5
      <4> HIDE DEF i
      <4> QED BY <4>1, <4>2
    <3> QED BY <3>3, <3>8, <3>9 DEF ListOK
  <2> QED BY <1>1, <1>2, <2>2, <2>3, <2>4, <2>5 DEF IInv
<1> QED BY <1>3, <1>4

\* An analysis is asked for: the log of a row exists, so nothing throws.
LEMMA AnalyzeKeeps ==
  ASSUME IInv, NEW i \in DOMAIN logs, Analyze(i)
  PROVE  IInv'
<1>1. UNCHANGED <<disk, written, loads, logs, dialog>>
  BY DEF Analyze
<1>2. FilesOK' /\ (LoadsOK => LoadsOK') /\ (ListOK => ListOK') /\ (DialogOK => DialogOK')
  BY <1>1, SameDisk DEF IInv, DialogOK
<1>3. SeenOK' /\ seen'.raced = seen.raced
  BY DEF Analyze, IInv, SeenOK
<1>4. RequestsOK'
  <2>1. CASE UNCHANGED requests
    BY <2>1 DEF IInv, RequestsOK
  <2>2. CASE ~UNCHANGED requests
    <3>1. PICK r \in Requests :
            requests' = [requests EXCEPT ![r] = [pc |-> "sent", log |-> logs[i].log,
                                                 prompt |-> disk[logs[i].log].texts]]
      BY <2>2 DEF Analyze
    <3>2. logs[i].log \in DOMAIN disk
      BY <2>2 DEF Analyze
    <3>3. disk[logs[i].log].texts \in Seq(Texts)
      BY <3>2 DEF IInv, FilesOK
    <3> QED BY <3>1, <3>3 DEF IInv, RequestsOK
  <2> QED BY <2>1, <2>2
<1>5. ASSUME ~seen.raced PROVE ~crashed'
  <2>1. ~crashed /\ logs[i].log \in DOMAIN disk
    <3>1. ~crashed /\ ListOK
      BY <1>5 DEF IInv
    <3>2. logs[i] \in Rows
      BY <3>1 DEF ListOK
    <3> QED BY <3>1, <3>2 DEF Rows
  <2>2. crashed' => {logs[i].log, AiFile(logs[i].log)} \cap DOMAIN disk = {} \/ crashed
    BY Zenon DEF Analyze
  <2> QED BY <2>1, <2>2
<1> QED BY <1>1, <1>2, <1>3, <1>4, <1>5 DEF IInv

\* A request fails or its answer is shown.
LEMMA RequestEndKeeps ==
  ASSUME IInv, NEW r \in Requests, RequestFails(r) \/ ViewAnswer(r)
  PROVE  IInv'
<1>1. UNCHANGED <<disk, written, loads, logs, dialog, crashed, seen>>
  BY DEF RequestFails, ViewAnswer
<1>2. FilesOK' /\ SeenOK' /\ (LoadsOK => LoadsOK') /\ (ListOK => ListOK') /\ (DialogOK => DialogOK')
  BY <1>1, SameDisk DEF IInv, DialogOK, SeenOK
<1>3. requests' = [requests EXCEPT ![r] = Idle]
  BY DEF RequestFails, ViewAnswer
<1>4. RequestsOK'
  BY <1>3 DEF IInv, RequestsOK
<1> QED BY <1>1, <1>2, <1>4 DEF IInv

\* The file of the summary is emptied or written.
LEMMA AnswerKeeps ==
  ASSUME IInv, NEW r \in Requests, AnswerArrives(r) \/ WriteAnswer(r)
  PROVE  IInv'
<1>1. UNCHANGED <<written, loads, logs, dialog, crashed, seen>>
  BY DEF AnswerArrives, WriteAnswer
<1>2. /\ requests[r] = [pc |-> requests[r].pc, log |-> requests[r].log, prompt |-> requests[r].prompt]
      /\ requests[r].prompt \in Seq(Texts)
  BY DEF AnswerArrives, WriteAnswer, Stage, IInv, RequestsOK
<1>3. PICK f, texts : texts \in Seq(Texts) /\ WriteFile(f, texts)
  <2>1. <<>> \in Seq(Texts)
    OBVIOUS
  <2>2. CASE AnswerArrives(r)
    <3>1. WriteFile(AiFile(requests[r].log), <<>>)
      BY <2>2 DEF AnswerArrives
    <3> QED BY <2>1, <3>1, Zenon
  <2>3. CASE WriteAnswer(r)
    <3>1. WriteFile(AiFile(requests[r].log), requests[r].prompt)
      BY <2>3 DEF WriteAnswer
    <3> QED BY <1>2, <3>1, Zenon
  <2> QED BY <2>2, <2>3
<1>4. FilesOK' /\ (LoadsOK => LoadsOK') /\ (ListOK => ListOK')
  BY <1>1, <1>3, WriteKeeps DEF IInv
<1>5. SeenOK' /\ (DialogOK => DialogOK')
  BY <1>1 DEF IInv, SeenOK, DialogOK
<1>6. PICK p : requests' = [requests EXCEPT ![r].pc = p]
  BY DEF AnswerArrives, WriteAnswer
<1>7. requests'[r] = [pc |-> p, log |-> requests[r].log, prompt |-> requests[r].prompt]
  BY <1>2, <1>6 DEF IInv, RequestsOK
<1>8. RequestsOK'
  <2>1. DOMAIN requests' = Requests
    BY <1>6 DEF IInv, RequestsOK
  <2>2. \A q \in Requests : q # r => requests'[q] = requests[q]
    BY <1>6 DEF IInv, RequestsOK
  <2> QED BY <1>2, <1>7, <2>1, <2>2 DEF IInv, RequestsOK
<1> QED BY <1>1, <1>4, <1>5, <1>8 DEF IInv

\* Every step keeps it.
LEMMA StepHolds ==
  ASSUME IInv, [LogNext]_logVars
  PROVE  IInv'
<1>1. CASE \E t \in DOMAIN written : StartIteration(t) \/ EndIteration(t)
  BY <1>1, TestKeeps
<1>2. CASE Resume
  BY <1>2, LaunchKeeps DEF Resume
<1>3. CASE Swipe
  BY <1>3, LaunchKeeps DEF Swipe
<1>4. CASE \E l \in Loads : ListFiles(l) \/ ParseFile(l) \/ ShowRows(l)
  BY <1>4, ListKeeps, ParseKeeps, ShowKeeps
<1>5. CASE \E i \in DOMAIN logs : OpenDialog(i) \/ Analyze(i)
  BY <1>5, DialogKeeps, AnalyzeKeeps
<1>6. CASE Cancel
  BY <1>6, DialogKeeps
<1>7. CASE ConfirmDelete
  BY <1>7, DeleteKeeps
<1>8. CASE \E r \in Requests : RequestFails(r) \/ AnswerArrives(r) \/ WriteAnswer(r) \/ ViewAnswer(r)
  BY <1>8, RequestEndKeeps, AnswerKeeps
<1>9. CASE UNCHANGED logVars
  <2>1. UNCHANGED <<disk, written, loads, logs, dialog, requests, crashed, seen>>
    BY <1>9 DEF logVars
  <2> QED BY <2>1, SameDisk DEF IInv, SeenOK, RequestsOK, DialogOK
<1> QED BY <1>1, <1>2, <1>3, <1>4, <1>5, <1>6, <1>7, <1>8, <1>9 DEF LogNext

\* Every row of the history has its file and nothing throws, unless a log is
\* deleted while a load is under way (parseLogDetails, readText).
THEOREM RowsHaveFilesAlways == LogSpec => []RowsHaveFiles
<1>1. LogInit => IInv
  BY InitHolds
<1>2. IInv /\ [LogNext]_logVars => IInv'
  BY StepHolds
<1>3. IInv => RowsHaveFiles
  <2> SUFFICES ASSUME IInv, ~seen.raced
               PROVE  ~crashed /\ \A i \in DOMAIN logs : logs[i].log \in DOMAIN disk
    BY DEF RowsHaveFiles
  <2>1. ~crashed /\ ListOK
    BY DEF IInv
  <2>2. ASSUME NEW i \in DOMAIN logs PROVE logs[i].log \in DOMAIN disk
    <3>1. logs[i] \in Rows
      BY <2>1 DEF ListOK
    <3> QED BY <3>1 DEF Rows
  <2> QED BY <2>1, <2>2
<1> QED BY <1>1, <1>2, <1>3, PTL DEF LogSpec
----------------------------------------------------------------------------
(* What the names and the summaries are.                                     *)

LogNames == {LogName(t, p) : t \in DOMAIN Plans, p \in Nat \ {0}}
SummaryNames == {AiFile(f) : f \in LogNames}

NamedRows == [log : LogNames, texts : Seq(Texts)]

WrittenOK ==
  \A t \in DOMAIN Plans :
    written[t] = [begun |-> written[t].begun, open |-> written[t].open,
                  texts |-> written[t].texts, cut |-> written[t].cut]

\* Whatever was deleted and when: the directory has logs and summaries, the loads
\* and the list logs, and an open dialog has a position of the list.
DiskNamed == DOMAIN disk \subseteq LogNames \cup SummaryNames

LoadsNamed ==
  /\ DOMAIN loads = Loads
  /\ \A l \in Loads :
       loads[l] = Idle \/ loads[l] \in [pc : {"list", "parse"}, todo : Seq(LogNames), rows : Seq(NamedRows)]

ListNamed == logs \in Seq(NamedRows) /\ DialogOK

\* A summary that is being written has its file.
RequestsNamed ==
  \A r \in Requests :
    requests[r] # Idle =>
      /\ requests[r].log \in LogNames
      /\ requests[r].pc \in {"opened", "written"} => AiFile(requests[r].log) \in DOMAIN disk

ShownNamed == shown = None \/ shown \in NamedRows

NamesOK == DiskNamed /\ LoadsNamed /\ ListNamed /\ RequestsNamed /\ ShownNamed

\* The log begins with these texts, or one of its test was deleted.
BeginsWith(f, texts) == ~written[f[2]].cut => IsPrefix(texts, Content(f))

\* A summary is about the texts with which its log begins, from the request to the
\* file and the view.
SummariesOK ==
  /\ \A f \in LogNames : AiFile(f) \in DOMAIN disk => BeginsWith(f, disk[AiFile(f)].texts)
  /\ \A r \in Requests : requests[r] # Idle => BeginsWith(requests[r].log, requests[r].prompt)
  /\ shown # None => BeginsWith(shown.log, shown.texts)

\* The inductive invariant for the summaries.
SInv == IInv /\ WrittenOK /\ NamesOK /\ SummariesOK

----------------------------------------------------------------------------
(* What is current of the list.                                              *)

\* The logs that were not written since shouldRefreshLogs looked last.
Old(f) == f \in LogFiles /\ disk[f].time <= recorded.modified

TimesOK ==
  /\ fileTime \in Nat /\ recorded.modified \in Nat /\ recorded.modified <= fileTime
  /\ \A f \in DOMAIN disk : disk[f].time \in Nat /\ disk[f].time <= fileTime

\* Of two logs not written since, the newer comes first.
InOrder(f, g) == Old(f) /\ Old(g) => disk[f].time >= disk[g].time

RowsCurrent(rows) ==
  /\ \A i \in 1 .. Len(rows) : Old(rows[i].log) => rows[i].texts = disk[rows[i].log].texts
  /\ \A i, j \in 1 .. Len(rows) : i < j => InOrder(rows[i].log, rows[j].log)

\* A load that has listed the directory: each of these logs is still to be parsed or
\* has its row.
LoadCurrent(d) ==
  /\ RowsCurrent(d.rows)
  /\ \A i, j \in 1 .. Len(d.todo) : i < j => InOrder(d.todo[i], d.todo[j])
  /\ \A i \in 1 .. Len(d.rows), j \in 1 .. Len(d.todo) : InOrder(d.rows[i].log, d.todo[j])
  /\ \A f \in LogFiles :
       Old(f) => \/ \E i \in 1 .. Len(d.todo) : d.todo[i] = f
                 \/ \E i \in 1 .. Len(d.rows) : d.rows[i].log = f

ListCurrent ==
  /\ RowsCurrent(logs)
  /\ \A f \in LogFiles : Old(f) => \E i \in 1 .. Len(logs) : logs[i].log = f

\* While nothing made the list unreliable: one load at a time, and the list is
\* current as far as it goes when there is none.
Reliable ==
  ~seen.overlapped /\ ~seen.raced =>
    /\ \A k, l \in Loads : loads[k] # Idle /\ loads[l] # Idle => k = l
    /\ \A l \in Loads : loads[l] # Idle /\ loads[l].pc = "parse" => LoadCurrent(loads[l])
    /\ ~Loading => ListCurrent

\* The inductive invariant for the list.
CInv == SInv /\ TimesOK /\ Reliable

----------------------------------------------------------------------------
(* Helpers *)

\* A sequence is a prefix of itself and of what it grows to; the empty one of all.
LEMMA PrefixLaws ==
  ASSUME NEW S, NEW s \in Seq(S), NEW t \in Seq(S), NEW x \in S
  PROVE  /\ IsPrefix(s, s) /\ IsPrefix(<<>>, s)
         /\ IsPrefix(s, t) => IsPrefix(s, Append(t, x))
<1>1. IsPrefix(s, s)
  BY DEF IsPrefix
<1>2. IsPrefix(<<>>, s)
  BY DEF IsPrefix
<1>3. ASSUME IsPrefix(s, t) PROVE IsPrefix(s, Append(t, x))
  <2>1. Len(s) \in Nat /\ Len(t) \in Nat /\ Len(s) <= Len(t) /\ SubSeq(s, 1, Len(s)) = SubSeq(t, 1, Len(s))
    BY <1>3 DEF IsPrefix
  <2>2. SubSeq(Append(t, x), 1, Len(s)) = SubSeq(t, 1, Len(s))
    BY <2>1
  <2> QED BY <2>1, <2>2 DEF IsPrefix
<1> QED BY <1>1, <1>2, <1>3

\* The least-number principle, for sets.
LEMMA LeastNumber ==
  ASSUME NEW S, S \subseteq Nat, S # {}
  PROVE  \E m \in S : \A n \in S : m <= n
<1> DEFINE R == {ss \in Nat \X Nat : ss[1] < ss[2]}
<1>1. IsWellFoundedOn(R, Nat)
  BY NatLessThanWellFounded DEF OpToRel
<1>2. PICK m \in S : \A n \in S : <<n, m>> \notin R
  <2> HIDE DEF R
  <2> QED BY <1>1, WFMin
<1>3. \A n \in S : ~(n < m)
  BY <1>2
<1> QED BY <1>2, <1>3

\* A bounded set of numbers that is not empty has a largest one.
LEMMA Largest ==
  ASSUME NEW S \in SUBSET Nat, NEW e \in S, NEW n \in Nat, \A x \in S : x <= n
  PROVE  Max(S) \in S /\ \A x \in S : x <= Max(S)
<1> DEFINE B == {b \in Nat : \A x \in S : x <= b}
<1>1. PICK m \in B : \A b \in B : m <= b
  <2>1. B \subseteq Nat /\ B # {}
    OBVIOUS
  <2> HIDE DEF B
  <2> QED BY <2>1, LeastNumber
<1>2. m \in S
  <2> SUFFICES ASSUME m \notin S PROVE FALSE
    OBVIOUS
  <2>1. m \in Nat /\ e \in Nat /\ e <= m /\ e # m
    BY <1>1
  <2>2. m - 1 \in Nat /\ ~(m <= m - 1)
    BY <2>1
  <2>3. \A x \in S : x <= m - 1
    BY <1>1, <2>1
  <2> QED BY <1>1, <2>2, <2>3
<1>3. \E x \in S : \A y \in S : x >= y
  BY <1>1, <1>2
<1>4. Max(S) \in S /\ \A y \in S : Max(S) >= y
  <2> DEFINE P(x) == x \in S /\ \A y \in S : x >= y
  <2>1. \E x : P(x)
    BY <1>3
  <2>2. P(CHOOSE x : P(x))
    BY <2>1, Zenon
  <2>3. Max(S) = CHOOSE x : P(x)
    BY Zenon DEF Max
  <2> QED BY <2>2, <2>3
<1> QED BY <1>4

\* There is always a part to write to: one that does not exist or is not full.
LEMMA WritablePartExists ==
  ASSUME FilesOK, NEW t
  PROVE  /\ WritablePart(t) \in Nat \ {0}
         /\ LogName(t, WritablePart(t)) \in DOMAIN disk =>
              Len(disk[LogName(t, WritablePart(t))].texts) < PartSize
         /\ \A q \in 1 .. WritablePart(t) - 1 :
              LogName(t, q) \in DOMAIN disk /\ ~(Len(disk[LogName(t, q)].texts) < PartSize)
<1> DEFINE n == Cardinality(LogFiles)
           free(q) == LogName(t, q) \in DOMAIN disk => Len(disk[LogName(t, q)].texts) < PartSize
           P(p) == p \in 1 .. n + 1 /\ free(p) /\ \A q \in 1 .. p - 1 : ~free(q)
<1>1. n \in Nat /\ IsFiniteSet(LogFiles) /\ LogFiles \subseteq DOMAIN disk
  BY FS_Subset, FS_CardinalityType DEF FilesOK, LogFiles
<1>2. \E p \in 1 .. n + 1 : free(p)
  <2> SUFFICES ASSUME \A p \in 1 .. n + 1 : ~free(p) PROVE FALSE
    OBVIOUS
  <2> DEFINE names == {LogName(t, p) : p \in 1 .. n + 1}
             f == [p \in 1 .. n + 1 |-> LogName(t, p)]
  <2>1. names \subseteq LogFiles
    <3> SUFFICES ASSUME NEW p \in 1 .. n + 1 PROVE LogName(t, p) \in LogFiles
      OBVIOUS
    <3>1. LogName(t, p) \in DOMAIN disk
      OBVIOUS
    <3>2. LogName(t, p)[1] = "iPerf3"
      BY DEF LogName
    <3> QED BY <3>1, <3>2 DEF LogFiles
  <2>2. f \in Bijection(1 .. n + 1, names)
    <3>1. f \in [1 .. n + 1 -> names]
      OBVIOUS
    <3>2. \A p, q \in 1 .. n + 1 : f[p] = f[q] => p = q
      BY DEF LogName
    <3>3. \A g \in names : \E p \in 1 .. n + 1 : f[p] = g
      OBVIOUS
    <3> QED BY <3>1, <3>2, <3>3 DEF Bijection, Injection, Surjection, IsInjective
  <2>3. Cardinality(names) = n + 1
    <3>1. ExistsBijection(1 .. n + 1, names)
      BY <2>2 DEF ExistsBijection
    <3> QED BY <1>1, <3>1, FS_CountingElements
  <2>4. Cardinality(names) <= n
    BY <1>1, <2>1, FS_Subset
  <2> QED BY <1>1, <2>3, <2>4
<1>3. \E p : P(p)
  <2> DEFINE S == {p \in 1 .. n + 1 : free(p)}
  <2>1. S \in SUBSET Nat /\ S # {}
    BY <1>1, <1>2
  <2>2. PICK p \in S : \A q \in S : p <= q
    <3> HIDE DEF S
    <3> QED BY <2>1, LeastNumber
  <2>3. \A q \in 1 .. p - 1 : ~free(q)
    <3> SUFFICES ASSUME NEW q \in 1 .. p - 1, free(q) PROVE FALSE
      OBVIOUS
    <3>1. q \in 1 .. n + 1 /\ ~(p <= q)
      BY <1>1, <2>2
    <3> QED BY <2>2, <3>1
  <2> QED BY <2>2, <2>3
<1>4. P(CHOOSE p : P(p))
  BY <1>3, Zenon
<1>5. WritablePart(t) = CHOOSE p : P(p)
  BY Zenon DEF WritablePart
<1> QED BY <1>1, <1>4, <1>5

----------------------------------------------------------------------------
(* The summaries *)

\* The names of logs and of summaries.
LEMMA NameFacts ==
  ASSUME NEW f \in LogNames
  PROVE  /\ f[1] = "iPerf3" /\ f[2] \in DOMAIN Plans
         /\ AiFile(f) \in SummaryNames
         /\ \A g \in SummaryNames : f # g
         /\ \A g \in LogNames : AiFile(f) = AiFile(g) => f = g
<1>1. PICK t \in DOMAIN Plans, p \in Nat \ {0} : f = <<"iPerf3", t, p>>
  BY DEF LogNames, LogName
<1>2. ASSUME NEW g \in LogNames PROVE \E u \in DOMAIN Plans, q \in Nat \ {0} : g = <<"iPerf3", u, q>>
  BY DEF LogNames, LogName
<1>3. ASSUME NEW g \in SummaryNames PROVE f # g
  <2>1. PICK h \in LogNames : g = AiFile(h)
    BY DEF SummaryNames
  <2>2. g[1] = "AI" /\ f[1] = "iPerf3"
    BY <1>1, <2>1 DEF AiFile
  <2> QED BY <2>2
<1>4. ASSUME NEW g \in LogNames, AiFile(f) = AiFile(g) PROVE f = g
  BY <1>1, <1>2, <1>4 DEF AiFile
<1> QED BY <1>1, <1>3, <1>4 DEF SummaryNames

\* A write changes one file.
LEMMA WriteEffects ==
  ASSUME NEW f, NEW texts, WriteFile(f, texts)
  PROVE  /\ DOMAIN disk' = DOMAIN disk \cup {f}
         /\ disk'[f].texts = texts /\ disk'[f].time = fileTime' /\ fileTime' = fileTime + 1
         /\ \A g \in DOMAIN disk : g # f => disk'[g] = disk[g]
<1>1. disk'[f] = [texts |-> texts, time |-> fileTime']
  BY DEF WriteFile
<1> QED BY <1>1 DEF WriteFile

\* What a file says after a write of it or of another one.
LEMMA WriteContents ==
  ASSUME NEW f, NEW texts, WriteFile(f, texts), NEW g
  PROVE  Content(g)' = IF g = f THEN texts ELSE Content(g)
<1>1. DOMAIN disk' = DOMAIN disk \cup {f} /\ disk'[f].texts = texts
  BY WriteEffects
<1>2. ASSUME g # f, g \in DOMAIN disk
      PROVE  disk'[g] = disk[g]
  BY <1>2, WriteEffects
<1> QED BY <1>1, <1>2 DEF Content

\* A write of a log or of a summary keeps the names of the directory.
LEMMA WriteNames ==
  ASSUME DiskNamed, NEW f \in LogNames \cup SummaryNames, NEW texts, WriteFile(f, texts)
  PROVE  DiskNamed'
<1>1. DOMAIN disk' = DOMAIN disk \cup {f}
  BY WriteEffects
<1> QED BY <1>1 DEF DiskNamed

\* The record of a test, and that of a request, with other fields.
LEMMA TestChanges ==
  ASSUME NEW w, NEW x, NEW y \in BOOLEAN,
         w = [begun |-> w.begun, open |-> w.open, texts |-> w.texts, cut |-> w.cut]
  PROVE  /\ [w EXCEPT !.begun = x, !.open = y]
              = [begun |-> x, open |-> y, texts |-> w.texts, cut |-> w.cut]
         /\ [w EXCEPT !.open = y]
              = [begun |-> w.begun, open |-> y, texts |-> w.texts, cut |-> w.cut]
         /\ [w EXCEPT !.texts = x]
              = [begun |-> w.begun, open |-> w.open, texts |-> x, cut |-> w.cut]
         /\ [w EXCEPT !.cut = x]
              = [begun |-> w.begun, open |-> w.open, texts |-> w.texts, cut |-> x]
<1> DEFINE a == w.begun
           b == w.open
           c == w.texts
           d == w.cut
<1>1. w = [begun |-> a, open |-> b, texts |-> c, cut |-> d]
  OBVIOUS
<1> HIDE DEF a, b, c, d
<1>2. [w EXCEPT !.begun = x, !.open = y] = [begun |-> x, open |-> y, texts |-> c, cut |-> d]
  <2> DEFINE v == [begun |-> x, open |-> b, texts |-> c, cut |-> d]
  <2>1. [w EXCEPT !.begun = x] = v
    BY <1>1
  <2>2. [v EXCEPT !.open = y] = [begun |-> x, open |-> y, texts |-> c, cut |-> d]
    OBVIOUS
  <2>3. [w EXCEPT !.begun = x, !.open = y] = [[w EXCEPT !.begun = x] EXCEPT !.open = y]
    BY Zenon
  <2> HIDE DEF v
  <2> QED BY <2>1, <2>2, <2>3, Zenon
<1>3. [w EXCEPT !.open = y] = [begun |-> a, open |-> y, texts |-> c, cut |-> d]
  BY <1>1
<1>4. [w EXCEPT !.texts = x] = [begun |-> a, open |-> b, texts |-> x, cut |-> d]
  BY <1>1
<1>5. [w EXCEPT !.cut = x] = [begun |-> a, open |-> b, texts |-> c, cut |-> x]
  BY <1>1
<1> QED BY <1>2, <1>3, <1>4, <1>5 DEF a, b, c, d

LEMMA RequestChanges ==
  ASSUME NEW w, NEW p, w = [pc |-> w.pc, log |-> w.log, prompt |-> w.prompt]
  PROVE  [w EXCEPT !.pc = p] = [pc |-> p, log |-> w.log, prompt |-> w.prompt]
<1> DEFINE a == w.pc
           b == w.log
           c == w.prompt
<1>1. w = [pc |-> a, log |-> b, prompt |-> c]
  OBVIOUS
<1> HIDE DEF a, b, c
<1>2. [w EXCEPT !.pc = p] = [pc |-> p, log |-> b, prompt |-> c]
  BY <1>1
<1> QED BY <1>2 DEF a, b, c

\* A test appends a text to one part of its log.
LEMMA TestAppends ==
  ASSUME SInv, NEW t \in DOMAIN written, StartIteration(t) \/ EndIteration(t)
  PROVE  /\ \E text \in Texts :
              /\ WriteFile(LogName(t, WritablePart(t)), Append(Content(LogName(t, WritablePart(t))), text))
              /\ written'[t].texts = Append(written[t].texts, text)
         /\ LogName(t, WritablePart(t)) \in LogNames
         /\ \A u \in DOMAIN Plans : u # t => written'[u] = written[u]
         /\ WrittenOK'
         /\ \A u \in DOMAIN Plans : written'[u].cut = written[u].cut
         /\ UNCHANGED <<recorded, loads, logs, dialog, requests, shown, crashed, seen>>
<1>1. t \in DOMAIN Plans /\ DOMAIN written = DOMAIN Plans /\ FilesOK
  BY DEF SInv, IInv
<1> DEFINE r == written[t]
<1>2. \E text \in Texts : \E b, o :
        Appended(t, text, [begun |-> b, open |-> o, texts |-> r.texts, cut |-> r.cut])
  <2>1. r = [begun |-> r.begun, open |-> r.open, texts |-> r.texts, cut |-> r.cut]
    BY <1>1 DEF SInv, WrittenOK
  <2>2. CASE StartIteration(t)
    <3>1. Appended(t, "starting", [written[t] EXCEPT !.begun = @ + 1, !.open = TRUE])
      BY <2>2 DEF StartIteration
    <3>2. [written[t] EXCEPT !.begun = @ + 1, !.open = TRUE]
            = [begun |-> r.begun + 1, open |-> TRUE, texts |-> r.texts, cut |-> r.cut]
      <4>1. PICK n : n = r.begun + 1
        OBVIOUS
      <4>2. [written[t] EXCEPT !.begun = n, !.open = TRUE]
              = [begun |-> n, open |-> TRUE, texts |-> r.texts, cut |-> r.cut]
        BY <2>1, TestChanges
      <4> QED BY <4>1, <4>2, Zenon
    <3>3. "starting" \in Texts
      BY DEF Texts
    <3>4. Appended(t, "starting", [begun |-> r.begun + 1, open |-> TRUE, texts |-> r.texts, cut |-> r.cut])
      BY <3>1, <3>2, Zenon
    <3> QED BY <3>3, <3>4, Zenon
  <2>3. CASE EndIteration(t)
    <3>1. PICK x \in {"done", "error"} : Appended(t, x, [written[t] EXCEPT !.open = FALSE])
      BY <2>3 DEF EndIteration
    <3>2. [written[t] EXCEPT !.open = FALSE]
            = [begun |-> r.begun, open |-> FALSE, texts |-> r.texts, cut |-> r.cut]
      BY <2>1, TestChanges
    <3>3. x \in Texts
      BY DEF Texts
    <3>4. Appended(t, x, [begun |-> r.begun, open |-> FALSE, texts |-> r.texts, cut |-> r.cut])
      BY <3>1, <3>2, Zenon
    <3> QED BY <3>3, <3>4, Zenon
  <2> QED BY <2>2, <2>3
<1>3. PICK text \in Texts :
        \E b, o : Appended(t, text, [begun |-> b, open |-> o, texts |-> r.texts, cut |-> r.cut])
  BY <1>2
<1>4. PICK b, o : Appended(t, text, [begun |-> b, open |-> o, texts |-> r.texts, cut |-> r.cut])
  BY <1>3
<1> DEFINE c == [begun |-> b, open |-> o, texts |-> r.texts, cut |-> r.cut]
           e == [begun |-> b, open |-> o, texts |-> Append(r.texts, text), cut |-> r.cut]
<1>5. written' = [written EXCEPT ![t] = e]
  <2>1. written' = [written EXCEPT ![t] = [c EXCEPT !.texts = Append(c.texts, text)]]
    BY <1>4 DEF Appended
  <2>2. c.texts = r.texts /\ c = [begun |-> c.begun, open |-> c.open, texts |-> c.texts, cut |-> c.cut]
    OBVIOUS
  <2>3. [c EXCEPT !.texts = Append(c.texts, text)]
          = [begun |-> c.begun, open |-> c.open, texts |-> Append(c.texts, text), cut |-> c.cut]
    <3> HIDE DEF c
    <3> QED BY <2>2, TestChanges, Zenon
  <2>4. c.begun = b /\ c.open = o /\ c.cut = r.cut
    OBVIOUS
  <2>5. [c EXCEPT !.texts = Append(c.texts, text)] = e
    <3> HIDE DEF c
    <3> QED BY <2>2, <2>3, <2>4, Zenon
  <2> QED BY <2>1, <2>5, Zenon
<1>6. written'[t] = e /\ \A u \in DOMAIN Plans : u # t => written'[u] = written[u]
  BY <1>1, <1>5
<1>7. WrittenOK' /\ \A u \in DOMAIN Plans : written'[u].cut = written[u].cut
  <2>1. ASSUME NEW u \in DOMAIN Plans
        PROVE  /\ written'[u] = [begun |-> written'[u].begun, open |-> written'[u].open,
                                 texts |-> written'[u].texts, cut |-> written'[u].cut]
               /\ written'[u].cut = written[u].cut
    <3>1. CASE u = t
      BY <1>6, <3>1
    <3>2. CASE u # t
      BY <1>6, <3>2 DEF SInv, WrittenOK
    <3> QED BY <3>1, <3>2
  <2> QED BY <2>1 DEF WrittenOK
<1>8. LogName(t, WritablePart(t)) \in LogNames
  BY <1>1, WritablePartExists DEF LogNames
<1>9. WriteFile(LogName(t, WritablePart(t)), Append(Content(LogName(t, WritablePart(t))), text))
  BY <1>4 DEF Appended, AppendText
<1>10. UNCHANGED <<recorded, loads, logs, dialog, requests, shown, crashed, seen>>
  BY <1>4 DEF Appended
<1>11. written'[t].texts = Append(written[t].texts, text)
  BY <1>6
<1> QED BY <1>6, <1>7, <1>8, <1>9, <1>10, <1>11, Zenon

\* In short: a text goes to the end of a log.
LEMMA TestEffects ==
  ASSUME SInv, NEW t \in DOMAIN written, StartIteration(t) \/ EndIteration(t)
  PROVE  /\ \E f \in LogNames, text \in Texts : WriteFile(f, Append(Content(f), text))
         /\ WrittenOK'
         /\ \A u \in DOMAIN Plans : written'[u].cut = written[u].cut
         /\ UNCHANGED <<recorded, loads, logs, dialog, requests, shown, crashed, seen>>
<1> DEFINE g == LogName(t, WritablePart(t))
<1>1. g \in LogNames /\ \E text \in Texts : WriteFile(g, Append(Content(g), text))
  BY TestAppends, Zenon
<1>2. \E f \in LogNames, text \in Texts : WriteFile(f, Append(Content(f), text))
  <2> HIDE DEF g
  <2> QED BY <1>1, Zenon
<1> QED BY <1>2, TestAppends, Zenon

\* A deletion removes one log with its row, or nothing.
LEMMA DeleteEffects ==
  ASSUME SInv, ConfirmDelete
  PROVE  /\ UNCHANGED <<fileTime, recorded, loads, requests, shown, crashed>> /\ dialog' = None
         /\ \/ UNCHANGED <<disk, logs, written, seen>>
            \/ \E i \in 1 .. Len(logs) :
                 /\ logs[i].log \in LogNames /\ logs[i].log \in DOMAIN disk
                 /\ disk' = [g \in DOMAIN disk \ {logs[i].log} |-> disk[g]]
                 /\ logs' = WithoutRow(i)
                 /\ written' = [written EXCEPT ![logs[i].log[2]].cut = TRUE]
                 /\ seen'.overlapped = seen.overlapped
                 /\ seen'.raced = (seen.raced \/ Loading)
<1> DEFINE i == dialog.position
           f == logs[i].log
<1>1. UNCHANGED <<fileTime, recorded, loads, requests, shown, crashed>> /\ dialog' = None /\ dialog # None
  BY DEF ConfirmDelete
<1>2. CASE ~(i # 0 /\ f \in DOMAIN disk)
  BY <1>1, <1>2, Zenon DEF ConfirmDelete
<1>3. CASE i # 0 /\ f \in DOMAIN disk
  <2>1. /\ disk' = [g \in DOMAIN disk \ {f} |-> disk[g]]
        /\ logs' = WithoutRow(i)
        /\ written' = [written EXCEPT ![f[2]].cut = TRUE]
        /\ seen' = [seen EXCEPT !.raced = @ \/ Loading, !.wrong = @ \/ f # dialog.log]
    BY <1>3, Zenon DEF ConfirmDelete
  <2>2. logs \in Seq(NamedRows) /\ i \in 0 .. Len(logs)
    BY <1>1 DEF SInv, NamesOK, ListNamed, DialogOK
  <2>3. i \in 1 .. Len(logs)
    BY <1>3, <2>2
  <2>4. f \in LogNames
    <3> HIDE DEF i
    <3>1. logs[i] \in NamedRows
      BY <2>2, <2>3
    <3> QED BY <3>1 DEF NamedRows
  <2>5. seen'.overlapped = seen.overlapped /\ seen'.raced = (seen.raced \/ Loading)
    <3>1. SeenOK
      BY DEF SInv, IInv
    <3>2. PICK a, b : seen' = [seen EXCEPT !.raced = a, !.wrong = b] /\ a = (seen.raced \/ Loading)
      BY <2>1, Zenon
    <3>3. seen'.overlapped = seen.overlapped /\ seen'.raced = a
      BY <3>1, <3>2 DEF SeenOK
    <3> QED BY <3>2, <3>3
  <2> HIDE DEF i
  <2> QED BY <1>1, <1>3, <2>1, <2>3, <2>4, <2>5, Zenon
<1> QED BY <1>2, <1>3

\* A summary that is emptied or written.
LEMMA AnswerEffects ==
  ASSUME SInv, NEW r \in Requests, AnswerArrives(r) \/ WriteAnswer(r)
  PROVE  /\ UNCHANGED <<written, recorded, loads, logs, dialog, shown, crashed, seen>>
         /\ requests[r].log \in LogNames /\ requests[r].prompt \in Seq(Texts)
         /\ \E texts \in {<<>>, requests[r].prompt} : WriteFile(AiFile(requests[r].log), texts)
         /\ \E p \in {"opened", "written"} :
              requests' = [requests EXCEPT ![r] =
                [pc |-> p, log |-> requests[r].log, prompt |-> requests[r].prompt]]
<1>1. requests[r] # Idle
  BY DEF AnswerArrives, WriteAnswer, Stage
<1>2. /\ requests[r] = [pc |-> requests[r].pc, log |-> requests[r].log, prompt |-> requests[r].prompt]
      /\ requests[r].prompt \in Seq(Texts) /\ requests[r].log \in LogNames
      /\ DOMAIN requests = Requests
  BY <1>1 DEF SInv, IInv, RequestsOK, NamesOK, RequestsNamed
<1>3. \E texts \in {<<>>, requests[r].prompt} : WriteFile(AiFile(requests[r].log), texts)
  <2>1. CASE AnswerArrives(r)
    <3>1. WriteFile(AiFile(requests[r].log), <<>>)
      BY <2>1 DEF AnswerArrives
    <3> QED BY <3>1, Zenon
  <2>2. CASE WriteAnswer(r)
    <3>1. WriteFile(AiFile(requests[r].log), requests[r].prompt)
      BY <2>2 DEF WriteAnswer
    <3> QED BY <3>1, Zenon
  <2> QED BY <2>1, <2>2
<1>4. PICK p \in {"opened", "written"} : requests' = [requests EXCEPT ![r].pc = p]
  BY DEF AnswerArrives, WriteAnswer
<1>5. requests' = [requests EXCEPT ![r] = [pc |-> p, log |-> requests[r].log, prompt |-> requests[r].prompt]]
  <2>1. requests' = [requests EXCEPT ![r] = [requests[r] EXCEPT !.pc = p]]
    BY <1>4
  <2>2. [requests[r] EXCEPT !.pc = p] = [pc |-> p, log |-> requests[r].log, prompt |-> requests[r].prompt]
    BY <1>2, RequestChanges
  <2> QED BY <2>1, <2>2, Zenon
<1>6. UNCHANGED <<written, recorded, loads, logs, dialog, shown, crashed, seen>>
  BY DEF AnswerArrives, WriteAnswer
<1> QED BY <1>2, <1>3, <1>5, <1>6

\* What a step does to the files and to what is remembered of the tests.
LEMMA StepKinds ==
  ASSUME [LogNext]_logVars
  PROVE  \/ UNCHANGED <<disk, fileTime, written>>
         \/ \E t \in DOMAIN written : StartIteration(t) \/ EndIteration(t)
         \/ ConfirmDelete
         \/ \E r \in Requests : AnswerArrives(r) \/ WriteAnswer(r)
<1>1. CASE Resume \/ Swipe \/ Cancel \/ UNCHANGED logVars
  BY <1>1 DEF Resume, Swipe, Cancel, logVars
<1>2. CASE \E l \in Loads : ListFiles(l) \/ ParseFile(l) \/ ShowRows(l)
  BY <1>2 DEF ListFiles, ParseFile, ShowRows
<1>3. CASE \E i \in DOMAIN logs : OpenDialog(i) \/ Analyze(i)
  BY <1>3 DEF OpenDialog, Analyze
<1>4. CASE \E r \in Requests : RequestFails(r) \/ ViewAnswer(r)
  BY <1>4 DEF RequestFails, ViewAnswer
<1> QED BY <1>1, <1>2, <1>3, <1>4 DEF LogNext

\* A log of a test that was not cut stays, or grows by a text.
LEMMA LogsGrow ==
  ASSUME SInv, [LogNext]_logVars, NEW f \in LogNames, ~written'[f[2]].cut
  PROVE  /\ ~written[f[2]].cut /\ Content(f) \in Seq(Texts)
         /\ Content(f)' = Content(f) \/ \E x \in Texts : Content(f)' = Append(Content(f), x)
<1>1. /\ DOMAIN written = DOMAIN Plans /\ f[2] \in DOMAIN Plans
      /\ \A g \in LogNames : Content(g) \in Seq(Texts)
  BY NameFacts DEF SInv, IInv, FilesOK, Content
<1>2. CASE UNCHANGED <<disk, fileTime, written>>
  BY <1>1, <1>2 DEF Content
<1>3. CASE \E t \in DOMAIN written : StartIteration(t) \/ EndIteration(t)
  <2>1. PICK g \in LogNames, x \in Texts : WriteFile(g, Append(Content(g), x))
    BY <1>3, TestEffects
  <2>2. ~written[f[2]].cut
    BY <1>1, <1>3, TestEffects
  <2>3. CASE f = g
    <3>1. Content(f)' = Append(Content(f), x)
      BY <2>1, <2>3, WriteContents
    <3> QED BY <1>1, <2>2, <3>1
  <2>4. CASE f # g
    <3>1. Content(f)' = Content(f)
      BY <2>1, <2>4, WriteContents
    <3> QED BY <1>1, <2>2, <3>1
  <2> QED BY <2>3, <2>4
<1>4. CASE ConfirmDelete
  <2>1. CASE UNCHANGED <<disk, written>>
    BY <1>1, <2>1 DEF Content
  <2>2. CASE ~UNCHANGED <<disk, written>>
    <3>1. PICK i \in 1 .. Len(logs) :
            /\ logs[i].log \in LogNames
            /\ disk' = [g \in DOMAIN disk \ {logs[i].log} |-> disk[g]]
            /\ written' = [written EXCEPT ![logs[i].log[2]].cut = TRUE]
      BY <1>4, <2>2, DeleteEffects
    <3> DEFINE h == logs[i].log
    <3>2. h[2] \in DOMAIN Plans
      BY <3>1, NameFacts
    <3>3. written'[h[2]].cut = TRUE /\ \A u \in DOMAIN Plans : u # h[2] => written'[u] = written[u]
      <4>1. WrittenOK
        BY DEF SInv
      <4> HIDE DEF h
      <4> QED BY <1>1, <3>1, <3>2, <4>1, TestChanges DEF WrittenOK, h
    <3>4. f[2] # h[2] /\ f # h
      BY <3>3
    <3>5. Content(f)' = Content(f)
      BY <3>1, <3>4 DEF Content
    <3> QED BY <1>1, <3>3, <3>4, <3>5
  <2> QED BY <2>1, <2>2
<1>5. CASE \E r \in Requests : AnswerArrives(r) \/ WriteAnswer(r)
  <2>1. PICK r \in Requests : AnswerArrives(r) \/ WriteAnswer(r)
    BY <1>5
  <2>2. PICK texts : WriteFile(AiFile(requests[r].log), texts)
    BY <2>1, AnswerEffects
  <2>3. requests[r].log \in LogNames /\ UNCHANGED written
    BY <2>1, AnswerEffects
  <2>4. f # AiFile(requests[r].log)
    BY <2>3, NameFacts
  <2>5. Content(f)' = Content(f)
    BY <2>2, <2>4, WriteContents
  <2> QED BY <1>1, <2>3, <2>5
<1> QED BY <1>2, <1>3, <1>4, <1>5, StepKinds

\* So a log goes on beginning with what it began with.
LEMMA BeginningStays ==
  ASSUME SInv, [LogNext]_logVars, NEW f \in LogNames, NEW texts \in Seq(Texts), BeginsWith(f, texts)
  PROVE  BeginsWith(f, texts)'
<1> SUFFICES ASSUME ~written'[f[2]].cut PROVE IsPrefix(texts, Content(f)')
  BY DEF BeginsWith
<1>1. /\ ~written[f[2]].cut /\ Content(f) \in Seq(Texts)
      /\ Content(f)' = Content(f) \/ \E x \in Texts : Content(f)' = Append(Content(f), x)
  BY LogsGrow
<1>2. IsPrefix(texts, Content(f))
  BY <1>1 DEF BeginsWith
<1> QED BY <1>1, <1>2, PrefixLaws

\* It begins with nothing and with all it has.
LEMMA BeginsWithItself ==
  ASSUME SInv, NEW f \in LogNames
  PROVE  BeginsWith(f, <<>>) /\ (f \in DOMAIN disk => BeginsWith(f, disk[f].texts))
<1>1. Content(f) \in Seq(Texts)
  BY DEF SInv, IInv, FilesOK, Content
<1>2. f \in DOMAIN disk => Content(f) = disk[f].texts
  BY DEF Content
<1>3. IsPrefix(Content(f), Content(f)) /\ IsPrefix(<<>>, Content(f))
  <2>1. "done" \in Texts
    BY DEF Texts
  <2> QED BY <1>1, <2>1, PrefixLaws
<1>4. f \in DOMAIN disk => IsPrefix(disk[f].texts, Content(f))
  BY <1>2, <1>3
<1> QED BY <1>3, <1>4 DEF BeginsWith

\* Where the texts of a summary come from; no summary is deleted.
LEMMA SummaryFiles ==
  ASSUME SInv, [LogNext]_logVars, NEW f \in LogNames
  PROVE  /\ AiFile(f) \in DOMAIN disk => AiFile(f) \in DOMAIN disk'
         /\ AiFile(f) \in DOMAIN disk' =>
              \/ AiFile(f) \in DOMAIN disk /\ disk'[AiFile(f)].texts = disk[AiFile(f)].texts
              \/ disk'[AiFile(f)].texts = <<>>
              \/ \E r \in Requests : /\ requests[r] # Idle /\ requests[r].log = f
                                     /\ disk'[AiFile(f)].texts = requests[r].prompt
<1> DEFINE a == AiFile(f)
<1>1. \A g \in LogNames : a # g
  BY NameFacts
<1>2. CASE UNCHANGED <<disk, fileTime, written>>
  BY <1>2
<1>3. CASE \E t \in DOMAIN written : StartIteration(t) \/ EndIteration(t)
  <2>1. PICK g \in LogNames, x \in Texts : WriteFile(g, Append(Content(g), x))
    BY <1>3, TestEffects
  <2>2. a # g
    BY <1>1
  <2> HIDE DEF a
  <2>3. /\ a \in DOMAIN disk <=> a \in DOMAIN disk'
        /\ a \in DOMAIN disk => disk'[a] = disk[a]
    BY <2>1, <2>2, WriteEffects
  <2> QED BY <2>3 DEF a
<1>4. CASE ConfirmDelete
  <2>1. CASE UNCHANGED disk
    BY <2>1
  <2>2. CASE ~UNCHANGED disk
    <3>1. PICK i \in 1 .. Len(logs) :
            /\ logs[i].log \in LogNames
            /\ disk' = [g \in DOMAIN disk \ {logs[i].log} |-> disk[g]]
      BY <1>4, <2>2, DeleteEffects
    <3>2. a # logs[i].log
      BY <1>1, <3>1
    <3> HIDE DEF a
    <3>3. /\ a \in DOMAIN disk <=> a \in DOMAIN disk'
          /\ a \in DOMAIN disk => disk'[a] = disk[a]
      BY <3>1, <3>2
    <3> QED BY <3>3 DEF a
  <2> QED BY <2>1, <2>2
<1>5. CASE \E r \in Requests : AnswerArrives(r) \/ WriteAnswer(r)
  <2>1. PICK r \in Requests : AnswerArrives(r) \/ WriteAnswer(r)
    BY <1>5
  <2>2. PICK texts \in {<<>>, requests[r].prompt} : WriteFile(AiFile(requests[r].log), texts)
    BY <2>1, AnswerEffects
  <2>3. requests[r].log \in LogNames /\ requests[r] # Idle
    BY <2>1, AnswerEffects DEF AnswerArrives, WriteAnswer, Stage
  <2> DEFINE h == AiFile(requests[r].log)
  <2>4. /\ DOMAIN disk' = DOMAIN disk \cup {h} /\ disk'[h].texts = texts
        /\ \A g \in DOMAIN disk : g # h => disk'[g] = disk[g]
    BY <2>2, WriteEffects
  <2>5. CASE a = h
    <3>1. requests[r].log = f
      BY <2>3, <2>5, NameFacts
    <3>2. texts = <<>> \/ texts = requests[r].prompt
      BY <2>2
    <3>3. disk'[a].texts = texts /\ a \in DOMAIN disk'
      BY <2>4, <2>5
    <3> HIDE DEF a
    <3> QED BY <2>3, <3>1, <3>2, <3>3 DEF a
  <2>6. CASE a # h
    <3> HIDE DEF a, h
    <3>1. /\ a \in DOMAIN disk <=> a \in DOMAIN disk'
          /\ a \in DOMAIN disk => disk'[a] = disk[a]
      BY <2>4, <2>6
    <3> QED BY <3>1 DEF a
  <2> QED BY <2>5, <2>6
<1> QED BY <1>2, <1>3, <1>4, <1>5, StepKinds

\* What a request is about: what it was about, or the log as it is, sent now. Its
\* summary has a file once it is opened.
LEMMA RequestSources ==
  ASSUME SInv, [LogNext]_logVars, NEW r \in Requests, requests'[r] # Idle
  PROVE  /\ \/ /\ requests[r] # Idle /\ requests'[r].log = requests[r].log
               /\ requests'[r].prompt = requests[r].prompt
            \/ /\ requests'[r].log \in LogNames /\ requests'[r].log \in DOMAIN disk
               /\ requests'[r].prompt = disk[requests'[r].log].texts
         /\ requests'[r].pc \in {"opened", "written"} => AiFile(requests'[r].log) \in DOMAIN disk'
<1>1. DOMAIN requests = Requests
  BY DEF SInv, IInv, RequestsOK
<1>2. CASE requests'[r] = requests[r]
  <2>1. requests[r] # Idle /\ requests[r].log \in LogNames
    BY <1>2 DEF SInv, NamesOK, RequestsNamed
  <2>2. requests[r].pc \in {"opened", "written"} => AiFile(requests[r].log) \in DOMAIN disk
    BY <2>1 DEF SInv, NamesOK, RequestsNamed
  <2>3. AiFile(requests[r].log) \in DOMAIN disk => AiFile(requests[r].log) \in DOMAIN disk'
    BY <2>1, SummaryFiles
  <2> QED BY <1>2, <2>1, <2>2, <2>3
<1>3. CASE \E i \in DOMAIN logs : Analyze(i) /\ ~UNCHANGED requests
  <2>1. PICK i \in DOMAIN logs : Analyze(i) /\ ~UNCHANGED requests
    BY <1>3
  <2> DEFINE f == logs[i].log
  <2>2. PICK q \in Requests :
          /\ f \in DOMAIN disk
          /\ requests' = [requests EXCEPT ![q] = [pc |-> "sent", log |-> f, prompt |-> disk[f].texts]]
    BY <2>1 DEF Analyze
  <2>3. f \in LogNames
    <3>1. logs \in Seq(NamedRows)
      BY DEF SInv, NamesOK, ListNamed
    <3>2. logs[i] \in NamedRows
      BY <3>1
    <3> QED BY <3>2 DEF NamedRows
  <2>4. CASE r = q
    <3>1. requests'[r] = [pc |-> "sent", log |-> f, prompt |-> disk[f].texts]
      BY <1>1, <2>2, <2>4
    <3> HIDE DEF f
    <3>2. requests'[r].pc = "sent" /\ requests'[r].log = f /\ requests'[r].prompt = disk[f].texts
      BY <3>1
    <3> QED BY <2>2, <2>3, <3>2
  <2>5. CASE r # q
    <3>1. requests'[r] = requests[r]
      BY <1>1, <2>2, <2>5
    <3> QED BY <1>2, <3>1
  <2> QED BY <2>4, <2>5
<1>4. CASE \E q \in Requests : RequestFails(q) \/ ViewAnswer(q)
  <2>1. PICK q \in Requests : requests' = [requests EXCEPT ![q] = Idle]
    BY <1>4 DEF RequestFails, ViewAnswer
  <2>2. r # q
    BY <1>1, <2>1
  <2> QED BY <1>1, <1>2, <2>1, <2>2
<1>5. CASE \E q \in Requests : AnswerArrives(q) \/ WriteAnswer(q)
  <2>1. PICK q \in Requests : AnswerArrives(q) \/ WriteAnswer(q)
    BY <1>5
  <2>2. PICK p \in {"opened", "written"} :
          requests' = [requests EXCEPT ![q] = [pc |-> p, log |-> requests[q].log, prompt |-> requests[q].prompt]]
    BY <2>1, AnswerEffects
  <2>3. PICK texts : WriteFile(AiFile(requests[q].log), texts)
    BY <2>1, AnswerEffects
  <2>4. AiFile(requests[q].log) \in DOMAIN disk' /\ requests[q] # Idle
    BY <2>1, <2>3, WriteEffects DEF AnswerArrives, WriteAnswer, Stage
  <2>5. CASE r = q
    <3>1. requests'[r] = [pc |-> p, log |-> requests[q].log, prompt |-> requests[q].prompt]
      BY <1>1, <2>2, <2>5
    <3>2. requests'[r].log = requests[q].log /\ requests'[r].prompt = requests[q].prompt
      BY <3>1
    <3> QED BY <2>4, <2>5, <3>2
  <2>6. CASE r # q
    <3>1. requests'[r] = requests[r]
      BY <1>1, <2>2, <2>6
    <3> QED BY <1>2, <3>1
  <2> QED BY <2>5, <2>6
<1>6. \/ UNCHANGED requests
      \/ \E i \in DOMAIN logs : Analyze(i)
      \/ \E q \in Requests : RequestFails(q) \/ AnswerArrives(q) \/ WriteAnswer(q) \/ ViewAnswer(q)
  <2>1. CASE \E t \in DOMAIN written : StartIteration(t) \/ EndIteration(t)
    BY <2>1, TestEffects
  <2>2. CASE Resume \/ Swipe \/ Cancel \/ ConfirmDelete \/ UNCHANGED logVars
    BY <2>2 DEF Resume, Swipe, Cancel, ConfirmDelete, logVars
  <2>3. CASE \E l \in Loads : ListFiles(l) \/ ParseFile(l) \/ ShowRows(l)
    BY <2>3 DEF ListFiles, ParseFile, ShowRows
  <2>4. CASE \E i \in DOMAIN logs : OpenDialog(i)
    BY <2>4 DEF OpenDialog
  <2> QED BY <2>1, <2>2, <2>3, <2>4 DEF LogNext
<1> QED BY <1>2, <1>3, <1>4, <1>5, <1>6

\* What is shown: what was shown, or the file of a summary.
LEMMA ShownSources ==
  ASSUME SInv, [LogNext]_logVars
  PROVE  \/ UNCHANGED shown
         \/ /\ UNCHANGED <<disk, written>>
            /\ \E f \in LogNames : /\ AiFile(f) \in DOMAIN disk
                                   /\ shown' = [log |-> f, texts |-> disk[AiFile(f)].texts]
<1>1. CASE \E i \in DOMAIN logs : Analyze(i) /\ ~UNCHANGED shown
  <2>1. PICK i \in DOMAIN logs : Analyze(i) /\ ~UNCHANGED shown
    BY <1>1
  <2>2. AiFile(logs[i].log) \in DOMAIN disk /\ View(logs[i].log) /\ UNCHANGED <<disk, written>>
    BY <2>1 DEF Analyze
  <2>3. logs[i].log \in LogNames
    <3>1. logs \in Seq(NamedRows)
      BY DEF SInv, NamesOK, ListNamed
    <3>2. logs[i] \in NamedRows
      BY <3>1
    <3> QED BY <3>2 DEF NamedRows
  <2> QED BY <2>2, <2>3 DEF View
<1>2. CASE \E r \in Requests : ViewAnswer(r)
  <2>1. PICK r \in Requests : ViewAnswer(r)
    BY <1>2
  <2>2. requests[r] # Idle /\ requests[r].pc = "written" /\ View(requests[r].log)
        /\ UNCHANGED <<disk, written>>
    BY <2>1 DEF ViewAnswer, Stage
  <2>3. requests[r].log \in LogNames /\ AiFile(requests[r].log) \in DOMAIN disk
    BY <2>2 DEF SInv, NamesOK, RequestsNamed
  <2> QED BY <2>2, <2>3 DEF View
<1>3. CASE \E t \in DOMAIN written : StartIteration(t) \/ EndIteration(t)
  BY <1>3, TestEffects
<1>4. CASE Resume \/ Swipe \/ Cancel \/ ConfirmDelete \/ UNCHANGED logVars
  BY <1>4 DEF Resume, Swipe, Cancel, ConfirmDelete, logVars
<1>5. CASE \E l \in Loads : ListFiles(l) \/ ParseFile(l) \/ ShowRows(l)
  BY <1>5 DEF ListFiles, ParseFile, ShowRows
<1>6. CASE \E i \in DOMAIN logs : OpenDialog(i)
  BY <1>6 DEF OpenDialog
<1>7. CASE \E r \in Requests : RequestFails(r) \/ AnswerArrives(r) \/ WriteAnswer(r)
  BY <1>7 DEF RequestFails, AnswerArrives, WriteAnswer
<1> QED BY <1>1, <1>2, <1>3, <1>4, <1>5, <1>6, <1>7 DEF LogNext

\* A summary goes on being about what its log begins with.
LEMMA SummariesStep ==
  ASSUME SInv, IInv', [LogNext]_logVars
  PROVE  SummariesOK' /\ RequestsNamed' /\ ShownNamed'
<1>1. \A f \in DOMAIN disk : disk[f].texts \in Seq(Texts)
  BY DEF SInv, IInv, FilesOK
<1>2. ASSUME NEW r \in Requests, requests[r] # Idle
      PROVE  requests[r].log \in LogNames /\ requests[r].prompt \in Seq(Texts)
             /\ BeginsWith(requests[r].log, requests[r].prompt)
  BY <1>2 DEF SInv, IInv, RequestsOK, NamesOK, RequestsNamed, SummariesOK
<1>3. ASSUME NEW f \in LogNames, AiFile(f) \in DOMAIN disk'
      PROVE  BeginsWith(f, disk[AiFile(f)].texts)'
  <2> DEFINE s == disk'[AiFile(f)].texts
  <2>1. s \in Seq(Texts) /\ BeginsWith(f, s)
    <3>1. CASE AiFile(f) \in DOMAIN disk /\ s = disk[AiFile(f)].texts
      BY <1>1, <3>1 DEF SInv, SummariesOK
    <3>2. CASE s = <<>>
      BY <3>2, BeginsWithItself
    <3>3. CASE \E r \in Requests : requests[r] # Idle /\ requests[r].log = f /\ s = requests[r].prompt
      BY <1>2, <3>3
    <3> QED BY <1>3, <3>1, <3>2, <3>3, SummaryFiles
  <2>2. \A x : x \in Seq(Texts) /\ BeginsWith(f, x) => BeginsWith(f, x)'
    BY BeginningStays
  <2> HIDE DEF s
  <2>3. ~written'[f[2]].cut => IsPrefix(s, Content(f)')
    BY <2>1, <2>2 DEF BeginsWith
  <2> QED BY <2>3 DEF BeginsWith, s
<1>4. ASSUME NEW r \in Requests, requests'[r] # Idle
      PROVE  /\ requests'[r].log \in LogNames
             /\ requests'[r].pc \in {"opened", "written"} => AiFile(requests'[r].log) \in DOMAIN disk'
             /\ BeginsWith(requests[r].log, requests[r].prompt)'
  <2> DEFINE f == requests'[r].log
             s == requests'[r].prompt
  <2>1. f \in LogNames /\ s \in Seq(Texts) /\ BeginsWith(f, s)
    <3>1. CASE requests[r] # Idle /\ f = requests[r].log /\ s = requests[r].prompt
      BY <1>2, <3>1
    <3>2. CASE f \in LogNames /\ f \in DOMAIN disk /\ s = disk[f].texts
      <4> HIDE DEF f
      <4> QED BY <1>1, <3>2, BeginsWithItself
    <3> QED BY <1>4, <3>1, <3>2, RequestSources
  <2>2. ASSUME NEW g \in LogNames, NEW x \in Seq(Texts), BeginsWith(g, x)
        PROVE  ~written'[g[2]].cut => IsPrefix(x, Content(g)')
    BY <2>2, BeginningStays DEF BeginsWith
  <2>3. requests'[r].pc \in {"opened", "written"} => AiFile(f) \in DOMAIN disk'
    BY <1>4, RequestSources
  <2> QED BY <2>1, <2>2, <2>3 DEF BeginsWith, Content
<1>5. ShownNamed' /\ (shown' # None => BeginsWith(shown.log, shown.texts)')
  <2>1. ASSUME shown' # None
        PROVE  shown' \in NamedRows /\ BeginsWith(shown'.log, shown'.texts)
    <3>1. CASE UNCHANGED shown
      BY <2>1, <3>1 DEF SInv, NamesOK, ShownNamed, SummariesOK
    <3>2. CASE ~UNCHANGED shown
      <4>1. PICK f \in LogNames : /\ AiFile(f) \in DOMAIN disk
                                  /\ shown' = [log |-> f, texts |-> disk[AiFile(f)].texts]
        BY <3>2, ShownSources
      <4>2. shown' \in NamedRows
        BY <1>1, <4>1 DEF NamedRows
      <4>3. shown'.log = f /\ shown'.texts = disk[AiFile(f)].texts
        BY <4>1
      <4>4. BeginsWith(f, disk[AiFile(f)].texts)
        BY <4>1 DEF SInv, SummariesOK
      <4> QED BY <4>2, <4>3, <4>4
    <3> QED BY <3>1, <3>2
  <2>2. ASSUME NEW g \in LogNames, NEW x \in Seq(Texts), BeginsWith(g, x)
        PROVE  ~written'[g[2]].cut => IsPrefix(x, Content(g)')
    BY <2>2, BeginningStays DEF BeginsWith
  <2>3. ASSUME shown' # None PROVE shown'.log \in LogNames /\ shown'.texts \in Seq(Texts)
    BY <2>1, <2>3 DEF NamedRows
  <2> QED BY <2>1, <2>2, <2>3 DEF BeginsWith, Content, ShownNamed
<1> QED BY <1>3, <1>4, <1>5 DEF SummariesOK, RequestsNamed

\* The directory and the tests.
LEMMA FilesStep ==
  ASSUME SInv, [LogNext]_logVars
  PROVE  WrittenOK' /\ DiskNamed'
<1>1. CASE UNCHANGED <<disk, fileTime, written>>
  BY <1>1 DEF SInv, NamesOK, DiskNamed, WrittenOK
<1>2. CASE \E t \in DOMAIN written : StartIteration(t) \/ EndIteration(t)
  <2>1. PICK f \in LogNames, x \in Texts : WriteFile(f, Append(Content(f), x))
    BY <1>2, TestEffects
  <2>2. DiskNamed'
    BY <2>1, WriteNames DEF SInv, NamesOK
  <2> QED BY <1>2, <2>2, TestEffects
<1>3. CASE ConfirmDelete
  <2>1. CASE UNCHANGED <<disk, written>>
    BY <2>1 DEF SInv, NamesOK, DiskNamed, WrittenOK
  <2>2. CASE ~UNCHANGED <<disk, written>>
    <3>1. PICK i \in 1 .. Len(logs) :
            /\ logs[i].log \in LogNames
            /\ disk' = [g \in DOMAIN disk \ {logs[i].log} |-> disk[g]]
            /\ written' = [written EXCEPT ![logs[i].log[2]].cut = TRUE]
      BY <1>3, <2>2, DeleteEffects
    <3> DEFINE t == logs[i].log[2]
    <3>2. t \in DOMAIN Plans /\ DOMAIN written = DOMAIN Plans
      BY <3>1, NameFacts DEF SInv, IInv
    <3>3. /\ written'[t] = [begun |-> written[t].begun, open |-> written[t].open,
                            texts |-> written[t].texts, cut |-> TRUE]
          /\ \A u \in DOMAIN Plans : u # t => written'[u] = written[u]
      <4>1. WrittenOK
        BY DEF SInv
      <4>2. written' = [written EXCEPT ![t] = [written[t] EXCEPT !.cut = TRUE]]
        BY <3>1
      <4> HIDE DEF t
      <4> QED BY <3>2, <4>1, <4>2, TestChanges DEF WrittenOK
    <3>4. WrittenOK'
      <4> SUFFICES ASSUME NEW u \in DOMAIN Plans
                   PROVE  written'[u] = [begun |-> written'[u].begun, open |-> written'[u].open,
                                         texts |-> written'[u].texts, cut |-> written'[u].cut]
        BY DEF WrittenOK
      <4>1. CASE u = t
        <5> HIDE DEF t
        <5> QED BY <3>3, <4>1
      <4>2. CASE u # t
        BY <3>3, <4>2 DEF SInv, WrittenOK
      <4> QED BY <4>1, <4>2
    <3> QED BY <3>1, <3>4 DEF SInv, NamesOK, DiskNamed
  <2> QED BY <2>1, <2>2
<1>4. CASE \E r \in Requests : AnswerArrives(r) \/ WriteAnswer(r)
  <2>1. PICK r \in Requests : AnswerArrives(r) \/ WriteAnswer(r)
    BY <1>4
  <2>2. requests[r].log \in LogNames /\ UNCHANGED written
    BY <2>1, AnswerEffects
  <2>3. PICK texts : WriteFile(AiFile(requests[r].log), texts)
    BY <2>1, AnswerEffects
  <2>4. AiFile(requests[r].log) \in SummaryNames
    BY <2>2, NameFacts
  <2>5. DiskNamed'
    BY <2>3, <2>4, WriteNames DEF SInv, NamesOK
  <2> QED BY <2>2, <2>5 DEF SInv, WrittenOK
<1> QED BY <1>1, <1>2, <1>3, <1>4, StepKinds

\* A file that a listing finds is a log.
LEMMA LogFilesNamed ==
  ASSUME SInv
  PROVE  LogFiles \subseteq LogNames /\ LogFiles = LogNames \cap DOMAIN disk
<1>1. ASSUME NEW f \in LogFiles PROVE f \in LogNames
  <2>1. f \in DOMAIN disk /\ f[1] = "iPerf3"
    BY DEF LogFiles
  <2>2. ASSUME f \in SummaryNames PROVE FALSE
    <3>1. PICK h \in LogNames : f = <<"AI", h[2], h[3]>>
      BY <2>2 DEF SummaryNames, AiFile
    <3> QED BY <2>1, <3>1
  <2> QED BY <2>1, <2>2 DEF SInv, NamesOK, DiskNamed
<1>2. ASSUME NEW f \in LogNames, f \in DOMAIN disk PROVE f \in LogFiles
  BY <1>2, NameFacts DEF LogFiles
<1> QED BY <1>1, <1>2 DEF LogFiles

\* The loads have logs to parse and rows of logs.
LEMMA LoadsStep ==
  ASSUME SInv, [LogNext]_logVars
  PROVE  LoadsNamed'
<1> DEFINE Load == [pc : {"list", "parse"}, todo : Seq(LogNames), rows : Seq(NamedRows)]
<1>1. DOMAIN loads = Loads /\ \A l \in Loads : loads[l] = Idle \/ loads[l] \in Load
  BY DEF SInv, NamesOK, LoadsNamed
<1>2. ASSUME NEW l \in Loads, NEW e, loads' = [loads EXCEPT ![l] = e], e = Idle \/ e \in Load
      PROVE  LoadsNamed'
  <2> HIDE DEF Load
  <2>1. DOMAIN loads' = Loads /\ \A k \in Loads : loads'[k] = Idle \/ loads'[k] \in Load
    BY <1>1, <1>2
  <2> QED BY <2>1 DEF LoadsNamed, Load
<1>3. CASE Launch
  <2>1. PICK l \in Loads :
          loads' = [loads EXCEPT ![l] = [pc |-> "list", todo |-> <<>>, rows |-> <<>>]]
    BY <1>3 DEF Launch
  <2>2. [pc |-> "list", todo |-> <<>>, rows |-> <<>>] \in Load
    OBVIOUS
  <2> QED BY <1>2, <2>1, <2>2, Zenon
<1>4. ASSUME NEW l \in Loads, ListFiles(l) PROVE LoadsNamed'
  <2>1. PICK s \in Listings : loads' = [loads EXCEPT ![l] = [pc |-> "parse", todo |-> s, rows |-> <<>>]]
    BY <1>4 DEF ListFiles
  <2>2. s \in Seq(LogNames)
    <3>1. Cardinality(LogFiles) \in Nat
      BY FS_Subset, FS_CardinalityType DEF SInv, IInv, FilesOK, LogFiles
    <3>2. s \in [1 .. Cardinality(LogFiles) -> LogNames]
      BY LogFilesNamed DEF Listings
    <3> QED BY <3>1, <3>2
  <2>3. [pc |-> "parse", todo |-> s, rows |-> <<>>] \in Load
    BY <2>2
  <2> QED BY <1>2, <2>1, <2>3, Zenon
<1>5. ASSUME NEW l \in Loads, ParseFile(l) PROVE LoadsNamed'
  <2>1. CASE UNCHANGED loads
    BY <1>1, <2>1 DEF LoadsNamed
  <2>2. CASE ~UNCHANGED loads
    <3> DEFINE d == loads[l]
               f == Head(d.todo)
               row == Row(f, disk[f].texts)
               e == [pc |-> "parse", todo |-> Tail(d.todo), rows |-> Append(d.rows, row)]
    <3>1. f \in DOMAIN disk /\ d.todo # <<>> /\ loads' = [loads EXCEPT ![l] = e] /\ d # Idle
      BY <2>2, <1>5 DEF ParseFile
    <3>2. d.todo \in Seq(LogNames) /\ d.rows \in Seq(NamedRows)
      <4> HIDE DEF d
      <4>1. d \in Load
        BY <1>1, <3>1 DEF d
      <4> QED BY <4>1
    <3>3. f \in LogNames /\ Tail(d.todo) \in Seq(LogNames)
      <4> HIDE DEF d
      <4> QED BY <3>1, <3>2
    <3>4. row \in NamedRows
      <4>1. disk[f].texts \in Seq(Texts)
        BY <3>1 DEF SInv, IInv, FilesOK
      <4> HIDE DEF f
      <4> QED BY <3>3, <4>1 DEF Row, NamedRows, f
    <3>5. Append(d.rows, row) \in Seq(NamedRows)
      <4> HIDE DEF d, row
      <4> QED BY <3>2, <3>4
    <3>6. e \in Load
      <4> HIDE DEF d, row
      <4> QED BY <3>3, <3>5
    <3> HIDE DEF e, Load
    <3> QED BY <1>2, <3>1, <3>6
  <2> QED BY <2>1, <2>2
<1>6. ASSUME NEW l \in Loads, ShowRows(l) PROVE LoadsNamed'
  <2>1. loads' = [loads EXCEPT ![l] = Idle]
    BY <1>6 DEF ShowRows
  <2> QED BY <1>2, <2>1
<1>7. CASE UNCHANGED loads
  BY <1>1, <1>7 DEF LoadsNamed
<1>8. CASE \E t \in DOMAIN written : StartIteration(t) \/ EndIteration(t)
  BY <1>7, <1>8, TestEffects
<1>9. CASE \/ Cancel \/ ConfirmDelete \/ UNCHANGED logVars
           \/ \E i \in DOMAIN logs : OpenDialog(i) \/ Analyze(i)
           \/ \E r \in Requests : RequestFails(r) \/ AnswerArrives(r) \/ WriteAnswer(r) \/ ViewAnswer(r)
  BY <1>7, <1>9 DEF Cancel, ConfirmDelete, logVars, OpenDialog, Analyze, RequestFails, AnswerArrives,
     WriteAnswer, ViewAnswer
<1> QED BY <1>3, <1>4, <1>5, <1>6, <1>8, <1>9 DEF LogNext, Resume, Swipe

\* The list has rows of logs, and an open dialog a position in it.
LEMMA ListStep ==
  ASSUME SInv, [LogNext]_logVars
  PROVE  ListNamed'
<1>1. logs \in Seq(NamedRows) /\ DialogOK
  BY DEF SInv, NamesOK, ListNamed
<1>2. CASE UNCHANGED <<logs, dialog>>
  BY <1>1, <1>2 DEF ListNamed, DialogOK
<1>3. ASSUME NEW l \in Loads, ShowRows(l) PROVE ListNamed'
  <2>1. logs' \in Seq(NamedRows)
    <3>1. loads[l] \in [pc : {"list", "parse"}, todo : Seq(LogNames), rows : Seq(NamedRows)]
      BY <1>3 DEF ShowRows, SInv, NamesOK, LoadsNamed
    <3> QED BY <1>3, <3>1 DEF ShowRows
  <2>2. CASE dialog = None
    BY <1>3, <2>1, <2>2 DEF ShowRows, ListNamed, DialogOK
  <2>3. CASE dialog # None
    <3>1. PICK i \in 0 .. Len(logs') : dialog' = [dialog EXCEPT !.position = i]
      BY <1>3, <2>3 DEF ShowRows
    <3>2. dialog = [log |-> dialog.log, position |-> dialog.position]
      BY <1>1, <2>3 DEF DialogOK
    <3>3. dialog' = [log |-> dialog.log, position |-> i]
      BY <3>1, <3>2
    <3> QED BY <2>1, <3>3 DEF ListNamed, DialogOK
  <2> QED BY <2>2, <2>3
<1>4. CASE Cancel
  BY <1>1, <1>4 DEF Cancel, ListNamed, DialogOK
<1>5. ASSUME NEW i \in DOMAIN logs, OpenDialog(i) PROVE ListNamed'
  <2>1. i \in 0 .. Len(logs)
    BY <1>1
  <2>2. dialog' = [log |-> logs[i].log, position |-> i] /\ UNCHANGED logs
    BY <1>5 DEF OpenDialog
  <2> QED BY <1>1, <2>1, <2>2 DEF ListNamed, DialogOK
<1>6. CASE ConfirmDelete
  <2>1. dialog' = None
    BY <1>6, DeleteEffects
  <2>2. logs' \in Seq(NamedRows)
    <3>1. CASE UNCHANGED logs
      BY <1>1, <3>1
    <3>2. CASE \E i \in 1 .. Len(logs) : logs' = WithoutRow(i)
      BY <1>1, <3>2, SeqWithout DEF WithoutRow
    <3> QED BY <1>6, <3>1, <3>2, DeleteEffects
  <2> QED BY <2>1, <2>2 DEF ListNamed, DialogOK
<1>7. CASE \E t \in DOMAIN written : StartIteration(t) \/ EndIteration(t)
  BY <1>2, <1>7, TestEffects
<1>8. CASE \/ Resume \/ Swipe \/ UNCHANGED logVars
           \/ \E l \in Loads : ListFiles(l) \/ ParseFile(l)
           \/ \E i \in DOMAIN logs : Analyze(i)
           \/ \E r \in Requests : RequestFails(r) \/ AnswerArrives(r) \/ WriteAnswer(r) \/ ViewAnswer(r)
  BY <1>2, <1>8 DEF Resume, Swipe, logVars, ListFiles, ParseFile, Analyze, RequestFails, AnswerArrives,
     WriteAnswer, ViewAnswer
<1> QED BY <1>3, <1>4, <1>5, <1>6, <1>7, <1>8 DEF LogNext

\* It holds at first, and every step keeps it.
LEMMA SInvInit == LogInit => SInv
<1> SUFFICES ASSUME LogInit PROVE SInv
  OBVIOUS
<1>1. IInv
  BY InitHolds
<1>2. WrittenOK
  BY DEF LogInit, WrittenOK
<1>3. DOMAIN disk = {} /\ shown = None /\ \A r \in Requests : requests[r] = Idle
  BY DEF LogInit
<1>4. DiskNamed /\ RequestsNamed /\ ShownNamed /\ SummariesOK
  BY <1>3 DEF DiskNamed, RequestsNamed, ShownNamed, SummariesOK
<1>5. LoadsNamed /\ ListNamed
  BY DEF LogInit, LoadsNamed, ListNamed, DialogOK
<1> QED BY <1>1, <1>2, <1>4, <1>5 DEF SInv, NamesOK

LEMMA SInvStep == ASSUME SInv, [LogNext]_logVars PROVE SInv'
<1>1. IInv'
  BY StepHolds DEF SInv
<1> QED BY <1>1, FilesStep, LoadsStep, ListStep, SummariesStep DEF SInv, NamesOK

\* The summary shown for a log is about that very log, as it was when it was sent or
\* emptied by a write under way, unless a part of its test was deleted.
THEOREM SummaryAlways == LogSpec => []SummaryOfThisLog
<1>1. SInv => SummaryOfThisLog
  BY DEF SInv, SummariesOK, BeginsWith, SummaryOfThisLog
<1> QED BY <1>1, SInvInit, SInvStep, PTL DEF LogSpec

----------------------------------------------------------------------------
(* The list *)

\* What shouldRefreshLogs reads is as late as every file.
LEMMA SignatureModified ==
  ASSUME TimesOK
  PROVE  /\ Signature.modified \in Nat /\ Signature.modified <= fileTime
         /\ \A f \in DOMAIN disk : disk[f].time <= Signature.modified
<1> DEFINE S == {disk[f].time : f \in DOMAIN disk} \cup {0}
<1>1. S \in SUBSET Nat /\ 0 \in S /\ fileTime \in Nat /\ \A x \in S : x <= fileTime
  BY DEF TimesOK
<1>2. Max(S) \in S /\ \A x \in S : x <= Max(S)
  <2> HIDE DEF S
  <2> QED BY <1>1, Largest
<1>3. Signature.modified = Max(S)
  BY DEF Signature
<1>4. \A f \in DOMAIN disk : disk[f].time \in S
  OBVIOUS
<1> HIDE DEF S
<1> QED BY <1>1, <1>2, <1>3, <1>4

\* Only shouldRefreshLogs records what it saw.
LEMMA RecordedStep ==
  ASSUME SInv, [LogNext]_logVars
  PROVE  UNCHANGED recorded \/ Resume
<1>1. CASE \E t \in DOMAIN written : StartIteration(t) \/ EndIteration(t)
  BY <1>1, TestEffects
<1>2. CASE \/ Swipe \/ Cancel \/ ConfirmDelete \/ UNCHANGED logVars
           \/ \E l \in Loads : ListFiles(l) \/ ParseFile(l) \/ ShowRows(l)
           \/ \E i \in DOMAIN logs : OpenDialog(i) \/ Analyze(i)
           \/ \E r \in Requests : RequestFails(r) \/ AnswerArrives(r) \/ WriteAnswer(r) \/ ViewAnswer(r)
  BY <1>2 DEF Swipe, Cancel, ConfirmDelete, logVars, ListFiles, ParseFile, ShowRows, OpenDialog,
     Analyze, RequestFails, AnswerArrives, WriteAnswer, ViewAnswer
<1> QED BY <1>1, <1>2 DEF LogNext

\* The files were written no later than now.
LEMMA TimesStep ==
  ASSUME SInv, TimesOK, [LogNext]_logVars
  PROVE  TimesOK'
<1>1. ASSUME NEW f, NEW texts, WriteFile(f, texts), UNCHANGED recorded PROVE TimesOK'
  <2>1. /\ DOMAIN disk' = DOMAIN disk \cup {f} /\ disk'[f].time = fileTime' /\ fileTime' = fileTime + 1
        /\ \A g \in DOMAIN disk : g # f => disk'[g] = disk[g]
    BY <1>1, WriteEffects
  <2>2. fileTime' \in Nat /\ fileTime < fileTime'
    BY <2>1 DEF TimesOK
  <2>3. ASSUME NEW g \in DOMAIN disk' PROVE disk'[g].time \in Nat /\ disk'[g].time <= fileTime'
    <3>1. CASE g = f
      BY <2>1, <2>2, <3>1
    <3>2. CASE g # f
      BY <2>1, <2>2, <3>2 DEF TimesOK
    <3> QED BY <3>1, <3>2
  <2>4. recorded'.modified \in Nat /\ recorded'.modified <= fileTime'
    BY <1>1, <2>2 DEF TimesOK
  <2> QED BY <2>2, <2>3, <2>4 DEF TimesOK
<1>2. CASE Resume
  <2>1. recorded' = Signature /\ UNCHANGED <<disk, fileTime>>
    BY <1>2 DEF Resume
  <2> QED BY <2>1, SignatureModified DEF TimesOK
<1>3. CASE UNCHANGED recorded /\ UNCHANGED <<disk, fileTime, written>>
  BY <1>3 DEF TimesOK
<1>4. CASE \E t \in DOMAIN written : StartIteration(t) \/ EndIteration(t)
  BY <1>1, <1>4, TestEffects
<1>5. CASE \E r \in Requests : AnswerArrives(r) \/ WriteAnswer(r)
  BY <1>1, <1>5, AnswerEffects
<1>6. CASE ConfirmDelete
  <2>1. /\ UNCHANGED <<fileTime, recorded>>
        /\ DOMAIN disk' \subseteq DOMAIN disk /\ \A f \in DOMAIN disk' : disk'[f] = disk[f]
    <3>1. CASE UNCHANGED disk
      BY <1>6, <3>1, DeleteEffects
    <3>2. CASE \E h : disk' = [g \in DOMAIN disk \ {h} |-> disk[g]]
      BY <1>6, <3>2, DeleteEffects
    <3> QED BY <1>6, <3>1, <3>2, DeleteEffects
  <2> QED BY <2>1 DEF TimesOK
<1> QED BY <1>2, <1>3, <1>4, <1>5, <1>6, StepKinds, RecordedStep

\* Until shouldRefreshLogs looks again, logs not written since are as they were.
LEMMA OldShrinks ==
  ASSUME SInv, TimesOK, [LogNext]_logVars, UNCHANGED recorded, NEW f, Old(f)'
  PROVE  Old(f) /\ disk'[f] = disk[f]
<1>1. f \in DOMAIN disk' /\ f[1] = "iPerf3" /\ disk'[f].time <= recorded.modified
  BY DEF Old, LogFiles
<1>2. ASSUME f \in DOMAIN disk, disk'[f] = disk[f] PROVE Old(f)
  BY <1>1, <1>2 DEF Old, LogFiles
<1>3. ASSUME NEW g, NEW texts, WriteFile(g, texts) PROVE Old(f) /\ disk'[f] = disk[f]
  <2>1. /\ DOMAIN disk' = DOMAIN disk \cup {g} /\ disk'[g].time = fileTime + 1
        /\ \A h \in DOMAIN disk : h # g => disk'[h] = disk[h]
    BY <1>3, WriteEffects
  <2>2. f # g
    BY <1>1, <2>1 DEF TimesOK
  <2> QED BY <1>1, <1>2, <2>1, <2>2
<1>4. CASE UNCHANGED <<disk, fileTime, written>>
  BY <1>1, <1>2, <1>4
<1>5. CASE \E t \in DOMAIN written : StartIteration(t) \/ EndIteration(t)
  BY <1>3, <1>5, TestEffects
<1>6. CASE \E r \in Requests : AnswerArrives(r) \/ WriteAnswer(r)
  BY <1>3, <1>6, AnswerEffects
<1>7. CASE ConfirmDelete
  <2>1. CASE UNCHANGED disk
    BY <1>1, <1>2, <2>1
  <2>2. CASE \E h : disk' = [g \in DOMAIN disk \ {h} |-> disk[g]]
    BY <1>1, <1>2, <2>2
  <2> QED BY <1>7, <2>1, <2>2, DeleteEffects
<1> QED BY <1>4, <1>5, <1>6, <1>7, StepKinds

\* What is current of rows and of a load stays so.
LEMMA CurrentStays ==
  ASSUME SInv, TimesOK, [LogNext]_logVars, UNCHANGED recorded
  PROVE  /\ \A f, g : InOrder(f, g) => InOrder(f, g)'
         /\ \A rows : RowsCurrent(rows) => RowsCurrent(rows)'
         /\ \A d : LoadCurrent(d) => LoadCurrent(d)'
<1>1. \A f : Old(f)' => Old(f) /\ disk'[f] = disk[f]
  BY OldShrinks
<1>2. ASSUME NEW f, NEW g, InOrder(f, g) PROVE InOrder(f, g)'
  <2> SUFFICES ASSUME Old(f)', Old(g)' PROVE disk'[f].time >= disk'[g].time
    BY DEF InOrder
  <2> QED BY <1>1, <1>2 DEF InOrder
<1>3. ASSUME NEW rows, RowsCurrent(rows) PROVE RowsCurrent(rows)'
  <2>1. ASSUME NEW i \in 1 .. Len(rows), Old(rows[i].log)'
        PROVE  rows[i].texts = disk'[rows[i].log].texts
    BY <1>1, <1>3, <2>1 DEF RowsCurrent
  <2>2. ASSUME NEW i \in 1 .. Len(rows), NEW j \in 1 .. Len(rows), i < j
        PROVE  InOrder(rows[i].log, rows[j].log)'
    <3>1. InOrder(rows[i].log, rows[j].log)
      BY <1>3, <2>2 DEF RowsCurrent
    <3> QED BY <1>2, <3>1
  <2> QED BY <2>1, <2>2 DEF RowsCurrent
<1>4. ASSUME NEW d, LoadCurrent(d) PROVE LoadCurrent(d)'
  <2>1. RowsCurrent(d.rows)'
    BY <1>3, <1>4 DEF LoadCurrent
  <2>2. ASSUME NEW i \in 1 .. Len(d.todo), NEW j \in 1 .. Len(d.todo), i < j
        PROVE  InOrder(d.todo[i], d.todo[j])'
    <3>1. InOrder(d.todo[i], d.todo[j])
      BY <1>4, <2>2 DEF LoadCurrent
    <3> QED BY <1>2, <3>1
  <2>3. ASSUME NEW i \in 1 .. Len(d.rows), NEW j \in 1 .. Len(d.todo)
        PROVE  InOrder(d.rows[i].log, d.todo[j])'
    <3>1. InOrder(d.rows[i].log, d.todo[j])
      BY <1>4 DEF LoadCurrent
    <3> QED BY <1>2, <3>1
  <2>4. ASSUME NEW f \in LogFiles', Old(f)'
        PROVE  \/ \E i \in 1 .. Len(d.todo) : d.todo[i] = f
               \/ \E i \in 1 .. Len(d.rows) : d.rows[i].log = f
    <3>1. Old(f) /\ f \in LogFiles
      BY <1>1, <2>4 DEF Old
    <3> QED BY <1>4, <3>1 DEF LoadCurrent
  <2> QED BY <2>1, <2>2, <2>3, <2>4 DEF LoadCurrent
<1> QED BY <1>2, <1>3, <1>4

\* A load that is d after a step, and a list that is rows.
LEMMA LoadIs ==
  ASSUME NEW l, NEW d, loads'[l] = d, LoadCurrent(d)'
  PROVE  LoadCurrent(loads[l])'
BY Zenon DEF LoadCurrent, RowsCurrent, InOrder, Old, LogFiles

LEMMA ListIs ==
  ASSUME NEW rows, logs' = rows, RowsCurrent(rows)',
         \A f \in LogFiles' : Old(f)' => \E i \in 1 .. Len(rows) : rows[i].log = f
  PROVE  ListCurrent'
BY Zenon DEF ListCurrent, RowsCurrent, InOrder, Old, LogFiles

\* A row taken from the front of the files to parse: what is said of both stays.
LEMMA ParsedCurrent ==
  ASSUME NEW todo \in Seq(LogNames), todo # <<>>, NEW rows \in Seq(NamedRows), NEW row \in NamedRows,
         row.log = Head(todo), Old(row.log) => row.texts = disk[row.log].texts,
         LoadCurrent([pc |-> "parse", todo |-> todo, rows |-> rows])
  PROVE  LoadCurrent([pc |-> "parse", todo |-> Tail(todo), rows |-> Append(rows, row)])
<1> DEFINE a == Tail(todo)
           b == Append(rows, row)
<1>1. /\ Len(todo) \in Nat \ {0} /\ row.log = todo[1]
      /\ Len(a) = Len(todo) - 1 /\ \A i \in 1 .. Len(a) : a[i] = todo[i + 1]
  OBVIOUS
<1>2. /\ Len(rows) \in Nat /\ Len(b) = Len(rows) + 1
      /\ \A i \in 1 .. Len(rows) : b[i] = rows[i]
      /\ b[Len(rows) + 1] = row
  OBVIOUS
<1>3. /\ RowsCurrent(rows)
      /\ \A i, j \in 1 .. Len(todo) : i < j => InOrder(todo[i], todo[j])
      /\ \A i \in 1 .. Len(rows), j \in 1 .. Len(todo) : InOrder(rows[i].log, todo[j])
      /\ \A f \in LogFiles :
           Old(f) => \/ \E i \in 1 .. Len(todo) : todo[i] = f
                     \/ \E i \in 1 .. Len(rows) : rows[i].log = f
  BY DEF LoadCurrent
<1> HIDE DEF a, b
<1>4. RowsCurrent(b)
  <2>1. ASSUME NEW i \in 1 .. Len(b), Old(b[i].log) PROVE b[i].texts = disk[b[i].log].texts
    <3>1. CASE i \in 1 .. Len(rows)
      BY <1>2, <1>3, <2>1, <3>1 DEF RowsCurrent
    <3>2. CASE i = Len(rows) + 1
      BY <1>2, <2>1, <3>2
    <3> QED BY <1>2, <3>1, <3>2
  <2>2. ASSUME NEW i \in 1 .. Len(b), NEW j \in 1 .. Len(b), i < j PROVE InOrder(b[i].log, b[j].log)
    <3>1. i \in 1 .. Len(rows) /\ b[i] = rows[i]
      BY <1>2, <2>2
    <3>2. CASE j \in 1 .. Len(rows)
      BY <1>2, <1>3, <2>2, <3>1, <3>2 DEF RowsCurrent
    <3>3. CASE j = Len(rows) + 1
      <4>1. 1 \in 1 .. Len(todo) /\ b[j].log = todo[1]
        BY <1>1, <1>2, <3>3
      <4> QED BY <1>3, <3>1, <4>1
    <3> QED BY <1>2, <3>2, <3>3
  <2> QED BY <2>1, <2>2 DEF RowsCurrent
<1>5. ASSUME NEW i \in 1 .. Len(a), NEW j \in 1 .. Len(a), i < j PROVE InOrder(a[i], a[j])
  <2>1. i + 1 \in 1 .. Len(todo) /\ j + 1 \in 1 .. Len(todo) /\ i + 1 < j + 1
    BY <1>1, <1>5
  <2> QED BY <1>1, <1>3, <2>1
<1>6. ASSUME NEW i \in 1 .. Len(b), NEW j \in 1 .. Len(a) PROVE InOrder(b[i].log, a[j])
  <2>1. j + 1 \in 1 .. Len(todo) /\ 1 \in 1 .. Len(todo) /\ 1 < j + 1 /\ a[j] = todo[j + 1]
    BY <1>1
  <2>2. CASE i \in 1 .. Len(rows)
    BY <1>2, <1>3, <2>1, <2>2
  <2>3. CASE i = Len(rows) + 1
    BY <1>1, <1>2, <1>3, <2>1, <2>3
  <2> QED BY <1>2, <2>2, <2>3
<1>7. ASSUME NEW f \in LogFiles, Old(f)
      PROVE  \/ \E i \in 1 .. Len(a) : a[i] = f
             \/ \E i \in 1 .. Len(b) : b[i].log = f
  <2>1. CASE \E i \in 1 .. Len(rows) : rows[i].log = f
    <3>1. PICK i \in 1 .. Len(rows) : rows[i].log = f
      BY <2>1
    <3>2. i \in 1 .. Len(b) /\ b[i].log = f
      BY <1>2, <3>1
    <3> QED BY <3>2
  <2>2. CASE \E i \in 1 .. Len(todo) : todo[i] = f
    <3>1. PICK i \in 1 .. Len(todo) : todo[i] = f
      BY <2>2
    <3>2. CASE i = 1
      <4>1. Len(rows) + 1 \in 1 .. Len(b) /\ b[Len(rows) + 1].log = f
        BY <1>1, <1>2, <3>1, <3>2
      <4> QED BY <4>1
    <3>3. CASE i # 1
      <4>1. i - 1 \in 1 .. Len(a) /\ (i - 1) + 1 = i
        BY <1>1, <3>3
      <4>2. a[i - 1] = f
        BY <1>1, <3>1, <4>1
      <4> QED BY <4>1, <4>2
    <3> QED BY <3>2, <3>3
  <2> QED BY <1>3, <1>7, <2>1, <2>2
<1>8. LoadCurrent([pc |-> "parse", todo |-> a, rows |-> b])
  BY <1>4, <1>5, <1>6, <1>7 DEF LoadCurrent
<1> QED BY <1>8 DEF a, b

\* A listing has every log.
LEMMA ListingWhole ==
  ASSUME FilesOK, NEW s \in Listings
  PROVE  /\ s \in Seq(LogFiles) /\ Len(s) = Cardinality(LogFiles)
         /\ \A f \in LogFiles : \E i \in 1 .. Len(s) : s[i] = f
         /\ \A i, j \in 1 .. Len(s) : i < j => disk[s[i]].time >= disk[s[j]].time
<1> DEFINE n == Cardinality(LogFiles)
<1>1. n \in Nat /\ IsFiniteSet(LogFiles)
  BY FS_Subset, FS_CardinalityType DEF FilesOK, LogFiles
<1>2. /\ s \in [1 .. n -> LogFiles] /\ Newest(s)
      /\ \A i, j \in 1 .. n : s[i] = s[j] => i = j
  BY DEF Listings
<1>3. s \in Injection(1 .. n, LogFiles)
  BY <1>2 DEF Injection, IsInjective
<1>4. IsFiniteSet(1 .. n) /\ Cardinality(1 .. n) = n
  <2> HIDE DEF n
  <2>1. IsFiniteSet(1 .. n) /\ Cardinality(1 .. n) = IF 1 > n THEN 0 ELSE n - 1 + 1
    BY <1>1, FS_Interval
  <2> QED BY <1>1, <2>1
<1>5. s \in Surjection(1 .. n, LogFiles)
  BY <1>1, <1>3, <1>4, FS_Injection
<1>6. \A f \in LogFiles : \E i \in 1 .. n : s[i] = f
  BY <1>5 DEF Surjection
<1>7. s \in Seq(LogFiles) /\ Len(s) = n /\ DOMAIN s = 1 .. n
  <2> HIDE DEF n
  <2> QED BY <1>1, <1>2
<1>8. \A i, j \in 1 .. n : i < j => disk[s[i]].time >= disk[s[j]].time
  BY <1>2, <1>7 DEF Newest
<1> QED BY <1>6, <1>7, <1>8

\* A load begins: it is the only one, as none was under way.
LEMMA LaunchReliable ==
  ASSUME CInv, Launch
  PROVE  Reliable'
<1> SUFFICES ASSUME ~seen'.overlapped
             PROVE  /\ \A k, l \in Loads : loads'[k] # Idle /\ loads'[l] # Idle => k = l
                    /\ \A l \in Loads : loads'[l] # Idle => loads'[l].pc # "parse"
                    /\ Loading'
  BY DEF Reliable
<1>1. ~Loading
  <2>1. SeenOK
    BY DEF CInv, SInv, IInv
  <2>2. PICK n, o : seen' = [seen EXCEPT !.loads = n, !.overlapped = o] /\ o = (seen.overlapped \/ Loading)
    BY Zenon DEF Launch
  <2>3. seen'.overlapped = o
    BY <2>1, <2>2 DEF SeenOK
  <2> QED BY <2>2, <2>3
<1>2. PICK l \in Loads :
        loads' = [loads EXCEPT ![l] = [pc |-> "list", todo |-> <<>>, rows |-> <<>>]]
  BY DEF Launch
<1>3. DOMAIN loads = Loads /\ \A k \in Loads : loads[k] = Idle
  BY <1>1 DEF Loading, CInv, SInv, NamesOK, LoadsNamed
<1>4. loads'[l] = [pc |-> "list", todo |-> <<>>, rows |-> <<>>] /\ \A k \in Loads : k # l => loads'[k] = Idle
  BY <1>2, <1>3
<1>5. loads'[l].pc = "list"
  BY <1>4
<1>6. loads'[l] # Idle
  <2>1. loads[l] # loads'[l] \/ loads'[l] = Idle
    BY <1>3
  <2>2. "todo" \in DOMAIN loads'[l] /\ "todo" \notin DOMAIN Idle
    BY <1>4 DEF Idle
  <2> QED BY <2>2
<1> QED BY <1>4, <1>5, <1>6 DEF Loading

\* The files are written or not, the loads and the list stay.
LEMMA QuietReliable ==
  ASSUME CInv, [LogNext]_logVars, UNCHANGED <<recorded, loads, logs>>,
         seen'.overlapped = seen.overlapped, seen'.raced = seen.raced
  PROVE  Reliable'
<1> SUFFICES ASSUME ~seen.overlapped, ~seen.raced
             PROVE  /\ \A k, l \in Loads : loads'[k] # Idle /\ loads'[l] # Idle => k = l
                    /\ \A l \in Loads : loads'[l] # Idle /\ loads'[l].pc = "parse" => LoadCurrent(loads[l])'
                    /\ ~Loading' => ListCurrent'
  BY DEF Reliable
<1>1. /\ \A k, l \in Loads : loads[k] # Idle /\ loads[l] # Idle => k = l
      /\ \A l \in Loads : loads[l] # Idle /\ loads[l].pc = "parse" => LoadCurrent(loads[l])
      /\ ~Loading => ListCurrent
  BY DEF CInv, Reliable
<1>2. ASSUME NEW l \in Loads, loads[l] # Idle, loads[l].pc = "parse" PROVE LoadCurrent(loads[l])'
  <2>1. PICK d : d = loads[l]
    OBVIOUS
  <2>2. LoadCurrent(d)
    BY <1>1, <1>2, <2>1
  <2>3. LoadCurrent(d)'
    BY <2>2, CurrentStays DEF CInv
  <2>4. loads'[l] = d
    BY <2>1
  <2> QED BY <2>3, <2>4, LoadIs
<1>3. ASSUME ~Loading PROVE ListCurrent'
  <2>1. PICK rows : rows = logs
    OBVIOUS
  <2>2. RowsCurrent(rows) /\ \A f \in LogFiles : Old(f) => \E i \in 1 .. Len(rows) : rows[i].log = f
    BY <1>1, <1>3, <2>1 DEF ListCurrent
  <2>3. RowsCurrent(rows)'
    BY <2>2, CurrentStays DEF CInv
  <2>4. \A f \in LogFiles' : Old(f)' => \E i \in 1 .. Len(rows) : rows[i].log = f
    <3>1. \A f : Old(f)' => Old(f)
      BY OldShrinks DEF CInv
    <3> QED BY <2>2, <3>1 DEF Old
  <2>5. logs' = rows
    BY <2>1
  <2> QED BY <2>3, <2>4, <2>5, ListIs
<1>4. Loading' = Loading
  BY DEF Loading
<1> QED BY <1>1, <1>2, <1>3, <1>4

\* A step of a load that puts d in its place.
LEMMA LoadMoves ==
  ASSUME CInv, [LogNext]_logVars, NEW l \in Loads, loads[l] # Idle, NEW d, d # Idle,
         loads' = [loads EXCEPT ![l] = d], UNCHANGED <<recorded, seen>>,
         ~seen.overlapped /\ ~seen.raced /\ d.pc = "parse" => LoadCurrent(d)'
  PROVE  Reliable'
<1> SUFFICES ASSUME ~seen.overlapped, ~seen.raced
             PROVE  /\ \A k, m \in Loads : loads'[k] # Idle /\ loads'[m] # Idle => k = m
                    /\ \A k \in Loads : loads'[k] # Idle /\ loads'[k].pc = "parse" => LoadCurrent(loads[k])'
                    /\ Loading'
  BY DEF Reliable
<1>1. DOMAIN loads = Loads /\ \A k \in Loads : k # l => loads[k] = Idle
  BY DEF CInv, Reliable, SInv, NamesOK, LoadsNamed
<1>2. loads'[l] = d /\ \A k \in Loads : k # l => loads'[k] = Idle
  BY <1>1
<1>3. d.pc = "parse" => LoadCurrent(loads[l])'
  BY <1>2, LoadIs
<1>4. Loading'
  BY <1>2 DEF Loading
<1> QED BY <1>2, <1>3, <1>4

\* The directory is listed: every log is to be parsed, the newest first.
LEMMA ListReliable ==
  ASSUME CInv, [LogNext]_logVars, NEW l \in Loads, ListFiles(l)
  PROVE  Reliable'
<1>1. PICK s \in Listings : loads' = [loads EXCEPT ![l] = [pc |-> "parse", todo |-> s, rows |-> <<>>]]
  BY DEF ListFiles
<1>2. loads[l] # Idle /\ UNCHANGED <<recorded, seen, disk>>
  BY DEF ListFiles
<1> DEFINE d == [pc |-> "parse", todo |-> s, rows |-> <<>>]
<1>3. LoadCurrent(d)
  <2>1. FilesOK
    BY DEF CInv, SInv, IInv
  <2>2. /\ \A f \in LogFiles : \E i \in 1 .. Len(s) : s[i] = f
        /\ \A i, j \in 1 .. Len(s) : i < j => InOrder(s[i], s[j])
    BY <2>1, ListingWhole DEF InOrder
  <2>3. RowsCurrent(<<>>)
    BY DEF RowsCurrent
  <2>4. d.todo = s /\ d.rows = <<>> /\ 1 .. Len(<<>>) = {}
    OBVIOUS
  <2> HIDE DEF d
  <2> QED BY <2>2, <2>3, <2>4 DEF LoadCurrent
<1>4. d # Idle
  <2>1. "todo" \in DOMAIN d /\ "todo" \notin DOMAIN Idle
    BY DEF Idle
  <2> QED BY <2>1
<1>5. LoadCurrent(d)'
  <2>1. PICK e : e = d
    OBVIOUS
  <2>2. LoadCurrent(e)'
    BY <1>2, <1>3, <2>1, CurrentStays DEF CInv
  <2> QED BY <2>1, <2>2
<1> HIDE DEF d
<1> QED BY <1>1, <1>2, <1>4, <1>5, LoadMoves DEF d

\* A file is parsed: its row says what it says now.
LEMMA ParseReliable ==
  ASSUME CInv, [LogNext]_logVars, NEW l \in Loads, ParseFile(l)
  PROVE  Reliable'
<1>1. CASE UNCHANGED loads
  BY <1>1, QuietReliable DEF ParseFile
<1>2. CASE ~UNCHANGED loads
  <2> DEFINE d == loads[l]
             f == Head(d.todo)
             row == Row(f, disk[f].texts)
             e == [pc |-> "parse", todo |-> Tail(d.todo), rows |-> Append(d.rows, row)]
  <2>1. /\ f \in DOMAIN disk /\ d.todo # <<>> /\ d.pc = "parse" /\ d # Idle
        /\ loads' = [loads EXCEPT ![l] = e] /\ UNCHANGED <<recorded, seen, disk>>
    BY <1>2 DEF ParseFile
  <2>2. d = [pc |-> "parse", todo |-> d.todo, rows |-> d.rows]
        /\ d.todo \in Seq(LogNames) /\ d.rows \in Seq(NamedRows)
    <3> HIDE DEF d
    <3>1. d \in [pc : {"list", "parse"}, todo : Seq(LogNames), rows : Seq(NamedRows)]
      BY <2>1 DEF CInv, SInv, NamesOK, LoadsNamed, d
    <3> QED BY <2>1, <3>1
  <2>3. row \in NamedRows /\ row.log = f /\ row.texts = disk[f].texts
    <3>1. f \in LogNames
      <4> HIDE DEF d
      <4> QED BY <2>1, <2>2
    <3>2. disk[f].texts \in Seq(Texts)
      BY <2>1 DEF CInv, SInv, IInv, FilesOK
    <3> HIDE DEF f
    <3> QED BY <3>1, <3>2 DEF Row, NamedRows, f
  <2>4. PICK g : g = e
    OBVIOUS
  <2>5. ASSUME ~seen.overlapped, ~seen.raced PROVE LoadCurrent(g)'
    <3>1. LoadCurrent([pc |-> "parse", todo |-> d.todo, rows |-> d.rows])
      BY <2>1, <2>2, <2>5 DEF CInv, Reliable
    <3>2. LoadCurrent(e)
      <4> HIDE DEF d, row
      <4>1. row.log = Head(d.todo) /\ row.texts = disk[row.log].texts
        BY <2>3
      <4> QED BY <2>1, <2>2, <2>3, <3>1, <4>1, ParsedCurrent
    <3>3. LoadCurrent(g)
      <4> HIDE DEF e
      <4> QED BY <2>4, <3>2
    <3> QED BY <2>1, <3>3, CurrentStays DEF CInv
  <2>6. e # Idle
    <3>1. "todo" \in DOMAIN e /\ "todo" \notin DOMAIN Idle
      BY DEF Idle
    <3> QED BY <3>1
  <2>7. loads[l] # Idle
    BY <2>1
  <2>8. loads' = [loads EXCEPT ![l] = g] /\ g # Idle
    <3> HIDE DEF e
    <3> QED BY <2>1, <2>4, <2>6
  <2> HIDE DEF d, e
  <2> QED BY <2>1, <2>5, <2>7, <2>8, LoadMoves
<1> QED BY <1>1, <1>2

\* The rows are shown: every log not written since is among them.
LEMMA ShowReliable ==
  ASSUME CInv, [LogNext]_logVars, NEW l \in Loads, ShowRows(l)
  PROVE  Reliable'
<1>1. /\ loads[l] # Idle /\ loads[l].pc = "parse" /\ loads[l].todo = <<>>
      /\ logs' = loads[l].rows /\ loads' = [loads EXCEPT ![l] = Idle]
      /\ UNCHANGED <<recorded, seen, disk>>
  BY DEF ShowRows
<1> SUFFICES ASSUME ~seen.overlapped, ~seen.raced
             PROVE  ListCurrent' /\ \A k \in Loads : loads'[k] = Idle
  BY <1>1 DEF Reliable
<1>2. DOMAIN loads = Loads /\ \A k \in Loads : k # l => loads[k] = Idle
  BY <1>1 DEF CInv, Reliable, SInv, NamesOK, LoadsNamed
<1>3. \A k \in Loads : loads'[k] = Idle
  BY <1>1, <1>2
<1>4. LoadCurrent(loads[l])
  BY <1>1 DEF CInv, Reliable
<1>5. PICK rows : rows = loads[l].rows
  OBVIOUS
<1>6. RowsCurrent(rows) /\ \A f \in LogFiles : Old(f) => \E i \in 1 .. Len(rows) : rows[i].log = f
  <2>1. 1 .. Len(loads[l].todo) = {}
    BY <1>1
  <2> QED BY <1>4, <1>5, <2>1 DEF LoadCurrent
<1>7. RowsCurrent(rows)'
  BY <1>1, <1>6, CurrentStays DEF CInv
<1>8. \A f \in LogFiles' : Old(f)' => \E i \in 1 .. Len(rows) : rows[i].log = f
  BY <1>1, <1>6 DEF Old, LogFiles
<1>9. ListCurrent'
  BY <1>1, <1>5, <1>7, <1>8, ListIs
<1> QED BY <1>3, <1>9

\* A log is deleted with its row while no load is under way: the other rows stay.
LEMMA DeleteReliable ==
  ASSUME CInv, [LogNext]_logVars, ConfirmDelete
  PROVE  Reliable'
<1>1. CASE UNCHANGED <<disk, logs, written, seen>>
  BY <1>1, QuietReliable, DeleteEffects DEF CInv
<1>2. CASE ~UNCHANGED <<disk, logs, written, seen>>
  <2>1. PICK i \in 1 .. Len(logs) :
          /\ disk' = [g \in DOMAIN disk \ {logs[i].log} |-> disk[g]]
          /\ logs' = WithoutRow(i)
          /\ seen'.overlapped = seen.overlapped /\ seen'.raced = (seen.raced \/ Loading)
    BY <1>2, DeleteEffects DEF CInv
  <2>2. UNCHANGED <<loads, recorded>>
    BY DeleteEffects DEF CInv
  <2> SUFFICES ASSUME ~seen.overlapped, ~seen.raced, ~Loading
               PROVE  ListCurrent'
    BY <2>1, <2>2 DEF Reliable, Loading
  <2>3. ListCurrent /\ logs \in Seq(NamedRows)
    BY DEF CInv, Reliable, SInv, NamesOK, ListNamed
  <2>4. PICK old : old = logs
    OBVIOUS
  <2>5. PICK rows : rows = logs'
    OBVIOUS
  <2>6. /\ Len(old) \in Nat /\ Len(rows) = Len(old) - 1
        /\ \A k \in 1 .. Len(rows) : rows[k] = old[IF k < i THEN k ELSE k + 1]
    <3>1. rows = SubSeq(old, 1, i - 1) \o SubSeq(old, i + 1, Len(old))
      BY <2>1, <2>4, <2>5 DEF WithoutRow
    <3>2. old \in Seq(NamedRows) /\ i \in 1 .. Len(old) /\ Len(old) \in Nat
      BY <2>3, <2>4
    <3> QED BY <3>1, <3>2, SeqWithout
  <2>7. RowsCurrent(old)'
    BY <2>3, <2>4, CurrentStays, <2>2 DEF ListCurrent, CInv
  <2>8. RowsCurrent(rows)'
    <3>1. ASSUME NEW k \in 1 .. Len(rows)
          PROVE  /\ (IF k < i THEN k ELSE k + 1) \in 1 .. Len(old)
                 /\ rows[k] = old[IF k < i THEN k ELSE k + 1]
      BY <2>4, <2>6
    <3>2. ASSUME NEW k \in 1 .. Len(rows), Old(rows[k].log)'
          PROVE  rows[k].texts = disk'[rows[k].log].texts
      BY <2>7, <3>1, <3>2 DEF RowsCurrent
    <3>3. ASSUME NEW k \in 1 .. Len(rows), NEW m \in 1 .. Len(rows), k < m
          PROVE  InOrder(rows[k].log, rows[m].log)'
      <4> DEFINE a == IF k < i THEN k ELSE k + 1
                 b == IF m < i THEN m ELSE m + 1
      <4>1. a \in 1 .. Len(old) /\ b \in 1 .. Len(old) /\ a < b
        BY <2>4, <2>6, <3>3
      <4>2. rows[k] = old[a] /\ rows[m] = old[b]
        BY <2>6
      <4> HIDE DEF a, b
      <4>3. InOrder(old[a].log, old[b].log)'
        BY <2>7, <4>1 DEF RowsCurrent
      <4> QED BY <4>2, <4>3
    <3> QED BY <3>2, <3>3 DEF RowsCurrent
  <2>9. ASSUME NEW f \in LogFiles', Old(f)' PROVE \E k \in 1 .. Len(rows) : rows[k].log = f
    <3>1. Old(f) /\ f \in DOMAIN disk'
      BY <2>2, <2>9, OldShrinks DEF CInv, LogFiles
    <3>2. f # old[i].log
      BY <2>1, <2>4, <3>1
    <3>3. PICK j \in 1 .. Len(old) : old[j].log = f
      BY <2>3, <2>4, <3>1 DEF ListCurrent, Old
    <3>4. j # i
      BY <3>2, <3>3
    <3> DEFINE k == IF j < i THEN j ELSE j - 1
    <3>5. k \in 1 .. Len(rows) /\ (IF k < i THEN k ELSE k + 1) = j
      BY <2>4, <2>6, <3>4
    <3> HIDE DEF k
    <3>6. rows[k] = old[j]
      BY <2>6, <3>5
    <3> QED BY <3>3, <3>5, <3>6
  <2>10. logs' = rows
    BY <2>5
  <2> QED BY <2>8, <2>9, <2>10, ListIs
<1> QED BY <1>1, <1>2

\* It holds at first, and every step keeps it.
LEMMA CInvInit == LogInit => CInv
<1> SUFFICES ASSUME LogInit PROVE CInv
  OBVIOUS
<1>1. SInv
  BY SInvInit
<1>2. /\ DOMAIN disk = {} /\ logs = <<>> /\ fileTime = 1 /\ recorded.modified = 0
      /\ \A l \in Loads : loads[l] = Idle
  BY DEF LogInit
<1>3. TimesOK
  BY <1>2 DEF TimesOK
<1>4. ListCurrent
  <2>1. LogFiles = {} /\ 1 .. Len(logs) = {}
    BY <1>2 DEF LogFiles
  <2> QED BY <2>1 DEF ListCurrent, RowsCurrent
<1> QED BY <1>1, <1>2, <1>3, <1>4 DEF CInv, Reliable

LEMMA CInvStep == ASSUME CInv, [LogNext]_logVars PROVE CInv'
<1>1. SInv' /\ TimesOK'
  BY SInvStep, TimesStep DEF CInv
<1>2. Reliable'
  <2>1. CASE Resume \/ Swipe
    BY <2>1, LaunchReliable DEF Resume, Swipe
  <2>2. CASE \E l \in Loads : ListFiles(l) \/ ParseFile(l) \/ ShowRows(l)
    BY <2>2, ListReliable, ParseReliable, ShowReliable
  <2>3. CASE ConfirmDelete
    BY <2>3, DeleteReliable
  <2>4. CASE \E t \in DOMAIN written : StartIteration(t) \/ EndIteration(t)
    BY <2>4, QuietReliable, TestEffects DEF CInv
  <2>5. CASE \E i \in DOMAIN logs : OpenDialog(i) \/ Analyze(i)
    <3>1. UNCHANGED <<recorded, loads, logs>>
      BY <2>5 DEF OpenDialog, Analyze
    <3>2. SeenOK
      BY DEF CInv, SInv, IInv
    <3>3. seen'.overlapped = seen.overlapped /\ seen'.raced = seen.raced
      BY <2>5, <3>2 DEF OpenDialog, Analyze, SeenOK
    <3> QED BY <3>1, <3>3, QuietReliable
  <2>6. CASE \/ Cancel \/ UNCHANGED logVars
             \/ \E r \in Requests : RequestFails(r) \/ AnswerArrives(r) \/ WriteAnswer(r) \/ ViewAnswer(r)
    <3>1. UNCHANGED <<recorded, loads, logs, seen>>
      BY <2>6 DEF Cancel, logVars, RequestFails, AnswerArrives, WriteAnswer, ViewAnswer
    <3> QED BY <3>1, QuietReliable
  <2> QED BY <2>1, <2>2, <2>3, <2>4, <2>5, <2>6 DEF LogNext
<1> QED BY <1>1, <1>2 DEF CInv

\* A reliable list is current when shouldRefreshLogs finds no change and nothing loads.
LEMMA ReliableIsCurrent ==
  ASSUME CInv, Settled, ~seen.overlapped, ~seen.raced
  PROVE  Current
<1>1. /\ ListCurrent /\ ListOK /\ logs \in Seq(NamedRows)
      /\ FilesOK /\ TimesOK
  BY DEF CInv, Reliable, Settled, SInv, NamesOK, ListNamed, IInv
<1> DEFINE n == Len(logs)
<1>2. n \in Nat /\ DOMAIN logs = 1 .. n
  BY <1>1
<1>3. \A f \in LogFiles : Old(f)
  <2>1. recorded.modified = Signature.modified
    BY DEF Settled
  <2> QED BY <1>1, <2>1, SignatureModified DEF Old, LogFiles
<1>4. ASSUME NEW i \in 1 .. n
      PROVE  /\ logs[i].log \in LogFiles
             /\ logs[i] = Row(logs[i].log, disk[logs[i].log].texts)
  <2>1. logs[i] \in Rows /\ logs[i] \in NamedRows
    BY <1>1 DEF ListOK
  <2>2. logs[i].log \in LogNames /\ logs[i].log \in DOMAIN disk
        /\ logs[i] = [log |-> logs[i].log, texts |-> logs[i].texts]
    BY <2>1 DEF Rows, NamedRows
  <2>3. logs[i].log \in LogFiles
    BY <2>2, NameFacts DEF LogFiles
  <2>4. logs[i].texts = disk[logs[i].log].texts
    BY <1>1, <1>3, <2>3 DEF ListCurrent, RowsCurrent
  <2> QED BY <2>2, <2>3, <2>4 DEF Row
<1>5. ASSUME NEW f \in LogFiles PROVE \E i \in 1 .. n : logs[i].log = f
  BY <1>1, <1>3 DEF ListCurrent
<1>6. {logs[i] : i \in DOMAIN logs} = {Row(f, disk[f].texts) : f \in LogFiles}
  <2>1. ASSUME NEW i \in DOMAIN logs PROVE logs[i] \in {Row(f, disk[f].texts) : f \in LogFiles}
    BY <1>2, <1>4
  <2>2. ASSUME NEW f \in LogFiles PROVE Row(f, disk[f].texts) \in {logs[i] : i \in DOMAIN logs}
    <3>1. PICK i \in 1 .. n : logs[i].log = f
      BY <1>5
    <3>2. logs[i] = Row(f, disk[f].texts)
      BY <1>4, <3>1
    <3> QED BY <1>2, <3>2
  <2> QED BY <2>1, <2>2
<1>7. n = Cardinality(LogFiles)
  <2> DEFINE g == [i \in 1 .. n |-> logs[i].log]
  <2>1. g \in Bijection(1 .. n, LogFiles)
    <3>1. g \in [1 .. n -> LogFiles]
      BY <1>4
    <3>2. \A i, j \in 1 .. n : g[i] = g[j] => i = j
      BY <1>1 DEF ListOK
    <3>3. \A f \in LogFiles : \E i \in 1 .. n : g[i] = f
      BY <1>5
    <3> HIDE DEF g
    <3> QED BY <3>1, <3>2, <3>3 DEF Bijection, Injection, Surjection, IsInjective
  <2>2. ExistsBijection(1 .. n, LogFiles)
    BY <2>1 DEF ExistsBijection
  <2> HIDE DEF n, g
  <2> QED BY <1>2, <2>2, FS_CountingElements
<1>8. Newest([i \in DOMAIN logs |-> logs[i].log])
  <2> SUFFICES ASSUME NEW i \in 1 .. n, NEW j \in 1 .. n, i < j
               PROVE  disk[logs[i].log].time >= disk[logs[j].log].time
    BY <1>2 DEF Newest
  <2>1. InOrder(logs[i].log, logs[j].log)
    BY <1>1 DEF ListCurrent, RowsCurrent
  <2> QED BY <1>3, <1>4, <2>1 DEF InOrder
<1> QED BY <1>6, <1>7, <1>8 DEF Current

\* When shouldRefreshLogs finds no change and nothing loads, the list is current, unless
\* loads overlapped or a log was deleted while one was under way (refreshLogEntries).
THEOREM CurrentAlways == LogSpec => []CurrentWhenUnchanged
<1>1. CInv => CurrentWhenUnchanged
  BY ReliableIsCurrent DEF CurrentWhenUnchanged
<1> QED BY <1>1, CInvInit, CInvStep, PTL DEF LogSpec

----------------------------------------------------------------------------
(* The parts of a log: what FlattenSeq makes of them.                        *)

\* The partial results of FlattenSeq.
IsFlat(seqs, n, s) ==
  s = [i \in 1 .. n |-> IF i = 1 THEN seqs[i] ELSE s[i - 1] \o seqs[i]]

\* They exist, however many.
LEMMA FlatExists ==
  ASSUME NEW seqs, NEW w \in Nat
  PROVE  \E s : IsFlat(seqs, w, s)
<1> DEFINE S == {n \in Nat : ~ \E s : IsFlat(seqs, n, s)}
<1> SUFFICES ASSUME S # {} PROVE FALSE
  OBVIOUS
<1>1. PICK m \in S : \A n \in S : m <= n
  <2>1. S \subseteq Nat
    OBVIOUS
  <2> HIDE DEF S
  <2> QED BY <2>1, LeastNumber
<1>2. CASE m = 0
  <2> DEFINE s == [i \in 1 .. 0 |-> seqs]
  <2>1. IsFlat(seqs, 0, s)
    BY DEF IsFlat
  <2> QED BY <2>1, <1>1, <1>2
<1>3. CASE m # 0
  <2>1. m \in Nat /\ m - 1 \in Nat /\ m - 1 \notin S
    BY <1>1, <1>3
  <2>2. PICK s : IsFlat(seqs, m - 1, s)
    BY <2>1
  <2> DEFINE u == [i \in 1 .. m |->
                     IF i = m THEN IF m = 1 THEN seqs[m] ELSE s[m - 1] \o seqs[m] ELSE s[i]]
  <2>3. IsFlat(seqs, m, u)
    <3>1. \A i \in 1 .. m : u[i] = IF i = 1 THEN seqs[i] ELSE u[i - 1] \o seqs[i]
      <4> TAKE i \in 1 .. m
      <4>1. CASE i = m
        BY <4>1, <1>3, <2>1
      <4>2. CASE i # m
        <5>1. i \in 1 .. m - 1 /\ (i # 1 => i - 1 \in 1 .. m - 1)
          BY <4>2, <2>1
        <5>2. s[i] = IF i = 1 THEN seqs[i] ELSE s[i - 1] \o seqs[i]
          BY <5>1, <2>2 DEF IsFlat
        <5> QED BY <5>1, <5>2, <4>2, <2>1
      <4> QED BY <4>1, <4>2
    <3> HIDE DEF u
    <3>2. u = [i \in 1 .. m |-> u[i]]
      BY DEF u
    <3> QED BY <3>1, <3>2 DEF IsFlat
  <2> QED BY <2>3, <1>1
<1> QED BY <1>2, <1>3

\* FlattenSeq is the last partial result.
LEMMA FlatChosen ==
  ASSUME NEW seqs, Len(seqs) \in Nat \ {0}
  PROVE  \E s : IsFlat(seqs, Len(seqs), s) /\ FlattenSeq(seqs) = s[Len(seqs)]
<1> DEFINE n == Len(seqs)
           chosen == CHOOSE s : s = [i \in 1 .. n |-> IF i = 1 THEN seqs[i] ELSE s[i - 1] \o seqs[i]]
<1>1. IsFlat(seqs, n, chosen)
  <2>1. \E s : IsFlat(seqs, n, s)
    BY FlatExists
  <2> QED BY <2>1, Zenon DEF IsFlat
<1>2. FlattenSeq(seqs) = chosen[n]
  BY DEF FlattenSeq
<1> QED BY <1>1, <1>2

\* A partial result, from the one before it.
LEMMA FlatAt ==
  ASSUME NEW seqs, NEW n \in Nat, NEW s, IsFlat(seqs, n, s), NEW k \in 1 .. n
  PROVE  s[k] = IF k = 1 THEN seqs[k] ELSE s[k - 1] \o seqs[k]
BY DEF IsFlat

\* Partial results depend on the sequences so far only.
LEMMA FlatUnique ==
  ASSUME NEW a, NEW b, NEW m \in Nat, NEW n \in Nat, m <= n, NEW s, NEW u,
         \A k \in 1 .. m : a[k] = b[k], IsFlat(a, m, s), IsFlat(b, n, u)
  PROVE  \A k \in 1 .. m : s[k] = u[k]
<1> DEFINE S == {k \in 1 .. m : s[k] # u[k]}
<1> SUFFICES ASSUME S # {} PROVE FALSE
  OBVIOUS
<1>1. PICK k \in S : \A j \in S : k <= j
  <2>1. S \subseteq Nat
    OBVIOUS
  <2> HIDE DEF S
  <2> QED BY <2>1, LeastNumber
<1>2. /\ k \in 1 .. m /\ k \in 1 .. n /\ s[k] # u[k]
      /\ k # 1 => k - 1 \in 1 .. m /\ s[k - 1] = u[k - 1]
  <2>1. k \in 1 .. m /\ s[k] # u[k]
    BY <1>1
  <2>2. k \in 1 .. n
    BY <2>1
  <2>3. ASSUME k # 1 PROVE k - 1 \in 1 .. m /\ s[k - 1] = u[k - 1]
    <3>1. k - 1 \in 1 .. m
      BY <2>1, <2>3
    <3>2. k - 1 \notin S
      <4>1. ~(k <= k - 1)
        BY <2>1
      <4> HIDE DEF S
      <4> QED BY <4>1, <1>1
    <3> QED BY <3>1, <3>2
  <2> QED BY <2>1, <2>2, <2>3
<1> HIDE DEF S
<1>3. s[k] = IF k = 1 THEN a[k] ELSE s[k - 1] \o a[k]
  BY <1>2, FlatAt
<1>4. u[k] = IF k = 1 THEN b[k] ELSE u[k - 1] \o b[k]
  BY <1>2, FlatAt
<1>5. a[k] = b[k]
  BY <1>2
<1>6. CASE k = 1
  BY ONLY <1>2, <1>3, <1>4, <1>5, <1>6
<1>7. CASE k # 1
  <2>1. s[k - 1] = u[k - 1]
    BY <1>2, <1>7
  <2> QED BY ONLY <1>2, <1>3, <1>4, <1>5, <1>7, <2>1
<1> QED BY <1>6, <1>7

\* Two sequences of texts are one.
LEMMA ConcatInSeq ==
  ASSUME NEW T, NEW s \in Seq(T), NEW u \in Seq(T)
  PROVE  s \o u \in Seq(T)
OBVIOUS

\* Sequences of texts flatten to texts.
LEMMA FlatIsSeq ==
  ASSUME NEW T, NEW n \in Nat, NEW seqs, \A k \in 1 .. n : seqs[k] \in Seq(T),
         NEW s, IsFlat(seqs, n, s)
  PROVE  \A k \in 1 .. n : s[k] \in Seq(T)
<1> DEFINE S == {k \in 1 .. n : s[k] \notin Seq(T)}
<1> SUFFICES ASSUME S # {} PROVE FALSE
  OBVIOUS
<1>1. PICK k \in S : \A j \in S : k <= j
  <2>1. S \subseteq Nat
    OBVIOUS
  <2> HIDE DEF S
  <2> QED BY <2>1, LeastNumber
<1>2. k \in 1 .. n /\ s[k] \notin Seq(T) /\ seqs[k] \in Seq(T)
  BY <1>1
<1>3. s[k] = IF k = 1 THEN seqs[k] ELSE s[k - 1] \o seqs[k]
  BY <1>2, FlatAt
<1>4. CASE k = 1
  BY ONLY <1>2, <1>3, <1>4
<1>5. CASE k # 1
  <2>1. k - 1 \in 1 .. n
    BY <1>2, <1>5
  <2>2. k - 1 \notin S
    <3>1. ~(k <= k - 1)
      BY <1>2
    <3> HIDE DEF S
    <3> QED BY <3>1, <1>1
  <2>3. s[k - 1] \in Seq(T)
    BY <2>1, <2>2
  <2> HIDE DEF S
  <2>4. s[k - 1] \o seqs[k] \in Seq(T)
    BY <2>3, <1>2, ConcatInSeq
  <2> QED BY ONLY <1>2, <1>3, <1>5, <2>4
<1> QED BY <1>4, <1>5

\* A sequence behind the others goes behind what they flatten to.
LEMMA FlattenAppend ==
  ASSUME NEW T, NEW seqs \in Seq(Seq(T)), NEW x \in Seq(T)
  PROVE  /\ FlattenSeq(seqs) \in Seq(T)
         /\ FlattenSeq(Append(seqs, x)) = FlattenSeq(seqs) \o x
<1> DEFINE more == Append(seqs, x)
<1>0. PICK n \in Nat : Len(seqs) = n
  OBVIOUS
<1>1. PICK m \in Nat : m = n + 1
  BY <1>0
<1>2. /\ Len(more) = m /\ more[m] = x
      /\ \A k \in 1 .. n : seqs[k] = more[k] /\ seqs[k] \in Seq(T)
  BY <1>0, <1>1
<1> HIDE DEF more
<1>3. PICK u : IsFlat(more, m, u) /\ FlattenSeq(more) = u[m]
  <2>1. Len(more) \in Nat \ {0}
    BY <1>1, <1>2
  <2>2. \E u : IsFlat(more, Len(more), u) /\ FlattenSeq(more) = u[Len(more)]
    BY <2>1, FlatChosen
  <2> QED BY ONLY <2>2, <1>2
<1>4. u[m] = IF m = 1 THEN more[m] ELSE u[m - 1] \o more[m]
  <2>1. m \in 1 .. m
    BY <1>1
  <2> QED BY <1>3, <2>1, FlatAt
<1>5. CASE n = 0
  <2>1. seqs = <<>> /\ FlattenSeq(seqs) = <<>>
    BY <1>0, <1>5 DEF FlattenSeq
  <2>2. m = 1
    BY <1>1, <1>5
  <2>3. FlattenSeq(more) = x
    BY ONLY <1>2, <1>3, <1>4, <2>2
  <2>4. <<>> \o x = x /\ <<>> \in Seq(T)
    OBVIOUS
  <2> QED BY ONLY <2>1, <2>3, <2>4 DEF more
<1>6. CASE n # 0
  <2>1. PICK s : IsFlat(seqs, n, s) /\ FlattenSeq(seqs) = s[n]
    <3>1. Len(seqs) \in Nat \ {0}
      BY <1>0, <1>6
    <3>2. \E s : IsFlat(seqs, Len(seqs), s) /\ FlattenSeq(seqs) = s[Len(seqs)]
      BY <3>1, FlatChosen
    <3> QED BY ONLY <3>2, <1>0
  <2>2. n \in 1 .. n /\ n <= m /\ m - 1 = n /\ m # 1
    BY <1>1, <1>6
  <2>3. \A k \in 1 .. n : seqs[k] = more[k]
    BY <1>2
  <2>4. \A k \in 1 .. n : s[k] = u[k]
    BY ONLY <1>3, <2>1, <2>2, <2>3, FlatUnique, n \in Nat, m \in Nat
  <2>5. \A k \in 1 .. n : s[k] \in Seq(T)
    <3>1. \A k \in 1 .. n : seqs[k] \in Seq(T)
      BY <1>2
    <3> QED BY ONLY <3>1, <2>1, FlatIsSeq, n \in Nat
  <2>6. s[n] \in Seq(T) /\ s[n] = u[n]
    BY <2>2, <2>4, <2>5
  <2>7. u[m] = s[n] \o x
    BY ONLY <1>2, <1>4, <2>2, <2>6
  <2> QED BY ONLY <1>3, <2>1, <2>6, <2>7 DEF more
<1> QED BY <1>5, <1>6

\* Appending to the second of two sequences appends to both together.
LEMMA ConcatAppend ==
  ASSUME NEW T, NEW s \in Seq(T), NEW u \in Seq(T), NEW x \in T
  PROVE  s \o Append(u, x) = Append(s \o u, x)
<1>1. /\ s \o Append(u, x) \in Seq(T)
      /\ Append(s \o u, x) \in Seq(T)
  OBVIOUS
<1>2. Len(s \o Append(u, x)) = Len(Append(s \o u, x))
  OBVIOUS
<1>3. \A k \in 1 .. Len(Append(s \o u, x)) : (s \o Append(u, x))[k] = Append(s \o u, x)[k]
  OBVIOUS
<1> QED BY <1>1, <1>2, <1>3, SeqEqual

\* A text behind the last sequence goes behind what all flatten to.
LEMMA FlattenLast ==
  ASSUME NEW T, NEW front \in Seq(Seq(T)), NEW last \in Seq(T), NEW x \in T
  PROVE  FlattenSeq(Append(front, Append(last, x))) = Append(FlattenSeq(Append(front, last)), x)
<1>1. FlattenSeq(front) \in Seq(T) /\ FlattenSeq(Append(front, last)) = FlattenSeq(front) \o last
  BY FlattenAppend
<1>2. Append(last, x) \in Seq(T)
  OBVIOUS
<1>3. FlattenSeq(Append(front, Append(last, x))) = FlattenSeq(front) \o Append(last, x)
  BY <1>2, FlattenAppend
<1>4. FlattenSeq(front) \o Append(last, x) = Append(FlattenSeq(front) \o last, x)
  BY <1>1, ConcatAppend
<1> QED BY ONLY <1>1, <1>3, <1>4

----------------------------------------------------------------------------
(* The logs are whole.                                                       *)

\* The first n parts of the log of a test.
PartsUpTo(t, n) == [p \in 1 .. n |-> Content(LogName(t, p))]

\* The log of a test has the parts 1 to n, all but the last full, and they hold what
\* the test appended.
WholeLog(t, n) ==
  /\ \A p \in Nat \ {0} : LogName(t, p) \in DOMAIN disk <=> p <= n
  /\ \A p \in 1 .. n - 1 : ~(Len(Content(LogName(t, p))) < PartSize)
  /\ written[t].texts = FlattenSeq(PartsUpTo(t, n))

\* The inductive invariant for the logs.
LInv == SInv /\ \A t \in DOMAIN Plans : ~written[t].cut => \E n \in Nat : WholeLog(t, n)

\* A sequence is its elements but the last, and the last.
LEMMA FrontAndLast ==
  ASSUME NEW T, NEW m \in Nat, NEW s \in [1 .. m + 1 -> T]
  PROVE  /\ [p \in 1 .. m |-> s[p]] \in Seq(T)
         /\ s = Append([p \in 1 .. m |-> s[p]], s[m + 1])
<1> DEFINE front == [p \in 1 .. m |-> s[p]]
<1>1. front \in Seq(T) /\ Len(front) = m /\ \A p \in 1 .. m : front[p] = s[p]
  OBVIOUS
<1>2. s \in Seq(T) /\ Len(s) = m + 1 /\ s[m + 1] \in T
  OBVIOUS
<1> HIDE DEF front
<1>3. /\ Append(front, s[m + 1]) \in Seq(T) /\ Len(Append(front, s[m + 1])) = m + 1
      /\ \A p \in 1 .. m + 1 : Append(front, s[m + 1])[p] = s[p]
  BY <1>1, <1>2
<1>4. s = Append(front, s[m + 1])
  BY <1>2, <1>3, SeqEqual
<1> QED BY <1>1, <1>4 DEF front

\* What a file says is a sequence of texts, none if there is no file.
LEMMA LogContents ==
  ASSUME FilesOK
  PROVE  \A f : Content(f) \in Seq(Texts)
BY DEF FilesOK, Content

\* Parts that stay say the same.
LEMMA WholeStays ==
  ASSUME NEW t, NEW n \in Nat, WholeLog(t, n), written'[t].texts = written[t].texts,
         \A p \in Nat \ {0} : /\ LogName(t, p) \in DOMAIN disk' <=> LogName(t, p) \in DOMAIN disk
                              /\ Content(LogName(t, p))' = Content(LogName(t, p))
  PROVE  WholeLog(t, n)'
<1>1. PartsUpTo(t, n)' = PartsUpTo(t, n)
  <2>1. \A p \in 1 .. n : Content(LogName(t, p))' = Content(LogName(t, p))
    OBVIOUS
  <2> QED BY <2>1, Zenon DEF PartsUpTo
<1>2. \A p \in Nat \ {0} : LogName(t, p) \in DOMAIN disk' <=> p <= n
  BY DEF WholeLog
<1>3. \A p \in 1 .. n - 1 : ~(Len(Content(LogName(t, p))') < PartSize)
  BY DEF WholeLog
<1>4. written'[t].texts = FlattenSeq(PartsUpTo(t, n)')
  BY <1>1 DEF WholeLog
<1> QED BY <1>2, <1>3, <1>4 DEF WholeLog

\* A text goes to the last part, or to a new one behind it.
LEMMA WholeGrows ==
  ASSUME FilesOK, NEW t, NEW n \in Nat, WholeLog(t, n), NEW text \in Texts,
         WriteFile(LogName(t, WritablePart(t)), Append(Content(LogName(t, WritablePart(t))), text)),
         written'[t].texts = Append(written[t].texts, text)
  PROVE  \E k \in Nat : WholeLog(t, k)'
<1>1. PICK m \in Nat : WritablePart(t) = m + 1
  <2>1. WritablePart(t) \in Nat \ {0}
    BY WritablePartExists
  <2>2. WritablePart(t) - 1 \in Nat /\ WritablePart(t) = (WritablePart(t) - 1) + 1
    BY <2>1
  <2> QED BY <2>2
<1>2. PICK k \in Nat : k = m + 1
  OBVIOUS
<1> DEFINE f == LogName(t, k)
           c == Content(f)
           before == PartsUpTo(t, m)
<1>3. /\ f \in DOMAIN disk => Len(disk[f].texts) < PartSize
      /\ \A q \in 1 .. m : LogName(t, q) \in DOMAIN disk /\ ~(Len(Content(LogName(t, q))) < PartSize)
  <2>1. m = k - 1 /\ WritablePart(t) = k
    BY <1>1, <1>2
  <2>2. /\ LogName(t, k) \in DOMAIN disk => Len(disk[LogName(t, k)].texts) < PartSize
        /\ \A q \in 1 .. k - 1 :
             LogName(t, q) \in DOMAIN disk /\ ~(Len(disk[LogName(t, q)].texts) < PartSize)
    BY <2>1, WritablePartExists
  <2> QED BY <2>1, <2>2 DEF Content
<1>4. WriteFile(f, Append(c, text))
  BY <1>1, <1>2
<1>5. \A q \in Nat \ {0} : LogName(t, q) = f => q = k
  BY DEF LogName
<1>6. c \in Seq(Texts) /\ \A p \in 1 .. m : Content(LogName(t, p)) \in Seq(Texts)
  BY LogContents
<1>7. before \in Seq(Seq(Texts))
  BY <1>6 DEF PartsUpTo
<1>8. n = m \/ n = m + 1
  <2>1. n <= m + 1
    <3> SUFFICES ASSUME ~(n <= m + 1) PROVE FALSE
      OBVIOUS
    <3>1. k \in Nat \ {0} /\ k <= n /\ k \in 1 .. n - 1
      BY <1>2
    <3>2. f \in DOMAIN disk /\ ~(Len(c) < PartSize)
      BY <3>1 DEF WholeLog
    <3> QED BY <3>2, <1>3 DEF Content
  <2>2. m <= n
    <3> SUFFICES ASSUME ~(m <= n) PROVE FALSE
      OBVIOUS
    <3>1. m \in 1 .. m /\ m \in Nat \ {0}
      OBVIOUS
    <3>2. LogName(t, m) \in DOMAIN disk
      BY <3>1, <1>3
    <3> QED BY <3>1, <3>2 DEF WholeLog
  <2> QED BY <2>1, <2>2
<1>9. written[t].texts = FlattenSeq(Append(before, c))
  <2>1. CASE n = m
    <3>1. ~(k <= n) /\ k \in Nat \ {0}
      BY <1>2, <2>1
    <3>2. c = <<>>
      BY <3>1 DEF WholeLog, Content
    <3>3. FlattenSeq(before) \in Seq(Texts) /\ FlattenSeq(Append(before, c)) = FlattenSeq(before) \o c
      <4> HIDE DEF before, c
      <4> QED BY <1>6, <1>7, FlattenAppend
    <3>4. FlattenSeq(before) \o <<>> = FlattenSeq(before)
      <4> DEFINE fl == FlattenSeq(before)
      <4> HIDE DEF fl, before
      <4>1. fl \in Seq(Texts)
        BY <3>3 DEF fl
      <4> QED BY <4>1, ConcatEmptySeq DEF fl
    <3>5. written[t].texts = FlattenSeq(before)
      BY <2>1 DEF WholeLog
    <3> HIDE DEF before, c
    <3> QED BY <3>2, <3>3, <3>4, <3>5
  <2>2. CASE n = m + 1
    <3>1. n = k
      BY <1>2, <2>2
    <3> DEFINE s == PartsUpTo(t, k)
    <3>2. s \in [1 .. m + 1 -> Seq(Texts)] /\ s[m + 1] = c /\ [p \in 1 .. m |-> s[p]] = before
      BY <1>2, <1>6, LogContents DEF PartsUpTo
    <3>3. s = Append([p \in 1 .. m |-> s[p]], s[m + 1])
      <4> HIDE DEF s
      <4> QED BY <3>2, FrontAndLast
    <3>4. written[t].texts = FlattenSeq(s)
      BY <3>1 DEF WholeLog
    <3> HIDE DEF s, before, c
    <3> QED BY <3>2, <3>3, <3>4
  <2> QED BY <2>1, <2>2, <1>8
<1>10. DOMAIN disk' = DOMAIN disk \cup {f}
  BY <1>4, WriteEffects
<1>11. Content(f)' = Append(c, text)
  BY <1>4, WriteContents
<1>12. ASSUME NEW q \in Nat \ {0}, q # k PROVE Content(LogName(t, q))' = Content(LogName(t, q))
  <2>1. LogName(t, q) # f
    BY <1>5, <1>12
  <2> QED BY <1>4, <2>1, WriteContents
<1>13. WholeLog(t, k)'
  <2>1. ASSUME NEW p \in Nat \ {0} PROVE LogName(t, p) \in DOMAIN disk' <=> p <= k
    <3>1. CASE p = k
      BY <3>1, <1>10
    <3>2. CASE p # k
      <4>1. LogName(t, p) \in DOMAIN disk' <=> LogName(t, p) \in DOMAIN disk
        BY <1>10, <1>5, <3>2
      <4>2. LogName(t, p) \in DOMAIN disk <=> p <= n
        BY DEF WholeLog
      <4> QED BY <4>1, <4>2, <1>8, <3>2, <1>2
    <3> QED BY <3>1, <3>2
  <2>2. ASSUME NEW p \in 1 .. k - 1 PROVE ~(Len(Content(LogName(t, p))') < PartSize)
    <3>1. p \in 1 .. m /\ p \in Nat \ {0} /\ p # k
      BY <1>2
    <3> QED BY <3>1, <1>3, <1>12
  <2>3. written'[t].texts = FlattenSeq(PartsUpTo(t, k)')
    <3> DEFINE s == PartsUpTo(t, k)'
               d == Append(c, text)
    <3>1. d \in Seq(Texts)
      BY <1>6
    <3>2. s = [p \in 1 .. m + 1 |-> IF p = m + 1 THEN d ELSE Content(LogName(t, p))]
      <4>1. s = [p \in 1 .. k |-> Content(LogName(t, p))']
        BY DEF PartsUpTo
      <4>2. \A p \in 1 .. k : Content(LogName(t, p))' = IF p = k THEN d ELSE Content(LogName(t, p))
        BY <1>11, <1>12, <1>2
      <4> HIDE DEF s, d
      <4> QED BY <4>1, <4>2, <1>2
    <3>3. s \in [1 .. m + 1 -> Seq(Texts)] /\ s[m + 1] = d /\ [p \in 1 .. m |-> s[p]] = before
      <4>1. m + 1 \in 1 .. m + 1 /\ \A p \in 1 .. m : p \in 1 .. m + 1 /\ p # m + 1
        OBVIOUS
      <4> HIDE DEF s, d, c
      <4> QED BY <3>1, <3>2, <4>1, LogContents DEF PartsUpTo
    <3>4. s = Append([p \in 1 .. m |-> s[p]], s[m + 1])
      <4> HIDE DEF s
      <4> QED BY <3>3, FrontAndLast
    <3>5. FlattenSeq(Append(before, Append(c, text))) = Append(FlattenSeq(Append(before, c)), text)
      <4> HIDE DEF before, c
      <4> QED BY <1>6, <1>7, FlattenLast
    <3>6. FlattenSeq(s) = Append(FlattenSeq(Append(before, c)), text)
      <4> HIDE DEF s, before, c
      <4> QED BY <3>3, <3>4, <3>5
    <3> HIDE DEF s, before, c
    <3>7. FlattenSeq(s) = written'[t].texts
      BY <3>6, <1>9
    <3> QED BY <3>7 DEF s
  <2> QED BY <2>1, <2>2, <2>3 DEF WholeLog
<1> QED BY <1>13

\* Every step keeps it: a deletion cuts the test, and a summary is no log.
LEMMA LInvStep == ASSUME LInv, [LogNext]_logVars PROVE LInv'
<1>1. SInv /\ SInv'
  BY SInvStep DEF LInv
<1>2. DOMAIN written = DOMAIN Plans /\ FilesOK
  BY <1>1 DEF SInv, IInv
<1> SUFFICES ASSUME NEW t \in DOMAIN Plans, ~written'[t].cut
             PROVE  \E n \in Nat : WholeLog(t, n)'
  BY <1>1 DEF LInv
<1> DEFINE Stays(p) == /\ LogName(t, p) \in DOMAIN disk' <=> LogName(t, p) \in DOMAIN disk
                       /\ Content(LogName(t, p))' = Content(LogName(t, p))
<1>3. /\ LogName(t, 1) \in LogNames /\ LogName(t, 1)[2] = t
      /\ \A p \in Nat \ {0} : LogName(t, p) \in LogNames /\ LogName(t, p)[2] = t
  BY DEF LogNames, LogName
<1>4. ~written[t].cut
  <2>1. ~written'[LogName(t, 1)[2]].cut
    BY <1>3
  <2>2. ~written[LogName(t, 1)[2]].cut
    BY <1>1, <1>3, <2>1, LogsGrow
  <2> QED BY <1>3, <2>2
<1>5. PICK n \in Nat : WholeLog(t, n)
  BY <1>4 DEF LInv
<1>6. ASSUME written'[t].texts = written[t].texts, \A p \in Nat \ {0} : Stays(p)
      PROVE  WholeLog(t, n)'
  BY <1>5, <1>6, WholeStays
<1> HIDE DEF Stays
<1>7. CASE UNCHANGED <<disk, fileTime, written>>
  <2>1. \A p \in Nat \ {0} : Stays(p)
    BY <1>7 DEF Stays, Content
  <2> QED BY <1>6, <1>7, <2>1
<1>8. CASE \E u \in DOMAIN written : StartIteration(u) \/ EndIteration(u)
  <2>1. PICK u \in DOMAIN written : StartIteration(u) \/ EndIteration(u)
    BY <1>8
  <2> DEFINE f == LogName(u, WritablePart(u))
  <2>2. PICK text \in Texts :
          WriteFile(f, Append(Content(f), text)) /\ written'[u].texts = Append(written[u].texts, text)
    BY <1>1, <2>1, TestAppends, Zenon
  <2>3. CASE u = t
    <3>1. /\ WriteFile(LogName(t, WritablePart(t)), Append(Content(LogName(t, WritablePart(t))), text))
          /\ written'[t].texts = Append(written[t].texts, text)
      BY <2>2, <2>3, Zenon
    <3> QED BY <1>2, <1>5, <3>1, WholeGrows
  <2>4. CASE u # t
    <3>1. written'[t] = written[t]
      BY <1>1, <2>1, <2>4, TestAppends
    <3>2. ASSUME NEW p \in Nat \ {0} PROVE Stays(p)
      <4>1. LogName(t, p) # f
        BY <2>4 DEF LogName
      <4>2. DOMAIN disk' = DOMAIN disk \cup {f}
        BY <2>2, WriteEffects
      <4>3. Content(LogName(t, p))' = Content(LogName(t, p))
        BY <2>2, <4>1, WriteContents
      <4> QED BY <4>1, <4>2, <4>3 DEF Stays
    <3> QED BY <1>6, <3>1, <3>2
  <2> QED BY <2>3, <2>4
<1>9. CASE ConfirmDelete
  <2>1. CASE UNCHANGED <<disk, written>>
    <3>1. \A p \in Nat \ {0} : Stays(p)
      BY <2>1 DEF Stays, Content
    <3> QED BY <1>6, <2>1, <3>1
  <2>2. CASE ~UNCHANGED <<disk, written>>
    <3>1. PICK i \in 1 .. Len(logs) :
            /\ logs[i].log \in LogNames
            /\ disk' = [g \in DOMAIN disk \ {logs[i].log} |-> disk[g]]
            /\ written' = [written EXCEPT ![logs[i].log[2]].cut = TRUE]
      BY <1>1, <1>9, <2>2, DeleteEffects
    <3> DEFINE h == logs[i].log
    <3>2. h[2] \in DOMAIN Plans
      BY <3>1, NameFacts
    <3>3. written'[h[2]].cut = TRUE /\ \A u \in DOMAIN Plans : u # h[2] => written'[u] = written[u]
      <4>1. WrittenOK
        BY <1>1 DEF SInv
      <4> HIDE DEF h
      <4> QED BY <1>2, <3>1, <3>2, <4>1, TestChanges DEF WrittenOK, h
    <3>4. t # h[2] /\ written'[t] = written[t]
      BY <3>3
    <3>5. ASSUME NEW p \in Nat \ {0} PROVE Stays(p)
      <4>1. LogName(t, p) # h
        BY <1>3, <3>4
      <4> HIDE DEF h
      <4> QED BY <3>1, <4>1 DEF Stays, Content, h
    <3> QED BY <1>6, <3>4, <3>5
  <2> QED BY <2>1, <2>2
<1>10. CASE \E r \in Requests : AnswerArrives(r) \/ WriteAnswer(r)
  <2>1. PICK r \in Requests : AnswerArrives(r) \/ WriteAnswer(r)
    BY <1>10
  <2> DEFINE f == AiFile(requests[r].log)
  <2>2. PICK texts : WriteFile(f, texts)
    BY <1>1, <2>1, AnswerEffects
  <2>3. requests[r].log \in LogNames /\ UNCHANGED written
    BY <1>1, <2>1, AnswerEffects
  <2>4. ASSUME NEW p \in Nat \ {0} PROVE Stays(p)
    <3>1. LogName(t, p) # f
      BY <1>3, <2>3, NameFacts
    <3>2. DOMAIN disk' = DOMAIN disk \cup {f}
      BY <2>2, WriteEffects
    <3>3. Content(LogName(t, p))' = Content(LogName(t, p))
      BY <2>2, <3>1, WriteContents
    <3> HIDE DEF f
    <3> QED BY <3>1, <3>2, <3>3 DEF Stays
  <2> QED BY <1>6, <2>3, <2>4
<1> QED BY <1>7, <1>8, <1>9, <1>10, StepKinds

\* It holds at first: nothing is written.
LEMMA LInvInit == LogInit => LInv
<1> SUFFICES ASSUME LogInit PROVE LInv
  OBVIOUS
<1>1. SInv
  BY SInvInit
<1> SUFFICES ASSUME NEW t \in DOMAIN Plans PROVE WholeLog(t, 0)
  BY <1>1 DEF LInv
<1>2. DOMAIN disk = {} /\ written[t].texts = <<>>
  BY DEF LogInit
<1>3. PartsUpTo(t, 0) = <<>>
  BY DEF PartsUpTo
<1>4. FlattenSeq(<<>>) = <<>>
  BY DEF FlattenSeq
<1> QED BY <1>2, <1>3, <1>4 DEF WholeLog

\* A log has as many files as parts.
LEMMA CountParts ==
  ASSUME LInv, NEW t \in DOMAIN Plans, NEW n \in Nat, WholeLog(t, n)
  PROVE  Cardinality({f \in LogFiles : f[2] = t}) = n
<1> DEFINE parts == {f \in LogFiles : f[2] = t}
           name == [p \in 1 .. n |-> LogName(t, p)]
<1>1. \A p \in 1 .. n : LogName(t, p) \in parts
  <2> SUFFICES ASSUME NEW p \in 1 .. n PROVE LogName(t, p) \in LogFiles /\ LogName(t, p)[2] = t
    OBVIOUS
  <2>1. LogName(t, p) \in DOMAIN disk
    BY DEF WholeLog
  <2> QED BY <2>1 DEF LogFiles, LogName
<1>2. ASSUME NEW f \in parts PROVE \E p \in 1 .. n : LogName(t, p) = f
  <2>1. f \in LogNames
    <3>1. f \in LogNames \cup SummaryNames /\ f[1] = "iPerf3"
      BY DEF LInv, SInv, NamesOK, DiskNamed, LogFiles
    <3>2. f \notin SummaryNames
      BY <3>1 DEF SummaryNames, AiFile
    <3> QED BY <3>1, <3>2
  <2>2. PICK u \in DOMAIN Plans, p \in Nat \ {0} : f = LogName(u, p)
    BY <2>1 DEF LogNames
  <2>3. u = t /\ f \in DOMAIN disk
    BY <2>2 DEF LogName, LogFiles
  <2>4. p \in 1 .. n
    BY <2>2, <2>3 DEF WholeLog
  <2> QED BY <2>2, <2>3, <2>4
<1>3. \A p, q \in 1 .. n : LogName(t, p) = LogName(t, q) => p = q
  BY DEF LogName
<1> HIDE DEF parts
<1>4. name \in Bijection(1 .. n, parts)
  BY <1>1, <1>2, <1>3 DEF Bijection, Injection, Surjection, IsInjective
<1>5. ExistsBijection(1 .. n, parts)
  BY <1>4 DEF ExistsBijection
<1>6. Cardinality(parts) = n
  BY <1>5, FS_CountingElements
<1> QED BY <1>6 DEF parts

\* The parts of a log, in order, are what the test appended, whatever the other tests,
\* the history and the analyses do, unless one of them was deleted (append,
\* getWritableLogFile).
THEOREM LogsCompleteAlways == LogSpec => []LogsComplete
<1>1. ASSUME LInv PROVE LogsComplete
  <2> SUFFICES ASSUME NEW t \in DOMAIN Plans, ~written[t].cut
               PROVE  FlattenSeq([p \in 1 .. Cardinality({f \in LogFiles : f[2] = t})
                                    |-> Content(LogName(t, p))]) = written[t].texts
    <3>1. DOMAIN written = DOMAIN Plans
      BY <1>1 DEF LInv, SInv, IInv
    <3> QED BY <3>1 DEF LogsComplete
  <2>1. PICK n \in Nat : WholeLog(t, n)
    BY <1>1 DEF LInv
  <2>2. Cardinality({f \in LogFiles : f[2] = t}) = n
    BY <1>1, <2>1, CountParts
  <2> QED BY <2>1, <2>2 DEF WholeLog, PartsUpTo
<1> QED BY <1>1, LInvInit, LInvStep, PTL DEF LogSpec
=============================================================================
