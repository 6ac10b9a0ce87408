---------------------------- MODULE LeadSyncProofs ----------------------------
(***************************************************************************)
(* Theorems about the sheet and the lead table, for any number of leads,   *)
(* workers and edits.                                                      *)
(***************************************************************************)
EXTENDS LeadSync, TLAPS, SequenceTheorems

Sheets == [Ids -> Seq(Rows)]

(* The lock around a synchronization, read off the workers. *)
OneSyncs ==
  \A v, w \in Workers :
    worker[v].at \in {"fetch", "apply"} /\ worker[w].at \in {"fetch", "apply"} => v = w

(* What a synchronization is about to apply is no older than what was applied. *)
ReadsForward ==
  \A w \in Workers :
    worker[w].at = "apply" => worker[w].version \in DOMAIN history /\ worker[w].version >= applied

(* The lock around a lead entry, and the entry it holds. *)
OneEnters ==
  /\ \A v, w \in Entries : worker[v].at # "idle" /\ worker[w].at # "idle" => v = w
  /\ \A w \in Workers :
       worker[w].at \in {"lookup", "append", "start", "report"} => w \in Entries
  /\ \A w \in Entries : worker[w].at # "idle" => worker[w].key \in Keys /\ worker[w].data \in Data

OnSheet(key) == \E v \in DOMAIN history : history[v][key] # <<>>

(* An entry that has passed its append has its lead on the sheet. *)
PassedMeansWritten ==
  \A w \in Entries :
    worker[w].at \in {"start", "run", "fetch", "apply", "report"} => OnSheet(worker[w].key)

(* A row that has its id, readable or not. *)
Named == Data \cup {"bad"}

(* Where appends are never late, an entered lead has one whole row at most, and
   none while an entry is about to append it. *)
OneRow ==
  ~LateWrites =>
    /\ inflight = {}
    /\ \A key \in Keys : Len(Sheet[key]) <= 1 /\ \A i \in DOMAIN Sheet[key] : Sheet[key][i] \in Named
    /\ \A w \in Entries : worker[w].at = "append" => Sheet[worker[w].key] = <<>>

SyncInv ==
  /\ LeadSyncTypeOK
  /\ OneSyncs
  /\ ReadsForward
  /\ OneEnters
  /\ Mirrors
  /\ PassedMeansWritten
  /\ SavedMeansWritten
  /\ OneRow

(***************************************************************************)
(* The sheet's history only grows.                                         *)
(***************************************************************************)
LEMMA SheetType ==
  ASSUME LeadSyncTypeOK
  PROVE  /\ Sheet \in Sheets
         /\ Len(history) \in Nat \ {0}
         /\ DOMAIN history = 1..Len(history)
         /\ \A v \in DOMAIN history : history[v] \in Sheets
<1>1. history \in Seq(Sheets) /\ history # <<>>
  BY DEF LeadSyncTypeOK, Sheets
<1>2. Len(history) \in Nat /\ DOMAIN history = 1..Len(history) /\ Len(history) # 0
  BY <1>1, EmptySeq, LenProperties
<1>3. \A v \in 1..Len(history) : history[v] \in Sheets
  BY <1>1, ElementOfSeq
<1>. QED BY <1>2, <1>3 DEF Sheet

(* A write adds one state and keeps the others where they are. *)
LEMMA WriteGrows ==
  ASSUME LeadSyncTypeOK, NEW id \in Ids, NEW rows \in Seq(Rows), Write(id, rows)
  PROVE  /\ history' \in Seq(Sheets) /\ history' # <<>>
         /\ Len(history') = Len(history) + 1
         /\ DOMAIN history' = 1..(Len(history) + 1)
         /\ \A v \in DOMAIN history : history'[v] = history[v]
         /\ Sheet' = [Sheet EXCEPT ![id] = rows]
<1>. DEFINE sheet == [Sheet EXCEPT ![id] = rows]
<1>1. history \in Seq(Sheets) /\ sheet \in Sheets
  BY SheetType DEF LeadSyncTypeOK, Sheets
<1>2. history' = Append(history, sheet)
  BY DEF Write
<1>. HIDE DEF sheet
<1>3. /\ history' \in Seq(Sheets)
      /\ history' # <<>>
      /\ Len(history') = Len(history) + 1
      /\ \A v \in 1..Len(history) : history'[v] = history[v]
      /\ history'[Len(history) + 1] = sheet
  BY <1>1, <1>2, AppendProperties
<1>4. DOMAIN history' = 1..(Len(history) + 1)
  BY <1>3, LenProperties
<1>. QED BY <1>3, <1>4, SheetType DEF Sheet, sheet

(* What was true of the past stays true of it. *)
LEMMA WritePreserves ==
  ASSUME SyncInv, NEW id \in Ids, NEW rows \in Seq(Rows), Write(id, rows),
         UNCHANGED <<leads, applied, full>>
  PROVE  /\ history' \in Seq(Sheets) /\ history' # <<>>
         /\ applied' \in 0..Len(history')
         /\ Mirrors'
         /\ \A key \in Keys : OnSheet(key) => OnSheet(key)'
         /\ \A v \in DOMAIN history : v \in DOMAIN history'
         /\ OnSheet(id)' \/ rows = <<>>
<1>1. LeadSyncTypeOK /\ Mirrors
  BY DEF SyncInv
<1>2. /\ history' \in Seq(Sheets) /\ history' # <<>>
      /\ Len(history') = Len(history) + 1
      /\ DOMAIN history' = 1..(Len(history) + 1)
      /\ \A v \in DOMAIN history : history'[v] = history[v]
      /\ Sheet' = [Sheet EXCEPT ![id] = rows]
  BY <1>1, WriteGrows
<1>3. /\ Len(history) \in Nat /\ DOMAIN history = 1..Len(history) /\ Sheet \in Sheets
      /\ applied \in 0..Len(history)
  BY <1>1, SheetType DEF LeadSyncTypeOK
<1>4. \A v \in DOMAIN history : v \in DOMAIN history'
  BY <1>2, <1>3
<1>5. Mirrors'
  <2>1. applied # 0 => history'[applied] = history[applied]
    BY <1>2, <1>3
  <2>. QED BY <1>1, <2>1 DEF Mirrors, Imported, RowsOf
<1>6. \A key \in Keys : OnSheet(key) => OnSheet(key)'
  BY <1>2, <1>4 DEF OnSheet
<1>7. OnSheet(id)' \/ rows = <<>>
  <2>1. Sheet'[id] = rows
    BY <1>2, <1>3 DEF Sheets
  <2>2. Len(history') \in DOMAIN history' /\ history'[Len(history')][id] = rows
    BY <2>1, <1>2, <1>3 DEF Sheet
  <2>. QED BY <2>2 DEF OnSheet
<1>. QED BY <1>2, <1>3, <1>4, <1>5, <1>6, <1>7

(***************************************************************************)
(* Steps of the sheet's readers: the sheet stays, one worker moves.        *)
(***************************************************************************)
WorkerRow ==
  [at: {"idle", "lookup", "append", "start", "run", "fetch", "apply", "report"},
   key: Keys \cup {None}, data: Data \cup {None}, version: 0..Len(history),
   run: {"none", "RUNNING", "SUCCESS", "PARTIAL", "ABORTED"}]

(* An idle worker has a row of the type. *)
LEMMA IdleType == ASSUME LeadSyncTypeOK PROVE Idle \in WorkerRow /\ Idle.at = "idle"
BY SheetType DEF Idle, WorkerRow

(* The conditions on which a worker takes a lock, reads, or passes its append. *)
MayBecome(w, row) ==
  /\ row.at \in {"fetch", "apply"} => worker[w].at \in {"fetch", "apply"} \/ SyncLockFree
  /\ row.at = "apply" => row.version = Len(history)
  /\ row.at \in {"lookup", "append", "start", "report"} => w \in Entries
  /\ w \in Entries /\ row.at # "idle" =>
       /\ row.key \in Keys /\ row.data \in Data
       /\ worker[w].at # "idle" \/ EntryLockFree
  /\ w \in Entries /\ row.at \in {"start", "run", "fetch", "apply", "report"} => OnSheet(row.key)
  /\ row.at = "append" => LateWrites \/ Sheet[row.key] = <<>>

(* Moving one worker, possibly by applying what it has read, keeps the types; the
   locks hold if nobody else is in. *)
LEMMA MoveOrApply ==
  ASSUME SyncInv, NEW w \in Workers, NEW row \in WorkerRow,
         worker' = [worker EXCEPT ![w] = row],
         UNCHANGED history,
         inflight' \subseteq [key: Keys, data: Data], LateWrites \/ inflight' = inflight,
         leads' \in [Ids -> {"none", "active", "inactive"}], full' \in BOOLEAN,
         applied' \in 0..Len(history),
         applied' = applied \/ (worker[w].at = "apply" /\ row.at # "apply"),
         answer' \in [Keys -> {"none", "synced", "sync_pending", "error"}],
         MayBecome(w, row),
         Mirrors', SavedMeansWritten'
  PROVE  SyncInv'
<1>1. LeadSyncTypeOK'
  BY DEF SyncInv, LeadSyncTypeOK, WorkerRow
<1>2. /\ worker'[w] = row
      /\ \A v \in Workers : v # w => worker'[v] = worker[v]
      /\ Entries \subseteq Workers
  BY DEF SyncInv, LeadSyncTypeOK, Workers
<1>3. OneSyncs'
  BY <1>2 DEF SyncInv, OneSyncs, SyncLockFree, MayBecome
<1>4. ReadsForward'
  BY <1>2, SheetType DEF SyncInv, ReadsForward, LeadSyncTypeOK, OneSyncs, MayBecome
<1>5. OneEnters'
  BY <1>2 DEF SyncInv, OneEnters, EntryLockFree, MayBecome
<1>6. PassedMeansWritten'
  BY <1>2 DEF SyncInv, PassedMeansWritten, OnSheet, MayBecome
<1>7. OneRow'
  BY <1>2 DEF SyncInv, OneRow, Sheet, MayBecome
<1>. QED BY <1>1, <1>3, <1>4, <1>5, <1>6, <1>7 DEF SyncInv

(* Moving one worker changes nothing else. *)
LEMMA MovePreserves ==
  ASSUME SyncInv, NEW w \in Workers, NEW row \in WorkerRow,
         worker' = [worker EXCEPT ![w] = row],
         UNCHANGED <<history, leads, applied, full, inflight>>,
         answer' \in [Keys -> {"none", "synced", "sync_pending", "error"}],
         MayBecome(w, row),
         SavedMeansWritten'
  PROVE  SyncInv'
<1>1. Mirrors'
  BY DEF SyncInv, Mirrors
<1>2. /\ leads' \in [Ids -> {"none", "active", "inactive"}] /\ full' \in BOOLEAN
      /\ applied' \in 0..Len(history) /\ applied' = applied
  BY DEF SyncInv, LeadSyncTypeOK
<1>3. UNCHANGED history /\ inflight' \subseteq [key: Keys, data: Data] /\ inflight' = inflight
  BY DEF SyncInv, LeadSyncTypeOK
<1>. QED BY <1>1, <1>2, <1>3, MoveOrApply

(* What is known of a worker between two steps. *)
LEMMA WorkerType ==
  ASSUME SyncInv, NEW w \in Workers
  PROVE  /\ worker[w] \in WorkerRow
         /\ worker \in [Workers -> WorkerRow]
         /\ w \in Entries /\ worker[w].at # "idle" => worker[w].key \in Keys /\ worker[w].data \in Data
         /\ w \in Entries /\ worker[w].at \in {"start", "run", "fetch", "apply", "report"}
              => OnSheet(worker[w].key)
BY DEF SyncInv, LeadSyncTypeOK, WorkerRow, OneEnters, PassedMeansWritten

(* The end of a run hands the worker to its entry's report, or sets it free. *)
EndedRow(w, status) ==
  IF w \in Entries THEN [worker[w] EXCEPT !.at = "report", !.run = status, !.version = 0] ELSE Idle

(* A worker whose run has ended keeps its request, if it has one. *)
LEMMA EndedRowType ==
  ASSUME SyncInv, NEW w \in Workers, NEW status \in {"SUCCESS", "PARTIAL", "ABORTED"},
         EndRun(w, status)
  PROVE  /\ worker' = [worker EXCEPT ![w] = EndedRow(w, status)]
         /\ EndedRow(w, status) \in WorkerRow
         /\ w \in Entries => /\ EndedRow(w, status).at = "report"
                             /\ EndedRow(w, status).key = worker[w].key
                             /\ EndedRow(w, status).data = worker[w].data
         /\ w \notin Entries => EndedRow(w, status).at = "idle"
<1>1. worker[w] \in WorkerRow /\ Idle \in WorkerRow /\ Idle.at = "idle" /\ 0 \in 0..Len(history)
  BY WorkerType, IdleType, SheetType DEF SyncInv
<1>2. worker' = [worker EXCEPT ![w] = EndedRow(w, status)]
  BY DEF EndRun, EndedRow
<1>. QED BY <1>1, <1>2 DEF EndedRow, WorkerRow

(* A run that changes nothing ends. *)
LEMMA EndRunPreserves ==
  ASSUME SyncInv, NEW w \in Workers, worker[w].at \in {"start", "run", "fetch", "apply"},
         EndRun(w, "ABORTED"), UNCHANGED <<history, leads, applied, full, answer, inflight>>
  PROVE  SyncInv'
<1>1. SavedMeansWritten' /\ answer' \in [Keys -> {"none", "synced", "sync_pending", "error"}]
  BY DEF SyncInv, SavedMeansWritten, LeadSyncTypeOK
<1>. HIDE DEF EndedRow
<1>2. MayBecome(w, EndedRow(w, "ABORTED"))
  BY WorkerType, EndedRowType DEF MayBecome
<1>. QED BY <1>1, <1>2, EndedRowType, MovePreserves

(* The steps of a run that leave the table alone. *)
LEMMA SyncStepPreserves ==
  ASSUME SyncInv, NEW w \in Workers,
         StartRun(w) \/ TakeSyncLock(w) \/ Fetch(w) \/ AbortRun(w)
  PROVE  SyncInv'
<1>1. SavedMeansWritten /\ answer \in [Keys -> {"none", "synced", "sync_pending", "error"}]
  BY DEF SyncInv, LeadSyncTypeOK
<1>2. CASE StartRun(w)
  <2>. DEFINE row == [worker[w] EXCEPT !.at = "run", !.run = "RUNNING"]
  <2>1. row \in WorkerRow /\ row.at = "run" /\ row.key = worker[w].key /\ row.data = worker[w].data
    BY WorkerType DEF WorkerRow
  <2>2. worker' = [worker EXCEPT ![w] = row]
    BY <1>2, WorkerType DEF StartRun, WorkerRow
  <2>3. w \in Entries => worker[w].at = "start"
    BY <1>2 DEF StartRun
  <2>4. SavedMeansWritten'
    BY <1>1, <1>2 DEF StartRun, SavedMeansWritten
  <2>. HIDE DEF row
  <2>5. MayBecome(w, row)
    BY <2>1, <2>3, WorkerType DEF MayBecome
  <2>. QED BY <1>1, <1>2, <2>1, <2>2, <2>4, <2>5, MovePreserves DEF StartRun
<1>3. CASE TakeSyncLock(w)
  <2>1. CASE SyncLockFree
    <3>. DEFINE row == [worker[w] EXCEPT !.at = "fetch"]
    <3>1. row \in WorkerRow /\ row.at = "fetch" /\ row.key = worker[w].key /\ row.data = worker[w].data
      BY WorkerType DEF WorkerRow
    <3>2. worker' = [worker EXCEPT ![w] = row]
      BY <1>3, <2>1, WorkerType DEF TakeSyncLock, Go, WorkerRow
    <3>3. SavedMeansWritten'
      BY <1>1, <1>3 DEF TakeSyncLock, SavedMeansWritten
    <3>. HIDE DEF row
    <3>4. MayBecome(w, row)
      BY <1>3, <2>1, <3>1, WorkerType DEF TakeSyncLock, MayBecome
    <3>. QED BY <1>1, <1>3, <2>1, <3>1, <3>2, <3>3, <3>4, MovePreserves DEF TakeSyncLock
  <2>2. CASE ~SyncLockFree
    BY <1>3, <2>2, EndRunPreserves DEF TakeSyncLock
  <2>. QED BY <2>1, <2>2
<1>4. CASE Fetch(w)
  <2>. DEFINE row == [worker[w] EXCEPT !.at = "apply", !.version = Len(history)]
  <2>0. Len(history) \in 0..Len(history)
    BY SheetType DEF SyncInv
  <2>1. /\ row \in WorkerRow /\ row.at = "apply" /\ row.version = Len(history)
        /\ row.key = worker[w].key /\ row.data = worker[w].data
    BY <2>0, WorkerType DEF WorkerRow
  <2>2. worker' = [worker EXCEPT ![w] = row]
    BY <1>4, WorkerType DEF Fetch, WorkerRow
  <2>3. SavedMeansWritten'
    BY <1>1, <1>4 DEF Fetch, SavedMeansWritten
  <2>. HIDE DEF row
  <2>4. MayBecome(w, row)
    BY <1>4, <2>1, WorkerType DEF Fetch, MayBecome
  <2>. QED BY <1>1, <1>4, <2>1, <2>2, <2>3, <2>4, MovePreserves DEF Fetch
<1>5. CASE AbortRun(w)
  BY <1>5, EndRunPreserves DEF AbortRun
<1>. QED BY <1>2, <1>3, <1>4, <1>5

(* A clean import leaves exactly the leads it read on sale, another at least those. *)
LEMMA AfterMirrors ==
  ASSUME LeadSyncTypeOK, NEW sheet \in Sheets
  PROVE  LET onSale == {id \in Ids : After(sheet)[id] = "active"}
         IN  IF Rejected(sheet) = {} THEN onSale = Imported(sheet) ELSE Imported(sheet) \subseteq onSale
<1>1. Imported(sheet) \subseteq Ids
  BY DEF Imported
<1>. QED BY <1>1 DEF After

(* Applying a snapshot keeps the invariant and does not go back. *)
LEMMA ApplyPreserves ==
  ASSUME SyncInv, NEW w \in Workers, Apply(w)
  PROVE  SyncInv' /\ applied' >= applied
<1>. DEFINE sheet == history[worker[w].version]
            status == IF Rejected(sheet) = {} THEN "SUCCESS" ELSE "PARTIAL"
<1>1. /\ worker[w].at = "apply" /\ leads' = After(sheet) /\ applied' = worker[w].version
      /\ full' = (Rejected(sheet) = {}) /\ EndRun(w, status)
      /\ UNCHANGED <<history, answer, inflight>>
  BY DEF Apply
<1>2. LeadSyncTypeOK
  BY DEF SyncInv
<1>3. /\ worker[w].version \in DOMAIN history /\ worker[w].version >= applied
      /\ sheet \in Sheets /\ applied' \in 0..Len(history)
  BY <1>1, <1>2, SheetType DEF SyncInv, ReadsForward
<1>4. full' \in BOOLEAN /\ status \in {"SUCCESS", "PARTIAL", "ABORTED"}
  BY <1>1
<1>5. leads' \in [Ids -> {"none", "active", "inactive"}]
  BY <1>1, <1>2 DEF After, LeadSyncTypeOK
<1>6. Mirrors'
  <2>1. history'[applied'] = sheet
    BY <1>1
  <2>2. full' <=> Rejected(sheet) = {}
    BY <1>1
  <2>. HIDE DEF sheet
  <2>3. LET onSale == {id \in Ids : leads'[id] = "active"}
        IN  IF full' THEN onSale = Imported(sheet) ELSE Imported(sheet) \subseteq onSale
    BY <1>1, <1>2, <1>3, <2>2, AfterMirrors
  <2>. QED BY <2>1, <2>3 DEF Mirrors, Imported, RowsOf
<1>7. SavedMeansWritten'
  <2>1. \A id \in Ids : leads[id] # "none" => leads'[id] # "none"
    BY <1>1 DEF After
  <2>. QED BY <1>1, <2>1 DEF SyncInv, SavedMeansWritten, Ids
<1>8. /\ answer' \in [Keys -> {"none", "synced", "sync_pending", "error"}]
      /\ inflight' \subseteq [key: Keys, data: Data] /\ inflight' = inflight
  BY <1>1, <1>2 DEF LeadSyncTypeOK
<1>. HIDE DEF EndedRow, sheet, status
<1>9. MayBecome(w, EndedRow(w, status)) /\ EndedRow(w, status).at # "apply"
  BY <1>1, <1>4, WorkerType, EndedRowType DEF MayBecome
<1>10. SyncInv'
  BY <1>1, <1>3, <1>4, <1>5, <1>6, <1>7, <1>8, <1>9, EndedRowType, MoveOrApply
<1>. QED BY <1>1, <1>3, <1>10

(***************************************************************************)
(* Lead entries.                                                           *)
(***************************************************************************)
(* An entry that goes on to another step. *)
LEMMA GoPreserves ==
  ASSUME SyncInv, NEW w \in Entries, NEW at \in {"append", "start"},
         worker[w].at # "idle", Go(w, at),
         UNCHANGED <<history, leads, applied, full, answer, inflight>>,
         at = "append" => LateWrites \/ Sheet[worker[w].key] = <<>>,
         at = "start" => OnSheet(worker[w].key)
  PROVE  SyncInv'
<1>. DEFINE row == [worker[w] EXCEPT !.at = at]
<1>1. w \in Workers
  BY DEF Workers
<1>2. row \in WorkerRow /\ row.at = at /\ row.key = worker[w].key /\ row.data = worker[w].data
  BY <1>1, WorkerType DEF WorkerRow
<1>3. worker' = [worker EXCEPT ![w] = row]
  BY <1>1, WorkerType DEF Go, WorkerRow
<1>4. SavedMeansWritten' /\ answer' \in [Keys -> {"none", "synced", "sync_pending", "error"}]
  BY DEF SyncInv, SavedMeansWritten, LeadSyncTypeOK
<1>. HIDE DEF row
<1>5. MayBecome(w, row)
  BY <1>1, <1>2, WorkerType DEF MayBecome
<1>. QED BY <1>1, <1>2, <1>3, <1>4, <1>5, MovePreserves

(* A reply sets the worker free; it must be true. *)
LEMMA ReplyPreserves ==
  ASSUME SyncInv, NEW w \in Entries, NEW response \in {"synced", "sync_pending", "error"},
         worker[w].at # "idle", Reply(w, response),
         UNCHANGED <<history, leads, applied, full>>,
         inflight' \subseteq [key: Keys, data: Data], LateWrites \/ inflight' = inflight,
         response # "error" => OnSheet(worker[w].key),
         response = "synced" => leads[worker[w].key] # "none"
  PROVE  SyncInv'
<1>1. w \in Workers /\ worker[w].key \in Keys
  BY WorkerType DEF Workers
<1>2. LeadSyncTypeOK /\ SavedMeansWritten
  BY DEF SyncInv
<1>3. Idle \in WorkerRow /\ Idle.at = "idle"
  BY <1>2, IdleType
<1>4. answer' = [answer EXCEPT ![worker[w].key] = response] /\ worker' = [worker EXCEPT ![w] = Idle]
  BY DEF Reply
<1>5. answer' \in [Keys -> {"none", "synced", "sync_pending", "error"}]
  BY <1>2, <1>4 DEF LeadSyncTypeOK
<1>6. SavedMeansWritten'
  BY <1>1, <1>2, <1>4 DEF SavedMeansWritten, OnSheet, LeadSyncTypeOK
<1>7. MayBecome(w, Idle)
  BY <1>3 DEF MayBecome
<1>8. /\ leads' \in [Ids -> {"none", "active", "inactive"}] /\ full' \in BOOLEAN
      /\ applied' \in 0..Len(history) /\ applied' = applied /\ Mirrors'
  BY <1>2 DEF SyncInv, LeadSyncTypeOK, Mirrors
<1>. QED BY <1>1, <1>3, <1>4, <1>5, <1>6, <1>7, <1>8, MoveOrApply

(* An entry begins while no other is under way. *)
LEMMA EnterPreserves ==
  ASSUME SyncInv, NEW w \in Entries, NEW key \in Keys, NEW data \in Data, Enter(w, key, data)
  PROVE  SyncInv'
<1>. DEFINE row == [Idle EXCEPT !.at = "lookup", !.key = key, !.data = data]
<1>1. w \in Workers
  BY DEF Workers
<1>2. row \in WorkerRow /\ row.at = "lookup" /\ row.key = key /\ row.data = data
  <2>1. Idle \in WorkerRow
    BY IdleType DEF SyncInv
  <2>. QED BY <2>1 DEF WorkerRow
<1>3. worker' = [worker EXCEPT ![w] = row] /\ EntryLockFree
  BY DEF Enter
<1>4. SavedMeansWritten' /\ answer' \in [Keys -> {"none", "synced", "sync_pending", "error"}]
  BY DEF Enter, SyncInv, SavedMeansWritten, LeadSyncTypeOK
<1>. HIDE DEF row
<1>5. MayBecome(w, row)
  BY <1>2, <1>3 DEF MayBecome
<1>. QED BY <1>1, <1>2, <1>3, <1>4, <1>5, MovePreserves DEF Enter

(* The lookup sends an entry on only to a sheet without its row, or past the append. *)
LEMMA LookupPreserves ==
  ASSUME SyncInv, NEW w \in Entries, Lookup(w)
  PROVE  SyncInv'
<1>. DEFINE rows == Sheet[worker[w].key]
            matches == {i \in DOMAIN rows : rows[i] # "hidden"}
<1>1. /\ worker[w].at = "lookup" /\ worker[w].key \in Keys
      /\ UNCHANGED <<history, leads, applied, full, inflight>>
      /\ inflight' \subseteq [key: Keys, data: Data]
  BY WorkerType DEF Lookup, Workers, SyncInv, LeadSyncTypeOK
<1>2. LeadSyncTypeOK
  BY DEF SyncInv
<1>3. rows \in Seq(Rows) /\ Len(history) \in DOMAIN history /\ rows = history[Len(history)][worker[w].key]
  BY <1>1, <1>2, SheetType DEF Sheets, Ids, Sheet
<1>4. CASE matches = {} /\ Go(w, "append") /\ UNCHANGED answer
  <2>1. ASSUME ~LateWrites PROVE rows = <<>>
    <3>1. \A i \in DOMAIN rows : rows[i] # "hidden"
      BY <1>1, <2>1, LeadSyncAssumption DEF SyncInv, OneRow, Named
    <3>2. DOMAIN rows = {}
      BY <1>4, <3>1
    <3>3. Len(rows) \in Nat /\ DOMAIN rows = 1..Len(rows)
      BY <1>3, LenProperties
    <3>. HIDE DEF rows
    <3>4. Len(rows) = 0
      BY <3>2, <3>3
    <3>. QED BY <1>3, <3>4, EmptySeq
  <2>. QED BY <1>1, <1>4, <2>1, GoPreserves
<1>5. CASE (\E i \in DOMAIN rows : matches = {i} /\ rows[i] = worker[w].data) /\ Go(w, "start") /\ UNCHANGED answer
  <2>1. rows # <<>>
    BY <1>5, EmptySeq
  <2>2. OnSheet(worker[w].key)
    BY <1>3, <2>1 DEF OnSheet
  <2>. QED BY <1>1, <1>5, <2>2, GoPreserves
<1>6. CASE Reply(w, "error")
  BY <1>1, <1>6, ReplyPreserves
<1>. QED BY <1>4, <1>5, <1>6 DEF Lookup

(* What is reported as synchronized was read back from the table. *)
LEMMA ReportPreserves ==
  ASSUME SyncInv, NEW w \in Entries, Report(w)
  PROVE  SyncInv'
<1>1. /\ worker[w].at = "report" /\ OnSheet(worker[w].key)
      /\ UNCHANGED <<history, leads, applied, full, inflight>>
      /\ inflight' \subseteq [key: Keys, data: Data]
  BY WorkerType DEF Report, Workers, SyncInv, LeadSyncTypeOK
<1>2. CASE Reply(w, "sync_pending")
  BY <1>1, <1>2, ReplyPreserves
<1>3. CASE leads[worker[w].key] = "active" /\ Reply(w, "synced")
  BY <1>1, <1>3, ReplyPreserves
<1>. QED BY <1>2, <1>3 DEF Report

(* A dead worker leaves nothing that the others would miss. *)
LEMMA CrashPreserves ==
  ASSUME SyncInv, NEW w \in Workers, Crash(w)
  PROVE  SyncInv'
<1>1. Idle \in WorkerRow /\ Idle.at = "idle"
  BY IdleType DEF SyncInv
<1>2. SavedMeansWritten' /\ answer' \in [Keys -> {"none", "synced", "sync_pending", "error"}]
  BY DEF Crash, SyncInv, SavedMeansWritten, LeadSyncTypeOK
<1>3. MayBecome(w, Idle)
  BY <1>1 DEF MayBecome
<1>. QED BY <1>1, <1>2, <1>3, MovePreserves DEF Crash

(***************************************************************************)
(* Steps that write the sheet.                                             *)
(***************************************************************************)
(* A write goes with no move, with the end of an entry, or with the append it is. *)
LEMMA WriteAndMove ==
  ASSUME SyncInv, NEW id \in Ids, NEW rows \in Seq(Rows), Write(id, rows),
         UNCHANGED <<leads, applied, full>>,
         answer' \in [Keys -> {"none", "synced", "sync_pending", "error"}],
         \A key \in Keys : answer'[key] \in {answer[key], "error"},
         inflight' \subseteq inflight,
         worker' \in [Workers -> WorkerRow],
         \A v \in Workers :
           \/ worker'[v] = worker[v]
           \/ worker'[v] = Idle
           \/ /\ v \in Entries /\ worker[v].at = "append" /\ worker[v].key = id /\ rows # <<>>
              /\ worker'[v] = [worker[v] EXCEPT !.at = "start"],
         OneRow'
  PROVE  SyncInv'
<1>1. LeadSyncTypeOK
  BY DEF SyncInv
<1>2. /\ history' \in Seq(Sheets) /\ history' # <<>>
      /\ applied' \in 0..Len(history') /\ Mirrors'
      /\ \A key \in Keys : OnSheet(key) => OnSheet(key)'
      /\ \A v \in DOMAIN history : v \in DOMAIN history'
      /\ OnSheet(id)' \/ rows = <<>>
  BY WritePreserves
<1>3. Len(history) \in Nat /\ Len(history') = Len(history) + 1
  BY <1>1, WriteGrows, SheetType
<1>4. \A v \in Workers : worker[v] \in WorkerRow
  BY WorkerType
<1>5. \A v \in Workers :
        \/ worker'[v] = worker[v]
        \/ worker'[v].at = "idle"
        \/ /\ v \in Entries /\ worker[v].at = "append" /\ worker'[v].at = "start"
           /\ worker'[v].key = worker[v].key /\ worker'[v].data = worker[v].data
           /\ OnSheet(worker[v].key)'
  BY <1>2, <1>4 DEF WorkerRow, Idle
<1>6. LeadSyncTypeOK'
  <2>1. worker' \in [Workers -> WorkerRow]'
    BY <1>3 DEF WorkerRow
  <2>2. inflight' \subseteq [key: Keys, data: Data]
    BY <1>1 DEF LeadSyncTypeOK
  <2>. QED BY <1>1, <1>2, <2>1, <2>2 DEF LeadSyncTypeOK, WorkerRow, Sheets
<1>7. OneSyncs' /\ OneEnters'
  <2>1. Entries \subseteq Workers
    BY DEF Workers
  <2>. QED BY <1>5, <2>1 DEF SyncInv, OneSyncs, OneEnters
<1>8. ReadsForward'
  BY <1>2, <1>5 DEF SyncInv, ReadsForward
<1>9. PassedMeansWritten'
  <2>1. Entries \subseteq Workers
    BY DEF Workers
  <2>2. ASSUME NEW v \in Entries, worker'[v].at \in {"start", "run", "fetch", "apply", "report"}
        PROVE  OnSheet(worker[v].key)'
    <3>1. CASE worker'[v] = worker[v]
      BY <1>2, <2>1, <2>2, <3>1, WorkerType
    <3>2. CASE worker'[v] # worker[v]
      BY <1>5, <2>1, <2>2, <3>2
    <3>. QED BY <3>1, <3>2
  <2>. QED BY <2>2 DEF PassedMeansWritten, OnSheet
<1>10. SavedMeansWritten'
  BY <1>2 DEF SyncInv, SavedMeansWritten, OnSheet
<1>. QED BY <1>2, <1>6, <1>7, <1>8, <1>9, <1>10 DEF SyncInv

(* People's edits leave an entered lead one row at most, and do not touch one that is
   about to be appended. *)
LEMMA EditPreserves ==
  ASSUME SyncInv, NEW id \in Ids, EditSheet(id)
  PROVE  SyncInv'
<1>1. LeadSyncTypeOK /\ Sheet \in Sheets
  BY SheetType DEF SyncInv
<1>2. UNCHANGED <<leads, applied, full, worker, answer, inflight>>
  BY DEF EditSheet
<1>3. PICK rows :
        /\ Write(id, rows)
        /\ rows = <<>> \/ \E row \in Rows : rows = <<row>>
        /\ id \in Keys => /\ Len(Sheet[id]) = 1
                          /\ rows = <<>> \/ \E row \in Named : rows = <<row>>
  BY LeadSyncAssumption DEF EditSheet, Rows, Named
<1>3a. id \in Keys => Len(Sheet[id]) = 1
  BY LeadSyncAssumption DEF EditSheet
<1>4. /\ rows \in Seq(Rows)
      /\ id \in Keys => Len(rows) <= 1 /\ \A i \in DOMAIN rows : rows[i] \in Named
  <2>1. CASE rows = <<>>
    BY <2>1
  <2>2. CASE rows # <<>>
    <3>1. PICK row \in Rows : rows = <<row>>
      BY <1>3, <2>2
    <3>2. id \in Keys => row \in Named
      <4>1. ASSUME id \in Keys PROVE \E other \in Named : rows = <<other>>
        BY <1>3, <2>2, <4>1
      <4>2. \A other : rows = <<other>> => other = row
        BY <3>1
      <4>. QED BY <4>1, <4>2
    <3>3. rows \in Seq(Rows) /\ Len(rows) = 1 /\ DOMAIN rows = {1} /\ rows[1] = row
      BY <3>1
    <3>. QED BY <3>2, <3>3
  <2>. QED BY <2>1, <2>2
<1>5. Sheet' = [Sheet EXCEPT ![id] = rows]
  BY <1>1, <1>3, <1>4, WriteGrows
<1>6. OneRow'
  <2>. SUFFICES ASSUME ~LateWrites
                PROVE  /\ inflight' = {}
                       /\ \A key \in Keys : /\ Len(Sheet'[key]) <= 1
                                            /\ \A i \in DOMAIN Sheet'[key] : Sheet'[key][i] \in Named
                       /\ \A w \in Entries : worker'[w].at = "append" => Sheet'[worker'[w].key] = <<>>
    BY DEF OneRow
  <2>1. \A key \in Keys : Sheet'[key] = IF key = id THEN rows ELSE Sheet[key]
    BY <1>1, <1>5 DEF Sheets, Ids
  <2>2. ASSUME NEW w \in Entries, worker'[w].at = "append"
        PROVE  Sheet'[worker'[w].key] = <<>>
    <3>1. worker[w].key \in Keys /\ Sheet[worker[w].key] = <<>>
      BY <1>2, <2>2, WorkerType DEF SyncInv, OneRow, Workers
    <3>2. Len(Sheet[worker[w].key]) = 0
      BY <3>1, EmptySeq
    <3>3. ASSUME id = worker[w].key PROVE FALSE
      <4>1. Len(Sheet[id]) = 0
        BY <3>2, <3>3
      <4>2. Len(Sheet[id]) = 1
        BY <1>3a, <3>1, <3>3
      <4>. QED BY <4>1, <4>2
    <3>. QED BY <1>2, <2>1, <3>1, <3>3
  <2>. QED BY <1>2, <1>4, <2>1, <2>2 DEF SyncInv, OneRow
<1>. QED BY <1>1, <1>2, <1>3, <1>4, <1>6, WriteAndMove, WorkerType DEF LeadSyncTypeOK

(* Only where appends may be late can one of them come. *)
LEMMA LatePreserves ==
  ASSUME SyncInv, NEW append \in inflight, LandLate(append)
  PROVE  SyncInv'
<1>. DEFINE rows == Sheet[append.key] \o <<append.data>>
<1>1. LeadSyncTypeOK /\ Sheet \in Sheets
  BY SheetType DEF SyncInv
<1>2. append.key \in Ids /\ append.key \in Keys /\ append.data \in Rows
  BY <1>1 DEF LeadSyncTypeOK, Ids, Rows
<1>3. rows \in Seq(Rows)
  <2>1. Sheet[append.key] \in Seq(Rows) /\ <<append.data>> \in Seq(Rows)
    BY <1>1, <1>2 DEF Sheets
  <2>. QED BY <2>1, ConcatProperties
<1>4. LateWrites
  BY DEF SyncInv, OneRow
<1>5. OneRow'
  BY <1>4 DEF OneRow
<1>6. Write(append.key, rows) /\ inflight' \subseteq inflight /\ UNCHANGED <<leads, applied, full, worker, answer>>
  BY DEF LandLate
<1>. HIDE DEF rows
<1>. QED BY <1>1, <1>2, <1>3, <1>5, <1>6, WriteAndMove, WorkerType DEF LeadSyncTypeOK

(* An append puts the entry's row under those of its key. *)
LEMMA LandType ==
  ASSUME SyncInv, NEW w \in Entries, worker[w].at = "append", Land(w)
  PROVE  LET rows == Sheet[worker[w].key] \o <<worker[w].data>>
         IN  /\ rows \in Seq(Rows) /\ rows # <<>>
             /\ worker[w].key \in Ids
             /\ Write(worker[w].key, rows)
             /\ ~LateWrites => /\ Len(rows) <= 1 /\ \A i \in DOMAIN rows : rows[i] \in Named
                              /\ Sheet' = [Sheet EXCEPT ![worker[w].key] = rows]
<1>. DEFINE rows == Sheet[worker[w].key] \o <<worker[w].data>>
<1>1. LeadSyncTypeOK /\ Sheet \in Sheets /\ worker[w].key \in Keys /\ worker[w].data \in Data
  BY SheetType, WorkerType DEF SyncInv, Workers
<1>2. Sheet[worker[w].key] \in Seq(Rows) /\ <<worker[w].data>> \in Seq(Rows) /\ worker[w].key \in Ids
  BY <1>1 DEF Sheets, Ids, Rows
<1>3. rows \in Seq(Rows) /\ Len(rows) = Len(Sheet[worker[w].key]) + 1
  BY <1>2, ConcatProperties
<1>4. rows # <<>>
  BY <1>2, <1>3, LenProperties, EmptySeq
<1>5. Write(worker[w].key, rows)
  BY DEF Land
<1>6. ASSUME ~LateWrites
      PROVE  Len(rows) <= 1 /\ \A i \in DOMAIN rows : rows[i] \in Named
  <2>1. Sheet[worker[w].key] = <<>>
    BY <1>6 DEF SyncInv, OneRow
  <2>2. rows = <<worker[w].data>>
    BY <1>2, <2>1, ConcatEmptySeq
  <2>3. Len(<<worker[w].data>>) = 1 /\ \A i \in DOMAIN <<worker[w].data>> : <<worker[w].data>>[i] = worker[w].data
    OBVIOUS
  <2>4. worker[w].data \in Named
    BY <1>1 DEF Named
  <2>. HIDE DEF rows
  <2>. QED BY <2>2, <2>3, <2>4
<1>7. Sheet' = [Sheet EXCEPT ![worker[w].key] = rows]
  BY <1>1, <1>2, <1>3, <1>5, WriteGrows
<1>. QED BY <1>2, <1>3, <1>4, <1>5, <1>6, <1>7

(* A landed append is the one row of its key, if no other append can be late. *)
LEMMA LandPreserves ==
  ASSUME SyncInv, NEW w \in Entries, worker[w].at = "append", Land(w),
         NEW row \in {Idle, [worker[w] EXCEPT !.at = "start"]},
         worker' = [worker EXCEPT ![w] = row],
         UNCHANGED <<leads, applied, full, inflight>>,
         answer' \in [Keys -> {"none", "synced", "sync_pending", "error"}],
         \A key \in Keys : answer'[key] \in {answer[key], "error"}
  PROVE  SyncInv'
<1>. DEFINE rows == Sheet[worker[w].key] \o <<worker[w].data>>
<1>1. /\ rows \in Seq(Rows) /\ rows # <<>>
      /\ worker[w].key \in Ids
      /\ Write(worker[w].key, rows)
      /\ ~LateWrites => /\ Len(rows) <= 1 /\ \A i \in DOMAIN rows : rows[i] \in Named
                       /\ Sheet' = [Sheet EXCEPT ![worker[w].key] = rows]
  BY LandType
<1>2. /\ LeadSyncTypeOK /\ Sheet \in Sheets /\ w \in Workers
      /\ Idle \in WorkerRow /\ Idle.at = "idle"
      /\ worker \in [Workers -> WorkerRow] /\ worker[w].key \in Keys
  BY SheetType, IdleType, WorkerType DEF SyncInv, Workers
<1>3. row \in WorkerRow /\ row.at # "append"
  BY <1>2 DEF WorkerRow
<1>4. /\ worker' \in [Workers -> WorkerRow]
      /\ \A v \in Workers : worker'[v] = IF v = w THEN row ELSE worker[v]
  BY <1>2, <1>3
<1>. HIDE DEF rows
<1>5. OneRow'
  <2>. SUFFICES ASSUME ~LateWrites
                PROVE  /\ inflight' = {}
                       /\ \A key \in Keys : /\ Len(Sheet'[key]) <= 1
                                            /\ \A i \in DOMAIN Sheet'[key] : Sheet'[key][i] \in Named
                       /\ \A v \in Entries : worker'[v].at = "append" => Sheet'[worker'[v].key] = <<>>
    BY DEF OneRow
  <2>1. \A key \in Keys : Sheet'[key] = IF key = worker[w].key THEN rows ELSE Sheet[key]
    BY <1>1, <1>2 DEF Sheets, Ids
  <2>2. \A v \in Entries : worker'[v].at # "append"
    BY <1>3, <1>4 DEF SyncInv, OneEnters, Workers
  <2>4. ASSUME NEW key \in Keys
        PROVE  Len(Sheet'[key]) <= 1 /\ \A i \in DOMAIN Sheet'[key] : Sheet'[key][i] \in Named
    <3>1. CASE key = worker[w].key
      <4>1. Sheet'[key] = rows
        BY <2>1, <3>1
      <4>2. Len(rows) <= 1 /\ \A i \in DOMAIN rows : rows[i] \in Named
        BY <1>1
      <4>. QED BY <4>1, <4>2
    <3>2. CASE key # worker[w].key
      BY <2>1, <3>2 DEF SyncInv, OneRow
    <3>. QED BY <3>1, <3>2
  <2>. QED BY <2>2, <2>4 DEF SyncInv, OneRow
<1>6. \A v \in Workers :
        \/ worker'[v] = worker[v]
        \/ worker'[v] = Idle
        \/ /\ v \in Entries /\ worker[v].at = "append" /\ worker[v].key = worker[w].key /\ rows # <<>>
           /\ worker'[v] = [worker[v] EXCEPT !.at = "start"]
  BY <1>1, <1>4
<1>. QED BY <1>1, <1>4, <1>5, <1>6, WriteAndMove

(* An append, answered or not. *)
LEMMA AppendPreserves ==
  ASSUME SyncInv, NEW w \in Entries, AppendConfirmed(w) \/ AppendUnconfirmed(w)
  PROVE  SyncInv'
<1>1. /\ LeadSyncTypeOK /\ w \in Workers /\ worker \in [Workers -> WorkerRow]
      /\ worker[w].at = "append" /\ worker[w].key \in Keys /\ worker[w].data \in Data
  BY WorkerType DEF SyncInv, Workers, AppendConfirmed, AppendUnconfirmed
<1>2. CASE AppendConfirmed(w)
  <2>. DEFINE row == [worker[w] EXCEPT !.at = "start"]
  <2>1. worker' = [worker EXCEPT ![w] = row]
    BY <1>1, <1>2 DEF AppendConfirmed, Go, WorkerRow
  <2>2. answer' \in [Keys -> {"none", "synced", "sync_pending", "error"}] /\ answer' = answer
    BY <1>1, <1>2 DEF AppendConfirmed, LeadSyncTypeOK
  <2>. QED BY <1>1, <1>2, <2>1, <2>2, LandPreserves DEF AppendConfirmed
<1>3. CASE AppendUnconfirmed(w)
  <2>1. /\ Reply(w, "error") /\ UNCHANGED <<leads, applied, full>>
        /\ worker' = [worker EXCEPT ![w] = Idle]
        /\ answer' = [answer EXCEPT ![worker[w].key] = "error"]
    BY <1>3 DEF AppendUnconfirmed, Reply
  <2>2. /\ answer' \in [Keys -> {"none", "synced", "sync_pending", "error"}]
        /\ \A key \in Keys : answer'[key] \in {answer[key], "error"}
    BY <1>1, <2>1 DEF LeadSyncTypeOK
  <2>3. CASE Land(w) /\ UNCHANGED inflight
    BY <1>1, <2>1, <2>2, <2>3, LandPreserves
  <2>4. CASE UNCHANGED <<history, inflight>>
    <3>1. inflight' \subseteq [key: Keys, data: Data]
      BY <1>1, <2>4 DEF LeadSyncTypeOK
    <3>. QED BY <1>1, <2>1, <2>4, <3>1, ReplyPreserves
  <2>5. CASE /\ LateWrites
             /\ inflight' = inflight \cup {[key |-> worker[w].key, data |-> worker[w].data]}
             /\ UNCHANGED history
    <3>1. inflight' \subseteq [key: Keys, data: Data]
      BY <1>1, <2>5 DEF LeadSyncTypeOK
    <3>. QED BY <1>1, <2>1, <2>5, <3>1, ReplyPreserves
  <2>. QED BY <1>3, <2>3, <2>4, <2>5 DEF AppendUnconfirmed
<1>. QED BY <1>2, <1>3

(***************************************************************************)
(* The theorems.                                                           *)
(***************************************************************************)
LEMMA SyncInitInv == LeadSyncInit => SyncInv
<1>. SUFFICES ASSUME LeadSyncInit PROVE SyncInv
  OBVIOUS
<1>. DEFINE empty == [id \in Ids |-> <<>>]
<1>1. empty \in [Ids -> Seq(Rows)] /\ history = <<empty>>
  BY EmptySeq DEF LeadSyncInit
<1>. HIDE DEF empty
<1>2. history \in Seq([Ids -> Seq(Rows)]) /\ history # <<>> /\ Len(history) = 1 /\ history[1] = empty
  BY <1>1
<1>3. LeadSyncTypeOK
  BY <1>2 DEF LeadSyncInit, LeadSyncTypeOK, Idle
<1>4. \A w \in Workers : worker[w].at = "idle"
  BY DEF LeadSyncInit, Idle
<1>5. OneSyncs /\ ReadsForward /\ OneEnters /\ PassedMeansWritten
  BY <1>4 DEF OneSyncs, ReadsForward, OneEnters, PassedMeansWritten, Workers
<1>6. Mirrors /\ SavedMeansWritten
  BY DEF LeadSyncInit, Mirrors, SavedMeansWritten
<1>7. OneRow
  <2>1. \A key \in Keys : Sheet[key] = <<>>
    BY <1>2 DEF Sheet, empty, Ids
  <2>2. Len(<<>>) = 0 /\ DOMAIN <<>> = {}
    OBVIOUS
  <2>3. inflight = {} /\ \A w \in Entries : worker[w].at # "append"
    BY <1>4 DEF LeadSyncInit, Workers
  <2>. QED BY <2>1, <2>2, <2>3 DEF OneRow
<1>. QED BY <1>3, <1>5, <1>6, <1>7 DEF SyncInv

(* Every step of people, runs and entries keeps the invariant. *)
LEMMA SyncNextInv == SyncInv /\ [LeadSyncNext]_syncVars => SyncInv'
<1>. SUFFICES ASSUME SyncInv, [LeadSyncNext]_syncVars PROVE SyncInv'
  OBVIOUS
<1>1. ASSUME NEW id \in Ids, EditSheet(id) PROVE SyncInv'
  BY <1>1, EditPreserves
<1>2. ASSUME NEW append \in inflight, LandLate(append) PROVE SyncInv'
  BY <1>2, LatePreserves
<1>3. ASSUME NEW w \in Workers, SyncStep(w) \/ Crash(w) PROVE SyncInv'
  BY <1>3, SyncStepPreserves, ApplyPreserves, CrashPreserves DEF SyncStep
<1>4. ASSUME NEW w \in Entries, EntryStep(w) PROVE SyncInv'
  BY <1>4, EnterPreserves, LookupPreserves, AppendPreserves, ReportPreserves DEF EntryStep
<1>5. CASE UNCHANGED syncVars
  BY <1>5 DEF syncVars, SyncInv, LeadSyncTypeOK, OneSyncs, ReadsForward, OneEnters, Mirrors,
              PassedMeansWritten, OnSheet, SavedMeansWritten, OneRow, Sheet
<1>. QED BY <1>1, <1>2, <1>3, <1>4, <1>5 DEF LeadSyncNext

(* The inductive invariant of sheet, table and workers. *)
THEOREM SyncInvariant == LeadSyncSpec => []SyncInv
BY SyncInitInv, SyncNextInv, PTL DEF LeadSyncSpec

(* Every reachable state has its type. *)
THEOREM LeadSyncTypeCorrect == LeadSyncSpec => []LeadSyncTypeOK
<1>1. SyncInv => LeadSyncTypeOK
  BY DEF SyncInv
<1>. QED BY <1>1, SyncInvariant, PTL

(* One request key is one row, for any number of concurrent entries, as long as an
   append that was not confirmed does not come late. *)
THEOREM EntriesAreOneRow == LeadSyncSpec => []OneRowPerEntry
<1>1. SyncInv => OneRowPerEntry
  BY DEF SyncInv, OneRow, OneRowPerEntry
<1>. QED BY <1>1, SyncInvariant, PTL

(* What is reported as saved has been on the sheet, and what is reported as
   synchronized has been imported. *)
THEOREM SavedIsWritten == LeadSyncSpec => []SavedMeansWritten
<1>1. SyncInv => SavedMeansWritten
  BY DEF SyncInv
<1>. QED BY <1>1, SyncInvariant, PTL

(* What a step may withdraw: leads that a readable state lacked, no older than the
   one that was applied before. *)
WithdrawsForCause ==
  \A id \in Ids :
    leads[id] = "active" /\ leads'[id] = "inactive" =>
      \E v \in DOMAIN history : v >= applied /\ Lacks(history[v], id)

(* A lead that an import withdraws has no row in what it read, and nothing there was
   rejected. *)
LEMMA ApplyWithdrawsForCause ==
  ASSUME SyncInv, NEW w \in Workers, Apply(w)
  PROVE  WithdrawsForCause
<1>. DEFINE sheet == history[worker[w].version]
<1>1. worker[w].at = "apply" /\ leads' = After(sheet)
  BY DEF Apply
<1>2. /\ worker[w].version \in DOMAIN history /\ worker[w].version >= applied
      /\ sheet \in Sheets
  BY <1>1, SheetType DEF SyncInv, ReadsForward
<1>3. ASSUME NEW id \in Ids, leads[id] = "active", leads'[id] = "inactive"
      PROVE  Lacks(sheet, id)
  <2>1. id \notin Imported(sheet) /\ Rejected(sheet) = {}
    BY <1>1, <1>3 DEF After
  <2>2. RowsOf(sheet, id) \cap Data = {} /\ RowsOf(sheet, id) \cap {"bad", "hidden"} = {}
    BY <2>1 DEF Imported, Rejected
  <2>3. sheet[id] \in Seq(Rows)
    BY <1>2 DEF Sheets
  <2>4. \A i \in 1..Len(sheet[id]) : sheet[id][i] \in Rows /\ sheet[id][i] \in RowsOf(sheet, id)
    BY <2>3, ElementOfSeq, LenProperties DEF RowsOf
  <2>5. Len(sheet[id]) = 0
    BY <2>2, <2>3, <2>4, LenProperties DEF Rows
  <2>. QED BY <2>1, <2>3, <2>5, EmptySeq DEF Lacks
<1>. QED BY <1>2, <1>3 DEF WithdrawsForCause

(* The table mirrors one state of the sheet, however many synchronizations overlap,
   and withdraws leads for no other reason. *)
THEOREM TableMirrorsOneState == LeadSyncSpec => MirrorsOneState
<1>1. SyncInv => Mirrors
  BY DEF SyncInv
<1>2. SyncInv /\ [LeadSyncNext]_syncVars => [WithdrawsForCause]_syncVars
  <2>. SUFFICES ASSUME SyncInv, [LeadSyncNext]_syncVars
                PROVE  WithdrawsForCause
    OBVIOUS
  <2>1. ASSUME NEW w \in Workers, Apply(w) PROVE WithdrawsForCause
    BY <2>1, ApplyWithdrawsForCause
  <2>2. CASE UNCHANGED leads
    BY <2>2 DEF WithdrawsForCause
  <2>3. UNCHANGED leads \/ \E w \in Workers : Apply(w)
    BY DEF LeadSyncNext, SyncStep, EntryStep, EditSheet, LandLate, StartRun, TakeSyncLock, Fetch,
           AbortRun, Crash, Enter, Lookup, AppendConfirmed, AppendUnconfirmed, Report, syncVars
  <2>. QED BY <2>1, <2>2, <2>3
<1>. QED BY <1>1, <1>2, SyncInvariant, PTL DEF LeadSyncSpec, MirrorsOneState, WithdrawsForCause

(* No synchronization puts an older state of the sheet over a newer one. *)
THEOREM SyncNeverGoesBack == LeadSyncSpec => NeverGoesBack
<1>1. SyncInv /\ [LeadSyncNext]_syncVars => [applied' >= applied]_syncVars
  <2>. SUFFICES ASSUME SyncInv, [LeadSyncNext]_syncVars
                PROVE  applied' >= applied
    OBVIOUS
  <2>1. applied \in Nat
    BY SheetType DEF SyncInv, LeadSyncTypeOK
  <2>2. ASSUME NEW w \in Workers, Apply(w) PROVE applied' >= applied
    BY <2>2, ApplyPreserves
  <2>3. CASE UNCHANGED applied
    BY <2>1, <2>3
  <2>4. UNCHANGED applied \/ \E w \in Workers : Apply(w)
    BY DEF LeadSyncNext, EditSheet, LandLate, SyncStep, StartRun, TakeSyncLock, Fetch, AbortRun,
           EntryStep, Enter, Lookup, AppendConfirmed, AppendUnconfirmed, Report, Crash, syncVars
  <2>. QED BY <2>2, <2>3, <2>4
<1>. QED BY <1>1, SyncInvariant, PTL DEF LeadSyncSpec, NeverGoesBack
=============================================================================
