------------------------------ MODULE LeadSync ------------------------------
(***************************************************************************)
(* The Google Sheet and the local lead table: lead_sync_service.py imports *)
(* snapshots of the sheet, lead_entry_service.py appends one lead to the   *)
(* sheet and then synchronizes.  People edit the sheet at any time.        *)
(*                                                                         *)
(* The sheet lists, per external_id, the rows that belong to it; a row is  *)
(* abstracted to what the parser and the identity check tell apart: which  *)
(* contact data it holds, whether a required field is unreadable ("bad"),  *)
(* whether its external_id is ("hidden").  history keeps every state the   *)
(* sheet has had, so that a snapshot is a position in it.                  *)
(*                                                                         *)
(* Two file locks, both with timeout 0, are read off the workers: one      *)
(* around a synchronization from fetch to commit, one around a whole lead  *)
(* entry.  A sync run is the worker's own; nothing reads older ones, which *)
(* a crash leaves RUNNING for good.                                        *)
(***************************************************************************)
EXTENDS Integers, Sequences, FiniteSets

CONSTANTS
  Keys,         \* ids of leads entered by the administrator, one per request key
  Upstream,     \* ids that only people put on the sheet
  Data,         \* contact data a row may hold
  Syncers,      \* manual synchronizations
  Daily,        \* the scheduled one
  Entries,      \* concurrent lead entries
  None,
  LateWrites,   \* whether an unconfirmed append may reach the sheet later
  MaxVersions   \* bound on the history, for people's edits

Ids == Keys \cup Upstream
Workers == Syncers \cup {Daily} \cup Entries
Rows == Data \cup {"bad", "hidden"}

ASSUME LeadSyncAssumption ==
  /\ Keys \cap Upstream = {}
  /\ Data \cap {"bad", "hidden"} = {}
  /\ Daily \notin Syncers /\ Entries \cap (Syncers \cup {Daily}) = {}
  /\ LateWrites \in BOOLEAN
  /\ MaxVersions \in Nat \ {0}

VARIABLES
  history,   \* the states of the sheet, the present one last
  leads,     \* the leads table: source_active per id
  applied,   \* which state the latest committed import read
  full,      \* whether that import had no rejected row
  worker,
  answer,    \* the latest response per request key
  inflight   \* appends sent, unconfirmed and not on the sheet yet

syncVars == <<history, leads, applied, full, worker, answer, inflight>>

Sheet == history[Len(history)]

Idle == [at |-> "idle", key |-> None, data |-> None, version |-> 0, run |-> "none"]

LeadSyncTypeOK ==
  /\ history \in Seq([Ids -> Seq(Rows)]) /\ history # <<>>
  /\ leads \in [Ids -> {"none", "active", "inactive"}]
  /\ applied \in 0..Len(history)
  /\ full \in BOOLEAN
  /\ worker \in [Workers ->
       [at: {"idle", "lookup", "append", "start", "run", "fetch", "apply", "report"},
        key: Keys \cup {None}, data: Data \cup {None}, version: 0..Len(history),
        run: {"none", "RUNNING", "SUCCESS", "PARTIAL", "ABORTED"}]]
  /\ answer \in [Keys -> {"none", "synced", "sync_pending", "error"}]
  /\ inflight \subseteq [key: Keys, data: Data]

LeadSyncInit ==
  /\ history = <<[id \in Ids |-> <<>>]>>
  /\ leads = [id \in Ids |-> "none"]
  /\ applied = 0
  /\ full = TRUE
  /\ worker = [w \in Workers |-> Idle]
  /\ answer = [k \in Keys |-> "none"]
  /\ inflight = {}

Go(w, at) == worker' = [worker EXCEPT ![w].at = at]

-----------------------------------------------------------------------------
(***************************************************************************)
(* The sheet.                                                              *)
(***************************************************************************)
Write(id, rows) == history' = Append(history, [Sheet EXCEPT ![id] = rows])

(* People may do anything to a row of their own but copy it; an entered lead they may
   remove, correct or make unreadable, all under its id. *)
EditSheet(id) ==
  /\ Len(history) < MaxVersions
  /\ IF id \in Upstream
     THEN \E rows \in {<<>>} \cup {<<row>> : row \in Rows} : rows # Sheet[id] /\ Write(id, rows)
     ELSE /\ Len(Sheet[id]) = 1
          /\ \E rows \in {<<>>} \cup {<<row>> : row \in Data \cup {"bad"}} :
               rows # Sheet[id] /\ Write(id, rows)
  /\ UNCHANGED <<leads, applied, full, worker, answer, inflight>>

(* An append whose answer was lost reaches the sheet after all. *)
LandLate(append) ==
  /\ Write(append.key, Sheet[append.key] \o <<append.data>>)
  /\ inflight' = inflight \ {append}
  /\ UNCHANGED <<leads, applied, full, worker, answer>>

-----------------------------------------------------------------------------
(***************************************************************************)
(* parse_rows.                                                             *)
(***************************************************************************)
RowsOf(sheet, id) == {sheet[id][i] : i \in DOMAIN sheet[id]}
Imported(sheet) == {id \in Ids : RowsOf(sheet, id) \cap Data # {}}
Rejected(sheet) == {id \in Ids : RowsOf(sheet, id) \cap {"bad", "hidden"} # {}}

(* An id read twice aborts the synchronization. *)
Duplicated(sheet) ==
  \E id \in Ids :
    Cardinality({i \in DOMAIN sheet[id] : sheet[id][i] # "hidden"}) > 1

(***************************************************************************)
(* LeadSyncService.sync, alone or at the end of a lead entry.              *)
(***************************************************************************)
(* Mutant: synchronizations overlap. *)
SyncLockIgnored == TRUE

SyncLockFree == \A w \in Workers : worker[w].at \notin {"fetch", "apply"}

(* The run is recorded first, whatever becomes of it. *)
StartRun(w) ==
  /\ \/ w \notin Entries /\ worker[w].at = "idle"
     \/ worker[w].at = "start"
  /\ worker' = [worker EXCEPT ![w].at = "run", ![w].run = "RUNNING"]
  /\ UNCHANGED <<history, leads, applied, full, answer, inflight>>

EndRun(w, status) ==
  worker' = [worker EXCEPT ![w] =
    IF w \in Entries THEN [@ EXCEPT !.at = "report", !.run = status, !.version = 0] ELSE Idle]

TakeSyncLock(w) ==
  /\ worker[w].at = "run"
  /\ IF SyncLockFree THEN Go(w, "fetch") ELSE EndRun(w, "ABORTED")
  /\ UNCHANGED <<history, leads, applied, full, answer, inflight>>

Fetch(w) ==
  /\ worker[w].at = "fetch"
  /\ worker' = [worker EXCEPT ![w].at = "apply", ![w].version = Len(history)]
  /\ UNCHANGED <<history, leads, applied, full, answer, inflight>>

(* Mutant: what the readable rows lack is withdrawn, whatever was rejected. *)
AfterTrustingTheRest(sheet) ==
  [id \in Ids |->
     IF id \in Imported(sheet) THEN "active"
     ELSE IF leads[id] = "active" THEN "inactive"
     ELSE leads[id]]

(* Mutant: a lead withdrawn once does not come back with its row. *)
AfterWithoutReactivation(sheet) ==
  [id \in Ids |->
     IF id \in Imported(sheet) /\ leads[id] = "none" THEN "active"
     ELSE IF leads[id] = "active" /\ id \notin Imported(sheet) /\ Rejected(sheet) = {}
          THEN "inactive"
     ELSE leads[id]]

(* What _apply leaves in the table: a rejected row may hide an id, so nothing
   is deactivated then. *)
After(sheet) ==
  [id \in Ids |->
     IF id \in Imported(sheet) THEN "active"
     ELSE IF leads[id] = "active" /\ Rejected(sheet) = {} THEN "inactive"
     ELSE leads[id]]

(* _apply and the run's result commit together. *)
Apply(w) ==
  LET sheet == history[worker[w].version]
  IN  /\ worker[w].at = "apply"
      /\ ~Duplicated(sheet)
      /\ leads' = After(sheet)
      /\ applied' = worker[w].version
      /\ full' = (Rejected(sheet) = {})
      /\ EndRun(w, IF Rejected(sheet) = {} THEN "SUCCESS" ELSE "PARTIAL")
      /\ UNCHANGED <<history, answer, inflight>>

(* Duplicates, a failed request or transaction: nothing of the run is kept. *)
AbortRun(w) ==
  /\ worker[w].at \in {"start", "run", "fetch", "apply"}
  /\ EndRun(w, "ABORTED")
  /\ UNCHANGED <<history, leads, applied, full, answer, inflight>>

-----------------------------------------------------------------------------
(***************************************************************************)
(* LeadEntryService.create and GoogleSheetsClient.append_lead.             *)
(***************************************************************************)
(* Mutant: entries overlap. *)
EntryLockIgnored == TRUE

EntryLockFree == \A w \in Entries : worker[w].at = "idle"

Enter(w, key, data) ==
  /\ EntryLockFree
  /\ worker' = [worker EXCEPT ![w] =
       [Idle EXCEPT !.at = "lookup", !.key = key, !.data = data]]
  /\ UNCHANGED <<history, leads, applied, full, answer, inflight>>

Reply(w, response) ==
  /\ worker' = [worker EXCEPT ![w] = Idle]
  /\ answer' = [answer EXCEPT ![worker[w].key] = response]

(* The rows with the request's id: none, the very row, or a conflict; or the
   sheet could not be read. *)
Lookup(w) ==
  LET rows == Sheet[worker[w].key]
      matches == {i \in DOMAIN rows : rows[i] # "hidden"}
  IN  /\ worker[w].at = "lookup"
      /\ \/ matches = {} /\ Go(w, "append") /\ UNCHANGED answer
         \/ /\ \E i \in DOMAIN rows : matches = {i} /\ rows[i] = worker[w].data
            /\ Go(w, "start") /\ UNCHANGED answer
         \/ Reply(w, "error")
      /\ UNCHANGED <<history, leads, applied, full, inflight>>

Land(w) == Write(worker[w].key, Sheet[worker[w].key] \o <<worker[w].data>>)

AppendConfirmed(w) ==
  /\ worker[w].at = "append"
  /\ Land(w)
  /\ Go(w, "start")
  /\ UNCHANGED <<leads, applied, full, answer, inflight>>

(* Mutant: a missing answer is taken for a written row. *)
AppendUnconfirmedAsSaved(w) ==
  /\ worker[w].at = "append"
  /\ Go(w, "start")
  /\ UNCHANGED <<history, leads, applied, full, answer, inflight>>

(* No usable answer: the row is there, is not, or may still come. *)
AppendUnconfirmed(w) ==
  /\ worker[w].at = "append"
  /\ Reply(w, "error")
  /\ \/ Land(w) /\ UNCHANGED inflight
     \/ UNCHANGED <<history, inflight>>
     \/ /\ LateWrites
        /\ inflight' = inflight \cup {[key |-> worker[w].key, data |-> worker[w].data]}
        /\ UNCHANGED history
  /\ UNCHANGED <<leads, applied, full>>

(* The row is on the sheet; whatever the sync did, or reading back the lead,
   only the status tells. *)
Report(w) ==
  /\ worker[w].at = "report"
  /\ \/ Reply(w, "sync_pending")
     \/ /\ worker[w].run = "SUCCESS" /\ leads[worker[w].key] = "active"
        /\ Reply(w, "synced")
  /\ UNCHANGED <<history, leads, applied, full, inflight>>

(* The process dies: its locks go with it, its run stays RUNNING. *)
Crash(w) ==
  /\ worker[w].at # "idle"
  /\ worker' = [worker EXCEPT ![w] = Idle]
  /\ UNCHANGED <<history, leads, applied, full, answer, inflight>>

-----------------------------------------------------------------------------
SyncStep(w) == StartRun(w) \/ TakeSyncLock(w) \/ Fetch(w) \/ Apply(w) \/ AbortRun(w)

EntryStep(w) ==
  \/ \E key \in Keys, data \in Data : Enter(w, key, data)
  \/ Lookup(w) \/ AppendConfirmed(w) \/ AppendUnconfirmed(w) \/ Report(w)

LeadSyncNext ==
  \/ \E id \in Ids : EditSheet(id)
  \/ \E append \in inflight : LandLate(append)
  \/ \E w \in Workers : SyncStep(w) \/ Crash(w)
  \/ \E w \in Entries : EntryStep(w)

LeadSyncSpec == LeadSyncInit /\ [][LeadSyncNext]_syncVars

(***************************************************************************)
(* Fairness: the daily job starts again and again (scheduler.py:63-71),    *)
(* a started worker goes on (every call has a timeout), and reading the    *)
(* sheet and committing do not fail every single time.                     *)
(***************************************************************************)
SyncFairness ==
  /\ WF_syncVars(StartRun(Daily))
  /\ \A w \in Workers : WF_syncVars(worker[w].at # "idle" /\ (SyncStep(w) \/ Crash(w)))
  /\ SF_syncVars(\E w \in Workers : TakeSyncLock(w) /\ SyncLockFree)
  /\ SF_syncVars(\E w \in Workers : Fetch(w))
  /\ SF_syncVars(\E w \in Workers : Apply(w))

FairLeadSyncSpec == LeadSyncSpec /\ SyncFairness

-----------------------------------------------------------------------------
(* One request key is one row: retries, crashes, lost answers and concurrent
   requests never put a lead on the sheet twice -- provided an append that was
   not confirmed is not applied later than the retry's lookup. *)
OneRowPerEntry ==
  ~LateWrites => \A key \in Keys : Len(Sheet[key]) <= 1

(* "sheet_written" is true: a lead reported as saved has been on the sheet, and
   one reported as synchronized has been imported. *)
SavedMeansWritten ==
  \A key \in Keys :
    /\ answer[key] \in {"synced", "sync_pending"}
         => \E v \in DOMAIN history : history[v][key] # <<>>
    /\ answer[key] = "synced" => leads[key] # "none"

(* After a clean import exactly the leads of the state it read are on sale; after an
   import with rejected rows at least those. *)
Mirrors ==
  applied # 0 =>
    LET onSale == {id \in Ids : leads[id] = "active"}
    IN  IF full THEN onSale = Imported(history[applied])
                ELSE Imported(history[applied]) \subseteq onSale

(* A state of the sheet that could be read in full and has no row of the lead. *)
Lacks(sheet, id) == sheet[id] = <<>> /\ Rejected(sheet) = {}

(* The inventory is that of ONE state of the sheet, and a lead is withdrawn only for
   such a state, no older than the one the inventory was taken from before: never
   because its row could not be read, or another row that might be its own. *)
MirrorsOneState ==
  /\ []Mirrors
  /\ [][\A id \in Ids :
          leads[id] = "active" /\ leads'[id] = "inactive" =>
            \E v \in DOMAIN history : v >= applied /\ Lacks(history[v], id)]_syncVars

(* Overlapping synchronizations never put an older state of the sheet over a
   newer one: a withdrawn lead does not come back. *)
NeverGoesBack == [][applied' >= applied]_syncVars

(* Once people leave the sheet alone and readable, the table comes to mirror
   it, whatever syncs failed, overlapped or died before. *)
EventuallyMirrors ==
  <>[](~Duplicated(Sheet) /\ Rejected(Sheet) = {} /\ inflight = {})
    => <>[]({id \in Ids : leads[id] = "active"} = Imported(Sheet))
=============================================================================
