------------------------------ MODULE Database ------------------------------
(***************************************************************************)
(* Sessions on the SQLite file: db/session.py and the session dependencies *)
(* of api/dependencies/runtime.py.  A request takes a connection from the  *)
(* pool and runs one transaction: a write request (write_session) begins   *)
(* IMMEDIATE, a read request (a plain session) begins DEFERRED.  Between   *)
(* two statements of a transaction the others go on.                       *)
(*                                                                         *)
(* Everything that blocks runs on one of few threads.  A service that      *)
(* opens its own session is one call on one thread; a session that is a    *)
(* dependency of the route is entered by one call, used by the endpoint in *)
(* a second one, and the response is validated in a third: in between the  *)
(* request has its connection, and a write request the lock, but no thread.*)
(* Leaving such a session has a thread of its own.                         *)
(*                                                                         *)
(* A write request stands for any service that reads tables and writes     *)
(* back values computed from what it read (here: one more), each table in  *)
(* a statement of its own.  A read request reads several tables, like the  *)
(* dashboard.                                                              *)
(*                                                                         *)
(* SQLite in WAL mode is external: a transaction sees the store as it was  *)
(* at its first read (an IMMEDIATE one: at BEGIN); one connection may      *)
(* write at a time, the others wait for busy_timeout; a transaction whose  *)
(* snapshot is no longer the latest may not start to write at all.         *)
(***************************************************************************)
EXTENDS Integers, FiniteSets

CONSTANTS
  Tables,
  WriteRequests,
  ReadRequests,
  Injected,      \* requests whose session is a SessionDep or WriteSessionDep
  PoolSize,      \* connections of the engine's pool
  Threads,       \* threads for the framework's blocking calls
  NoRequest,
  NoValue        \* not read yet

Requests == WriteRequests \cup ReadRequests

ASSUME DatabaseAssumption ==
  /\ IsFiniteSet(Requests)
  /\ WriteRequests \cap ReadRequests = {}
  /\ NoRequest \notin Requests
  /\ NoValue \notin Nat
  /\ PoolSize \in Nat \ {0}
  /\ Threads \in Nat \ {0}

VARIABLES
  store,    \* the committed tables
  lock,     \* the request whose connection may write
  phase,    \* where each request is
  view,     \* the snapshot its transaction reads, once it has one
  result,   \* what it has read
  written   \* the tables it has written

dbVars == <<store, lock, phase, view, result, written>>

Phases == {"new", "connect", "begin", "yielded", "open", "committed", "refused", "failed"}
Ended == {"committed", "refused", "failed"}

Stores == [Tables -> Nat]
NoView == [t \in Tables |-> NoValue]

DatabaseTypeOK ==
  /\ store \in Stores
  /\ lock \in Requests \cup {NoRequest}
  /\ phase \in [Requests -> Phases]
  /\ view \in [Requests -> Stores \cup {NoView}]
  /\ result \in [Requests -> [Tables -> Nat \cup {NoValue}]]
  /\ written \in [Requests -> SUBSET Tables]

DatabaseInit ==
  /\ store = [t \in Tables |-> 0]
  /\ lock = NoRequest
  /\ phase = [r \in Requests |-> "new"]
  /\ view = [r \in Requests |-> NoView]
  /\ result = [r \in Requests |-> NoView]
  /\ written = [r \in Requests |-> {}]

Enter(r, p) == phase' = [phase EXCEPT ![r] = p]

-----------------------------------------------------------------------------
(* Threads and connections. *)
HasRead(r) == \A t \in Tables : result[r][t] # NoValue

Done(r) == HasRead(r) /\ (r \in WriteRequests => written[r] = Tables)

(* The calls under way: each keeps its thread while it waits. *)
InThread ==
  {r \in Requests : \/ phase[r] \in {"connect", "begin"}
                    \/ phase[r] = "open" /\ ~(r \in Injected /\ Done(r))}

ThreadFree == Cardinality(InThread) < Threads

(* A thread for the call that opens the session; for an injected write session,
   already begun, the thread of the endpoint. *)
TakeThread(r) ==
  /\ phase[r] \in {"new", "yielded"}
  /\ ThreadFree
  /\ Enter(r, IF phase[r] = "new" THEN "connect" ELSE "open")
  /\ UNCHANGED <<store, lock, view, result, written>>

(* The engine's pool; a request that finds it empty waits. *)
Connected == {r \in Requests : phase[r] \in {"begin", "yielded", "open"}}

Connect(r) ==
  /\ phase[r] = "connect"
  /\ Cardinality(Connected) < PoolSize
  /\ Enter(r, "begin")
  /\ UNCHANGED <<store, lock, view, result, written>>

(* Mutant: write_session leaves the mode at its default. *)
BeginModeDeferred(r) == "DEFERRED"

(* begin, with the execution option write_session sets before the first read *)
BeginMode(r) == IF r \in WriteRequests THEN "IMMEDIATE" ELSE "DEFERRED"

Begin(r) ==
  /\ phase[r] = "begin"
  /\ IF BeginMode(r) = "IMMEDIATE"
     THEN /\ lock = NoRequest
          /\ lock' = r
          /\ view' = [view EXCEPT ![r] = store]
     ELSE UNCHANGED <<lock, view>>
  /\ Enter(r, IF r \in Injected \cap WriteRequests THEN "yielded" ELSE "open")
  /\ UNCHANGED <<store, result, written>>

(* Mutant: sqlite3's legacy transaction control, a SELECT outside any transaction. *)
SnapshotPerStatement(r) == store

(* isolation_level = None leaves BEGIN to the listener: every SELECT of the
   session belongs to its transaction. *)
Snapshot(r) == IF view[r] = NoView THEN store ELSE view[r]

Read(r, t) ==
  /\ phase[r] = "open"
  /\ result[r][t] = NoValue
  /\ view' = [view EXCEPT ![r] = Snapshot(r)]
  /\ result' = [result EXCEPT ![r][t] = Snapshot(r)[t]]
  /\ UNCHANGED <<store, lock, phase, written>>

(* Mutant: without BEGIN every statement commits by itself. *)
WriteThrough(r, t) ==
  /\ phase[r] = "open" /\ r \in WriteRequests
  /\ HasRead(r)
  /\ t \notin written[r]
  /\ written' = [written EXCEPT ![r] = @ \cup {t}]
  /\ store' = [store EXCEPT ![t] = result[r][t] + 1]
  /\ UNCHANGED <<lock, phase, view, result>>

(* The first write of a DEFERRED transaction would have to take the lock. *)
MayWrite(r) == lock = r \/ (lock = NoRequest /\ view[r] = store)

Write(r, t) ==
  /\ phase[r] = "open" /\ r \in WriteRequests
  /\ HasRead(r)
  /\ t \notin written[r]
  /\ MayWrite(r)
  /\ lock' = r
  /\ written' = [written EXCEPT ![r] = @ \cup {t}]
  /\ UNCHANGED <<store, phase, view, result>>

Rollback(r) == lock' = IF lock = r THEN NoRequest ELSE lock

(* "database is locked": busy_timeout ran out on BEGIN IMMEDIATE or on the first
   write, or that write came too late for its snapshot. *)
Locked(r) ==
  IF phase[r] = "begin"
  THEN BeginMode(r) = "IMMEDIATE" /\ lock # NoRequest
  ELSE phase[r] = "open" /\ HasRead(r) /\ ~MayWrite(r)

Refused(r) ==
  /\ r \in WriteRequests
  /\ Locked(r)
  /\ Enter(r, "refused")
  /\ Rollback(r)
  /\ UNCHANGED <<store, view, result, written>>

(* write_session commits when its block is through; a read session just closes.
   An injected one does so once a thread has validated the response. *)
Commit(r) ==
  /\ phase[r] = "open"
  /\ Done(r)
  /\ r \in Injected => ThreadFree
  /\ store' = [t \in Tables |-> IF t \in written[r] THEN result[r][t] + 1 ELSE store[t]]
  /\ lock' = IF lock = r THEN NoRequest ELSE lock
  /\ Enter(r, "committed")
  /\ UNCHANGED <<view, result, written>>

(* The request's body, the service, the response or the commit is at fault: rollback. *)
Raise(r) ==
  /\ phase[r] \in {"yielded", "open"}
  /\ Rollback(r)
  /\ Enter(r, "failed")
  /\ UNCHANGED <<store, view, result, written>>

(* No free connection within the pool's timeout. *)
PoolTimeout(r) ==
  /\ phase[r] = "connect"
  /\ Cardinality(Connected) >= PoolSize
  /\ Enter(r, "refused")
  /\ UNCHANGED <<store, lock, view, result, written>>

(* The process dies; the next one to open the file discards what was not committed. *)
Crash ==
  /\ Connected # {}
  /\ phase' = [r \in Requests |-> IF phase[r] \in Ended THEN phase[r] ELSE "failed"]
  /\ lock' = NoRequest
  /\ UNCHANGED <<store, view, result, written>>

RequestStep(r) ==
  \/ TakeThread(r) \/ Connect(r) \/ Begin(r) \/ Commit(r)
  \/ \E t \in Tables : Read(r, t) \/ Write(r, t)

(* Mutant: the request tries again on the thread it has, whenever a wait runs out. *)
TimeoutTriesAgain(r) == phase[r] \in {"connect", "begin"} /\ UNCHANGED dbVars

(* The waits that have a limit. *)
Timeout(r) == Refused(r) \/ PoolTimeout(r)

DatabaseNext ==
  \/ \E r \in Requests : RequestStep(r) \/ Timeout(r) \/ Raise(r)
  \/ Crash

DatabaseSpec == DatabaseInit /\ [][DatabaseNext]_dbVars

(* A call that has its thread goes on, whoever waits for a thread gets one that
   stays free, and no wait for the lock or for a connection outlasts its limit. *)
FairDatabaseSpec ==
  /\ DatabaseSpec
  /\ \A r \in Requests : WF_dbVars(RequestStep(r)) /\ WF_dbVars(Timeout(r))

-----------------------------------------------------------------------------
(* A request never mixes two states of the store, though it reads the tables one
   by one while others commit: every committed state has written all tables
   equally often, and so do the values each request has read. *)
ReadsOneState ==
  \A r \in Requests : \A t, u \in Tables :
    result[r][t] # NoValue /\ result[r][u] # NoValue => result[r][t] = result[r][u]

(* A write request is refused for a lock before it has read anything: once it has
   begun, no other request can take its work away ("Acquire SQLite's write lock
   BEFORE eligibility reads", db/session.py:42). *)
RefusedBeforeReading ==
  \A w \in WriteRequests : phase[w] = "refused" => result[w] = NoView

Atomic == INSTANCE AtomicStore WITH
  committed <- {w \in WriteRequests : phase[w] = "committed"}

(* Transactions of many statements, failing and dying at any of them, change the
   store like single steps, none of them lost or half done. *)
TransactionsAreAtomic == Atomic!AtomicSpec

(* Nobody waits for ever.  The waits for the lock and for connections may take all
   threads, and then the writer they wait for gets none; the limits of those waits
   give the threads back, and every request ends. *)
EveryRequestEnds == \A r \in Requests : <>(phase[r] \in Ended)
=============================================================================
