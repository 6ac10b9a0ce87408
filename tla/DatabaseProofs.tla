--------------------------- MODULE DatabaseProofs ---------------------------
(***************************************************************************)
(* Theorems about sessions, for any number of requests, tables, threads    *)
(* and connections.                                                        *)
(***************************************************************************)
EXTENDS Database, TLAPS, FiniteSetTheorems

Uniform(f) == \A t, u \in Tables : f[t] = f[u]

Waiting == {"new", "connect", "begin"}
AtWork == {"yielded", "open"}

(* A write request at work has the lock, between its calls too, and what it sees is
   the latest store. *)
WritersSeeTheLatest ==
  /\ \A w \in WriteRequests : phase[w] \in AtWork => lock = w /\ view[w] = store
  /\ lock # NoRequest => lock \in WriteRequests /\ phase[lock] \in AtWork

(* What a request has read comes from its snapshot. *)
ReadFromView ==
  \A r \in Requests : \A t \in Tables :
    result[r][t] # NoValue => result[r][t] = view[r][t]

NothingReadBefore ==
  \A r \in Requests :
    phase[r] \in Waiting \/ (r \in WriteRequests /\ phase[r] = "refused")
      => view[r] = NoView /\ result[r] = NoView

ReadersWriteNothing == \A r \in ReadRequests : written[r] = {}

DbInv ==
  /\ DatabaseTypeOK
  /\ Uniform(store)
  /\ \A r \in Requests : Uniform(view[r])
  /\ WritersSeeTheLatest
  /\ ReadFromView
  /\ NothingReadBefore
  /\ ReadersWriteNothing

(* A view that holds a value is a whole snapshot. *)
LEMMA SnapshotIsStore ==
  ASSUME DbInv, NEW r \in Requests
  PROVE  Snapshot(r) \in Stores /\ Uniform(Snapshot(r))
BY DEF DbInv, DatabaseTypeOK, Snapshot

(* The writer that commits has read the latest store in full. *)
LEMMA CommittedFromLatest ==
  ASSUME DbInv, NEW w \in WriteRequests, Commit(w)
  PROVE  store' = [t \in Tables |-> store[t] + 1]
<1>1. phase[w] = "open" /\ HasRead(w) /\ written[w] = Tables /\ w \in Requests
  BY DEF Commit, Done, Requests
<1>2. view[w] = store
  BY <1>1 DEF DbInv, WritersSeeTheLatest, AtWork
<1>3. \A t \in Tables : result[w][t] = store[t]
  BY <1>1, <1>2 DEF DbInv, ReadFromView, HasRead
<1>4. store' = [t \in Tables |-> IF t \in written[w] THEN result[w][t] + 1 ELSE store[t]]
  BY DEF Commit
<1>. QED BY <1>1, <1>3, <1>4

(* Closing a read session leaves the store alone. *)
LEMMA ReaderChangesNothing ==
  ASSUME DbInv, NEW r \in ReadRequests, Commit(r)
  PROVE  store' = store
<1>1. written[r] = {}
  BY DEF DbInv, ReadersWriteNothing
<1>2. store' = [t \in Tables |-> store[t]]
  BY <1>1 DEF Commit
<1>3. store = [t \in Tables |-> store[t]]
  BY DEF DbInv, DatabaseTypeOK, Stores
<1>. QED BY <1>2, <1>3

(* Nobody has begun in the initial state. *)
LEMMA DbInitInv == DatabaseInit => DbInv
<1>. SUFFICES ASSUME DatabaseInit PROVE DbInv
  OBVIOUS
<1>1. DatabaseTypeOK
  BY DEF DatabaseInit, DatabaseTypeOK, Stores, NoView, Phases
<1>2. Uniform(store) /\ \A r \in Requests : Uniform(view[r])
  BY DEF DatabaseInit, Uniform, NoView
<1>3. WritersSeeTheLatest /\ ReadFromView /\ NothingReadBefore /\ ReadersWriteNothing
  BY DEF DatabaseInit, WritersSeeTheLatest, ReadFromView, NothingReadBefore,
         ReadersWriteNothing, Requests, NoView, AtWork
<1>. QED BY <1>1, <1>2, <1>3 DEF DbInv

(* Steps that only move requests along, none of them into its transaction. *)
LEMMA MoveOn ==
  ASSUME DbInv, UNCHANGED <<store, view, result, written>>,
         phase' \in [Requests -> Phases], lock' \in Requests \cup {NoRequest},
         \A r \in Requests :
           phase'[r] \in AtWork => phase[r] \in AtWork /\ (lock = r => lock' = r),
         \A r \in Requests :
           phase'[r] \in Waiting \/ (r \in WriteRequests /\ phase'[r] = "refused")
             => \/ phase[r] \in Waiting
                \/ r \in WriteRequests /\ phase[r] = "refused",
         lock' # NoRequest => lock' = lock /\ phase'[lock] \in AtWork
  PROVE  DbInv'
<1>1. DatabaseTypeOK'
  BY DEF DbInv, DatabaseTypeOK
<1>2. WritersSeeTheLatest'
  BY DEF DbInv, WritersSeeTheLatest, Requests
<1>3. ReadFromView' /\ NothingReadBefore' /\ ReadersWriteNothing'
  BY DEF DbInv, ReadFromView, NothingReadBefore, ReadersWriteNothing
<1>4. Uniform(store)' /\ \A r \in Requests : Uniform(view[r])'
  BY DEF DbInv, Uniform
<1>. QED BY <1>1, <1>2, <1>3, <1>4 DEF DbInv

(* One request moves on and gives the lock back if it had it. *)
LEMMA MoveOne ==
  ASSUME DbInv, NEW r \in Requests, NEW p \in Phases \ AtWork,
         p \in Waiting \cup {"refused"} => phase[r] \in Waiting,
         Enter(r, p), Rollback(r), UNCHANGED <<store, view, result, written>>
  PROVE  DbInv'
<1>1. /\ phase \in [Requests -> Phases] /\ phase' = [phase EXCEPT ![r] = p]
      /\ lock \in Requests \cup {NoRequest}
  BY DEF DbInv, DatabaseTypeOK, Enter
<1>2. phase' \in [Requests -> Phases]
  BY <1>1
<1>3. lock' = IF lock = r THEN NoRequest ELSE lock
  BY DEF Rollback
<1>4. \A q \in Requests :
        phase'[q] \in AtWork => phase[q] \in AtWork /\ (lock = q => lock' = q)
  BY <1>1, <1>3
<1>5. \A q \in Requests :
        phase'[q] \in Waiting \/ (q \in WriteRequests /\ phase'[q] = "refused")
          => \/ phase[q] \in Waiting
             \/ q \in WriteRequests /\ phase[q] = "refused"
  BY <1>1
<1>6. lock' # NoRequest => lock' = lock /\ phase'[lock] \in AtWork
  BY <1>1, <1>3 DEF DbInv, WritersSeeTheLatest
<1>. QED BY <1>1, <1>2, <1>3, <1>4, <1>5, <1>6, MoveOn

(* The lock belongs to a request at work. *)
LEMMA NoLockBeforeWork ==
  ASSUME DbInv, NEW r \in Requests, phase[r] \notin AtWork, UNCHANGED lock
  PROVE  Rollback(r)
BY DatabaseAssumption DEF DbInv, WritersSeeTheLatest, Rollback

(* A request is refused while it waits to begin, without the lock. *)
LEMMA RefusedWaits ==
  ASSUME DbInv, NEW r \in Requests, Refused(r)
  PROVE  phase[r] = "begin" /\ lock # r
<1>1. r \in WriteRequests /\ Locked(r)
  BY DEF Refused
<1>2. phase[r] # "open"
  BY <1>1 DEF Locked, MayWrite, DbInv, WritersSeeTheLatest, AtWork
<1>3. lock # r
  BY <1>1, <1>2, DatabaseAssumption DEF Locked, DbInv, WritersSeeTheLatest, AtWork
<1>. QED BY <1>1, <1>2, <1>3 DEF Locked

(* No statement, refusal or crash breaks the invariant. *)
LEMMA DbNextInv == DbInv /\ [DatabaseNext]_dbVars => DbInv'
<1>. SUFFICES ASSUME DbInv, [DatabaseNext]_dbVars PROVE DbInv'
  OBVIOUS
<1>1. ASSUME NEW r \in Requests, Connect(r) PROVE DbInv'
  BY <1>1, MoveOne, NoLockBeforeWork DEF Connect, Phases, Waiting, AtWork
<1>11. ASSUME NEW r \in Requests, TakeThread(r) PROVE DbInv'
  <2>1. CASE phase[r] = "new"
    <3>1. Enter(r, "connect") /\ UNCHANGED <<store, lock, view, result, written>>
      BY <1>11, <2>1 DEF TakeThread
    <3>. QED BY <2>1, <3>1, MoveOne, NoLockBeforeWork DEF Phases, Waiting, AtWork
  <2>2. CASE phase[r] = "yielded"
    <3>1. /\ phase' = [phase EXCEPT ![r] = "open"] /\ phase \in [Requests -> Phases]
          /\ lock \in Requests \cup {NoRequest}
          /\ UNCHANGED <<store, lock, view, result, written>>
      BY <1>11, <2>2 DEF TakeThread, Enter, DbInv, DatabaseTypeOK
    <3>2. phase' \in [Requests -> Phases]
      BY <3>1 DEF Phases
    <3>3. \A q \in Requests : phase'[q] = phase[q] \/ {phase[q], phase'[q]} = AtWork
      BY <2>2, <3>1 DEF AtWork
    <3>4. lock # NoRequest => lock \in WriteRequests /\ phase[lock] \in AtWork
      BY DEF DbInv, WritersSeeTheLatest
    <3>5. /\ \A q \in Requests : phase'[q] \in AtWork => phase[q] \in AtWork
          /\ \A q \in Requests : phase'[q] \in Waiting \cup {"refused"} => phase'[q] = phase[q]
          /\ lock # NoRequest => phase'[lock] \in AtWork
      BY <3>3, <3>4 DEF AtWork, Waiting, Requests
    <3>. QED BY <3>1, <3>2, <3>5, MoveOn
  <2>. QED BY <1>11, <2>1, <2>2 DEF TakeThread
<1>2. ASSUME NEW r \in Requests, Begin(r) PROVE DbInv'
  <2>1. CASE r \in WriteRequests
    <3>1. /\ lock = NoRequest /\ lock' = r
          /\ view' = [view EXCEPT ![r] = store]
          /\ phase[r] = "begin"
          /\ phase' = [phase EXCEPT ![r] = IF r \in Injected THEN "yielded" ELSE "open"]
          /\ UNCHANGED <<store, result, written>>
      BY <1>2, <2>1 DEF Begin, BeginMode, Enter
    <3>2. DatabaseTypeOK'
      BY <3>1 DEF DbInv, DatabaseTypeOK, Phases
    <3>7. \A w \in WriteRequests : phase[w] \notin AtWork
      BY <3>1, DatabaseAssumption DEF DbInv, WritersSeeTheLatest, Requests
    <3>8. /\ phase'[r] \in AtWork /\ view'[r] = store
          /\ \A q \in Requests \ {r} : phase'[q] = phase[q]
      BY <3>1 DEF DbInv, DatabaseTypeOK, AtWork
    <3>3. WritersSeeTheLatest'
      BY <3>1, <3>7, <3>8, <2>1 DEF WritersSeeTheLatest, Requests
    <3>4. result[r] = NoView
      BY <3>1 DEF DbInv, NothingReadBefore, Waiting
    <3>5. ReadFromView' /\ NothingReadBefore' /\ ReadersWriteNothing'
      BY <3>1, <3>4 DEF DbInv, ReadFromView, NothingReadBefore, ReadersWriteNothing,
                        DatabaseTypeOK, NoView, Waiting
    <3>6. Uniform(store)' /\ \A q \in Requests : Uniform(view[q])'
      BY <3>1 DEF DbInv, Uniform, DatabaseTypeOK
    <3>. QED BY <3>2, <3>3, <3>5, <3>6 DEF DbInv
  <2>2. CASE r \notin WriteRequests
    <3>1. /\ phase' = [phase EXCEPT ![r] = "open"]
          /\ phase[r] = "begin"
          /\ UNCHANGED <<store, lock, view, result, written>>
      BY <1>2, <2>2 DEF Begin, BeginMode, Enter
    <3>2. DatabaseTypeOK'
      BY <3>1 DEF DbInv, DatabaseTypeOK, Phases
    <3>3. WritersSeeTheLatest'
      BY <3>1, <2>2 DEF DbInv, WritersSeeTheLatest, DatabaseTypeOK, Requests
    <3>4. ReadFromView' /\ NothingReadBefore' /\ ReadersWriteNothing'
      BY <3>1 DEF DbInv, ReadFromView, NothingReadBefore, ReadersWriteNothing, DatabaseTypeOK,
                  Waiting
    <3>5. Uniform(store)' /\ \A q \in Requests : Uniform(view[q])'
      BY <3>1 DEF DbInv, Uniform
    <3>. QED BY <3>2, <3>3, <3>4, <3>5 DEF DbInv
  <2>. QED BY <2>1, <2>2
<1>3. ASSUME NEW r \in Requests, NEW t \in Tables, Read(r, t) PROVE DbInv'
  <2>1. /\ phase[r] = "open"
        /\ view' = [view EXCEPT ![r] = Snapshot(r)]
        /\ result' = [result EXCEPT ![r][t] = Snapshot(r)[t]]
        /\ UNCHANGED <<store, lock, phase, written>>
    BY <1>3 DEF Read
  <2>2. Snapshot(r) \in Stores /\ Uniform(Snapshot(r))
    BY SnapshotIsStore
  <2>3. r \in WriteRequests => Snapshot(r) = store
    BY <2>1 DEF DbInv, WritersSeeTheLatest, Snapshot, AtWork
  <2>4. DatabaseTypeOK'
    BY <2>1, <2>2 DEF DbInv, DatabaseTypeOK, Stores
  <2>5. WritersSeeTheLatest'
    BY <2>1, <2>3 DEF DbInv, WritersSeeTheLatest, DatabaseTypeOK, Requests
  <2>6. ReadFromView'
    <3>1. \A u \in Tables : result[r][u] # NoValue => result[r][u] = Snapshot(r)[u]
      BY DEF DbInv, ReadFromView, Snapshot, NoView
    <3>. QED BY <2>1, <3>1 DEF DbInv, ReadFromView, DatabaseTypeOK
  <2>7. NothingReadBefore' /\ ReadersWriteNothing'
    BY <2>1 DEF DbInv, NothingReadBefore, ReadersWriteNothing, DatabaseTypeOK, Waiting
  <2>8. Uniform(store)' /\ \A q \in Requests : Uniform(view[q])'
    BY <2>1, <2>2 DEF DbInv, Uniform, DatabaseTypeOK
  <2>. QED BY <2>4, <2>5, <2>6, <2>7, <2>8 DEF DbInv
<1>4. ASSUME NEW r \in Requests, NEW t \in Tables, Write(r, t) PROVE DbInv'
  <2>1. /\ r \in WriteRequests /\ phase[r] = "open"
        /\ lock' = r
        /\ written' = [written EXCEPT ![r] = @ \cup {t}]
        /\ UNCHANGED <<store, phase, view, result>>
    BY <1>4 DEF Write
  <2>2. lock' = lock
    BY <2>1 DEF DbInv, WritersSeeTheLatest, AtWork
  <2>3. DatabaseTypeOK'
    BY <2>1, <2>2 DEF DbInv, DatabaseTypeOK
  <2>4. ReadersWriteNothing'
    BY <2>1, DatabaseAssumption DEF DbInv, ReadersWriteNothing, DatabaseTypeOK, Requests
  <2>. QED BY <2>1, <2>2, <2>3, <2>4
           DEF DbInv, WritersSeeTheLatest, ReadFromView, NothingReadBefore, Uniform
<1>5. ASSUME NEW r \in Requests, Commit(r) PROVE DbInv'
  <2>1. /\ phase[r] = "open" /\ phase' = [phase EXCEPT ![r] = "committed"]
        /\ lock' = IF lock = r THEN NoRequest ELSE lock
        /\ UNCHANGED <<view, result, written>>
    BY <1>5 DEF Commit, Enter
  <2>2. store' = store \/ store' = [t \in Tables |-> store[t] + 1]
    BY <1>5, CommittedFromLatest, ReaderChangesNothing DEF Requests
  <2>3. store' \in Stores /\ Uniform(store)'
    BY <2>2 DEF DbInv, DatabaseTypeOK, Stores, Uniform
  <2>4. DatabaseTypeOK'
    BY <2>1, <2>3 DEF DbInv, DatabaseTypeOK, Phases
  <2>5. WritersSeeTheLatest'
    <3>1. CASE r \in WriteRequests
      BY <3>1, <2>1 DEF DbInv, WritersSeeTheLatest, DatabaseTypeOK, Requests, AtWork
    <3>2. CASE r \in ReadRequests
      <4>1. store' = store
        BY <3>2, <1>5, ReaderChangesNothing
      <4>2. lock' = lock
        BY <3>2, <2>1, DatabaseAssumption DEF DbInv, WritersSeeTheLatest
      <4>. QED BY <3>2, <4>1, <4>2, <2>1, DatabaseAssumption
               DEF DbInv, WritersSeeTheLatest, DatabaseTypeOK, Requests, AtWork
    <3>. QED BY <3>1, <3>2 DEF Requests
  <2>6. ReadFromView' /\ NothingReadBefore' /\ ReadersWriteNothing'
    BY <2>1 DEF DbInv, ReadFromView, NothingReadBefore, ReadersWriteNothing, DatabaseTypeOK,
                Waiting
  <2>7. \A q \in Requests : Uniform(view[q])'
    BY <2>1 DEF DbInv, Uniform
  <2>. QED BY <2>3, <2>4, <2>5, <2>6, <2>7 DEF DbInv
<1>6. ASSUME NEW r \in Requests, Refused(r) PROVE DbInv'
  <2>1. phase[r] = "begin" /\ lock # r
    BY <1>6, RefusedWaits
  <2>. QED BY <1>6, <2>1, MoveOne DEF Refused, Phases, Waiting, AtWork
<1>7. ASSUME NEW r \in Requests, Raise(r) PROVE DbInv'
  BY <1>7, MoveOne DEF Raise, Phases, Waiting, AtWork
<1>8. ASSUME NEW r \in Requests, PoolTimeout(r) PROVE DbInv'
  BY <1>8, MoveOne, NoLockBeforeWork DEF PoolTimeout, Phases, Waiting, AtWork
<1>9. CASE Crash
  <2>1. /\ UNCHANGED <<store, view, result, written>> /\ lock' = NoRequest
        /\ phase' = [r \in Requests |-> IF phase[r] \in Ended THEN phase[r] ELSE "failed"]
        /\ phase \in [Requests -> Phases]
    BY <1>9 DEF Crash, DbInv, DatabaseTypeOK
  <2>2. phase' \in [Requests -> Phases]
    BY <2>1 DEF Phases
  <2>3. \A r \in Requests : (phase'[r] = phase[r] /\ phase[r] \in Ended) \/ phase'[r] = "failed"
    BY <2>1
  <2>4. \A r \in Requests : phase'[r] \notin Waiting \cup AtWork
    BY <2>3 DEF Ended, Waiting, AtWork
  <2>. QED BY <2>1, <2>2, <2>3, <2>4, MoveOn
<1>10. CASE UNCHANGED dbVars
  BY <1>10 DEF dbVars, DbInv, DatabaseTypeOK, WritersSeeTheLatest, ReadFromView,
               NothingReadBefore, ReadersWriteNothing, Uniform
<1>. QED
  BY <1>1, <1>11, <1>2, <1>3, <1>4, <1>5, <1>6, <1>7, <1>8, <1>9, <1>10
     DEF DatabaseNext, RequestStep, Timeout

(* The inductive invariant of all transactions together. *)
THEOREM DatabaseInvariant == DatabaseSpec => []DbInv
BY DbInitInv, DbNextInv, PTL DEF DatabaseSpec

(* No request mixes two states of the store, however many others commit. *)
THEOREM RequestsReadOneState == DatabaseSpec => []ReadsOneState
<1>1. DbInv => ReadsOneState
  BY DEF DbInv, ReadFromView, Uniform, ReadsOneState
<1>. QED BY <1>1, DatabaseInvariant, PTL

(* No write request loses work it has begun to a lock. *)
THEOREM WritersRefusedBeforeReading == DatabaseSpec => []RefusedBeforeReading
<1>1. DbInv => RefusedBeforeReading
  BY DEF DbInv, NothingReadBefore, RefusedBeforeReading, Requests
<1>. QED BY <1>1, DatabaseInvariant, PTL

CommittedWriters == {w \in WriteRequests : phase[w] = "committed"}

(* Only a commit of a write request is visible in the atomic store. *)
LEMMA NextIsAtomic ==
  DbInv /\ [DatabaseNext]_dbVars => [Atomic!AtomicNext]_(Atomic!atomicVars)
<1>. SUFFICES ASSUME DbInv, [DatabaseNext]_dbVars
              PROVE  Atomic!AtomicNext \/ UNCHANGED Atomic!atomicVars
  OBVIOUS
<1>1. ASSUME NEW w \in WriteRequests, Commit(w)
      PROVE  Atomic!Apply(w)
  <2>1. store' = [t \in Tables |-> store[t] + 1]
    BY <1>1, CommittedFromLatest
  <2>2. phase[w] = "open" /\ phase' = [phase EXCEPT ![w] = "committed"]
    BY <1>1 DEF Commit, Enter
  <2>3. CommittedWriters' = CommittedWriters \cup {w}
    BY <2>2 DEF CommittedWriters, DbInv, DatabaseTypeOK, Requests
  <2>. QED BY <2>1, <2>2, <2>3 DEF Atomic!Apply, CommittedWriters
<1>2. ASSUME NEW r \in ReadRequests, Commit(r)
      PROVE  UNCHANGED Atomic!atomicVars
  <2>1. store' = store
    BY <1>2, ReaderChangesNothing
  <2>2. phase' = [phase EXCEPT ![r] = "committed"] /\ r \notin WriteRequests
    BY <1>2, DatabaseAssumption DEF Commit, Enter
  <2>. QED BY <2>1, <2>2 DEF Atomic!atomicVars, DbInv, DatabaseTypeOK, Requests
<1>3. ASSUME UNCHANGED store,
             \A w \in WriteRequests : phase'[w] = "committed" <=> phase[w] = "committed"
      PROVE  UNCHANGED Atomic!atomicVars
  BY <1>3 DEF Atomic!atomicVars
<1>4. ASSUME NEW r \in Requests, NEW p \in Phases \ {"committed"},
             phase[r] # "committed", Enter(r, p), UNCHANGED store
      PROVE  UNCHANGED Atomic!atomicVars
  BY <1>3, <1>4 DEF Enter, DbInv, DatabaseTypeOK, Requests
<1>5. ASSUME NEW r \in Requests,
             TakeThread(r) \/ Connect(r) \/ Begin(r) \/ Raise(r) \/ PoolTimeout(r)
      PROVE  UNCHANGED Atomic!atomicVars
  BY <1>4, <1>5 DEF TakeThread, Connect, Begin, Raise, PoolTimeout, Phases
<1>6. ASSUME NEW r \in Requests, Refused(r)
      PROVE  UNCHANGED Atomic!atomicVars
  BY <1>4, <1>6, RefusedWaits DEF Refused, Phases
<1>7. ASSUME NEW r \in Requests, NEW t \in Tables, Read(r, t) \/ Write(r, t)
      PROVE  UNCHANGED Atomic!atomicVars
  BY <1>3, <1>7 DEF Read, Write
<1>8. CASE Crash
  BY <1>3, <1>8 DEF Crash, Ended, Requests
<1>9. CASE UNCHANGED dbVars
  BY <1>3, <1>9 DEF dbVars
<1>. QED
  BY <1>1, <1>2, <1>5, <1>6, <1>7, <1>8, <1>9
     DEF DatabaseNext, RequestStep, Timeout, Requests, Atomic!AtomicNext

(* Transactions of many statements implement single steps on the store. *)
THEOREM TransactionsImplementAtomicStore == DatabaseSpec => TransactionsAreAtomic
<1>1. DatabaseInit => Atomic!AtomicInit
  BY DEF DatabaseInit, Atomic!AtomicInit, Requests
<1>. QED BY <1>1, DatabaseInvariant, NextIsAtomic, PTL
         DEF DatabaseSpec, TransactionsAreAtomic, Atomic!AtomicSpec

(* Finitely many writers have committed, and each is counted in every table. *)
Counted ==
  /\ IsFiniteSet(CommittedWriters)
  /\ \A t \in Tables : store[t] = Cardinality(CommittedWriters)

(* One more commit raises every table and the number of commits by one. *)
LEMMA ApplyCountsOnce ==
  ASSUME NEW w \in WriteRequests, Atomic!Apply(w), Counted
  PROVE  Counted'
<1>1. /\ w \notin CommittedWriters
      /\ store' = [t \in Tables |-> store[t] + 1]
      /\ CommittedWriters' = CommittedWriters \cup {w}
  BY DEF Atomic!Apply, CommittedWriters
<1>2. /\ IsFiniteSet(CommittedWriters')
      /\ Cardinality(CommittedWriters') = Cardinality(CommittedWriters) + 1
  BY <1>1, FS_AddElement DEF Counted
<1>. QED BY <1>1, <1>2 DEF Counted

(* Whatever fails, dies or is refused: each write request that reports success has
   changed every table once, on top of all that reported success before. *)
THEOREM NoUpdateIsLost == DatabaseSpec => []Atomic!NothingLost
<1>1. Atomic!AtomicInit => Counted
  BY FS_EmptySet DEF Atomic!AtomicInit, Counted, CommittedWriters
<1>2. Counted /\ [Atomic!AtomicNext]_(Atomic!atomicVars) => Counted'
  <2>1. ASSUME Counted, Atomic!AtomicNext
        PROVE  Counted'
    BY <2>1, ApplyCountsOnce DEF Atomic!AtomicNext
  <2>2. ASSUME Counted, UNCHANGED Atomic!atomicVars
        PROVE  Counted'
    BY <2>2 DEF Atomic!atomicVars, Counted, CommittedWriters
  <2>. QED BY <2>1, <2>2
<1>3. Counted => Atomic!NothingLost
  <2>1. \A S : Atomic!Cardinality(S) = Cardinality(S)
    BY DEF Atomic!Cardinality, Cardinality, Atomic!IsFiniteSet, IsFiniteSet
  <2>. QED BY <2>1 DEF Counted, Atomic!NothingLost, CommittedWriters
<1>. QED BY <1>1, <1>2, <1>3, TransactionsImplementAtomicStore, PTL
         DEF TransactionsAreAtomic, Atomic!AtomicSpec

(***************************************************************************)
(* Waiting for threads, for connections and for the lock.                  *)
(***************************************************************************)
(* Nothing keeps a request from its next statement: the guards of RequestStep. *)
MayProceed(r) ==
  \/ phase[r] \in {"new", "yielded"} /\ ThreadFree
  \/ phase[r] = "connect" /\ Cardinality(Connected) < PoolSize
  \/ phase[r] = "begin" /\ (BeginMode(r) = "IMMEDIATE" => lock = NoRequest)
  \/ /\ phase[r] = "open"
     /\ \/ ~HasRead(r)
        \/ r \in WriteRequests /\ written[r] # Tables /\ MayWrite(r)
        \/ Done(r) /\ (r \in Injected => ThreadFree)

(* It waits on its thread for a connection or for the lock, and its wait has a limit. *)
WaitsWithLimit(r) ==
  \/ phase[r] = "connect" /\ Cardinality(Connected) >= PoolSize
  \/ r \in WriteRequests /\ phase[r] = "begin" /\ Locked(r)

(* While anybody has not ended, somebody may go on; or else every thread there is
   belongs to a wait with a limit. *)
NobodyIsStuck ==
  (\E r \in Requests : phase[r] \notin Ended) =>
    \/ \E r \in Requests : MayProceed(r)
    \/ /\ Cardinality(InThread) >= Threads
       /\ \A r \in InThread : WaitsWithLimit(r)

(* A request that is in a call after its BEGIN never waits within it. *)
LEMMA CallsGoOn ==
  ASSUME DbInv, NEW r \in Requests, phase[r] = "open",
         ThreadFree \/ r \in InThread
  PROVE  MayProceed(r)
<1>1. r \in WriteRequests => MayWrite(r)
  BY DEF DbInv, WritersSeeTheLatest, MayWrite, AtWork
<1>. QED BY <1>1 DEF MayProceed, InThread, Done

(* While a thread is free somebody may go on: the lock's owner, or else anybody. *)
LEMMA FreeThreadsAreUsed ==
  ASSUME DbInv, ThreadFree, NEW r \in Requests, phase[r] \notin Ended
  PROVE  \E q \in Requests : MayProceed(q)
<1>1. CASE \E q \in Requests : phase[q] \in {"new", "yielded", "open"}
  BY <1>1, CallsGoOn DEF MayProceed
<1>2. CASE \A q \in Requests : phase[q] \notin {"new", "yielded", "open"}
  <2>1. lock = NoRequest
    BY <1>2 DEF DbInv, WritersSeeTheLatest, AtWork, Requests
  <2>2. CASE \E q \in Requests : phase[q] = "begin"
    BY <2>1, <2>2 DEF MayProceed
  <2>3. CASE \A q \in Requests : phase[q] # "begin"
    <3>1. Connected = {}
      BY <1>2, <2>3 DEF Connected
    <3>2. Cardinality(Connected) < PoolSize
      BY <3>1, FS_EmptySet, DatabaseAssumption
    <3>3. phase[r] = "connect"
      BY <1>2, <2>3 DEF DbInv, DatabaseTypeOK, Phases, Ended
    <3>. QED BY <3>2, <3>3 DEF MayProceed
  <2>. QED BY <2>2, <2>3
<1>. QED BY <1>1, <1>2

(* Finitely many requests hold finitely many threads and connections. *)
LEMMA HeldAreCounted ==
  Cardinality(InThread) \in Nat /\ Cardinality(Connected) \in Nat
<1>1. InThread \subseteq Requests /\ Connected \subseteq Requests
  BY DEF InThread, Connected
<1>2. IsFiniteSet(InThread) /\ IsFiniteSet(Connected)
  BY <1>1, FS_Subset, DatabaseAssumption
<1>. QED BY <1>2, FS_CardinalityType

(* Threads, connections and the lock are waited for in circles: the waits for a
   connection or for the lock may take every thread and keep the writer they wait
   for out.  But nothing else ever stands still, and those waits have limits: the
   safety property that EveryRequestEnds rests on. *)
THEOREM OnlyLimitedWaitsBlock == DatabaseSpec => []NobodyIsStuck
<1>1. DbInv => NobodyIsStuck
  <2>. SUFFICES ASSUME DbInv, \A q \in Requests : ~MayProceed(q),
                       NEW r \in Requests, phase[r] \notin Ended
                PROVE  /\ Cardinality(InThread) >= Threads
                       /\ \A q \in InThread : WaitsWithLimit(q)
    BY DEF NobodyIsStuck
  <2>1. ~ThreadFree
    BY FreeThreadsAreUsed
  <2>2. ASSUME NEW q \in InThread
        PROVE  WaitsWithLimit(q)
    <3>1. q \in Requests /\ phase[q] \in {"connect", "begin"}
      BY <2>2, CallsGoOn DEF InThread
    <3>2. CASE phase[q] = "connect"
      BY <3>1, <3>2, HeldAreCounted, DatabaseAssumption DEF MayProceed, WaitsWithLimit
    <3>3. CASE phase[q] = "begin"
      BY <3>1, <3>3 DEF MayProceed, WaitsWithLimit, Locked, BeginMode
    <3>. QED BY <3>1, <3>2, <3>3
  <2>. QED BY <2>1, <2>2, HeldAreCounted, DatabaseAssumption DEF ThreadFree
<1>. QED BY <1>1, DatabaseInvariant, PTL
=============================================================================
