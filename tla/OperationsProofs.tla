--------------------------- MODULE OperationsProofs ---------------------------
(***************************************************************************)
(* Theorems about the administrator's dashboard, for any number of loads,  *)
(* calls, changes and lead forms.                                          *)
(***************************************************************************)
EXTENDS Operations, FiniteSetTheorems, TLAPS

LoadStates ==
  [version: 1..MaxLoads, cookie: BOOLEAN, report: Snapshot \cup {None},
   at: {"sent", "done", "denied", "error"}]

CallStates ==
  [kind: {"sync", "entry", "price"}, cookie: BOOLEAN, mounted: BOOLEAN,
   at: {"sent", "done", "denied", "error", "reloading"},
   value: 0..(MaxPrice + MaxIds), version: 0..MaxLoads]

AtMost(report, other) == report.state <= other.state /\ report.price <= other.price

(* The report on show is not ahead of the server. *)
ReportIsTrue == data # None => AtMost(data, server)

(* Reports on their way are true, and the one that will be shown is no older
   than the one on show. *)
LoadsAreOrderly ==
  /\ \A k, l \in loads : k.version = l.version => k = l
  /\ \A l \in loads :
       /\ l.version <= requestVersion
       /\ l.at = "done" =>
            /\ l.report # None /\ AtMost(l.report, server)
            /\ l.version = requestVersion /\ data # None => AtMost(data, l.report)

(* Prices on their way back are prices the server has had; an entry carries an id. *)
ValuesOf(some, limit) ==
  \A c \in some :
    /\ c.kind = "price" /\ c.at = "done" => c.value <= limit
    /\ c.kind = "entry" /\ c.at # "reloading" => c.value \in Ids

(* Nothing that could bring a report is current after signing out. *)
LeftBehind ==
  leaving = "left" =>
    /\ data = None /\ authenticated = FALSE /\ cookie = FALSE
    /\ \A l \in loads : l.version = requestVersion => l.cookie = FALSE /\ l.at # "done"

(* A form sends one id. *)
OneId == \A id \in sent : id = requestId

OperationsInv ==
  /\ OperationsTypeOK
  /\ ReportIsTrue
  /\ LoadsAreOrderly
  /\ ValuesOf(calls, server.price)
  /\ LeftBehind
  /\ OneId

(* A step does not show an older report; NeverShowsOlderReport says why the
   exception is there. *)
ShowsNoOlder ==
  data # None /\ data' # None
    => /\ data'.state >= data.state
       /\ \/ data'.price >= data.price
          \/ \E c \in calls \ calls' :
               c.kind = "price" /\ c.value = data'.price /\ c.value < server.price

(* What the type invariant says of each variable. *)
LEMMA Types ==
  ASSUME OperationsTypeOK
  PROVE  /\ loads \subseteq LoadStates /\ calls \subseteq CallStates /\ server \in Snapshot
         /\ server.state \in 0..MaxState /\ server.price \in 0..MaxPrice
         /\ data # None => data \in Snapshot /\ data.state \in 0..MaxState /\ data.price \in 0..MaxPrice
         /\ None \notin Snapshot
         /\ MaxLoads \in Nat /\ MaxState \in Nat /\ MaxPrice \in Nat /\ MaxIds \in Nat
<1>1. None \notin Snapshot
  BY OperationsAssumption
<1>2. loads \subseteq LoadStates /\ calls \subseteq CallStates /\ server \in Snapshot
      /\ data \in Snapshot \cup {None}
  BY DEF OperationsTypeOK, LoadStates, CallStates
<1>3. \A s \in Snapshot : s.state \in 0..MaxState /\ s.price \in 0..MaxPrice
  BY DEF Snapshot
<1>. QED BY <1>1, <1>2, <1>3, OperationsAssumption

(* A report that is not None, and how it compares. *)
LEMMA Reports ==
  ASSUME NEW l \in LoadStates, l.report # None
  PROVE  l.report \in Snapshot /\ l.report.state \in Nat /\ l.report.price \in Nat
BY OperationsAssumption DEF LoadStates, Snapshot

(* A request without its session. *)
Expired(request) == [request EXCEPT !.cookie = FALSE]

(* A load whose session has expired differs in its cookie only. *)
LEMMA ExpiredLoad ==
  ASSUME NEW l \in LoadStates
  PROVE  /\ Expired(l) \in LoadStates /\ Expired(l).cookie = FALSE
         /\ Expired(l).version = l.version /\ Expired(l).report = l.report /\ Expired(l).at = l.at
BY DEF LoadStates, Expired

(* A call whose session has expired differs in its cookie only. *)
LEMMA ExpiredCall ==
  ASSUME NEW c \in CallStates
  PROVE  /\ Expired(c) \in CallStates /\ Expired(c).cookie = FALSE
         /\ Expired(c).kind = c.kind /\ Expired(c).value = c.value /\ Expired(c).at = c.at
BY DEF CallStates, Expired

(***************************************************************************)
(* Parts of several actions.                                               *)
(***************************************************************************)
(* A step that leaves the loads alone keeps them orderly while the server
   moves on and the page shows the same or nothing. *)
LEMMA LoadsStay ==
  ASSUME OperationsInv, UNCHANGED <<loads, requestVersion>>, data' = data \/ data' = None,
         server' \in Snapshot, AtMost(server, server')
  PROVE  ReportIsTrue' /\ LoadsAreOrderly'
<1>1. /\ server.state \in Nat /\ server.price \in Nat /\ server'.state \in Nat /\ server'.price \in Nat
      /\ loads \subseteq LoadStates
      /\ data # None => data.state \in Nat /\ data.price \in Nat
  BY Types, OperationsAssumption DEF OperationsInv, Snapshot
<1>2. ReportIsTrue'
  BY <1>1 DEF OperationsInv, ReportIsTrue, AtMost
<1>3. ASSUME NEW l \in loads, l.at = "done"
      PROVE  l.report # None /\ AtMost(l.report, server')
  <2>1. l.report # None /\ AtMost(l.report, server)
    BY <1>3 DEF OperationsInv, LoadsAreOrderly
  <2>2. l.report.state \in Nat /\ l.report.price \in Nat
    BY <1>1, <2>1, Reports
  <2>. QED BY <1>1, <2>1, <2>2 DEF AtMost
<1>4. LoadsAreOrderly'
  BY <1>3 DEF OperationsInv, LoadsAreOrderly
<1>. QED BY <1>2, <1>4

(* A new load outdates all others. *)
LEMMA LoadPreserves ==
  ASSUME OperationsInv, NEW signedIn \in BOOLEAN, Load(signedIn), server' = server
  PROVE  /\ loads' \subseteq LoadStates /\ requestVersion' \in 0..MaxLoads /\ requestVersion' \in 1..MaxLoads
         /\ LoadsAreOrderly'
         /\ \A l \in loads' : l.version = requestVersion' => l.cookie = signedIn /\ l.at = "sent"
<1>. DEFINE new == [version |-> requestVersion + 1, cookie |-> signedIn, report |-> None, at |-> "sent"]
<1>1. /\ requestVersion \in Nat /\ requestVersion < MaxLoads /\ MaxLoads \in Nat
      /\ requestVersion' = requestVersion + 1 /\ loads' = loads \cup {new}
      /\ loads \subseteq LoadStates
  BY Types DEF OperationsInv, OperationsTypeOK, Load
<1>2. new \in LoadStates /\ new.version = requestVersion + 1 /\ new.cookie = signedIn /\ new.at = "sent"
  BY <1>1 DEF LoadStates
<1>. HIDE DEF new
<1>3. \A l \in loads : l.version \in Nat /\ l.version <= requestVersion
  BY <1>1 DEF OperationsInv, LoadsAreOrderly, LoadStates
<1>4. \A l \in loads : l.at = "done" => l.report # None /\ AtMost(l.report, server)
  BY DEF OperationsInv, LoadsAreOrderly
<1>5. \A k, l \in loads : k.version = l.version => k = l
  BY DEF OperationsInv, LoadsAreOrderly
<1>6. \A k, l \in loads' : k.version = l.version => k = l
  BY <1>1, <1>2, <1>3, <1>5
<1>7. \A l \in loads' :
        /\ l.version <= requestVersion'
        /\ l.version = requestVersion' => l = new
        /\ l.at = "done" => l.report # None /\ AtMost(l.report, server') /\ l # new
  BY <1>1, <1>2, <1>3, <1>4
<1>8. LoadsAreOrderly'
  BY <1>2, <1>6, <1>7 DEF LoadsAreOrderly
<1>. QED BY <1>1, <1>2, <1>7, <1>8

(* Calls the page has turned away from keep their values. *)
LEMMA OrphanedCalls ==
  ASSUME NEW some, some \subseteq CallStates, NEW limit, ValuesOf(some, limit)
  PROVE  Orphaned(some) \subseteq CallStates /\ ValuesOf(Orphaned(some), limit)
<1>1. ASSUME NEW c \in some
      PROVE  /\ [c EXCEPT !.mounted = FALSE] \in CallStates
             /\ [c EXCEPT !.mounted = FALSE].kind = c.kind /\ [c EXCEPT !.mounted = FALSE].at = c.at
             /\ [c EXCEPT !.mounted = FALSE].value = c.value
  BY <1>1 DEF CallStates
<1>2. \A c \in Orphaned(some) : \E d \in some : c = d \/ c = [d EXCEPT !.mounted = FALSE]
  BY DEF Orphaned
<1>3. ASSUME NEW c \in Orphaned(some)
      PROVE  c \in CallStates /\ ValuesOf({c}, limit)
  <2>1. PICK d \in some : c = d \/ c = [d EXCEPT !.mounted = FALSE]
    BY <1>2
  <2>. QED BY <1>1, <2>1 DEF ValuesOf
<1>. QED BY <1>3 DEF ValuesOf

(* A call that reloads the dashboard keeps its values. *)
LEMMA ReloadingCall ==
  ASSUME OperationsInv, NEW call \in calls, requestVersion' \in 0..MaxLoads
  PROVE  /\ Reloading(call) \in CallStates /\ Reloading(call).at = "reloading"
         /\ \A limit : ValuesOf({Reloading(call)}, limit)
<1>1. call \in CallStates /\ 0 \in 0..(MaxPrice + MaxIds)
  BY Types DEF OperationsInv
<1>2. Reloading(call) \in CallStates /\ Reloading(call).at = "reloading"
  BY <1>1 DEF Reloading, CallStates
<1>. QED BY <1>2 DEF ValuesOf

(* A step on the lead form or the calls alone. *)
LEMMA FormStep ==
  ASSUME OperationsInv,
         UNCHANGED <<server, rows, cookie, leaving, authenticated, data, failed, loading, requestVersion, loads>>
  PROVE  ReportIsTrue' /\ LoadsAreOrderly' /\ LeftBehind' /\ ShowsNoOlder
<1>1. server \in Snapshot /\ AtMost(server, server')
  BY Types DEF OperationsInv, AtMost
<1>2. ReportIsTrue' /\ LoadsAreOrderly'
  BY <1>1, LoadsStay
<1>3. LeftBehind'
  BY DEF OperationsInv, LeftBehind
<1>4. ShowsNoOlder
  BY Types DEF OperationsInv, ShowsNoOlder
<1>. QED BY <1>2, <1>3, <1>4

(***************************************************************************)
(* Session, server and loads.                                              *)
(***************************************************************************)
LEMMA ExpirePreserves ==
  ASSUME OperationsInv, Expire
  PROVE  OperationsInv' /\ ShowsNoOlder
<1>1. /\ cookie' = FALSE
      /\ loads' = {Expired(l) : l \in loads}
      /\ calls' = {Expired(c) : c \in calls}
      /\ UNCHANGED <<server, rows, leaving, dashboard, loading, requestVersion, leadForm>>
      /\ loads \subseteq LoadStates /\ calls \subseteq CallStates
  BY Types DEF Expire, OperationsInv, Expired
<1>2. \A l \in loads' : \E k \in loads :
        /\ l = Expired(k) /\ l \in LoadStates
        /\ l.cookie = FALSE /\ l.version = k.version /\ l.report = k.report /\ l.at = k.at
  <2>. SUFFICES ASSUME NEW l \in loads'
                PROVE  \E k \in loads :
                         /\ l = Expired(k) /\ l \in LoadStates
                         /\ l.cookie = FALSE /\ l.version = k.version /\ l.report = k.report /\ l.at = k.at
    OBVIOUS
  <2>1. PICK k \in loads : l = Expired(k)
    BY <1>1
  <2>. QED BY <1>1, <2>1, ExpiredLoad
<1>3. \A c \in calls' : \E d \in calls :
        c \in CallStates /\ c.kind = d.kind /\ c.at = d.at /\ c.value = d.value
  <2>. SUFFICES ASSUME NEW c \in calls'
                PROVE  \E d \in calls :
                         c \in CallStates /\ c.kind = d.kind /\ c.at = d.at /\ c.value = d.value
    OBVIOUS
  <2>1. PICK d \in calls : c = Expired(d)
    BY <1>1
  <2>. QED BY <1>1, <2>1, ExpiredCall
<1>4. OperationsTypeOK'
  BY <1>1, <1>2, <1>3 DEF OperationsInv, OperationsTypeOK, LoadStates, CallStates, dashboard, leadForm
<1>5. LoadsAreOrderly'
  <2>1. ASSUME NEW k \in loads', NEW l \in loads', k.version = l.version
        PROVE  k = l
    BY <1>2, <2>1 DEF OperationsInv, LoadsAreOrderly
  <2>2. ASSUME NEW l \in loads'
        PROVE  /\ l.version <= requestVersion
               /\ l.at = "done" =>
                    /\ l.report # None /\ AtMost(l.report, server)
                    /\ l.version = requestVersion /\ data # None => AtMost(data, l.report)
    BY <1>2 DEF OperationsInv, LoadsAreOrderly
  <2>. QED BY <1>1, <2>1, <2>2 DEF LoadsAreOrderly, dashboard
<1>6. LeftBehind'
  BY <1>1, <1>2 DEF OperationsInv, LeftBehind, dashboard
<1>7. ReportIsTrue' /\ ValuesOf(calls', server'.price) /\ OneId'
  BY <1>1, <1>3 DEF OperationsInv, ReportIsTrue, ValuesOf, OneId, dashboard, leadForm
<1>8. ShowsNoOlder
  BY <1>1, Types DEF OperationsInv, ShowsNoOlder, dashboard
<1>. QED BY <1>4, <1>5, <1>6, <1>7, <1>8 DEF OperationsInv

(* The server moves on by itself. *)
LEMMA OthersActPreserves ==
  ASSUME OperationsInv, OthersAct
  PROVE  OperationsInv' /\ ShowsNoOlder
<1>1. /\ server.state \in 0..MaxState /\ server.state < MaxState /\ MaxState \in Nat
      /\ server.price \in 0..MaxPrice /\ server \in Snapshot
      /\ server' = [server EXCEPT !.state = server.state + 1]
      /\ UNCHANGED <<rows, cookie, leaving, dashboard, loading, requestVersion, loads, calls, leadForm>>
  BY Types DEF OthersAct, OperationsInv
<1>2. server' \in Snapshot /\ server'.state = server.state + 1 /\ server'.price = server.price
  BY <1>1 DEF Snapshot
<1>3. ReportIsTrue' /\ LoadsAreOrderly'
  <2>1. AtMost(server, server')
    BY <1>1, <1>2 DEF AtMost
  <2>. QED BY <1>1, <1>2, <2>1, LoadsStay DEF dashboard
<1>4. OperationsTypeOK'
  BY <1>1, <1>2 DEF OperationsInv, OperationsTypeOK, dashboard, leadForm
<1>5. ValuesOf(calls', server'.price) /\ LeftBehind' /\ OneId'
  BY <1>1, <1>2 DEF OperationsInv, LeftBehind, OneId, dashboard, leadForm
<1>6. ShowsNoOlder
  BY <1>1, Types DEF OperationsInv, ShowsNoOlder, dashboard
<1>. QED BY <1>3, <1>4, <1>5, <1>6 DEF OperationsInv

(* OnFocus and ClickRefresh: the page asks for the dashboard, signed in. *)
LEMMA AskPreserves ==
  ASSUME OperationsInv, OnFocus \/ ClickRefresh
  PROVE  OperationsInv' /\ ShowsNoOlder
<1>1. /\ authenticated /\ Load(cookie) /\ loading' \in BOOLEAN
      /\ UNCHANGED <<server, rows, cookie, leaving, dashboard, calls, leadForm>>
      /\ OperationsTypeOK
  BY DEF OnFocus, ClickRefresh, OperationsInv, OperationsTypeOK
<1>2. cookie \in BOOLEAN
  BY <1>1 DEF OperationsTypeOK
<1>3. loads' \subseteq LoadStates /\ requestVersion' \in 0..MaxLoads /\ LoadsAreOrderly'
  BY <1>1, <1>2, LoadPreserves
<1>4. OperationsTypeOK'
  BY <1>1, <1>3 DEF OperationsTypeOK, LoadStates, dashboard, leadForm
<1>5. ReportIsTrue' /\ ValuesOf(calls', server'.price) /\ LeftBehind' /\ OneId'
  BY <1>1 DEF OperationsInv, ReportIsTrue, LeftBehind, OneId, dashboard, leadForm
<1>6. ShowsNoOlder
  BY <1>1, Types DEF OperationsInv, ShowsNoOlder, dashboard
<1>. QED BY <1>3, <1>4, <1>5, <1>6 DEF OperationsInv

(* The server answers a load with its present state. *)
LEMMA ServePreserves ==
  ASSUME OperationsInv, NEW load \in loads, Serve(load)
  PROVE  OperationsInv' /\ ShowsNoOlder
<1>1. /\ load \in LoadStates /\ loads \subseteq LoadStates /\ load.at = "sent" /\ server \in Snapshot
      /\ UNCHANGED <<server, rows, cookie, leaving, dashboard, loading, requestVersion, calls, leadForm>>
  BY Types DEF Serve, OperationsInv
<1>2. PICK answer \in LoadStates :
        /\ loads' = (loads \ {load}) \cup {answer}
        /\ answer.version = load.version /\ answer.cookie = FALSE
        /\ \/ load.cookie /\ answer.at = "done" /\ answer.report = server
           \/ answer.at \in {"denied", "error"}
  <2>. DEFINE reported == [load EXCEPT !.at = "done", !.report = server]
              denied == [load EXCEPT !.at = "denied"]
              failure == [load EXCEPT !.at = "error"]
              Given(answer) == /\ answer \in LoadStates /\ answer.version = load.version
                               /\ \/ load.cookie /\ answer.at = "done" /\ answer.report = server
                                  \/ answer.at \in {"denied", "error"}
  <2>1. \E given \in {IF load.cookie THEN reported ELSE denied, failure} :
          loads' = (loads \ {load}) \cup {Expired(given)}
    BY DEF Serve, Expired
  <2>2. Given(failure) /\ Given(denied)
    BY <1>1 DEF LoadStates
  <2>3. load.cookie => Given(reported)
    BY <1>1 DEF LoadStates
  <2>. HIDE DEF reported, denied, failure, Given
  <2>4. PICK given : Given(given) /\ loads' = (loads \ {load}) \cup {Expired(given)}
    BY <2>1, <2>2, <2>3
  <2>5. /\ Expired(given) \in LoadStates /\ Expired(given).cookie = FALSE
        /\ Expired(given).version = load.version
        /\ \/ load.cookie /\ Expired(given).at = "done" /\ Expired(given).report = server
           \/ Expired(given).at \in {"denied", "error"}
    BY <2>4, ExpiredLoad DEF Given
  <2>. QED BY <2>4, <2>5
<1>3. OperationsTypeOK'
  BY <1>1, <1>2 DEF OperationsInv, OperationsTypeOK, LoadStates, dashboard, leadForm
<1>4. LoadsAreOrderly'
  <2>1. AtMost(server, server)
    BY Types DEF OperationsInv, AtMost
  <2>2. server # None /\ (data # None => AtMost(data, server))
    BY <1>1, Types DEF OperationsInv, ReportIsTrue
  <2>3. \A k, l \in loads' : k.version = l.version => k = l
    BY <1>2 DEF OperationsInv, LoadsAreOrderly
  <2>4. ASSUME NEW l \in loads'
        PROVE  /\ l.version <= requestVersion
               /\ l.at = "done" =>
                    /\ l.report # None /\ AtMost(l.report, server)
                    /\ l.version = requestVersion /\ data # None => AtMost(data, l.report)
    <3>1. CASE l \in loads
      BY <3>1 DEF OperationsInv, LoadsAreOrderly
    <3>2. CASE l = answer
      <4>1. answer.version <= requestVersion
        BY <1>2 DEF OperationsInv, LoadsAreOrderly
      <4>2. answer.at = "done" => answer.report = server
        BY <1>2
      <4>. QED BY <2>1, <2>2, <3>2, <4>1, <4>2
    <3>. QED BY <1>2, <3>1, <3>2
  <2>. QED BY <1>1, <2>3, <2>4 DEF LoadsAreOrderly, dashboard
<1>5. LeftBehind'
  BY <1>1, <1>2 DEF OperationsInv, LeftBehind, dashboard
<1>6. ReportIsTrue' /\ ValuesOf(calls', server'.price) /\ OneId'
  BY <1>1 DEF OperationsInv, ReportIsTrue, OneId, dashboard, leadForm
<1>7. ShowsNoOlder
  BY <1>1, Types DEF OperationsInv, ShowsNoOlder, dashboard
<1>. QED BY <1>3, <1>4, <1>5, <1>6, <1>7 DEF OperationsInv

(* An answer to a load arrives, late or not. *)
LEMMA LoadReturnsPreserves ==
  ASSUME OperationsInv, NEW load \in loads, LoadReturns(load)
  PROVE  OperationsInv' /\ ShowsNoOlder
<1>1. /\ load \in LoadStates /\ loads \subseteq LoadStates /\ calls \subseteq CallStates
      /\ load.at # "sent" /\ loads' = loads \ {load}
      /\ UNCHANGED <<server, rows, cookie, leaving, requestVersion>>
      /\ OperationsTypeOK
  BY Types DEF LoadReturns, OperationsInv
<1>2. ASSUME UNCHANGED <<loading, calls>> \/ loading' \in BOOLEAN,
             failed' \in BOOLEAN, adding' = adding, authenticated' \in BOOLEAN,
             data' \in Snapshot \cup {None},
             calls' \subseteq CallStates /\ ValuesOf(calls', server.price),
             leadForm' = leadForm \/ Unmount
      PROVE  OperationsTypeOK' /\ ValuesOf(calls', server'.price) /\ OneId'
  <2>1. CASE leadForm' = leadForm
    <3>1. OneId'
      BY <2>1 DEF OperationsInv, OneId, leadForm
    <3>. QED BY <1>1, <1>2, <2>1, <3>1 DEF OperationsTypeOK, LoadStates, CallStates, leadForm
  <2>2. CASE Unmount
    <3>1. OneId'
      BY <2>2 DEF Unmount, OneId
    <3>. QED BY <1>1, <1>2, <2>2, <3>1 DEF OperationsTypeOK, LoadStates, CallStates, Unmount
  <2>. QED BY <1>2, <2>1, <2>2
<1>3. CASE load.version # requestVersion \/ load.at = "error"
  <2>1. /\ UNCHANGED <<authenticated, data, calls, leadForm, adding>>
        /\ loading' \in BOOLEAN /\ failed' \in BOOLEAN
    BY <1>1, <1>3 DEF LoadReturns, Current, dashboard, OperationsTypeOK
  <2>2. OperationsTypeOK' /\ ValuesOf(calls', server'.price) /\ OneId'
    BY <1>1, <1>2, <2>1 DEF OperationsInv, OperationsTypeOK
  <2>3. LoadsAreOrderly' /\ ReportIsTrue' /\ LeftBehind'
    BY <1>1, <2>1 DEF OperationsInv, LoadsAreOrderly, ReportIsTrue, LeftBehind
  <2>4. ShowsNoOlder
    BY <2>1, Types DEF OperationsInv, ShowsNoOlder
  <2>. QED BY <2>2, <2>3, <2>4 DEF OperationsInv
<1>4. CASE load.version = requestVersion /\ load.at = "denied"
  <2>1. /\ authenticated' = FALSE /\ data' = None /\ Unmount /\ calls' = Orphaned(calls) /\ adding' = adding
        /\ loading' = FALSE /\ failed' = TRUE
    BY <1>4 DEF LoadReturns, Current, SignedOut
  <2>2. calls' \subseteq CallStates /\ ValuesOf(calls', server.price)
    BY <1>1, <2>1, OrphanedCalls DEF OperationsInv
  <2>3. OperationsTypeOK' /\ ValuesOf(calls', server'.price) /\ OneId'
    BY <1>2, <2>1, <2>2
  <2>4. LoadsAreOrderly' /\ ReportIsTrue' /\ LeftBehind' /\ ShowsNoOlder
    BY <1>1, <2>1 DEF OperationsInv, LoadsAreOrderly, ReportIsTrue, LeftBehind, ShowsNoOlder
  <2>. QED BY <2>3, <2>4 DEF OperationsInv
<1>5. CASE load.version = requestVersion /\ load.at = "done"
  <2>1. /\ data' = load.report /\ UNCHANGED <<authenticated, calls, leadForm, adding>>
        /\ loading' = FALSE /\ failed' = FALSE
    BY <1>5 DEF LoadReturns, Current
  <2>2. load.report # None /\ AtMost(load.report, server) /\ (data # None => AtMost(data, load.report))
    BY <1>5 DEF OperationsInv, LoadsAreOrderly
  <2>3. load.report \in Snapshot
    BY <1>1, <2>2, Reports
  <2>4. OperationsTypeOK' /\ ValuesOf(calls', server'.price) /\ OneId'
    BY <1>1, <1>2, <2>1, <2>3 DEF OperationsInv, OperationsTypeOK
  <2>5. \A l \in loads' : l.version # requestVersion
    BY <1>1, <1>5 DEF OperationsInv, LoadsAreOrderly
  <2>6. LoadsAreOrderly' /\ ReportIsTrue'
    BY <1>1, <2>1, <2>2, <2>5 DEF OperationsInv, LoadsAreOrderly, ReportIsTrue
  <2>7. LeftBehind'
    BY <1>1, <1>5, <2>1, <2>5 DEF OperationsInv, LeftBehind
  <2>8. ShowsNoOlder
    <3>1. ASSUME data # None
          PROVE  data'.state >= data.state /\ data'.price >= data.price
      BY <1>1, <2>1, <2>2, <2>3, <3>1, Types DEF AtMost, Snapshot
    <3>. QED BY <3>1 DEF ShowsNoOlder
  <2>. QED BY <2>4, <2>6, <2>7, <2>8 DEF OperationsInv
<1>. QED BY <1>1, <1>3, <1>4, <1>5 DEF LoadStates

(* Signing in starts a new load. *)
LEMMA SignInPreserves ==
  ASSUME OperationsInv, SignIn
  PROVE  OperationsInv' /\ ShowsNoOlder
<1>1. /\ cookie' = TRUE /\ authenticated' = TRUE /\ loading' = TRUE /\ failed' = FALSE
      /\ leaving' \in {"no", "asked"} /\ Load(TRUE)
      /\ UNCHANGED <<server, rows, data, adding, calls, leadForm>>
      /\ OperationsTypeOK
  BY DEF SignIn, OperationsInv, OperationsTypeOK
<1>2. loads' \subseteq LoadStates /\ requestVersion' \in 0..MaxLoads /\ LoadsAreOrderly'
  BY <1>1, LoadPreserves
<1>3. OperationsTypeOK'
  BY <1>1, <1>2 DEF OperationsTypeOK, LoadStates, leadForm
<1>4. ReportIsTrue' /\ ValuesOf(calls', server'.price) /\ LeftBehind' /\ OneId'
  BY <1>1 DEF OperationsInv, ReportIsTrue, LeftBehind, OneId, leadForm
<1>5. ShowsNoOlder
  BY <1>1, Types DEF OperationsInv, ShowsNoOlder
<1>. QED BY <1>2, <1>3, <1>4, <1>5 DEF OperationsInv

(* Signing out is asked for, or fails. *)
LEMMA LogoutPreserves ==
  ASSUME OperationsInv, ClickLogout \/ LogoutFails
  PROVE  OperationsInv' /\ ShowsNoOlder
<1>1. /\ leaving' \in {"no", "asked"} /\ failed' \in BOOLEAN
      /\ UNCHANGED <<server, rows, cookie, authenticated, data, adding, loading, requestVersion, loads,
                     calls, leadForm>>
      /\ OperationsTypeOK
  BY DEF ClickLogout, LogoutFails, OperationsInv, OperationsTypeOK, dashboard
<1>2. OperationsTypeOK'
  BY <1>1 DEF OperationsTypeOK, leadForm
<1>3. ReportIsTrue' /\ LoadsAreOrderly' /\ ValuesOf(calls', server'.price) /\ LeftBehind' /\ OneId'
  BY <1>1 DEF OperationsInv, ReportIsTrue, LoadsAreOrderly, LeftBehind, OneId, leadForm
<1>4. ShowsNoOlder
  BY <1>1, Types DEF OperationsInv, ShowsNoOlder
<1>. QED BY <1>2, <1>3, <1>4 DEF OperationsInv

(* After signing out nothing under way is current. *)
LEMMA LogoutSucceedsPreserves ==
  ASSUME OperationsInv, LogoutSucceeds
  PROVE  OperationsInv' /\ ShowsNoOlder
<1>1. /\ leaving' = "left" /\ cookie' = FALSE /\ failed' = FALSE
      /\ requestVersion < MaxLoads /\ requestVersion' = requestVersion + 1
      /\ authenticated' = FALSE /\ data' = None /\ Unmount /\ calls' = Orphaned(calls)
      /\ UNCHANGED <<server, rows, adding, loading, loads>>
      /\ OperationsTypeOK /\ loads \subseteq LoadStates /\ calls \subseteq CallStates
      /\ requestVersion \in Nat /\ MaxLoads \in Nat
  BY Types DEF LogoutSucceeds, SignedOut, OperationsInv, OperationsTypeOK
<1>2. calls' \subseteq CallStates /\ ValuesOf(calls', server.price)
  BY <1>1, OrphanedCalls DEF OperationsInv
<1>3. OperationsTypeOK'
  <2>1. requestVersion' \in 0..MaxLoads
    BY <1>1
  <2>2. open' = FALSE /\ requestId' = None /\ sent' = {} /\ drawn' = drawn
    BY <1>1 DEF Unmount
  <2>. QED BY <1>1, <1>2, <2>1, <2>2 DEF OperationsTypeOK, LoadStates, CallStates
<1>4. \A l \in loads : l.version \in Nat /\ l.version <= requestVersion
  BY <1>1 DEF OperationsInv, LoadsAreOrderly, LoadStates
<1>5. \A l \in loads : l.version <= requestVersion' /\ l.version # requestVersion'
  BY <1>1, <1>4
<1>6. LoadsAreOrderly'
  BY <1>1, <1>5 DEF OperationsInv, LoadsAreOrderly
<1>7. ReportIsTrue' /\ LeftBehind' /\ OneId' /\ ShowsNoOlder
  BY <1>1, <1>5 DEF ReportIsTrue, LeftBehind, OneId, ShowsNoOlder, Unmount
<1>. QED BY <1>1, <1>2, <1>3, <1>6, <1>7 DEF OperationsInv

(***************************************************************************)
(* Calls.                                                                  *)
(***************************************************************************)
LEMMA SentCall ==
  ASSUME OperationsInv, NEW kind \in {"sync", "entry", "price"}, NEW value \in 0..(MaxPrice + MaxIds),
         Send(kind, value), kind = "entry" => value \in Ids
  PROVE  calls' \subseteq CallStates /\ ValuesOf(calls', server.price)
<1>. DEFINE new == [kind |-> kind, cookie |-> cookie, mounted |-> TRUE, at |-> "sent",
                    value |-> value, version |-> 0]
<1>1. new \in CallStates /\ new.at = "sent" /\ new.kind = kind /\ new.value = value
  BY Types DEF OperationsInv, OperationsTypeOK, CallStates
<1>2. calls' = calls \cup {new} /\ calls \subseteq CallStates
  BY Types DEF Send, OperationsInv
<1>. HIDE DEF new
<1>. QED BY <1>1, <1>2 DEF OperationsInv, ValuesOf

(* A click on synchronize or save starts a call. *)
LEMMA ClickPreserves ==
  ASSUME OperationsInv, ClickSync \/ SavePrice
  PROVE  OperationsInv' /\ ShowsNoOlder
<1>1. /\ \E kind \in {"sync", "price"} : Send(kind, 0)
      /\ UNCHANGED <<server, rows, cookie, leaving, dashboard, loading, requestVersion, loads, leadForm>>
  BY DEF ClickSync, SavePrice
<1>2. calls' \subseteq CallStates /\ ValuesOf(calls', server.price)
  BY <1>1, SentCall, Types DEF OperationsInv
<1>3. OperationsTypeOK'
  BY <1>1, <1>2 DEF OperationsInv, OperationsTypeOK, CallStates, dashboard, leadForm
<1>4. OneId'
  BY <1>1 DEF OperationsInv, OneId, leadForm
<1>. QED BY <1>1, <1>2, <1>3, <1>4, FormStep DEF OperationsInv, dashboard

(* A form is opened; one closed forgets its id. *)
LEMMA FormPreserves ==
  ASSUME OperationsInv, OpenForm \/ CloseForm
  PROVE  OperationsInv' /\ ShowsNoOlder
<1>1. /\ UNCHANGED <<server, rows, cookie, leaving, dashboard, loading, requestVersion, loads, calls>>
      /\ \/ open' = TRUE /\ UNCHANGED <<requestId, sent, drawn>>
         \/ Unmount
  BY DEF OpenForm, CloseForm
<1>2. OperationsTypeOK' /\ OneId'
  BY <1>1 DEF OperationsInv, OperationsTypeOK, OneId, Unmount, dashboard
<1>. QED BY <1>1, <1>2, FormStep DEF OperationsInv, dashboard

(* A submission sends the id of its form, which draws one the first time. *)
LEMMA SubmitPreserves ==
  ASSUME OperationsInv, Submit
  PROVE  OperationsInv' /\ ShowsNoOlder
<1>1. /\ UNCHANGED <<server, rows, cookie, leaving, authenticated, data, failed, loading,
                     requestVersion, loads, open>>
      /\ open = TRUE /\ adding' = TRUE
      /\ sent' = sent \cup {requestId'} /\ Send("entry", requestId')
      /\ \/ requestId = None /\ drawn < MaxIds /\ drawn' = drawn + 1 /\ requestId' = drawn'
         \/ requestId # None /\ UNCHANGED <<requestId, drawn>>
      /\ OperationsTypeOK
  BY DEF Submit, OperationsInv, OperationsTypeOK
<1>2. drawn \in 0..MaxIds /\ MaxIds \in Nat /\ MaxPrice \in Nat /\ requestId \in Ids \cup {None}
  BY <1>1, Types DEF OperationsTypeOK
<1>3. requestId' \in Ids /\ requestId' # None /\ drawn' \in 0..MaxIds
  BY <1>1, <1>2, OperationsAssumption DEF Ids
<1>4. calls' \subseteq CallStates /\ ValuesOf(calls', server.price)
  <2>1. requestId' \in 0..(MaxPrice + MaxIds)
    BY <1>2, <1>3 DEF Ids
  <2>. QED BY <1>1, <1>3, <2>1, SentCall
<1>5. OperationsTypeOK'
  BY <1>1, <1>3, <1>4 DEF OperationsTypeOK, CallStates
<1>6. OneId'
  <2>1. CASE requestId = None
    <3>1. sent = {}
      BY <1>1, <2>1, OperationsAssumption DEF OperationsInv, OperationsTypeOK, OneId, Ids
    <3>. QED BY <1>1, <3>1 DEF OneId
  <2>2. CASE requestId # None
    BY <1>1, <2>2 DEF OperationsInv, OneId
  <2>. QED BY <2>1, <2>2
<1>. QED BY <1>1, <1>4, <1>5, <1>6, FormStep DEF OperationsInv

(* A call ends once the load it awaited has returned. *)
LEMMA CallEndsPreserves ==
  ASSUME OperationsInv, NEW call \in calls, CallEnds(call)
  PROVE  OperationsInv' /\ ShowsNoOlder
<1>1. /\ UNCHANGED <<server, rows, cookie, leaving, authenticated, data, failed, loading,
                     requestVersion, loads, leadForm>>
      /\ calls' = calls \ {call} /\ adding' \in BOOLEAN
  BY DEF CallEnds, OperationsInv, OperationsTypeOK
<1>2. OperationsTypeOK' /\ ValuesOf(calls', server'.price) /\ OneId'
  BY <1>1 DEF OperationsInv, OperationsTypeOK, ValuesOf, OneId, leadForm
<1>. QED BY <1>1, <1>2, FormStep DEF OperationsInv

(* The server carries out a call. *)
LEMMA HandlePreserves ==
  ASSUME OperationsInv, NEW call \in calls, Handle(call)
  PROVE  OperationsInv' /\ ShowsNoOlder
<1>1. /\ call \in CallStates /\ calls \subseteq CallStates /\ call.at = "sent"
      /\ server \in Snapshot /\ server.state \in 0..MaxState /\ server.price \in 0..MaxPrice
      /\ MaxState \in Nat /\ MaxPrice \in Nat /\ MaxIds \in Nat
      /\ UNCHANGED <<cookie, leaving, dashboard, loading, requestVersion, loads, leadForm>>
      /\ OperationsTypeOK
  BY Types DEF Handle, OperationsInv
<1>2. /\ server' \in Snapshot /\ AtMost(server, server') /\ rows' \subseteq Ids
      /\ server'.price \in 0..MaxPrice /\ server.price <= server'.price
  <2>1. CASE UNCHANGED <<server, rows>>
    BY <1>1, <2>1 DEF AtMost, OperationsTypeOK
  <2>2. CASE
          /\ call.kind = "price" => server.price < MaxPrice
          /\ server' = [state |-> IF call.kind # "price" /\ server.state < MaxState
                                  THEN server.state + 1 ELSE server.state,
                        price |-> IF call.kind = "price" THEN server.price + 1 ELSE server.price]
          /\ rows' = IF call.kind = "entry" THEN rows \cup {call.value} ELSE rows
    <3>1. /\ server'.state \in 0..MaxState /\ server.state <= server'.state
          /\ server'.price \in 0..MaxPrice /\ server.price <= server'.price
          /\ server' \in Snapshot
      BY <1>1, <2>2 DEF Snapshot
    <3>2. rows' \subseteq Ids
      BY <1>1, <2>2 DEF OperationsInv, OperationsTypeOK, ValuesOf
    <3>. QED BY <3>1, <3>2 DEF AtMost
  <2>. QED BY <2>1, <2>2 DEF Handle
<1>3. ASSUME NEW c \in calls' \ calls
      PROVE  c \in CallStates /\ ValuesOf({c}, server'.price)
  <2>1. CASE c = [call EXCEPT !.at = IF call.cookie THEN "error" ELSE "denied", !.cookie = FALSE]
    <3>1. c \in CallStates /\ c.kind = call.kind /\ c.value = call.value /\ c.at # "done"
      BY <1>1, <2>1 DEF CallStates
    <3>. QED BY <1>1, <3>1 DEF OperationsInv, ValuesOf
  <2>2. ASSUME NEW at \in {"done", "error"},
               c = [call EXCEPT !.at = at, !.cookie = FALSE,
                                !.value = IF call.kind = "price" THEN server'.price ELSE call.value]
        PROVE  c \in CallStates /\ ValuesOf({c}, server'.price)
    <3>1. server'.price \in 0..(MaxPrice + MaxIds) /\ server'.price <= server'.price
      BY <1>1, <1>2
    <3>2. /\ c \in CallStates /\ c.kind = call.kind
          /\ c.value = IF call.kind = "price" THEN server'.price ELSE call.value
      BY <1>1, <2>2, <3>1 DEF CallStates
    <3>. QED BY <1>1, <3>1, <3>2 DEF OperationsInv, ValuesOf
  <2>. QED BY <2>1, <2>2 DEF Handle
<1>4. ASSUME NEW c \in calls'
      PROVE  c \in CallStates /\ ValuesOf({c}, server'.price)
  <2>1. CASE c \in calls
    <3>1. c \in CallStates /\ c.value \in Nat
      BY <1>1, <2>1 DEF CallStates
    <3>2. c.kind = "price" /\ c.at = "done" => c.value <= server.price
      BY <2>1 DEF OperationsInv, ValuesOf
    <3>3. c.kind = "entry" /\ c.at # "reloading" => c.value \in Ids
      BY <2>1 DEF OperationsInv, ValuesOf
    <3>. QED BY <1>1, <1>2, <3>1, <3>2, <3>3 DEF ValuesOf
  <2>. QED BY <1>3, <2>1
<1>5. calls' \subseteq CallStates /\ ValuesOf(calls', server'.price)
  BY <1>4 DEF ValuesOf
<1>6. OperationsTypeOK'
  BY <1>1, <1>2, <1>5 DEF OperationsTypeOK, CallStates, dashboard, leadForm
<1>7. ReportIsTrue' /\ LoadsAreOrderly'
  BY <1>1, <1>2, LoadsStay DEF dashboard
<1>8. LeftBehind' /\ OneId' /\ ShowsNoOlder
  BY <1>1, Types DEF OperationsInv, LeftBehind, OneId, ShowsNoOlder, dashboard, leadForm
<1>. QED BY <1>5, <1>6, <1>7, <1>8 DEF OperationsInv

(* A call that is replaced by its wait for the dashboard. *)
LEMMA ReplacedCall ==
  ASSUME OperationsInv, NEW call \in calls, requestVersion' \in 0..MaxLoads,
         NEW others, others \subseteq CallStates, ValuesOf(others, server.price)
  PROVE  /\ others \cup {Reloading(call)} \subseteq CallStates
         /\ ValuesOf(others \cup {Reloading(call)}, server.price)
<1>1. Reloading(call) \in CallStates /\ ValuesOf({Reloading(call)}, server.price)
  BY ReloadingCall
<1>. QED BY <1>1 DEF ValuesOf

(* The answer to a synchronization arrives. *)
LEMMA SyncReturnsPreserves ==
  ASSUME OperationsInv, NEW call \in calls, SyncReturns(call)
  PROVE  OperationsInv' /\ ShowsNoOlder
<1>1. /\ Load(cookie) /\ cookie \in BOOLEAN /\ OperationsTypeOK /\ calls \subseteq CallStates
      /\ UNCHANGED <<server, rows, cookie, leaving, failed, adding, loading>>
  BY Types DEF SyncReturns, OperationsInv, OperationsTypeOK
<1>2. /\ loads' \subseteq LoadStates /\ requestVersion' \in 0..MaxLoads /\ LoadsAreOrderly'
      /\ \A l \in loads' : l.version = requestVersion' => l.cookie = cookie /\ l.at = "sent"
  BY <1>1, LoadPreserves
<1>3. calls \ {call} \subseteq CallStates /\ ValuesOf(calls \ {call}, server.price)
  BY <1>1 DEF OperationsInv, ValuesOf
<1>4. CASE call.at = "denied"
  <2>1. /\ authenticated' = FALSE /\ data' = None /\ Unmount
        /\ calls' = Orphaned(calls \ {call}) \cup {Reloading(call)}
    BY <1>4 DEF SyncReturns, SignedOut
  <2>2. calls' \subseteq CallStates /\ ValuesOf(calls', server.price)
    <3>1. Orphaned(calls \ {call}) \subseteq CallStates /\ ValuesOf(Orphaned(calls \ {call}), server.price)
      BY <1>3, OrphanedCalls
    <3>. QED BY <1>2, <2>1, <3>1, ReplacedCall
  <2>3. open' = FALSE /\ requestId' = None /\ sent' = {} /\ drawn' = drawn
    BY <2>1 DEF Unmount
  <2>4. OperationsTypeOK'
    BY <1>1, <1>2, <2>1, <2>2, <2>3 DEF OperationsTypeOK, LoadStates, CallStates
  <2>5. LeftBehind'
    BY <1>1, <1>2, <2>1 DEF OperationsInv, LeftBehind
  <2>6. ReportIsTrue' /\ OneId' /\ ShowsNoOlder
    BY <2>1, <2>3 DEF ReportIsTrue, OneId, ShowsNoOlder
  <2>. QED BY <1>1, <1>2, <2>2, <2>4, <2>5, <2>6 DEF OperationsInv
<1>5. CASE call.at # "denied"
  <2>1. /\ UNCHANGED <<authenticated, data, leadForm>>
        /\ calls' = (calls \ {call}) \cup {Reloading(call)}
    BY <1>5 DEF SyncReturns
  <2>2. calls' \subseteq CallStates /\ ValuesOf(calls', server.price)
    BY <1>2, <1>3, <2>1, ReplacedCall
  <2>3. OperationsTypeOK'
    BY <1>1, <1>2, <2>1, <2>2 DEF OperationsTypeOK, LoadStates, CallStates, leadForm
  <2>4. LeftBehind'
    BY <1>1, <1>2, <2>1 DEF OperationsInv, LeftBehind
  <2>5. ReportIsTrue' /\ OneId'
    BY <1>1, <2>1 DEF OperationsInv, ReportIsTrue, OneId, leadForm
  <2>6. ShowsNoOlder
    BY <2>1, Types DEF OperationsInv, ShowsNoOlder
  <2>. QED BY <1>1, <1>2, <2>2, <2>3, <2>4, <2>5, <2>6 DEF OperationsInv
<1>. QED BY <1>4, <1>5

(* The answer to a lead entry arrives. *)
LEMMA EntryReturnsPreserves ==
  ASSUME OperationsInv, NEW call \in calls, EntryReturns(call)
  PROVE  OperationsInv' /\ ShowsNoOlder
<1>1. /\ cookie \in BOOLEAN /\ OperationsTypeOK /\ calls \subseteq CallStates
      /\ UNCHANGED <<server, rows, cookie, leaving, authenticated, data, failed, loading>>
  BY Types DEF EntryReturns, OperationsInv, OperationsTypeOK
<1>2. calls \ {call} \subseteq CallStates /\ ValuesOf(calls \ {call}, server.price)
  BY <1>1 DEF OperationsInv, ValuesOf
<1>3. ReportIsTrue' /\ ShowsNoOlder
  BY <1>1, Types DEF OperationsInv, ReportIsTrue, ShowsNoOlder
<1>4. CASE call.at = "done"
  <2>1. /\ Load(cookie) /\ calls' = (calls \ {call}) \cup {Reloading(call)} /\ adding' = adding
        /\ Unmount \/ UNCHANGED leadForm
    BY <1>4 DEF EntryReturns
  <2>2. /\ loads' \subseteq LoadStates /\ requestVersion' \in 0..MaxLoads /\ LoadsAreOrderly'
        /\ \A l \in loads' : l.version = requestVersion' => l.cookie = cookie /\ l.at = "sent"
    BY <1>1, <2>1, LoadPreserves
  <2>3. calls' \subseteq CallStates /\ ValuesOf(calls', server.price)
    BY <1>2, <2>1, <2>2, ReplacedCall
  <2>4. OperationsTypeOK' /\ OneId'
    <3>1. CASE Unmount
      <4>1. open' = FALSE /\ requestId' = None /\ sent' = {} /\ drawn' = drawn
        BY <3>1 DEF Unmount
      <4>. QED BY <1>1, <2>1, <2>2, <2>3, <4>1 DEF OperationsTypeOK, LoadStates, CallStates, OneId
    <3>2. CASE UNCHANGED leadForm
      BY <1>1, <2>1, <2>2, <2>3, <3>2 DEF OperationsInv, OperationsTypeOK, LoadStates, CallStates, OneId, leadForm
    <3>. QED BY <2>1, <3>1, <3>2
  <2>5. LeftBehind'
    BY <1>1, <2>2 DEF OperationsInv, LeftBehind
  <2>. QED BY <1>1, <1>3, <2>2, <2>3, <2>4, <2>5 DEF OperationsInv
<1>5. CASE call.at # "done"
  <2>1. calls' = calls \ {call} /\ adding' = FALSE /\ UNCHANGED <<requestVersion, loads, leadForm>>
    BY <1>5 DEF EntryReturns
  <2>2. OperationsTypeOK' /\ ValuesOf(calls', server'.price) /\ OneId'
    BY <1>1, <1>2, <2>1 DEF OperationsInv, OperationsTypeOK, CallStates, OneId, leadForm
  <2>. QED BY <1>1, <2>1, <2>2, FormStep DEF OperationsInv
<1>. QED BY <1>4, <1>5

(* The price a save returned with is one the server has had; where the page
   showed a later one, another save has overtaken this. *)
LEMMA PriceReturnsPreserves ==
  ASSUME OperationsInv, NEW call \in calls, PriceReturns(call)
  PROVE  OperationsInv' /\ ShowsNoOlder
<1>1. /\ cookie \in BOOLEAN /\ OperationsTypeOK /\ calls \subseteq CallStates /\ call \in CallStates
      /\ server.price \in 0..MaxPrice /\ MaxPrice \in Nat /\ call.value \in Nat
      /\ data # None => data \in Snapshot /\ data.state \in Nat /\ data.price \in Nat
      /\ call.kind = "price"
      /\ UNCHANGED <<server, rows, cookie, leaving, authenticated, failed, adding, loading, leadForm>>
  BY Types DEF PriceReturns, OperationsInv, OperationsTypeOK, CallStates
<1>2. calls \ {call} \subseteq CallStates /\ ValuesOf(calls \ {call}, server.price)
  BY <1>1 DEF OperationsInv, ValuesOf
<1>3. CASE call.at = "done"
  <2>1. /\ Load(cookie) /\ calls' = (calls \ {call}) \cup {Reloading(call)}
        /\ data' = IF data = None THEN None ELSE [data EXCEPT !.price = call.value]
    BY <1>3 DEF PriceReturns
  <2>2. /\ loads' \subseteq LoadStates /\ requestVersion' \in 0..MaxLoads /\ LoadsAreOrderly'
        /\ \A l \in loads' : l.version = requestVersion' => l.cookie = cookie /\ l.at = "sent"
    BY <1>1, <2>1, LoadPreserves
  <2>3. calls' \subseteq CallStates /\ ValuesOf(calls', server.price)
    BY <1>2, <2>1, <2>2, ReplacedCall
  <2>4. call.value <= server.price /\ call.value \in 0..MaxPrice
    BY <1>1, <1>3 DEF OperationsInv, ValuesOf
  <2>5. data # None =>
          data' \in Snapshot /\ data' # None /\ data'.state = data.state /\ data'.price = call.value
    BY <1>1, <2>1, <2>4, Types DEF Snapshot, OperationsInv
  <2>6. OperationsTypeOK'
    BY <1>1, <2>1, <2>2, <2>3, <2>5 DEF OperationsTypeOK, LoadStates, CallStates, leadForm
  <2>7. ReportIsTrue'
    BY <1>1, <2>1, <2>4, <2>5 DEF OperationsInv, ReportIsTrue, AtMost
  <2>8. LeftBehind' /\ OneId'
    BY <1>1, <2>1, <2>2 DEF OperationsInv, LeftBehind, OneId, leadForm
  <2>9. ShowsNoOlder
    <3>1. call \in calls \ calls'
      <4>1. Reloading(call).at = "reloading"
        BY <2>2, ReloadingCall
      <4>. QED BY <1>3, <2>1, <4>1
    <3>2. ASSUME data # None
          PROVE  /\ data'.state >= data.state
                 /\ data'.price >= data.price \/ call.value < server.price
      BY <1>1, <2>4, <2>5, <3>2 DEF OperationsInv, ReportIsTrue, AtMost
    <3>. QED BY <1>1, <2>5, <3>1, <3>2 DEF ShowsNoOlder
  <2>. QED BY <1>1, <2>2, <2>3, <2>6, <2>7, <2>8, <2>9 DEF OperationsInv
<1>4. CASE call.at # "done"
  <2>1. calls' = calls \ {call} /\ UNCHANGED <<data, requestVersion, loads>>
    BY <1>4 DEF PriceReturns
  <2>2. OperationsTypeOK' /\ ValuesOf(calls', server'.price) /\ OneId'
    BY <1>1, <1>2, <2>1 DEF OperationsInv, OperationsTypeOK, CallStates, OneId, leadForm
  <2>. QED BY <1>1, <2>1, <2>2, FormStep DEF OperationsInv
<1>. QED BY <1>3, <1>4

(***************************************************************************)
(* The theorems.                                                           *)
(***************************************************************************)
LEMMA StepPreserves ==
  ASSUME OperationsInv, OperationsNext
  PROVE  OperationsInv' /\ ShowsNoOlder
<1>1. CASE SessionStep
  BY <1>1, SignInPreserves, LogoutPreserves, LogoutSucceedsPreserves, ExpirePreserves DEF SessionStep
<1>2. CASE LoadStep
  BY <1>2, AskPreserves, ServePreserves, LoadReturnsPreserves DEF LoadStep
<1>3. CASE CallStep
  BY <1>3, ClickPreserves, FormPreserves, SubmitPreserves, HandlePreserves, SyncReturnsPreserves,
     EntryReturnsPreserves, PriceReturnsPreserves, CallEndsPreserves DEF CallStep
<1>4. CASE OthersAct
  BY <1>4, OthersActPreserves
<1>. QED BY <1>1, <1>2, <1>3, <1>4 DEF OperationsNext

(* Where nothing changes nothing breaks. *)
LEMMA StutterPreserves ==
  ASSUME OperationsInv, UNCHANGED operationsVars
  PROVE  OperationsInv'
BY DEF operationsVars, dashboard, leadForm, OperationsInv, OperationsTypeOK, ReportIsTrue, LoadsAreOrderly,
       ValuesOf, LeftBehind, OneId

(* A page just opened shows nothing and has nothing under way. *)
LEMMA InitEstablishes ==
  ASSUME OperationsInit
  PROVE  OperationsInv
<1>1. server \in Snapshot
  BY OperationsAssumption DEF OperationsInit, Snapshot
<1>2. OperationsTypeOK
  <2>1. 0 \in 0..MaxLoads /\ 0 \in 0..MaxIds
    BY OperationsAssumption
  <2>. QED BY <1>1, <2>1 DEF OperationsInit, OperationsTypeOK
<1>. QED BY <1>2 DEF OperationsInit, OperationsInv, ReportIsTrue, LoadsAreOrderly, ValuesOf, LeftBehind, OneId

(* The invariant holds in every state of the administrator's page. *)
THEOREM OperationsInvariant == OperationsSpec => []OperationsInv
BY InitEstablishes, StepPreserves, StutterPreserves, PTL DEF OperationsSpec

(* Every variable of the page keeps its type. *)
THEOREM OperationsTypeCorrect == OperationsSpec => []OperationsTypeOK
<1>1. OperationsInv => OperationsTypeOK
  BY DEF OperationsInv
<1>. QED BY <1>1, OperationsInvariant, PTL

(* Nothing is on show after signing out, however many loads and calls of the
   earlier session are still to return (dashboard.tsx:115). *)
THEOREM LeftShowsNothing == OperationsSpec => []SignedOutShowsNothing
<1>1. OperationsInv => SignedOutShowsNothing
  BY DEF OperationsInv, LeftBehind, SignedOutShowsNothing
<1>. QED BY <1>1, OperationsInvariant, PTL

(* One lead form leaves one row, however often it is submitted (add-lead.tsx:119). *)
THEOREM FormIsOneRow == OperationsSpec => []OneRowPerForm
<1>1. ASSUME OperationsInv
      PROVE  OneRowPerForm
  <2>1. rows \cap sent = {} \/ rows \cap sent = {requestId}
    BY <1>1 DEF OperationsInv, OneId
  <2>2. Cardinality({}) = 0 /\ Cardinality({requestId}) = 1
    BY FS_EmptySet, FS_Singleton
  <2>. QED BY <2>1, <2>2 DEF OneRowPerForm
<1>. QED BY <1>1, OperationsInvariant, PTL

(* The dashboard never goes back in time, for any number of overlapping loads,
   calls and saved prices: only the answer of an overtaken save may be late. *)
THEOREM DashboardNeverShowsOlder == OperationsSpec => NeverShowsOlderReport
<1>1. OperationsInv /\ [OperationsNext]_operationsVars => [ShowsNoOlder]_operationsVars
  BY StepPreserves
<1>2. [][ShowsNoOlder]_operationsVars <=> NeverShowsOlderReport
  BY PTL DEF ShowsNoOlder, NeverShowsOlderReport
<1>. QED BY <1>1, <1>2, OperationsInvariant, PTL DEF OperationsSpec
===============================================================================
