----------------------------- MODULE Operations -----------------------------
(***************************************************************************)
(* The administrator's browser: dashboard.tsx with the lead form of        *)
(* add-lead.tsx, the price editor of pricing-rules.tsx and the session.    *)
(*                                                                         *)
(* A load fetches the whole dashboard; a call is a synchronization, a lead *)
(* entry or a price change, most of which load the dashboard when they     *)
(* return.  The server handles a request at one moment, the browser its    *)
(* answer later, or never sees it.  One handler, up to its next await, is  *)
(* one step; the browser stores a cookie and runs the handler of the same  *)
(* answer in one step.                                                     *)
(*                                                                         *)
(* The abort signal of the dashboard's effect is left out: what it aborts  *)
(* when authenticated turns false, the request version ignores as well.    *)
(* Prices are edited in this browser only.                                 *)
(***************************************************************************)
EXTENDS Integers, FiniteSets

CONSTANTS
  None,
  MaxLoads,   \* bounds for model checking: dashboards loaded,
  MaxState,   \* changes of orders, leads and runs on the server,
  MaxPrice,   \* price changes,
  MaxIds,     \* request ids of lead entries
  MaxCalls    \* and calls under way at a time

Snapshot == [state: 0..MaxState, price: 0..MaxPrice]
Ids == 1..MaxIds

ASSUME OperationsAssumption ==
  /\ MaxLoads \in Nat \ {0} /\ MaxState \in Nat \ {0} /\ MaxPrice \in Nat \ {0}
  /\ MaxIds \in Nat \ {0} /\ MaxCalls \in Nat \ {0}
  /\ None \notin Nat /\ None \notin Snapshot

VARIABLES
  server,         \* what a dashboard would report now: [state, price]
  rows,           \* request ids with a row on the sheet
  cookie,         \* the browser holds a session the server accepts
  leaving,        \* signOut: "no", "asked", or "left" until the next sign-in
  authenticated, data, loading, failed, adding,  \* state of the dashboard
  requestVersion,
  loads,
  calls,
  open, requestId,  \* the lead form
  sent,             \* ids this form has sent since it was opened
  drawn             \* number of ids drawn by crypto.randomUUID

dashboard == <<authenticated, data, failed, adding>>
leadForm == <<open, requestId, sent, drawn>>
operationsVars ==
  <<server, rows, cookie, leaving, dashboard, loading, requestVersion, loads, calls, leadForm>>

OperationsTypeOK ==
  /\ server \in Snapshot
  /\ rows \subseteq Ids
  /\ leaving \in {"no", "asked", "left"}
  /\ cookie \in BOOLEAN /\ authenticated \in BOOLEAN /\ loading \in BOOLEAN
  /\ failed \in BOOLEAN /\ adding \in BOOLEAN /\ open \in BOOLEAN
  /\ data \in Snapshot \cup {None}
  /\ requestVersion \in 0..MaxLoads
  /\ loads \subseteq [version: 1..MaxLoads, cookie: BOOLEAN, report: Snapshot \cup {None},
                      at: {"sent", "done", "denied", "error"}]
  /\ calls \subseteq [kind: {"sync", "entry", "price"}, cookie: BOOLEAN, mounted: BOOLEAN,
                      at: {"sent", "done", "denied", "error", "reloading"},
                      value: 0..(MaxPrice + MaxIds), version: 0..MaxLoads]
  /\ requestId \in Ids \cup {None}
  /\ requestId # None => open /\ requestId \in sent
  /\ sent \subseteq Ids
  /\ drawn \in 0..MaxIds

(* Signed out; a page opened with a session is the state after SignIn. *)
OperationsInit ==
  /\ server = [state |-> 0, price |-> 0]
  /\ rows = {} /\ cookie = FALSE /\ leaving = "no"
  /\ authenticated = FALSE /\ data = None /\ loading = TRUE /\ failed = FALSE /\ adding = FALSE
  /\ requestVersion = 0 /\ loads = {} /\ calls = {}
  /\ open = FALSE /\ requestId = None /\ sent = {} /\ drawn = 0

Syncing == \E c \in calls : c.kind = "sync"

(* The form of this kind that is mounted now waits for its call. *)
Saving(kind) == \E c \in calls : c.kind = kind /\ c.mounted

(* A request carries the session of its moment (its cookie, until it is served);
   the server looks at it when the request arrives. *)
Expire ==
  /\ cookie' = FALSE
  /\ loads' = {[l EXCEPT !.cookie = FALSE] : l \in loads}
  /\ calls' = {[c EXCEPT !.cookie = FALSE] : c \in calls}
  /\ UNCHANGED <<server, rows, leaving, dashboard, loading, requestVersion, leadForm>>

OthersAct ==
  /\ server.state < MaxState
  /\ server' = [server EXCEPT !.state = @ + 1]
  /\ UNCHANGED <<rows, cookie, leaving, dashboard, loading, requestVersion, loads, calls, leadForm>>

-----------------------------------------------------------------------------
(***************************************************************************)
(* load: the newest request wins.                                          *)
(***************************************************************************)
Load(signedIn) ==
  /\ requestVersion < MaxLoads
  /\ requestVersion' = requestVersion + 1
  /\ loads' = loads \cup {[version |-> requestVersion + 1, cookie |-> signedIn,
                           report |-> None, at |-> "sent"]}

OnFocus ==
  /\ authenticated /\ ~Syncing
  /\ Load(cookie)
  /\ UNCHANGED <<server, rows, cookie, leaving, dashboard, loading, calls, leadForm>>

(* "Actualizar", or the retry of an error notice, which is never disabled. *)
ClickRefresh ==
  /\ authenticated
  /\ failed \/ (~loading /\ ~Syncing /\ ~adding)
  /\ loading' = TRUE
  /\ Load(cookie)
  /\ UNCHANGED <<server, rows, cookie, leaving, dashboard, calls, leadForm>>

Serve(load) ==
  /\ load \in loads /\ load.at = "sent"
  /\ \E answer \in
       {IF load.cookie THEN [load EXCEPT !.at = "done", !.report = server]
                       ELSE [load EXCEPT !.at = "denied"],
        [load EXCEPT !.at = "error"]} :
       loads' = (loads \ {load}) \cup {[answer EXCEPT !.cookie = FALSE]}
  /\ UNCHANGED <<server, rows, cookie, leaving, dashboard, loading, requestVersion, calls, leadForm>>

(* The form is closed (close), or unmounted as data or session are gone; its
   call goes on. *)
Unmount ==
  /\ open' = FALSE /\ requestId' = None /\ sent' = {}
  /\ UNCHANGED drawn

Orphaned(some) == {IF c.kind = "sync" THEN c ELSE [c EXCEPT !.mounted = FALSE] : c \in some}

SignedOut == authenticated' = FALSE /\ data' = None /\ Unmount

(* Mutant: an answer is shown whenever it comes. *)
AlwaysCurrent(load) == TRUE

Current(load) == load.version = requestVersion

LoadReturns(load) ==
  /\ load \in loads /\ load.at # "sent"
  /\ loads' = loads \ {load}
  /\ IF ~Current(load) THEN UNCHANGED <<dashboard, loading, calls, leadForm>>
     ELSE /\ loading' = FALSE
          /\ failed' = (load.at # "done")
          /\ \/ /\ load.at = "denied"
                /\ SignedOut /\ calls' = Orphaned(calls)
             \/ /\ load.at = "error"
                /\ UNCHANGED <<authenticated, data, calls, leadForm>>
             \/ /\ load.at = "done"
                /\ data' = load.report
                /\ UNCHANGED <<authenticated, calls, leadForm>>
          /\ UNCHANGED adding
  /\ UNCHANGED <<server, rows, cookie, leaving, requestVersion>>

-----------------------------------------------------------------------------
(***************************************************************************)
(* The session.                                                            *)
(***************************************************************************)
(* AdminSignIn and the effect that follows. *)
SignIn ==
  /\ ~authenticated
  /\ cookie' = TRUE /\ authenticated' = TRUE /\ loading' = TRUE /\ failed' = FALSE
  /\ leaving' = IF leaving = "left" THEN "no" ELSE leaving
  /\ Load(TRUE)
  /\ UNCHANGED <<server, rows, data, adding, calls, leadForm>>

(* A second click while the first is under way, which the page allows, is left out. *)
ClickLogout ==
  /\ authenticated /\ leaving # "asked" /\ ~Syncing /\ ~adding
  /\ leaving' = "asked"
  /\ UNCHANGED <<server, rows, cookie, dashboard, loading, requestVersion, loads, calls, leadForm>>

(* Mutant: loads under way are not outdated by signing out. *)
LogoutSucceedsKeepingVersion ==
  /\ leaving = "asked" /\ leaving' = "left"
  /\ cookie' = FALSE /\ failed' = FALSE
  /\ SignedOut /\ calls' = Orphaned(calls)
  /\ UNCHANGED <<server, rows, adding, loading, requestVersion, loads>>

(* The cookie is cleared; the signed session itself is not revoked. *)
LogoutSucceeds ==
  /\ leaving = "asked" /\ leaving' = "left"
  /\ cookie' = FALSE /\ failed' = FALSE
  /\ requestVersion < MaxLoads /\ requestVersion' = requestVersion + 1
  /\ SignedOut /\ calls' = Orphaned(calls)
  /\ UNCHANGED <<server, rows, adding, loading, loads>>

LogoutFails ==
  /\ leaving = "asked" /\ leaving' = "no"
  /\ failed' = TRUE
  /\ UNCHANGED <<server, rows, cookie, authenticated, data, adding, loading, requestVersion, loads,
                 calls, leadForm>>

-----------------------------------------------------------------------------
(***************************************************************************)
(* Calls: synchronizing, adding a lead, changing a price.                  *)
(***************************************************************************)
Shown == authenticated /\ data # None

Send(kind, value) ==
  /\ Cardinality(calls) < MaxCalls
  /\ calls' = calls \cup {[kind |-> kind, cookie |-> cookie, mounted |-> TRUE, at |-> "sent",
                           value |-> value, version |-> 0]}

ClickSync ==
  /\ Shown /\ ~Syncing /\ ~loading /\ ~adding
  /\ Send("sync", 0)
  /\ UNCHANGED <<server, rows, cookie, leaving, dashboard, loading, requestVersion, loads, leadForm>>

OpenForm ==
  /\ Shown /\ ~open /\ ~Syncing /\ ~loading /\ ~Saving("entry")
  /\ open' = TRUE
  /\ UNCHANGED <<server, rows, cookie, leaving, dashboard, loading, requestVersion, loads, calls,
                 requestId, sent, drawn>>

CloseForm ==
  /\ Shown /\ open /\ ~Saving("entry")
  /\ Unmount
  /\ UNCHANGED <<server, rows, cookie, leaving, dashboard, loading, requestVersion, loads, calls>>

(* Mutant: every submission draws an id. *)
SubmitWithNewId ==
  /\ Shown /\ open /\ ~Syncing /\ ~loading /\ ~Saving("entry")
  /\ drawn < MaxIds /\ drawn' = drawn + 1
  /\ requestId' = drawn'
  /\ sent' = sent \cup {requestId'}
  /\ adding' = TRUE
  /\ Send("entry", requestId')
  /\ UNCHANGED <<server, rows, cookie, leaving, authenticated, data, failed, loading,
                 requestVersion, loads, open>>

(* A form keeps its id until it is closed. *)
Submit ==
  /\ Shown /\ open /\ ~Syncing /\ ~loading /\ ~Saving("entry")
  /\ \/ requestId = None /\ drawn < MaxIds /\ drawn' = drawn + 1 /\ requestId' = drawn'
     \/ requestId # None /\ UNCHANGED <<requestId, drawn>>
  /\ sent' = sent \cup {requestId'}
  /\ adding' = TRUE
  /\ Send("entry", requestId')
  /\ UNCHANGED <<server, rows, cookie, leaving, authenticated, data, failed, loading,
                 requestVersion, loads, open>>

SavePrice ==
  /\ Shown /\ ~Saving("price") /\ ~Syncing /\ ~loading /\ ~adding
  /\ Send("price", 0)
  /\ UNCHANGED <<server, rows, cookie, leaving, dashboard, loading, requestVersion, loads, leadForm>>

(* The server handles a call, or fails without doing it; its answer may be lost. *)
Handle(call) ==
  /\ call \in calls /\ call.at = "sent"
  /\ \/ /\ call.cookie
        /\ call.kind = "price" => server.price < MaxPrice
        /\ server' = [state |-> IF call.kind # "price" /\ server.state < MaxState
                                THEN server.state + 1 ELSE server.state,
                      price |-> IF call.kind = "price" THEN server.price + 1 ELSE server.price]
        /\ rows' = IF call.kind = "entry" THEN rows \cup {call.value} ELSE rows
        /\ \E at \in {"done", "error"} :
             calls' = (calls \ {call}) \cup
               {[call EXCEPT !.at = at, !.cookie = FALSE, !.value = IF call.kind = "price" THEN server'.price ELSE @]}
     \/ /\ calls' = (calls \ {call}) \cup
             {[call EXCEPT !.at = IF call.cookie THEN "error" ELSE "denied", !.cookie = FALSE]}
        /\ UNCHANGED <<server, rows>>
  /\ UNCHANGED <<cookie, leaving, dashboard, loading, requestVersion, loads, leadForm>>

Reloading(call) == [call EXCEPT !.at = "reloading", !.value = 0, !.version = requestVersion']

(* sync: whatever came of it, the dashboard is loaded. *)
SyncReturns(call) ==
  /\ call \in calls /\ call.kind = "sync" /\ call.at \in {"done", "denied", "error"}
  /\ Load(cookie)
  /\ LET others == calls \ {call}
     IN  IF call.at = "denied"
         THEN SignedOut /\ calls' = Orphaned(others) \cup {Reloading(call)}
         ELSE /\ calls' = others \cup {Reloading(call)}
              /\ UNCHANGED <<authenticated, data, leadForm>>
  /\ UNCHANGED <<server, rows, cookie, leaving, failed, adding, loading>>

(* A saved entry closes its form, if that is still there; a failed one leaves
   it with its id. *)
EntryReturns(call) ==
  /\ call \in calls /\ call.kind = "entry" /\ call.at \in {"done", "denied", "error"}
  /\ IF call.at = "done"
     THEN /\ Load(cookie)
          /\ calls' = (calls \ {call}) \cup {Reloading(call)}
          /\ IF call.mounted THEN Unmount ELSE UNCHANGED leadForm
          /\ UNCHANGED adding
     ELSE /\ calls' = calls \ {call}
          /\ adding' = FALSE
          /\ UNCHANGED <<requestVersion, loads, leadForm>>
  /\ UNCHANGED <<server, rows, cookie, leaving, authenticated, data, failed, loading>>

(* The saved rule is put into the dashboard before that is loaded anew. *)
PriceReturns(call) ==
  /\ call \in calls /\ call.kind = "price" /\ call.at \in {"done", "denied", "error"}
  /\ IF call.at = "done"
     THEN /\ Load(cookie)
          /\ data' = IF data = None THEN None ELSE [data EXCEPT !.price = call.value]
          /\ calls' = (calls \ {call}) \cup {Reloading(call)}
     ELSE /\ calls' = calls \ {call}
          /\ UNCHANGED <<data, requestVersion, loads>>
  /\ UNCHANGED <<server, rows, cookie, leaving, authenticated, failed, adding, loading, leadForm>>

(* The load a call awaited has returned. *)
CallEnds(call) ==
  /\ call \in calls /\ call.at = "reloading"
  /\ \A l \in loads : l.version # call.version
  /\ calls' = calls \ {call}
  /\ adding' = IF call.kind = "entry" THEN FALSE ELSE adding
  /\ UNCHANGED <<server, rows, cookie, leaving, authenticated, data, failed, loading,
                 requestVersion, loads, leadForm>>

-----------------------------------------------------------------------------
SessionStep == SignIn \/ ClickLogout \/ LogoutSucceeds \/ LogoutFails \/ Expire

LoadStep == OnFocus \/ ClickRefresh \/ \E load \in loads : Serve(load) \/ LoadReturns(load)

CallStep ==
  \/ ClickSync \/ OpenForm \/ CloseForm \/ Submit \/ SavePrice
  \/ \E call \in calls :
       Handle(call) \/ SyncReturns(call) \/ EntryReturns(call) \/ PriceReturns(call) \/ CallEnds(call)

OperationsNext == SessionStep \/ LoadStep \/ CallStep \/ OthersAct

OperationsSpec == OperationsInit /\ [][OperationsNext]_operationsVars

-----------------------------------------------------------------------------
(* The dashboard never goes back in time while it is shown: overlapping loads,
   the focus of the window, calls that return late and merged prices always
   leave a report at least as new as the one before (dashboard.tsx:42-64).  Only
   the answer to a saved price, merged on its return, may be late, and then another
   save has overtaken it; the load that follows shows the later price. *)
NeverShowsOlderReport ==
  [][data # None /\ data' # None
       => /\ data'.state >= data.state
          /\ \/ data'.price >= data.price
             \/ \E c \in calls \ calls' :
                  c.kind = "price" /\ c.value = data'.price /\ c.value < server.price]_operationsVars

(* After signing out the page holds no report until the next sign-in, however
   late the answers to the earlier session come (dashboard.tsx:115). *)
SignedOutShowsNothing == leaving = "left" => data = None

(* One lead form, one row: however often the administrator submits it after
   errors, lost answers or an expired session, until the form is closed
   (add-lead.tsx:119). *)
OneRowPerForm == Cardinality(rows \cap sent) <= 1
=============================================================================
