----------------------------- MODULE Incidents ------------------------------
(***************************************************************************)
(* The dashboard's incident panel (frontend/src/components/Incidents.tsx)  *)
(* and the api-bff handlers its buttons call, over an AuditTrail that the  *)
(* other services keep writing.                                            *)
(*                                                                         *)
(* A refresh asks for the newest anomalies and the newest actions in two   *)
(* requests, which the server answers at different moments, and shows both *)
(* when it has both.  Refreshes of the timer, of a change of view and of   *)
(* the buttons are not cancelled and may overtake each other.              *)
(*                                                                         *)
(* Anomaly n is the n-th flagged.  The actions a refresh brought are the   *)
(* last ActionsWindow entries of the trail as long as it was then, so the  *)
(* panel's actions are known by that length, `asOf`.                       *)
(***************************************************************************)
EXTENDS AuditTrail, FiniteSetsExt, Functions

CONSTANTS
  Timer,          (* refreshes of the timer that may be under way at once   *)
                  (* (bound)                                                *)
  Act,            (* clicks, or refreshes of a change of view, that may be  *)
                  (* under way at once beside them (bound)                  *)
  Recent,         (* RECENT_WINDOW                                          *)
  Actionable,     (* ACTIONABLE_WINDOW                                      *)
  ActionsWindow,  (* the limit of api.actions()                             *)
  Written,        (* results of the rows other services write in this       *)
                  (* instance                                               *)
  MaxEntries,     (* bound: entries of the trail                            *)
  MaxEvents       (* bound: live alerts, changes of view, decisions to do   *)
                  (* nothing, failed requests and failed publishes, together*)

ASSUME IncidentsAssumption ==
  /\ IsFiniteSet(Anomaly) /\ Anomaly = 1 .. Cardinality(Anomaly)
  /\ {Recent, Actionable, ActionsWindow, MaxEntries, MaxEvents} \subseteq Nat
  /\ 0 < Recent /\ Recent <= Actionable /\ 0 < ActionsWindow
  /\ Timer \cap Act = {} /\ IsFiniteSet(Act)

VARIABLES
  flagged,  (* anomalies in the table                                       *)
  list,     (* state `anomalies`: newest first                              *)
  asOf,     (* state `actions`: the trail's length when they were read      *)
  wide,     (* state `actionableOnly`                                       *)
  busy,     (* state `busy`: an anomaly or None                             *)
  fetch,    (* the refreshes under way                                      *)
  act,      (* the clicks under way, in the browser and in api-bff          *)
  events    (* what MaxEvents bounds, so far                                *)

shown == <<list, asOf, wide, busy>>
vars == <<trail, flagged, shown, fetch, act, events>>

Unread == MaxEntries + Cardinality(Anomaly) + 1
NoFetch == [on |-> FALSE, wide |-> FALSE, anomalies |-> Unread, actions |-> Unread]
NoAct == [pc |-> "idle", kind |-> "approve", anomaly |-> None, entry |-> None,
          wide |-> FALSE]

Init ==
  /\ TrailInit
  /\ flagged = 0
  /\ list = << >> /\ asOf = 0 /\ wide = FALSE /\ busy = None
  /\ fetch = [t \in Timer \cup Act |-> NoFetch]
  /\ act = [c \in Act |-> NoAct]
  /\ events = 0

Event == events < MaxEvents /\ events' = events + 1

----------------------------------------------------------------------------
(* Reading forward                                                         *)

(* Mutant: ORDER BY executed_at without DESC.                              *)
OldestActions(length) == {i \in 1 .. length : i <= ActionsWindow}

(* list_actions: ORDER BY executed_at DESC LIMIT.                          *)
NewestActions(length) == {i \in 1 .. length : i + ActionsWindow > length}

(* list_anomalies: ORDER BY created_at DESC LIMIT.                         *)
NewestAnomalies(count, isWide) ==
  LET limit == IF isWide THEN Actionable ELSE Recent
      n == IF count < limit THEN count ELSE limit IN
  [i \in 1 .. n |-> count + 1 - i]

(* The index of the latest of `entries` about a with this result, or 0.    *)
LatestOf(entries, a, result) ==
  Max({0} \cup {i \in entries : trail[i].anomaly = a /\ trail[i].result = result})

(* Mutant: `>=`, true of an anomaly with neither.                          *)
CallsForLoosely(entries, kind, a) ==
  IF kind = "approve"
  THEN LatestOf(entries, a, "pending_approval") >= LatestOf(entries, a, "dispatched")
  ELSE LatestOf(entries, a, "executed") > LatestOf(entries, a, "rolled_back")

(* Mutant: pending until executed, instead of until dispatched.            *)
CallsForUntilExecuted(entries, kind, a) ==
  IF kind = "approve"
  THEN LatestOf(entries, a, "pending_approval") > LatestOf(entries, a, "executed")
  ELSE LatestOf(entries, a, "executed") > LatestOf(entries, a, "rolled_back")

(* isPending and hasExecuted                                               *)
CallsFor(entries, kind, a) ==
  IF kind = "approve"
  THEN LatestOf(entries, a, "pending_approval") > LatestOf(entries, a, "dispatched")
  ELSE LatestOf(entries, a, "executed") > LatestOf(entries, a, "rolled_back")

(* The panel shows the button.                                             *)
Offered(kind, a) ==
  a \in Range(list) /\ CallsFor(NewestActions(asOf), kind, a)

----------------------------------------------------------------------------
(* Refreshing                                                              *)

(* No refresh is under way in this place, and no click that will await one.*)
Free(t) == ~fetch[t].on /\ (t \in Act => act[t].pc = "idle")
Awaited(t) == t \in Act /\ act[t].pc = "refresh"

Ask(t, isWide) == fetch' = [fetch EXCEPT ![t] = [NoFetch EXCEPT !.on = TRUE, !.wide = isWide]]

(* Mutant: the timer keeps the view it was created with.                   *)
PollFirstView(t) ==
  /\ ~fetch[t].on
  /\ Ask(t, FALSE)
  /\ UNCHANGED <<trail, flagged, shown, act, events>>

(* The timer fires: refresh(), with the view shown now.                    *)
Poll(t) ==
  /\ ~fetch[t].on
  /\ Ask(t, wide)
  /\ UNCHANGED <<trail, flagged, shown, act, events>>

(* The trail has room for n entries besides those clicks may still append. *)
Room(n) ==
  Len(trail) + n + 2 * Cardinality({c \in Act : act[c].pc \in {"read", "append"}})
    + Cardinality({c \in Act : act[c].pc = "publish"}) <= MaxEntries

(* Bound: the wide view is explored over trails one entry shorter.         *)
Spare == IF wide THEN 1 ELSE 0

(* Another view is chosen: the effect runs again, with a refresh at once,  *)
(* whatever is under way.                                                  *)
Toggle(t) ==
  /\ Event
  /\ wide \/ Room(1)
  /\ wide' = ~wide
  /\ Free(t) /\ Ask(t, wide')
  /\ UNCHANGED <<trail, flagged, list, asOf, busy, act>>

(* The server reads one of the two tables for the refresh.                 *)
ReadAnomalies(t) ==
  /\ fetch[t].on /\ fetch[t].anomalies = Unread
  /\ fetch' = [fetch EXCEPT ![t].anomalies = flagged]
  /\ UNCHANGED <<trail, flagged, shown, act, events>>

ReadActions(t) ==
  /\ fetch[t].on /\ fetch[t].actions = Unread
  /\ fetch' = [fetch EXCEPT ![t].actions = Len(trail)]
  /\ UNCHANGED <<trail, flagged, shown, act, events>>

(* A refresh ends; if a click awaited it, so does the click, and `finally` *)
(* clears busy, whichever anomaly that names by now.                       *)
EndOf(t) ==
  /\ fetch' = [fetch EXCEPT ![t] = NoFetch]
  /\ act' = IF Awaited(t) THEN [act EXCEPT ![t] = NoAct] ELSE act
  /\ busy' = IF Awaited(t) THEN None ELSE busy

(* Promise.all has both answers: setAnomalies, setActions.                 *)
Show(t) ==
  /\ fetch[t].anomalies # Unread /\ fetch[t].actions # Unread
  /\ list' = NewestAnomalies(fetch[t].anomalies, fetch[t].wide)
  /\ asOf' = fetch[t].actions
  /\ EndOf(t)
  /\ UNCHANGED <<trail, flagged, wide, events>>

(* One of the two fails: nothing is shown, and the timer goes on.          *)
RefreshFails(t) ==
  /\ fetch[t].on
  /\ Event
  /\ EndOf(t)
  /\ UNCHANGED <<trail, flagged, list, asOf, wide>>

(* Mutant: no guard against a duplicate.                                   *)
PrependBlindly(a) == SubSeq(<<a>> \o list, 1, IF Len(list) < Actionable THEN Len(list) + 1
                                                                       ELSE Actionable)
Prepend(a) ==
  IF a \in Range(list) THEN list
  ELSE SubSeq(<<a>> \o list, 1, IF Len(list) < Actionable THEN Len(list) + 1
                                                          ELSE Actionable)

(* A live alert, late, repeated or out of turn as the feed may deliver it. *)
OnAlert(a) ==
  /\ a <= flagged /\ Event
  /\ list' = Prepend(a)
  /\ UNCHANGED <<trail, flagged, asOf, wide, busy, fetch, act>>

----------------------------------------------------------------------------
(* Buttons                                                                 *)

Advance(c, pc, entry) == act' = [act EXCEPT ![c].pc = pc, ![c].entry = entry]

(* act(): busy disables the buttons of one incident only.                  *)
Click(c, kind, a) ==
  /\ Free(c) /\ Offered(kind, a) /\ busy # a /\ Room(2 + Spare)
  /\ busy' = a
  /\ act' = [act EXCEPT ![c] = [pc |-> "read", kind |-> kind, anomaly |-> a,
                               entry |-> None, wide |-> wide]]
  /\ UNCHANGED <<trail, flagged, list, asOf, wide, fetch, events>>

Target(c) ==
  LatestOf(DOMAIN trail, act[c].anomaly,
           IF act[c].kind = "approve" THEN "pending_approval" ELSE "executed")

(* approve_action / rollback_action, first transaction: the latest row.    *)
ReadRow(c) ==
  /\ act[c].pc = "read"
  /\ Advance(c, "append", Target(c))
  /\ UNCHANGED <<trail, flagged, shown, fetch, events>>

(* Second transaction: _append_action, whatever was appended since.        *)
AppendDispatch(c) ==
  /\ act[c].pc = "append"
  /\ IF act[c].kind = "approve" THEN Approve(act[c].entry) ELSE AskReversal(act[c].entry)
  /\ Advance(c, "publish", Len(trail'))
  /\ UNCHANGED <<flagged, shown, fetch, events>>

(* _publish_or_fail: 200, and the panel refreshes.                         *)
PublishRequest(c) ==
  /\ act[c].pc = "publish"
  /\ Advance(c, "refresh", act[c].entry)
  /\ Ask(c, act[c].wide)
  /\ UNCHANGED <<trail, flagged, shown, events>>

(* _publish_or_fail: dispatch_failed and 503; the panel shows the error    *)
(* and does not refresh.                                                   *)
PublishFails(c) ==
  /\ act[c].pc = "publish"
  /\ Event
  /\ DispatchFailed(act[c].entry)
  /\ act' = [act EXCEPT ![c] = NoAct]
  /\ busy' = None
  /\ UNCHANGED <<flagged, list, asOf, wide, fetch>>

----------------------------------------------------------------------------
(* The rest of the system                                                  *)

Flag ==
  /\ flagged < Cardinality(Anomaly)
  /\ flagged' = flagged + 1
  /\ UNCHANGED <<trail, shown, fetch, act, events>>

(* decision-policy decides, once or again; the executor answers what was   *)
(* published.                                                              *)
Elsewhere ==
  /\ Room(1 + Spare)
  /\ \/ \E a \in 1 .. flagged, action \in Remedies : Decide(a, action)
     \/ \E d \in DOMAIN trail :
          /\ \A c \in Act : act[c].pc = "publish" => act[c].entry # d
          /\ \A i \in DOMAIN trail : trail[i].parent # d
          /\ Outcome(d)
  /\ trail'[Len(trail')].result \in Written
  /\ UNCHANGED <<flagged, shown, fetch, act, events>>

(* decision-policy decides to do nothing, which takes its place in the     *)
(* window all the same.                                                    *)
DecideNothing ==
  /\ Event
  /\ Room(1 + Spare)
  /\ \E a \in 1 .. flagged, action \in Remedies \cup {"alert_only"} : Withhold(a, action)
  /\ trail'[Len(trail')].result \in Written
  /\ UNCHANGED <<flagged, shown, fetch, act>>

Fetching(t) == ReadAnomalies(t) \/ ReadActions(t) \/ Show(t)
Serving(c) == ReadRow(c) \/ AppendDispatch(c) \/ PublishRequest(c)

Next ==
  \/ Flag \/ Elsewhere \/ DecideNothing
  \/ \E a \in Anomaly : OnAlert(a)
  \/ \E t \in Timer : Poll(t)
  \/ \E t \in Timer \cup Act : Toggle(t) \/ Fetching(t) \/ RefreshFails(t)
  \/ \E c \in Act :
       \/ \E kind \in {"approve", "rollback"}, a \in Anomaly : Click(c, kind, a)
       \/ Serving(c) \/ PublishFails(c)

(* The timer keeps firing while the panel is open, and the server answers. *)
FairSpec ==
  /\ Init /\ [][Next]_vars
  /\ \A t \in Timer : WF_vars(Poll(t))
  /\ \A t \in Timer \cup Act : WF_vars(Fetching(t))
  /\ \A c \in Act : WF_vars(Serving(c))
----------------------------------------------------------------------------
(* Properties                                                              *)

Kind == {"approve", "rollback"}
Row ==
  [anomaly : Anomaly, parent : Nat, ref : Nat,
   action : Remedies \cup {"alert_only", "rollback"},
   result : RemedyOutcome \cup
            {"alert_only_no_action_taken", "alert_only_low_confidence", "dispatched",
             "pending_approval", "dispatch_failed", "rolled_back", "rollback_window_expired",
             "rollback_failed_no_reference"}]
FetchRecord ==
  [on : BOOLEAN, wide : BOOLEAN, anomalies : 0 .. Cardinality(Anomaly) \cup {Unread},
   actions : 0 .. MaxEntries \cup {Unread}]
ClickRecord ==
  [pc : {"idle", "read", "append", "publish", "refresh"}, kind : Kind,
   anomaly : 0 .. Cardinality(Anomaly), entry : 0 .. MaxEntries, wide : BOOLEAN]

(* A refresh in a click's place is the one it awaits, or of another view.  *)
Paired(click, f) ==
  /\ click.pc = "refresh" => f.on
  /\ f.on => click.pc \in {"idle", "refresh"}

ShownType ==
  /\ asOf \in 0 .. Len(trail)
  /\ list \in Seq(1 .. flagged) /\ Len(list) <= Actionable /\ IsInjective(list)
  /\ wide \in BOOLEAN /\ busy \in 0 .. flagged

TypeOK ==
  /\ flagged \in 0 .. Cardinality(Anomaly)
  /\ trail \in Seq(Row) /\ Len(trail) <= MaxEntries
  /\ ShownType
  /\ fetch \in [Timer \cup Act -> FetchRecord] /\ act \in [Act -> ClickRecord]
  /\ \A c \in Act :
       act[c].entry <= Len(trail) /\ Paired(act[c], fetch[c])

(* A window of the ledger never shows more than the ledger: a button that  *)
(* the last ActionsWindow actions call for is one that reading the whole   *)
(* trail forward, as it was then, calls for too.                           *)
WindowNeverOffersMore ==
  \A a \in 1 .. flagged, kind \in Kind :
    Offered(kind, a) => CallsFor(1 .. asOf, kind, a)

(* However stale the panel and whatever happened since the click, api-bff  *)
(* finds what the button was about: the 404 "No pending action" (or "No    *)
(* executed action") is never an answer to the panel.                      *)
OfferNeverRefused == \A c \in Act : act[c].pc = "read" => Target(c) # 0

(* An approval that succeeded ends with the button withdrawn: the refresh  *)
(* the click awaited shows its own dispatch, so that the same decision is  *)
(* not offered again at once, unless another one waits by then.            *)
WithdrawnOnceApproved ==
  [][\A c \in Act, a \in Anomaly :
       (/\ act[c].pc = "refresh" /\ act[c].kind = "approve" /\ act[c].anomaly = a
        /\ act'[c].pc = "idle" /\ asOf' = fetch[c].actions)
       => \/ ~Offered("approve", a)'
          \/ LatestOf(DOMAIN trail, a, "pending_approval") > act[c].entry]_vars

(* Whatever overtook what, the panel comes to offer what the server would: *)
(* once nothing new is written or clicked, each button the windows call    *)
(* for appears and stays, and no other does, although polls fail and       *)
(* alerts are late, repeated or lost.                                      *)
Due(kind, a) ==
  /\ a \in Range(NewestAnomalies(flagged, wide))
  /\ CallsFor(NewestActions(Len(trail)), kind, a)

PanelSettles ==
  \A a \in Anomaly, kind \in Kind : <>[](Offered(kind, a) <=> Due(kind, a))
=============================================================================
