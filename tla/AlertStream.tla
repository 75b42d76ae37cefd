---------------------------- MODULE AlertStream -----------------------------
(***************************************************************************)
(* The live alert feed (services/api-bff/app/alert_stream.py and the       *)
(* WebSocket endpoint of main.py).  One thread consumes anomaly.flagged    *)
(* and hands each alert to the event loop, which puts it into a bounded    *)
(* queue per connected dashboard; one coroutine per dashboard sends from   *)
(* its queue.                                                              *)
(*                                                                         *)
(* Steps of the event loop run from one await to the next; the consumer    *)
(* thread, the broker and the browsers act in between.                     *)
(***************************************************************************)
EXTENDS Naturals, Sequences, SequencesExt

CONSTANTS
  Session,     (* WebSocket connections dashboards make                     *)
  Fickle,      (* those whose browser may stop reading or go away           *)
  MaxQueued,   (* MAX_QUEUED_ALERTS_PER_CLIENT                              *)
  MaxAlerts,   (* bound: anomalies flagged                                  *)
  MaxFaults    (* bound: lost broker connections and restarts of api-bff    *)

ASSUME AlertStreamAssumption ==
  Fickle \subseteq Session /\ MaxQueued \in Nat \ {0} /\ MaxAlerts \in Nat /\ MaxFaults \in Nat

VARIABLES
  published,   (* alerts published so far: alert n is the n-th              *)
  bus,         (* api-bff.alerts: alerts ready for delivery                 *)
  holding,     (* the alert the consumer thread has not acknowledged        *)
  calls,       (* the loop's callbacks: alerts waiting for _fan_out         *)
  endpoint,    (* where stream_alerts is, for each session                  *)
  subscribers, (* _subscribers                                              *)
  queued,      (* each session's asyncio.Queue                              *)
  hand,        (* the alert each session is sending                         *)
  tab,         (* what the browser does with its end of the connection      *)
  sent,        (* history: what each browser was sent                       *)
  due,         (* history: what was fanned out while it was subscribed      *)
  behind,      (* history: sessions that ever were MaxQueued alerts behind  *)
  fanned,      (* history: alerts _fan_out has offered to its subscribers   *)
  lost,        (* history: alerts acknowledged whose callback a restart     *)
               (* forgot                                                    *)
  faults

feed == <<published, bus, holding, calls>>
served == <<endpoint, subscribers, queued, hand, sent>>
vars == <<feed, served, tab, due, behind, fanned, lost, faults>>

None == 0
Alert == 1 .. MaxAlerts

Init ==
  /\ published = 0 /\ bus = << >> /\ holding = None /\ calls = << >>
  /\ endpoint = [s \in Session |-> "new"]
  /\ subscribers = {}
  /\ queued = [s \in Session |-> << >>]
  /\ hand = [s \in Session |-> None]
  /\ tab = [s \in Session |-> "reading"]
  /\ sent = [s \in Session |-> << >>]
  /\ due = [s \in Session |-> << >>]
  /\ behind = {} /\ fanned = {} /\ lost = {} /\ faults = 0

----------------------------------------------------------------------------
(* The consumer thread                                                     *)

Flag ==
  /\ published < MaxAlerts
  /\ published' = published + 1
  /\ bus' = Append(bus, published')
  /\ UNCHANGED <<holding, calls, served, tab, due, behind, fanned, lost, faults>>

(* _on_message: call_soon_threadsafe(_fan_out); the acknowledgement does   *)
(* not wait for the callback.                                              *)
OnMessage ==
  /\ holding = None /\ bus # << >>
  /\ holding' = Head(bus)
  /\ bus' = Tail(bus)
  /\ calls' = Append(calls, Head(bus))
  /\ UNCHANGED <<published, served, tab, due, behind, fanned, lost, faults>>

Ack ==
  /\ holding # None
  /\ holding' = None
  /\ UNCHANGED <<published, bus, calls, served, tab, due, behind, fanned, lost, faults>>

(* Mutant: consuming with auto_ack, nothing is delivered again.            *)
ReturnedAutoAck == bus

(* The alerts the broker has when the consumer's connection ends: what was *)
(* not acknowledged is delivered again.                                    *)
Returned == IF holding = None THEN bus ELSE <<holding>> \o bus

ConnectionLost ==
  /\ holding # None
  /\ faults < MaxFaults /\ faults' = faults + 1
  /\ holding' = None /\ bus' = Returned
  /\ UNCHANGED <<published, calls, served, tab, due, behind, fanned, lost>>

----------------------------------------------------------------------------
(* The event loop                                                          *)

(* Mutant: QueueFull is caught around the loop instead of in it.           *)
PutUnlessAnyFull(s, alert) ==
  IF \A t \in subscribers : Len(queued[t]) < MaxQueued
  THEN Append(queued[s], alert) ELSE queued[s]

(* put_nowait: a full queue drops the alert.                               *)
Put(s, alert) ==
  IF Len(queued[s]) < MaxQueued THEN Append(queued[s], alert) ELSE queued[s]

(* Every subscriber gets its chance; a full queue does not end the loop.   *)
PutForAll(alert) ==
  /\ queued' = [s \in Session |-> IF s \in subscribers THEN Put(s, alert) ELSE queued[s]]
  /\ due' = [s \in Session |-> IF s \in subscribers THEN Append(due[s], alert) ELSE due[s]]
  /\ behind' = behind \cup {s \in subscribers : Len(due[s]) - Len(sent[s]) >= MaxQueued}
  /\ fanned' = fanned \cup {alert}
  /\ UNCHANGED <<published, bus, holding, endpoint, subscribers, hand, tab, sent,
                 lost, faults>>

(* Mutant: `queue.put`, which waits for room.                              *)
FanOutWaiting ==
  /\ calls # << >> /\ \A s \in subscribers : Len(queued[s]) < MaxQueued
  /\ calls' = Tail(calls)
  /\ PutForAll(Head(calls))

FanOut ==
  /\ calls # << >>
  /\ calls' = Tail(calls)
  /\ PutForAll(Head(calls))

Goto(s, step) == endpoint' = [endpoint EXCEPT ![s] = step]

(* The token is valid and the handshake completes: the browser takes the   *)
(* stream for live from here on.                                           *)
Accept(s) ==
  /\ endpoint[s] = "new"
  /\ Goto(s, "accepted")
  /\ UNCHANGED <<feed, subscribers, queued, hand, sent, tab, due, behind, fanned, lost, faults>>

Subscribe(s) ==
  /\ endpoint[s] = "accepted"
  /\ subscribers' = subscribers \cup {s}
  /\ Goto(s, "get")
  /\ UNCHANGED <<feed, queued, hand, sent, tab, due, behind, fanned, lost, faults>>

(* alert = await queue.get()                                               *)
Get(s) ==
  /\ endpoint[s] = "get" /\ queued[s] # << >>
  /\ hand' = [hand EXCEPT ![s] = Head(queued[s])]
  /\ queued' = [queued EXCEPT ![s] = Tail(@)]
  /\ Goto(s, "send")
  /\ UNCHANGED <<feed, subscribers, sent, tab, due, behind, fanned, lost, faults>>

(* await websocket.send_json(alert): returns once the browser takes it.    *)
Send(s) ==
  /\ endpoint[s] = "send" /\ tab[s] = "reading"
  /\ sent' = [sent EXCEPT ![s] = Append(@, hand[s])]
  /\ hand' = [hand EXCEPT ![s] = None]
  /\ Goto(s, "get")
  /\ UNCHANGED <<feed, subscribers, queued, tab, due, behind, fanned, lost, faults>>

(* Mutant: the handler returns without unsubscribing.                      *)
DisconnectSubscribed(s) ==
  /\ endpoint[s] = "send" /\ tab[s] = "left"
  /\ hand' = [hand EXCEPT ![s] = None]
  /\ Goto(s, "closed")
  /\ UNCHANGED <<feed, subscribers, queued, sent, tab, due, behind, fanned, lost, faults>>

(* A browser that left is noticed when something is sent to it; `finally`  *)
(* unsubscribes its queue, which nothing refers to any longer.             *)
Disconnect(s) ==
  /\ endpoint[s] = "send" /\ tab[s] = "left"
  /\ subscribers' = subscribers \ {s}
  /\ hand' = [hand EXCEPT ![s] = None]
  /\ queued' = [queued EXCEPT ![s] = << >>]
  /\ Goto(s, "closed")
  /\ UNCHANGED <<feed, sent, tab, due, behind, fanned, lost, faults>>

----------------------------------------------------------------------------
(* Browsers and faults                                                     *)

(* A tab stops reading, wakes up again, or goes away.                      *)
Turn(s) ==
  /\ s \in Fickle /\ endpoint[s] # "new" /\ tab[s] # "left"
  /\ \E next \in {"reading", "stalled", "left"} \ {tab[s]} : tab' = [tab EXCEPT ![s] = next]
  /\ UNCHANGED <<feed, served, due, behind, fanned, lost, faults>>

(* api-bff restarts: callbacks, queues and sessions are gone.  The browser *)
(* does not reconnect by itself.                                           *)
Restart ==
  /\ faults < MaxFaults /\ faults' = faults + 1
  /\ holding' = None /\ bus' = Returned /\ calls' = << >>
  /\ lost' = lost \cup (ToSet(calls) \ ({holding} \cup ToSet(bus)))
  /\ endpoint' = [s \in Session |-> IF endpoint[s] = "new" THEN "new" ELSE "closed"]
  /\ subscribers' = {}
  /\ queued' = [s \in Session |-> << >>]
  /\ hand' = [s \in Session |-> None]
  /\ UNCHANGED <<published, sent, tab, due, behind, fanned>>

Serve(s) == Subscribe(s) \/ Get(s) \/ Send(s) \/ Disconnect(s)

Next ==
  \/ Flag \/ OnMessage \/ Ack \/ ConnectionLost \/ FanOut \/ Restart
  \/ \E s \in Session : Accept(s) \/ Serve(s) \/ Turn(s)

(* The consumer restarts itself for ever and the event loop runs whatever  *)
(* is ready.  No browser has to read, to stay or to leave.                 *)
FairSpec ==
  /\ Init /\ [][Next]_vars
  /\ WF_vars(OnMessage) /\ WF_vars(Ack) /\ WF_vars(FanOut)
  /\ \A s \in Session : WF_vars(Serve(s))

----------------------------------------------------------------------------
(* Properties                                                              *)

TypeOK ==
  /\ published \in 0 .. MaxAlerts
  /\ bus \in Seq(Alert) /\ calls \in Seq(Alert) /\ holding \in Alert \cup {None}
  /\ endpoint \in [Session -> {"new", "accepted", "get", "send", "closed"}]
  /\ subscribers = {s \in Session : endpoint[s] \in {"get", "send"}}
  /\ queued \in [Session -> Seq(Alert)] /\ \A s \in Session : Len(queued[s]) <= MaxQueued
  /\ hand \in [Session -> Alert \cup {None}]
  /\ \A s \in Session : (hand[s] # None) = (endpoint[s] = "send")
  /\ tab \in [Session -> {"reading", "stalled", "left"}]
  /\ sent \in [Session -> Seq(Alert)] /\ due \in [Session -> Seq(Alert)]
  /\ behind \subseteq Session /\ fanned \subseteq Alert /\ lost \subseteq Alert /\ faults \in 0 .. MaxFaults

InTransit(s) == (IF hand[s] = None THEN << >> ELSE <<hand[s]>>) \o queued[s]

OthersLoseNothing ==
  \A s \in subscribers \ behind : sent[s] \o InTransit(s) = due[s]

SlowLosesNewest ==
  \A s \in subscribers :
    LET got == sent[s] \o InTransit(s)
        n == IF Len(got) < MaxQueued THEN Len(got) ELSE MaxQueued IN
    SubSeq(got, 1, n) = SubSeq(due[s], 1, n)

(* "A stalled browser tab must not become a backpressure problem for the   *)
(* whole service": a dashboard that never fell MaxQueued alerts behind is  *)
(* sent each alert fanned out since it subscribed, in order, whatever the  *)
(* other tabs do; one that cannot keep up loses the newest alerts, so that *)
(* what it holds when it first falls behind is a prefix of what it is due. *)
SlowHarmsOnlyItself == OthersLoseNothing /\ SlowLosesNewest

(* No tab that stalls or leaves holds up the feed and nothing falls out of *)
(* it: every alert is offered to the subscribers of some moment, unless a  *)
(* restart forgot it between its acknowledgement and its callback.         *)
AlertsFlow == \A n \in Alert : n <= published ~> n \in fanned \cup lost

(* A browser that left is forgotten once there is something to send to it, *)
(* so sessions do not pile up.                                             *)
LeaversForgotten ==
  \A s \in Session :
    (tab[s] = "left" /\ InTransit(s) # << >>) ~> s \notin subscribers
=============================================================================
