----------------------------- MODULE Messaging ------------------------------
(***************************************************************************)
(* RabbitMQClient (shared/hypertrace_common/hypertrace_common/messaging.py)*)
(* and the broker it talks to: threads that publish through one client, as *)
(* the request threads of api-bff do, and one consume() loop on another.   *)
(*                                                                         *)
(* publish() is one action per access to the client's _connection and      *)
(* _channel, which other threads may replace in between:                   *)
(*   check -> connect -> open_channel -> use -> write -> (discard -> ...)  *)
(* A connection the broker has reaped is "stale": it still reads open, and *)
(* a write to it either raises or vanishes.                                *)
(***************************************************************************)
EXTENDS Integers, Sequences, FiniteSets, SequencesExt

CONSTANTS
  Thread,          (* the threads that share the publishing client          *)
  MaxCalls,        (* bound: publish() calls of each                        *)
  Prefetch,        (* basic_qos(prefetch_count)                             *)
  MaxDelay,        (* the cap of the reconnect backoff                      *)
  FaultKind, MaxFaults

ASSUME MessagingAssumption ==
  /\ MaxCalls \in Nat /\ Prefetch \in Nat \ {0} /\ MaxDelay \in Nat \ {0}
  /\ MaxFaults \in Nat

Message == Thread \X (1 .. MaxCalls)
Copy == Message \X {1, 2}

VARIABLES
  up,              (* whether the broker accepts connections                *)
  bound,           (* whether the consumer's queue exists and is bound      *)
  queue, unacked,  (* copies ready, and copies out for acknowledgement      *)
  conns,           (* every connection the publishing client ever opened    *)
  connection, channel, (* _connection, _channel: an index of conns, or None *)
  pub,             (* what each thread is doing in publish()                *)
  calls,           (* publish() calls made                                  *)
  failed,          (* history: calls that raised: the call, and whether the *)
                   (* broker disturbed it                                   *)
  loop,            (* where consume() is                                    *)
  link,            (* the consuming client's connection                     *)
  buffer,          (* deliveries received and not yet settled               *)
  delay, stopping,
  handled, settled, (* see Delivery                                         *)
  faults

broker == <<up, bound, queue, unacked>>
client == <<conns, connection, channel>>
publisher == <<client, pub, calls, failed>>
consumer == <<loop, link, buffer, delay, stopping, handled, settled>>
vars == <<broker, publisher, consumer, faults>>

None == 0
Accepted == ToSet(queue) \cup ToSet(unacked) \cup settled
Promise == INSTANCE Delivery WITH accepted <- Accepted

Idle == [pc |-> "idle"]
Call ==
  [pc : {"check", "connect", "open_channel", "use", "write", "discard"},
   message : Message, attempt : {1, 2}, on : Nat,
   disturbed : BOOLEAN]  (* history: the broker failed during this call     *)

Init ==
  /\ up = TRUE /\ bound = FALSE /\ queue = << >> /\ unacked = << >>
  /\ conns = << >> /\ connection = None /\ channel = None
  /\ pub = [t \in Thread |-> Idle]
  /\ calls = [t \in Thread |-> 0]
  /\ failed = {}
  /\ loop = "connect" /\ link = "none" /\ buffer = << >>
  /\ delay = 1 /\ stopping = FALSE
  /\ handled = {} /\ settled = {}
  /\ faults = 0

Fault(kind) == kind \in FaultKind /\ faults < MaxFaults /\ faults' = faults + 1
In(t, pc) == pub[t].pc = pc
GoTo(t, pc) == pub' = [pub EXCEPT ![t].pc = pc]
(* What is_open sees: "broken" is an open connection whose channel closed. *)
IsOpen(c) == conns[c] # "closed"

----------------------------------------------------------------------------
(* publish()                                                               *)

Publish(t) ==
  /\ In(t, "idle")
  /\ calls[t] < MaxCalls
  /\ calls' = [calls EXCEPT ![t] = @ + 1]
  /\ pub' = [pub EXCEPT ![t] = [pc |-> "check", message |-> <<t, calls[t] + 1>>,
                                attempt |-> 1, on |-> None, disturbed |-> ~up]]
  /\ UNCHANGED <<broker, client, failed, consumer, faults>>

(* _ensure_channel: rebuild unless the connection reads open.              *)
Check(t) ==
  /\ In(t, "check")
  /\ GoTo(t, IF connection = None \/ ~IsOpen(connection) THEN "connect" ELSE "use")
  /\ UNCHANGED <<broker, client, calls, failed, consumer, faults>>

Connect(t) ==
  /\ In(t, "connect")
  /\ IF up
     THEN /\ conns' = Append(conns, "open")
          /\ connection' = Len(conns) + 1
          /\ GoTo(t, "open_channel")
     ELSE /\ GoTo(t, "discard")
          /\ UNCHANGED <<conns, connection>>
  /\ UNCHANGED <<broker, channel, calls, failed, consumer, faults>>

(* An error that is neither an AMQPError nor an OSError leaves publish()   *)
(* at once, whatever the attempt.                                          *)
Escape(t) ==
  /\ failed' = failed \cup {[message |-> pub[t].message, disturbed |-> pub[t].disturbed]}
  /\ pub' = [pub EXCEPT ![t] = Idle]

(* self._connection.channel(): another thread may have discarded it.       *)
OpenChannel(t) ==
  /\ In(t, "open_channel")
  /\ \/ connection = None /\ Escape(t) /\ UNCHANGED channel
     \/ /\ connection # None
        /\ IF conns[connection] = "open"
           THEN channel' = connection /\ GoTo(t, "use")
           ELSE GoTo(t, "discard") /\ UNCHANGED channel
        /\ UNCHANGED failed
  /\ UNCHANGED <<broker, conns, connection, calls, consumer, faults>>

(* assert self._channel is not None.                                       *)
Use(t) ==
  /\ In(t, "use")
  /\ \/ channel = None /\ Escape(t)
     \/ /\ channel # None
        /\ pub' = [pub EXCEPT ![t].pc = "write", ![t].on = channel]
        /\ UNCHANGED failed
  /\ UNCHANGED <<broker, client, calls, consumer, faults>>

Return(t) == pub' = [pub EXCEPT ![t] = Idle]
Disturb(p) == [t \in Thread |-> IF p[t] = Idle THEN Idle ELSE [p[t] EXCEPT !.disturbed = TRUE]]
Breaks(t) ==
  pub' = [Disturb(pub) EXCEPT ![t] = [pub[t] EXCEPT !.pc = "discard", !.disturbed = TRUE]]
Route(t) ==
  queue' = IF bound THEN Append(queue, <<pub[t].message, pub[t].attempt>>) ELSE queue

(* basic_publish: no confirm is asked for.  Nothing consumes what is       *)
(* published before the queue is bound.                                    *)
Write(t) ==
  /\ In(t, "write")
  /\ LET c == pub[t].on IN
     \/ conns[c] = "open" /\ Route(t) /\ Return(t) /\ UNCHANGED <<conns, faults>>
     \/ /\ conns[c] = "open" /\ Fault("broken_write")  (* accepted, then reset *)
        /\ Route(t) /\ Breaks(t)
        /\ conns' = [conns EXCEPT ![c] = "closed"]
     \/ /\ conns[c] = "open" /\ Fault("channel_error") (* only the channel dies *)
        /\ Breaks(t) /\ UNCHANGED queue
        /\ conns' = [conns EXCEPT ![c] = "broken"]
     \/ conns[c] = "stale" /\ Return(t) /\ UNCHANGED <<conns, queue, faults>>
     \/ /\ conns[c] = "stale" /\ GoTo(t, "discard")
        /\ conns' = [conns EXCEPT ![c] = "closed"]
        /\ UNCHANGED <<queue, faults>>
     \/ conns[c] \in {"broken", "closed"} /\ GoTo(t, "discard") /\ UNCHANGED <<conns, queue, faults>>
  /\ UNCHANGED <<up, bound, unacked, connection, channel, calls, failed, consumer>>

(* Mutants: no second attempt, a third attempt, and a discard that forgets *)
(* the connection without closing it.                                      *)
DiscardAndRaise(t) ==
  /\ In(t, "discard")
  /\ conns' = IF connection # None THEN [conns EXCEPT ![connection] = "closed"] ELSE conns
  /\ connection' = None /\ channel' = None
  /\ Escape(t)
  /\ UNCHANGED <<broker, calls, consumer, faults>>
DiscardAndRetryAgain(t) ==
  /\ In(t, "discard")
  /\ conns' = IF connection # None THEN [conns EXCEPT ![connection] = "closed"] ELSE conns
  /\ connection' = None /\ channel' = None
  /\ pub' = [pub EXCEPT ![t].pc = "check", ![t].attempt = 3]
  /\ UNCHANGED <<broker, calls, failed, consumer, faults>>
DiscardUnclosed(t) ==
  /\ In(t, "discard")
  /\ connection' = None /\ channel' = None
  /\ IF pub[t].attempt = 2 THEN Escape(t)
     ELSE /\ pub' = [pub EXCEPT ![t].pc = "check", ![t].attempt = 2]
          /\ UNCHANGED failed
  /\ UNCHANGED <<broker, conns, calls, consumer, faults>>

(* The except clause: _discard_connection, then retry once or raise.  Only *)
(* a connection the broker has dropped can raise from close(), and is then *)
(* forgotten like one that closed.                                         *)
Discard(t) ==
  /\ In(t, "discard")
  /\ conns' = IF connection # None THEN [conns EXCEPT ![connection] = "closed"] ELSE conns
  /\ connection' = None /\ channel' = None
  /\ IF pub[t].attempt = 2 THEN Escape(t)
     ELSE /\ pub' = [pub EXCEPT ![t].pc = "check", ![t].attempt = 2]
          /\ UNCHANGED failed
  /\ UNCHANGED <<broker, calls, consumer, faults>>

----------------------------------------------------------------------------
(* consume()                                                               *)

(* Mutant: the error ends the thread, as the docstring says it once did.   *)
LoseForGood ==
  /\ link' = "none" /\ buffer' = << >>
  /\ loop' = "returned"

(* The except clause: discard, stop if told to, else back off.             *)
Lose ==
  /\ link' = "none" /\ buffer' = << >>
  /\ loop' = IF stopping THEN "returned" ELSE "backoff"

ConsumerConnect ==
  /\ loop = "connect"
  /\ IF up THEN loop' = "setup" /\ link' = "open" /\ UNCHANGED buffer ELSE Lose
  /\ UNCHANGED <<broker, publisher, delay, stopping, handled, settled, faults>>

(* queue_declare, queue_bind, basic_qos, basic_consume.                    *)
Setup ==
  /\ loop = "setup"
  /\ IF link = "open"
     THEN loop' = "consuming" /\ bound' = TRUE /\ delay' = 1 /\ UNCHANGED <<link, buffer>>
     ELSE Lose /\ UNCHANGED <<bound, delay>>
  /\ UNCHANGED <<up, queue, unacked, publisher, stopping, handled, settled, faults>>

Consuming == loop \in {"consuming", "handling", "ack", "nack"}

(* Mutant: deliveries are acknowledged as they are sent.                   *)
DeliverAutoAck ==
  /\ Consuming /\ link = "open"
  /\ queue # << >> /\ Len(buffer) < Prefetch
  /\ buffer' = Append(buffer, Head(queue))
  /\ settled' = settled \cup {Head(queue)}
  /\ queue' = Tail(queue)
  /\ UNCHANGED <<up, bound, unacked, publisher, loop, link, delay, stopping, handled, faults>>

(* The broker pushes up to Prefetch unacknowledged deliveries.             *)
Deliver ==
  /\ Consuming /\ link = "open"
  /\ queue # << >> /\ Len(unacked) < Prefetch
  /\ buffer' = Append(buffer, Head(queue))
  /\ unacked' = Append(unacked, Head(queue))
  /\ queue' = Tail(queue)
  /\ UNCHANGED <<up, bound, publisher, loop, link, delay, stopping, handled, settled, faults>>

(* What was received before the connection died is still handled.          *)
Handle ==
  /\ loop = "consuming" /\ buffer # << >>
  /\ loop' = "handling"
  /\ UNCHANGED <<broker, publisher, link, buffer, delay, stopping, handled, settled, faults>>

(* on_message returns, or raises whatever exception.                       *)
EndHandling ==
  /\ loop = "handling"
  /\ handled' = handled \cup {Head(buffer)}
  /\ \/ loop' = "ack" /\ UNCHANGED faults
     \/ loop' = "nack" /\ Fault("handler_error")
  /\ UNCHANGED <<broker, publisher, link, buffer, delay, stopping, settled>>

(* basic_ack, or basic_nack without requeue: either removes the copy.      *)
Settle ==
  /\ loop \in {"ack", "nack"}
  /\ IF link = "open"
     THEN /\ settled' = settled \cup {Head(buffer)}
          /\ unacked' = Tail(unacked)
          /\ buffer' = Tail(buffer)
          /\ loop' = "consuming"
          /\ UNCHANGED link
     ELSE Lose /\ UNCHANGED <<unacked, settled>>
  /\ UNCHANGED <<up, bound, queue, publisher, delay, stopping, handled, faults>>

(* start_consuming raises once it finds the connection dead.               *)
Notice ==
  /\ loop = "consuming" /\ link = "stale"
  /\ Lose
  /\ UNCHANGED <<broker, publisher, delay, stopping, handled, settled, faults>>

Backoff ==
  /\ loop = "backoff"
  /\ loop' = "connect"
  /\ delay' = IF 2 * delay < MaxDelay THEN 2 * delay ELSE MaxDelay
  /\ UNCHANGED <<broker, publisher, link, buffer, stopping, handled, settled, faults>>

----------------------------------------------------------------------------
(* The broker, and the rest of the process                                 *)

Stale(c) == IF c \in {"open", "broken"} THEN "stale" ELSE c
Requeue == queue' = unacked \o queue /\ unacked' = << >>

(* An idle connection of the publisher is reaped.                          *)
ReapPublisher ==
  /\ Fault("reap")
  /\ conns' = [i \in DOMAIN conns |-> Stale(conns[i])]
  /\ pub' = Disturb(pub)
  /\ UNCHANGED <<broker, connection, channel, calls, failed, consumer>>

(* The consumer's connection breaks: what it had unacknowledged is ready   *)
(* again.                                                                  *)
ReapConsumer ==
  /\ Fault("reap")
  /\ link = "open" /\ link' = "stale"
  /\ Requeue
  /\ UNCHANGED <<up, bound, publisher, loop, buffer, delay, stopping, handled, settled>>

(* The broker goes down and comes back; the queue and its messages are     *)
(* durable.                                                                *)
BrokerDown ==
  /\ up /\ Fault("down")
  /\ up' = FALSE
  /\ Requeue
  /\ conns' = [i \in DOMAIN conns |-> Stale(conns[i])]
  /\ link' = IF link = "open" THEN "stale" ELSE link
  /\ pub' = Disturb(pub)
  /\ UNCHANGED <<bound, connection, channel, calls, failed, loop, buffer, delay, stopping,
                 handled, settled>>

BrokerUp ==
  /\ ~up /\ up' = TRUE
  /\ UNCHANGED <<bound, queue, unacked, publisher, consumer, faults>>

(* The consuming process is killed and starts again.                       *)
ConsumerCrash ==
  /\ Fault("crash")
  /\ Requeue
  /\ loop' = "connect" /\ link' = "none" /\ buffer' = << >>
  /\ delay' = 1 /\ stopping' = FALSE
  /\ UNCHANGED <<up, bound, publisher, handled, settled>>

(* client._stopping = True from another thread.                            *)
Stop ==
  /\ Fault("stop") /\ ~stopping
  /\ stopping' = TRUE
  /\ UNCHANGED <<broker, publisher, loop, link, buffer, delay, handled, settled>>

PublishStep(t) ==
  Check(t) \/ Connect(t) \/ OpenChannel(t) \/ Use(t) \/ Write(t) \/ Discard(t)
ConsumeStep ==
  \/ ConsumerConnect \/ Setup \/ Deliver \/ Handle \/ EndHandling \/ Settle \/ Notice \/ Backoff
Disruption ==
  ReapPublisher \/ ReapConsumer \/ BrokerDown \/ ConsumerCrash \/ Stop

Next ==
  \/ \E t \in Thread : Publish(t) \/ PublishStep(t)
  \/ ConsumeStep \/ Disruption \/ BrokerUp

Spec == Init /\ [][Next]_vars

(* The loop keeps running, the broker comes back and delivers.             *)
FairSpec ==
  /\ Spec
  /\ WF_vars(BrokerUp) /\ WF_vars(Deliver)
  /\ WF_vars(ConsumerConnect \/ Setup \/ Handle \/ EndHandling \/ Settle \/ Notice \/ Backoff)

----------------------------------------------------------------------------
(* Properties                                                              *)

BrokerType ==
  /\ up \in BOOLEAN /\ bound \in BOOLEAN
  /\ queue \in Seq(Copy) /\ unacked \in Seq(Copy)
  /\ faults \in 0 .. MaxFaults

PublisherType ==
  /\ conns \in Seq({"open", "stale", "broken", "closed"})
  /\ connection \in 0 .. Len(conns) /\ channel \in 0 .. Len(conns)
  /\ pub \in [Thread -> Call \cup {Idle}]
  /\ calls \in [Thread -> 0 .. MaxCalls]
  /\ failed \subseteq [message : Message, disturbed : BOOLEAN]

ConsumerType ==
  /\ loop \in {"connect", "setup", "consuming", "handling", "ack", "nack", "backoff", "returned"}
  /\ link \in {"none", "open", "stale"}
  /\ buffer \in Seq(Copy)
  /\ delay \in 1 .. MaxDelay /\ stopping \in BOOLEAN
  /\ handled \subseteq Copy /\ settled \subseteq Copy

TypeOK == BrokerType /\ PublisherType /\ ConsumerType

(* "Acking only after the callback returns": through lost connections,     *)
(* restarts of the broker and crashes of the consumer, no accepted copy    *)
(* disappears before its callback has run to an end.                       *)
AtLeastOnce == Promise!Spec

(* "Its first click after an idle period failed with a 500 until this      *)
(* retry existed": a publish raises only if the broker failed while it     *)
(* ran, never for a connection that had died before, nor for what another  *)
(* thread is doing with the client.                                        *)
RaisesOnlyIfDisturbed == \A f \in failed : f.disturbed

(* No connection stays open that the client has forgotten: the broker's    *)
(* connections do not pile up over its failures.                           *)
NoLeak == \A c \in DOMAIN conns : conns[c] \in {"open", "broken"} => c = connection

(* "An uncaught exception [...] silently kills that one consumer forever": *)
(* whatever fails, including the first attempt to connect, every accepted  *)
(* copy is settled in the end unless the loop was told to stop.            *)
ConsumerSurvives ==
  \A c \in Copy : c \in Accepted ~> (c \in settled \/ stopping)
=============================================================================
