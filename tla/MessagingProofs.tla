-------------------------- MODULE MessagingProofs --------------------------
(***************************************************************************)
(* Theorems about Messaging, for every set of publishing threads, any      *)
(* number of calls, any prefetch, backoff cap and faults.  Those about a   *)
(* publisher's raises and its connections hold of a client that one thread *)
(* publishes through; the shared one is where they fail.                   *)
(***************************************************************************)
EXTENDS Messaging, SequenceTheorems, TLAPS

----------------------------------------------------------------------------
(* Sequences of copies                                                     *)

LEMMA HeadAndTail ==
  ASSUME NEW s \in Seq(Copy), s # << >>
  PROVE  /\ Head(s) \in Copy /\ Tail(s) \in Seq(Copy)
         /\ Head(s) = s[1] /\ Head(s) \in ToSet(s)
         /\ ToSet(s) = {Head(s)} \cup ToSet(Tail(s))
<1>1. /\ Head(s) \in Copy /\ Tail(s) \in Seq(Copy) /\ Len(Tail(s)) = Len(s) - 1
      /\ \A i \in 1 .. Len(Tail(s)) : Tail(s)[i] = s[i + 1]
  BY HeadTailProperties
<1>2. /\ Len(s) \in Nat \ {0} /\ DOMAIN s = 1 .. Len(s)
      /\ DOMAIN Tail(s) = 1 .. Len(s) - 1 /\ Head(s) = s[1]
  BY <1>1, EmptySeq, LenProperties
<1>3. ToSet(Tail(s)) \subseteq ToSet(s)
  <2>. SUFFICES ASSUME NEW i \in DOMAIN Tail(s) PROVE \E j \in DOMAIN s : Tail(s)[i] = s[j]
    BY DEF ToSet
  <2>1. i + 1 \in DOMAIN s /\ Tail(s)[i] = s[i + 1]
    BY <1>1, <1>2
  <2>. QED
    BY <2>1
<1>4. \A i \in DOMAIN s : s[i] = Head(s) \/ s[i] \in ToSet(Tail(s))
  <2>. TAKE i \in DOMAIN s
  <2>1. CASE i = 1
    BY <1>2, <2>1
  <2>2. CASE i # 1
    <3>1. i - 1 \in DOMAIN Tail(s) /\ Tail(s)[i - 1] = s[i]
      BY <1>1, <1>2, <2>2
    <3>. QED
      BY <3>1 DEF ToSet
  <2>. QED
    BY <2>1, <2>2
<1>5. Head(s) \in ToSet(s)
  BY <1>2 DEF ToSet
<1>. QED
  BY <1>1, <1>2, <1>3, <1>4, <1>5 DEF ToSet

LEMMA Appended ==
  ASSUME NEW s \in Seq(Copy), NEW c \in Copy
  PROVE  /\ Append(s, c) \in Seq(Copy) /\ Append(s, c) # << >>
         /\ ToSet(Append(s, c)) = ToSet(s) \cup {c}
         /\ s # << >> => Head(Append(s, c)) = Head(s)
<1>1. /\ Append(s, c) \in Seq(Copy) /\ Append(s, c) # << >> /\ Len(Append(s, c)) = Len(s) + 1
      /\ \A i \in 1 .. Len(s) : Append(s, c)[i] = s[i]
      /\ Append(s, c)[Len(s) + 1] = c
  BY AppendProperties
<1>2. DOMAIN s = 1 .. Len(s) /\ DOMAIN Append(s, c) = 1 .. Len(s) + 1 /\ Len(s) \in Nat
  BY <1>1, LenProperties
<1>3. ToSet(Append(s, c)) = ToSet(s) \cup {c}
  BY <1>1, <1>2 DEF ToSet
<1>4. s # << >> => Head(Append(s, c)) = Head(s)
  BY HeadTailAppend
<1>. QED
  BY <1>1, <1>3, <1>4

LEMMA Requeued ==
  ASSUME NEW s \in Seq(Copy), NEW t \in Seq(Copy)
  PROVE  s \o t \in Seq(Copy) /\ ToSet(s \o t) = ToSet(s) \cup ToSet(t)
<1>1. Range(s \o t) = Range(s) \cup Range(t)
  BY RangeConcatenation
<1>2. s \o t \in Seq(Copy)
  BY ConcatProperties
<1>. QED
  BY <1>1, <1>2, Zenon DEF ToSet, Range

LEMMA EmptyToSet == ToSet(<< >>) = {}
BY DEF ToSet

----------------------------------------------------------------------------
(* The consuming client                                                    *)

(* Type correctness and the promise rest on how the consumer's copies hang *)
(* together: while the connection holds, what the client has buffered is   *)
(* just what the broker keeps for acknowledgement; once it has died, the   *)
(* broker keeps nothing back and the buffered copies are queued again; and *)
(* the copy about to be settled is one whose callback has ended.           *)
ConsumerInv ==
  /\ link = "open" => buffer = unacked
  /\ link # "open" => unacked = << >>
  /\ link = "none" => buffer = << >>
  /\ link = "none" <=> loop \in {"connect", "backoff", "returned"}
  /\ loop \in {"handling", "ack", "nack"} => buffer # << >>
  /\ loop \in {"ack", "nack"} => Head(buffer) \in handled
  /\ ToSet(buffer) \subseteq Accepted

----------------------------------------------------------------------------
(* Type correctness                                                        *)

State == {"open", "stale", "broken", "closed"}
Failures == SUBSET [message : Message, disturbed : BOOLEAN]
Calls == [Thread -> Call \cup {Idle}]

LEMMA ConnsLists ==
  ASSUME NEW s \in Seq(State), NEW state \in State
  PROVE  /\ Len(s) \in Nat /\ s \in [1 .. Len(s) -> State]
         /\ \A c : /\ [s EXCEPT ![c] = state] \in Seq(State)
                   /\ Len([s EXCEPT ![c] = state]) = Len(s)
         /\ Append(s, state) \in Seq(State) /\ Len(Append(s, state)) = Len(s) + 1
         /\ [i \in DOMAIN s |-> Stale(s[i])] \in Seq(State)
         /\ Len([i \in DOMAIN s |-> Stale(s[i])]) = Len(s)
<1>1. PICK n \in Nat : n = Len(s)
  BY LenProperties
<1>2. s \in [1 .. n -> State] /\ DOMAIN s = 1 .. n
  BY <1>1, LenProperties
<1>3. \A c : [s EXCEPT ![c] = state] \in [1 .. n -> State]
  BY <1>2
<1>4. [i \in DOMAIN s |-> Stale(s[i])] \in [1 .. n -> State]
  BY <1>2 DEF Stale, State
<1>5. \A f \in [1 .. n -> State] : f \in Seq(State) /\ Len(f) = n
  OBVIOUS
<1>. QED
  BY <1>1, <1>2, <1>3, <1>4, <1>5, AppendProperties

(* What a step may do to the record of a call.                             *)
LEMMA CallUpdates ==
  ASSUME NEW p \in Call, NEW n \in Nat
  PROVE  /\ p.message \in Message /\ p.attempt \in {1, 2} /\ p.disturbed \in BOOLEAN
         /\ p # Idle /\ p.pc # "idle"
         /\ \A pc \in {"check", "connect", "open_channel", "use", "write", "discard"} :
              [p EXCEPT !.pc = pc] \in Call
         /\ [p EXCEPT !.pc = "write", !.on = n] \in Call
         /\ [p EXCEPT !.pc = "discard", !.disturbed = TRUE] \in Call
         /\ [p EXCEPT !.pc = "check", !.attempt = 2] \in Call
         /\ [p EXCEPT !.disturbed = TRUE] \in Call
<1>1. p.message \in Message /\ p.attempt \in {1, 2} /\ p.disturbed \in BOOLEAN /\ p.pc # "idle"
  BY DEF Call
<1>2. p # Idle
  BY <1>1 DEF Idle
<1>3. \A pc \in {"check", "connect", "open_channel", "use", "write", "discard"} :
        [p EXCEPT !.pc = pc] \in Call
  BY DEF Call
<1>4. [p EXCEPT !.pc = "write", !.on = n] \in Call
  BY DEF Call
<1>5. [p EXCEPT !.pc = "discard", !.disturbed = TRUE] \in Call
  BY DEF Call
<1>6. [p EXCEPT !.pc = "check", !.attempt = 2] \in Call
  BY DEF Call
<1>7. [p EXCEPT !.disturbed = TRUE] \in Call
  BY DEF Call
<1>. QED
  BY <1>1, <1>2, <1>3, <1>4, <1>5, <1>6, <1>7

LEMMA PubType ==
  ASSUME PublisherType, NEW t \in Thread
  PROVE  /\ pub[t] \in Call \cup {Idle}
         /\ pub[t] \in Call <=> pub[t].pc # "idle"
         /\ \A p \in Call \cup {Idle} : [pub EXCEPT ![t] = p] \in Calls
         /\ [pub EXCEPT ![t] = Idle] \in Calls
<1>1. pub[t] \in Call \cup {Idle} /\ \A p \in Call \cup {Idle} : [pub EXCEPT ![t] = p] \in Calls
  BY DEF PublisherType, Calls
<1>2. pub[t] \in Call => pub[t].pc # "idle"
  BY CallUpdates
<1>3. Idle.pc = "idle"
  BY DEF Idle
<1>. QED
  BY <1>1, <1>2, <1>3

LEMMA GoToType ==
  ASSUME PublisherType, NEW t \in Thread, pub[t].pc # "idle",
         NEW pc \in {"check", "connect", "open_channel", "use", "write", "discard"}, GoTo(t, pc)
  PROVE  pub' \in Calls
<1>1. pub[t] \in Call
  BY PubType
<1>2. [pub[t] EXCEPT !.pc = pc] \in Call
  BY <1>1, CallUpdates
<1>. QED
  BY <1>2, PubType DEF GoTo

LEMMA DisturbType ==
  ASSUME PublisherType
  PROVE  Disturb(pub) \in Calls
<1>. SUFFICES ASSUME NEW t \in Thread
              PROVE  (IF pub[t] = Idle THEN Idle ELSE [pub[t] EXCEPT !.disturbed = TRUE])
                       \in Call \cup {Idle}
  BY DEF Disturb, Calls
<1>. QED
  BY PubType, CallUpdates

LEMMA EscapeType ==
  ASSUME PublisherType, NEW t \in Thread, pub[t].pc # "idle", Escape(t)
  PROVE  pub' \in Calls /\ failed' \in Failures
<1>1. pub[t].message \in Message /\ pub[t].disturbed \in BOOLEAN
  BY PubType, CallUpdates
<1>2. [message |-> pub[t].message, disturbed |-> pub[t].disturbed]
        \in [message : Message, disturbed : BOOLEAN]
  BY <1>1
<1>3. failed' \in Failures
  BY <1>2 DEF PublisherType, Failures, Escape
<1>. QED
  BY <1>3, PubType DEF Escape

(* The client's variables, of the sorts the steps below establish.         *)
LEMMA PublisherTyped ==
  /\ PublisherType <=>
       /\ conns \in Seq(State) /\ connection \in 0 .. Len(conns) /\ channel \in 0 .. Len(conns)
       /\ pub \in Calls /\ calls \in [Thread -> 0 .. MaxCalls] /\ failed \in Failures
BY DEF PublisherType, State, Calls, Failures

LEMMA PublishType ==
  ASSUME TypeOK, NEW t \in Thread, Publish(t)
  PROVE  TypeOK'
<1>1. calls[t] + 1 \in 1 .. MaxCalls /\ up \in BOOLEAN
  BY MessagingAssumption DEF Publish, TypeOK, BrokerType, PublisherType
<1>2. [pc |-> "check", message |-> <<t, calls[t] + 1>>, attempt |-> 1, on |-> None,
       disturbed |-> ~up] \in Call
  BY <1>1 DEF Call, Message, None
<1>3. pub' \in Calls
  BY <1>2, PubType DEF Publish, TypeOK
<1>4. calls' \in [Thread -> 0 .. MaxCalls]
  BY <1>1 DEF Publish, TypeOK, PublisherType
<1>5. UNCHANGED <<broker, client, failed, consumer, faults>>
  BY DEF Publish
<1>6. PublisherType'
  BY <1>3, <1>4, <1>5 DEF TypeOK, PublisherType, Calls, client
<1>. QED
  BY <1>5, <1>6 DEF TypeOK, BrokerType, ConsumerType, broker, consumer

LEMMA WriteType ==
  ASSUME TypeOK, NEW t \in Thread, Write(t)
  PROVE  TypeOK'
<1>1. pub[t] \in Call /\ pub[t].pc # "idle" /\ PublisherType
  BY PubType DEF Write, In, TypeOK
<1>2. <<pub[t].message, pub[t].attempt>> \in Copy
  BY <1>1, CallUpdates DEF Copy
<1>3. queue' \in Seq(Copy)
  <2>1. queue \in Seq(Copy) /\ Append(queue, <<pub[t].message, pub[t].attempt>>) \in Seq(Copy)
    BY <1>2, Appended DEF TypeOK, BrokerType
  <2>2. queue' = queue \/ queue' = Append(queue, <<pub[t].message, pub[t].attempt>>)
    BY DEF Write, Route
  <2>. QED
    BY <2>1, <2>2
<1>4. pub' \in Calls
  <2>1. CASE Return(t)
    BY <1>1, <2>1, PubType DEF Return
  <2>2. CASE GoTo(t, "discard")
    BY <1>1, <2>2, GoToType
  <2>3. CASE Breaks(t)
    <3>1. [pub[t] EXCEPT !.pc = "discard", !.disturbed = TRUE] \in Call
      BY <1>1, CallUpdates
    <3>2. Disturb(pub) \in Calls
      BY <1>1, DisturbType
    <3>. QED
      BY <2>3, <3>1, <3>2 DEF Breaks, Calls
  <2>. QED
    BY <2>1, <2>2, <2>3 DEF Write
<1>5. conns' \in Seq(State) /\ Len(conns') = Len(conns)
  <2>1. conns \in Seq(State) /\ "closed" \in State /\ "broken" \in State
    BY <1>1 DEF PublisherType, State
  <2>2. \/ conns' = conns
        \/ conns' = [conns EXCEPT ![pub[t].on] = "closed"]
        \/ conns' = [conns EXCEPT ![pub[t].on] = "broken"]
    BY DEF Write
  <2>. QED
    BY <2>1, <2>2, ConnsLists
<1>6. faults' \in 0 .. MaxFaults
  BY MessagingAssumption DEF Write, Fault, TypeOK, BrokerType
<1>7. UNCHANGED <<up, bound, unacked, connection, channel, calls, failed, consumer>>
  BY DEF Write
<1>8. PublisherType'
  BY <1>1, <1>4, <1>5, <1>7 DEF PublisherType, State, Calls
<1>. QED
  BY <1>3, <1>6, <1>7, <1>8 DEF TypeOK, BrokerType, ConsumerType, consumer

LEMMA ConnectingType ==
  ASSUME TypeOK, NEW t \in Thread, Check(t) \/ Connect(t) \/ OpenChannel(t) \/ Use(t) \/ Discard(t)
  PROVE  TypeOK'
<1>1. pub[t] \in Call /\ pub[t].pc # "idle" /\ PublisherType
  BY PubType DEF Check, Connect, OpenChannel, Use, Discard, In, TypeOK
<1>2. UNCHANGED <<broker, calls, consumer, faults>>
  BY DEF Check, Connect, OpenChannel, Use, Discard, client
<1>3. /\ conns \in Seq(State) /\ Len(conns) \in Nat /\ "open" \in State /\ "closed" \in State
      /\ connection \in 0 .. Len(conns) /\ channel \in 0 .. Len(conns)
  BY <1>1, ConnsLists DEF PublisherType, State
<1>4. /\ conns' \in Seq(State)
      /\ connection' \in 0 .. Len(conns') /\ channel' \in 0 .. Len(conns')
  <2>1. CASE Check(t) \/ Use(t)
    BY <1>3, <2>1 DEF Check, Use, client
  <2>2. CASE Connect(t)
    <3>1. Append(conns, "open") \in Seq(State) /\ Len(Append(conns, "open")) = Len(conns) + 1
      BY <1>3, ConnsLists
    <3>2. channel' = channel
      BY <2>2 DEF Connect
    <3>3. \/ conns' = Append(conns, "open") /\ connection' = Len(conns) + 1
          \/ conns' = conns /\ connection' = connection
      BY <2>2 DEF Connect
    <3>. QED
      BY <1>3, <3>1, <3>2, <3>3
  <2>3. CASE OpenChannel(t)
    BY <1>3, <2>3 DEF OpenChannel
  <2>4. CASE Discard(t)
    BY <1>3, <2>4, ConnsLists DEF Discard, None
  <2>. QED
    BY <2>1, <2>2, <2>3, <2>4
<1>5. failed \in Failures
  BY <1>1 DEF PublisherType, Failures
<1>6. pub' \in Calls /\ failed' \in Failures
  <2>1. CASE Escape(t)
    BY <1>1, <2>1, EscapeType
  <2>2. CASE /\ failed' = failed
             /\ \E pc \in {"check", "connect", "open_channel", "use", "write", "discard"} : GoTo(t, pc)
    BY <1>1, <1>5, <2>2, GoToType
  <2>3. CASE failed' = failed /\ pub' = [pub EXCEPT ![t].pc = "write", ![t].on = channel]
    <3>1. channel \in Nat
      BY <1>3
    <3>2. [pub[t] EXCEPT !.pc = "write", !.on = channel] \in Call
      BY <1>1, <3>1, CallUpdates
    <3>3. pub' = [pub EXCEPT ![t] = [pub[t] EXCEPT !.pc = "write", !.on = channel]]
      BY <1>1, <2>3 DEF PublisherType
    <3>4. \A p \in Call : [pub EXCEPT ![t] = p] \in Calls
      BY <1>1, PubType
    <3>. QED
      BY <1>5, <2>3, <3>2, <3>3, <3>4, Zenon
  <2>4. CASE failed' = failed /\ pub' = [pub EXCEPT ![t].pc = "check", ![t].attempt = 2]
    <3>1. [pub[t] EXCEPT !.pc = "check", !.attempt = 2] \in Call
      BY <1>1, CallUpdates
    <3>2. pub' = [pub EXCEPT ![t] = [pub[t] EXCEPT !.pc = "check", !.attempt = 2]]
      BY <1>1, <2>4 DEF PublisherType
    <3>3. \A p \in Call : [pub EXCEPT ![t] = p] \in Calls
      BY <1>1, PubType
    <3>. QED
      BY <1>5, <2>4, <3>1, <3>2, <3>3, Zenon
  <2>. QED
    BY <2>1, <2>2, <2>3, <2>4 DEF Check, Connect, OpenChannel, Use, Discard
<1>7. PublisherType'
  BY <1>1, <1>2, <1>4, <1>6 DEF PublisherType, State, Calls, Failures
<1>. QED
  BY <1>2, <1>7 DEF TypeOK, BrokerType, ConsumerType, broker, consumer

LEMMA ConsumeStepType ==
  ASSUME TypeOK, ConsumerInv, ConsumeStep
  PROVE  TypeOK'
<1>1. UNCHANGED <<up, publisher>>
  BY DEF ConsumeStep, ConsumerConnect, Setup, Deliver, Handle, EndHandling, Settle, Notice, Backoff,
     broker
<1>2. PublisherType'
  BY <1>1 DEF TypeOK, PublisherType, publisher, client
<1>. SUFFICES BrokerType' /\ ConsumerType'
  BY <1>2 DEF TypeOK
<1>. USE DEF broker, consumer
<1>3. CASE ConsumerConnect \/ Notice \/ Setup \/ Backoff
  <2>1. UNCHANGED <<queue, unacked, handled, settled, faults, stopping>> /\ bound' \in BOOLEAN
    BY <1>3 DEF ConsumerConnect, Notice, Setup, Backoff, TypeOK, BrokerType
  <2>2. buffer' = buffer \/ buffer' = << >>
    BY <1>3 DEF ConsumerConnect, Notice, Setup, Backoff, Lose
  <2>3. delay' \in 1 .. MaxDelay
    <3>1. delay \in 1 .. MaxDelay /\ MaxDelay \in Nat \ {0}
      BY MessagingAssumption DEF TypeOK, ConsumerType
    <3>. QED
      BY <1>3, <3>1 DEF ConsumerConnect, Notice, Setup, Backoff
  <2>4. /\ loop' \in {"connect", "setup", "consuming", "backoff", "returned"}
        /\ link' \in {"none", "open", "stale"}
    BY <1>3 DEF ConsumerConnect, Notice, Setup, Backoff, Lose, TypeOK, ConsumerType
  <2>5. BrokerType'
    BY <1>1, <2>1 DEF TypeOK, BrokerType
  <2>6. buffer' \in Seq(Copy)
    BY <2>2, EmptySeq DEF TypeOK, ConsumerType
  <2>. QED
    BY <2>1, <2>3, <2>4, <2>5, <2>6 DEF TypeOK, ConsumerType
<1>4. CASE Deliver
  <2>1. /\ Head(queue) \in Copy /\ Tail(queue) \in Seq(Copy)
        /\ buffer \in Seq(Copy) /\ unacked \in Seq(Copy)
    BY <1>4, HeadAndTail DEF Deliver, TypeOK, BrokerType, ConsumerType
  <2>2. queue' \in Seq(Copy) /\ buffer' \in Seq(Copy) /\ unacked' \in Seq(Copy)
    BY <1>4, <2>1, Appended DEF Deliver
  <2>3. UNCHANGED <<up, bound, publisher, loop, link, delay, stopping, handled, settled, faults>>
    BY <1>4 DEF Deliver
  <2>. QED
    BY <2>2, <2>3 DEF TypeOK, BrokerType, ConsumerType
<1>5. CASE Handle
  BY <1>5 DEF Handle, TypeOK, BrokerType, ConsumerType
<1>6. CASE EndHandling
  <2>1. Head(buffer) \in Copy
    BY <1>6, HeadAndTail DEF EndHandling, ConsumerInv, TypeOK, ConsumerType
  <2>2. handled' \subseteq Copy /\ faults' \in 0 .. MaxFaults /\ loop' \in {"ack", "nack"}
    BY <1>6, <2>1, MessagingAssumption DEF EndHandling, Fault, TypeOK, BrokerType, ConsumerType
  <2>3. UNCHANGED <<broker, publisher, link, buffer, delay, stopping, settled>>
    BY <1>6 DEF EndHandling
  <2>. QED
    BY <2>2, <2>3 DEF TypeOK, BrokerType, ConsumerType
<1>7. CASE Settle
  <2>1. UNCHANGED <<up, bound, queue, publisher, delay, stopping, handled, faults>>
    BY <1>7 DEF Settle
  <2>2. CASE link = "open"
    <3>1. buffer # << >> /\ unacked = buffer
      BY <1>7, <2>2 DEF Settle, ConsumerInv
    <3>2. Head(buffer) \in Copy /\ Tail(buffer) \in Seq(Copy)
      BY <3>1, HeadAndTail DEF TypeOK, ConsumerType
    <3>3. /\ settled' = settled \cup {Head(buffer)} /\ unacked' = Tail(buffer)
          /\ buffer' = Tail(buffer) /\ loop' = "consuming" /\ link' = link
      BY <1>7, <2>2, <3>1 DEF Settle
    <3>. QED
      BY <2>1, <3>2, <3>3 DEF TypeOK, BrokerType, ConsumerType
  <2>3. CASE link # "open"
    <3>1. /\ link' = "none" /\ buffer' = << >> /\ loop' \in {"returned", "backoff"}
          /\ UNCHANGED <<unacked, settled>>
      BY <1>7, <2>3 DEF Settle, Lose
    <3>. QED
      BY <2>1, <3>1 DEF TypeOK, BrokerType, ConsumerType
  <2>. QED
    BY <2>2, <2>3
<1>. QED
  BY <1>3, <1>4, <1>5, <1>6, <1>7 DEF ConsumeStep

LEMMA BrokerStepType ==
  ASSUME TypeOK, Disruption \/ BrokerUp
  PROVE  TypeOK'
<1>. USE DEF publisher, client, broker, consumer, Fault
<1>0. /\ unacked \o queue \in Seq(Copy) /\ << >> \in Seq(Copy)
      /\ conns \in Seq(State) /\ "open" \in State /\ PublisherType
  BY Requeued DEF TypeOK, BrokerType, PublisherType, State
<1>1. ASSUME conns' = [i \in DOMAIN conns |-> Stale(conns[i])], pub' = Disturb(pub),
             UNCHANGED <<connection, channel, calls, failed>>
      PROVE  PublisherType'
  <2>1. conns' \in Seq(State) /\ Len(conns') = Len(conns) /\ pub' \in Calls
    BY <1>0, <1>1, ConnsLists, DisturbType
  <2>. QED
    BY <1>0, <1>1, <2>1 DEF PublisherType, State, Calls
<1>2. faults' \in 0 .. MaxFaults
  BY MessagingAssumption DEF Disruption, ReapPublisher, ReapConsumer, BrokerDown, ConsumerCrash,
     Stop, BrokerUp, TypeOK, BrokerType
<1>3. CASE ReapPublisher
  BY <1>1, <1>2, <1>3 DEF ReapPublisher, TypeOK, BrokerType, ConsumerType
<1>4. CASE ReapConsumer
  <2>1. UNCHANGED <<up, bound, publisher, loop, buffer, delay, stopping, handled, settled>>
    BY <1>4 DEF ReapConsumer
  <2>2. queue' \in Seq(Copy) /\ unacked' \in Seq(Copy) /\ link' = "stale"
    BY <1>0, <1>4 DEF ReapConsumer, Requeue
  <2>. QED
    BY <1>2, <2>1, <2>2 DEF TypeOK, BrokerType, PublisherType, ConsumerType
<1>5. CASE BrokerDown
  <2>1. UNCHANGED <<bound, loop, buffer, delay, stopping, handled, settled>> /\ up' = FALSE
    BY <1>5 DEF BrokerDown
  <2>2. queue' \in Seq(Copy) /\ unacked' \in Seq(Copy) /\ link' \in {"none", "open", "stale"}
    BY <1>0, <1>5 DEF BrokerDown, Requeue, TypeOK, ConsumerType
  <2>3. PublisherType'
    BY <1>1, <1>5 DEF BrokerDown
  <2>. QED
    BY <1>2, <2>1, <2>2, <2>3 DEF TypeOK, BrokerType, ConsumerType
<1>6. CASE ConsumerCrash
  <2>1. UNCHANGED <<up, bound, publisher, handled, settled>>
    BY <1>6 DEF ConsumerCrash
  <2>2. queue' \in Seq(Copy) /\ unacked' \in Seq(Copy)
    BY <1>0, <1>6 DEF ConsumerCrash, Requeue
  <2>3. loop' = "connect" /\ link' = "none" /\ buffer' = << >> /\ stopping' = FALSE /\ delay' = 1
    BY <1>6 DEF ConsumerCrash
  <2>4. 1 \in 1 .. MaxDelay
    BY MessagingAssumption
  <2>5. PublisherType' /\ BrokerType'
    BY <1>2, <2>1, <2>2 DEF TypeOK, BrokerType, PublisherType
  <2>6. ConsumerType'
    BY <1>0, <2>1, <2>3, <2>4 DEF TypeOK, ConsumerType
  <2>. QED
    BY <2>5, <2>6 DEF TypeOK
<1>7. CASE Stop \/ BrokerUp
  <2>1. UNCHANGED <<bound, queue, unacked, publisher, loop, link, buffer, delay, handled, settled>>
    BY <1>7 DEF Stop, BrokerUp
  <2>2. up' \in BOOLEAN /\ stopping' \in BOOLEAN
    BY <1>7 DEF Stop, BrokerUp, TypeOK, BrokerType, ConsumerType
  <2>. QED
    BY <1>2, <2>1, <2>2 DEF TypeOK, BrokerType, PublisherType, ConsumerType
<1>. QED
  BY <1>3, <1>4, <1>5, <1>6, <1>7 DEF Disruption

LEMMA TypeStep ==
  ASSUME TypeOK, ConsumerInv, [Next]_vars
  PROVE  TypeOK'
<1>1. CASE UNCHANGED vars
  BY <1>1 DEF vars, broker, publisher, client, consumer, TypeOK, BrokerType, PublisherType,
     ConsumerType
<1>. QED
  BY <1>1, PublishType, WriteType, ConnectingType, ConsumeStepType, BrokerStepType
     DEF Next, PublishStep

----------------------------------------------------------------------------
(* Copies between the broker and the consumer                              *)

(* No step takes back what the broker accepted, and publish() adds one     *)
(* copy at most.                                                           *)
LEMMA AcceptedGrows ==
  ASSUME TypeOK, NEW t \in Thread, Publish(t) \/ PublishStep(t)
  PROVE  \/ Accepted' = Accepted
         \/ \E c \in Copy : Accepted' = Accepted \cup {c}
<1>1. UNCHANGED <<unacked, settled>>
  BY DEF Publish, PublishStep, Check, Connect, OpenChannel, Use, Write, Discard, broker, consumer
<1>2. CASE queue' = queue
  BY <1>1, <1>2 DEF Accepted
<1>3. CASE Write(t)
  <2>1. pub[t] \in Call
    BY <1>3, PubType DEF Write, In, TypeOK
  <2>2. <<pub[t].message, pub[t].attempt>> \in Copy
    BY <2>1, CallUpdates DEF Copy
  <2>3. queue' = queue \/ queue' = Append(queue, <<pub[t].message, pub[t].attempt>>)
    BY <1>3 DEF Write, Route
  <2>4. queue \in Seq(Copy)
    BY DEF TypeOK, BrokerType
  <2>5. CASE queue' = Append(queue, <<pub[t].message, pub[t].attempt>>)
    <3>1. ToSet(queue') = ToSet(queue) \cup {<<pub[t].message, pub[t].attempt>>}
      BY <2>2, <2>4, <2>5, Appended
    <3>2. Accepted' = Accepted \cup {<<pub[t].message, pub[t].attempt>>}
      BY <1>1, <3>1 DEF Accepted
    <3>. QED
      BY <2>2, <3>2
  <2>. QED
    BY <1>2, <2>3, <2>5
<1>. QED
  BY <1>2, <1>3 DEF Publish, PublishStep, Check, Connect, OpenChannel, Use, Discard, broker

(* The consumer and the broker move copies along: none is lost.            *)
LEMMA AcceptedStays ==
  ASSUME TypeOK, ConsumerInv, ConsumeStep \/ Disruption \/ BrokerUp \/ UNCHANGED vars
  PROVE  Accepted' = Accepted
<1>0. queue \in Seq(Copy) /\ unacked \in Seq(Copy) /\ buffer \in Seq(Copy)
  BY DEF TypeOK, BrokerType, ConsumerType
<1>1. CASE UNCHANGED <<queue, unacked, settled>>
  BY <1>1 DEF Accepted
<1>2. CASE Requeue /\ settled' = settled
  <2>1. ToSet(queue') = ToSet(unacked) \cup ToSet(queue) /\ ToSet(unacked') = {}
    BY <1>0, <1>2, Requeued, EmptyToSet DEF Requeue
  <2>. QED
    BY <1>2, <2>1 DEF Accepted
<1>3. CASE Deliver
  <2>1. /\ queue # << >> /\ queue' = Tail(queue) /\ unacked' = Append(unacked, Head(queue))
        /\ settled' = settled
    BY <1>3 DEF Deliver
  <2>2. /\ ToSet(queue) = {Head(queue)} \cup ToSet(Tail(queue))
        /\ ToSet(unacked') = ToSet(unacked) \cup {Head(queue)}
    BY <1>0, <2>1, HeadAndTail, Appended
  <2>. QED
    BY <2>1, <2>2 DEF Accepted
<1>4. CASE Settle
  <2>1. CASE link = "open"
    <3>1. /\ unacked # << >> /\ buffer = unacked /\ unacked' = Tail(unacked) /\ queue' = queue
          /\ settled' = settled \cup {Head(unacked)}
      BY <1>4, <2>1 DEF Settle, ConsumerInv
    <3>2. ToSet(unacked) = {Head(unacked)} \cup ToSet(unacked')
      BY <1>0, <3>1, HeadAndTail
    <3>. QED
      BY <3>1, <3>2 DEF Accepted
  <2>2. CASE link # "open"
    BY <1>1, <1>4, <2>2 DEF Settle
  <2>. QED
    BY <2>1, <2>2
<1>. QED
  BY <1>1, <1>2, <1>3, <1>4
     DEF ConsumeStep, ConsumerConnect, Setup, Handle, EndHandling, Notice, Backoff,
         Disruption, ReapPublisher, ReapConsumer, BrokerDown, ConsumerCrash, Stop, BrokerUp,
         vars, broker, consumer

LEMMA ConsumerStep ==
  ASSUME TypeOK, TypeOK', ConsumerInv, [Next]_vars
  PROVE  ConsumerInv'
<1>0. /\ queue \in Seq(Copy) /\ unacked \in Seq(Copy) /\ buffer \in Seq(Copy)
      /\ link \in {"none", "open", "stale"}
  BY DEF TypeOK, BrokerType, ConsumerType
<1>1. Accepted \subseteq Accepted'
  BY AcceptedGrows, AcceptedStays DEF Next
<1>2. CASE UNCHANGED <<link, buffer, unacked, loop, handled>>
  BY <1>1, <1>2 DEF ConsumerInv
<1>3. CASE link' = "none" /\ buffer' = << >> /\ loop' \in {"connect", "backoff", "returned"}
             /\ unacked' = << >>
  BY <1>3, EmptyToSet DEF ConsumerInv
<1>4. CASE ConsumerConnect
  BY <1>1, <1>3, <1>4 DEF ConsumerConnect, Lose, ConsumerInv, broker
<1>5. CASE Setup \/ Notice
  BY <1>1, <1>3, <1>5 DEF Setup, Notice, Lose, ConsumerInv, broker
<1>6. CASE Deliver
  <2>1. /\ queue # << >> /\ link = "open" /\ buffer = unacked
        /\ buffer' = Append(buffer, Head(queue)) /\ unacked' = Append(unacked, Head(queue))
        /\ UNCHANGED <<loop, link, handled, settled>>
    BY <1>6 DEF Deliver, ConsumerInv
  <2>2. Head(queue) \in Copy /\ Head(queue) \in ToSet(queue)
    BY <1>0, <2>1, HeadAndTail
  <2>3. /\ ToSet(buffer') = ToSet(buffer) \cup {Head(queue)} /\ buffer' # << >>
        /\ buffer # << >> => Head(buffer') = Head(buffer)
    BY <1>0, <2>1, <2>2, Appended
  <2>4. ToSet(buffer') \subseteq Accepted'
    BY <1>1, <2>2, <2>3 DEF ConsumerInv, Accepted
  <2>. QED
    BY <2>1, <2>3, <2>4 DEF ConsumerInv
<1>7. CASE Handle
  BY <1>1, <1>7 DEF Handle, ConsumerInv, broker
<1>8. CASE EndHandling
  BY <1>1, <1>8 DEF EndHandling, ConsumerInv, broker
<1>9. CASE Settle
  <2>1. CASE link = "open"
    <3>1. /\ buffer # << >> /\ buffer = unacked /\ buffer' = Tail(buffer) /\ unacked' = Tail(unacked)
          /\ loop' = "consuming" /\ link' = link
      BY <1>9, <2>1 DEF Settle, ConsumerInv
    <3>2. ToSet(buffer') \subseteq ToSet(buffer)
      BY <1>0, <3>1, HeadAndTail
    <3>. QED
      BY <1>1, <2>1, <3>1, <3>2 DEF ConsumerInv
  <2>2. CASE link # "open"
    BY <1>3, <1>9, <2>2 DEF Settle, Lose, ConsumerInv
  <2>. QED
    BY <2>1, <2>2
<1>10. CASE Backoff
  BY <1>1, <1>10 DEF Backoff, ConsumerInv, broker
<1>11. CASE ReapConsumer \/ BrokerDown
  <2>1. unacked' = << >> /\ UNCHANGED <<buffer, loop, handled>>
    BY <1>11 DEF ReapConsumer, BrokerDown, Requeue
  <2>2. link' = IF link = "open" THEN "stale" ELSE link
    BY <1>11 DEF ReapConsumer, BrokerDown
  <2>. QED
    BY <1>0, <1>1, <2>1, <2>2 DEF ConsumerInv
<1>12. CASE ConsumerCrash
  BY <1>3, <1>12 DEF ConsumerCrash, Requeue
<1>13. ASSUME NEW t \in Thread, Publish(t) \/ PublishStep(t) PROVE ConsumerInv'
  BY <1>2, <1>13
     DEF Publish, PublishStep, Check, Connect, OpenChannel, Use, Write, Discard, broker, consumer
<1>14. CASE ReapPublisher \/ Stop \/ BrokerUp \/ UNCHANGED vars
  BY <1>2, <1>14 DEF ReapPublisher, Stop, BrokerUp, vars, broker, consumer
<1>. QED
  BY <1>4, <1>5, <1>6, <1>7, <1>8, <1>9, <1>10, <1>11, <1>12, <1>13, <1>14
     DEF Next, ConsumeStep, Disruption

LEMMA InitHolds == Init => TypeOK /\ ConsumerInv
<1>. SUFFICES ASSUME Init PROVE TypeOK /\ ConsumerInv
  OBVIOUS
<1>0. << >> \in Seq(Copy) /\ 0 \in 0 .. MaxFaults /\ 1 \in 1 .. MaxDelay
  BY MessagingAssumption, EmptySeq
<1>1. BrokerType
  BY <1>0 DEF Init, BrokerType
<1>2. PublisherType
  BY MessagingAssumption, EmptySeq DEF Init, PublisherType, None
<1>3. ConsumerType
  BY <1>0 DEF Init, ConsumerType
<1>. QED
  BY <1>1, <1>2, <1>3, EmptyToSet DEF Init, TypeOK, ConsumerInv

(* Every reachable state of client and broker is well typed, for any       *)
(* threads, calls, prefetch, backoff and faults; the copy a consumer is    *)
(* about to settle exists.                                                 *)
THEOREM TypeCorrect == Spec => [](TypeOK /\ ConsumerInv)
<1>1. TypeOK /\ ConsumerInv /\ [Next]_vars => (TypeOK /\ ConsumerInv)'
  BY TypeStep, ConsumerStep
<1>. QED
  BY InitHolds, <1>1, PTL DEF Spec

----------------------------------------------------------------------------
(* At-least-once delivery                                                  *)

(* Routing a copy is Accept, the end of a callback is Handle, an ack or a  *)
(* nack is Settle; everything else, the failures included, is invisible.   *)
LEMMA PromiseSimulation ==
  ASSUME TypeOK, ConsumerInv, [Next]_vars
  PROVE  [Promise!Next]_<<Accepted, handled, settled>>
<1>0. buffer \in Seq(Copy)
  BY DEF TypeOK, ConsumerType
<1>1. ASSUME NEW t \in Thread, Publish(t) \/ PublishStep(t)
      PROVE  [Promise!Next]_<<Accepted, handled, settled>>
  <2>1. UNCHANGED <<handled, settled>>
    BY <1>1 DEF Publish, PublishStep, Check, Connect, OpenChannel, Use, Write, Discard, consumer
  <2>2. \/ Accepted' = Accepted
        \/ \E c \in Copy : Accepted' = Accepted \cup {c}
    BY <1>1, AcceptedGrows
  <2>. QED
    BY <2>1, <2>2 DEF Promise!Next, Promise!Accept
<1>2. CASE EndHandling
  <2>1. Head(buffer) \in Accepted
    BY <1>0, <1>2, HeadAndTail DEF EndHandling, ConsumerInv
  <2>2. Accepted' = Accepted
    BY <1>2, AcceptedStays DEF ConsumeStep
  <2>3. handled' = handled \cup {Head(buffer)} /\ settled' = settled
    BY <1>2 DEF EndHandling
  <2>. QED
    BY <2>1, <2>2, <2>3 DEF Promise!Next, Promise!Handle
<1>3. CASE Settle
  <2>1. Accepted' = Accepted
    BY <1>3, AcceptedStays DEF ConsumeStep
  <2>2. CASE link = "open"
    <3>1. Head(buffer) \in handled /\ buffer # << >>
      BY <1>3 DEF Settle, ConsumerInv
    <3>2. Head(buffer) \in Accepted
      BY <1>0, <3>1, HeadAndTail DEF ConsumerInv
    <3>3. settled' = settled \cup {Head(buffer)} /\ handled' = handled
      BY <1>3, <2>2 DEF Settle
    <3>. QED
      BY <2>1, <3>1, <3>2, <3>3 DEF Promise!Next, Promise!Settle
  <2>3. CASE link # "open"
    BY <1>3, <2>1, <2>3 DEF Settle
  <2>. QED
    BY <2>2, <2>3
<1>4. CASE \/ ConsumerConnect \/ Setup \/ Deliver \/ Handle \/ Notice \/ Backoff
           \/ Disruption \/ BrokerUp \/ UNCHANGED vars
  <2>1. Accepted' = Accepted
    BY <1>4, AcceptedStays DEF ConsumeStep
  <2>2. UNCHANGED <<handled, settled>>
    BY <1>4 DEF ConsumerConnect, Setup, Deliver, Handle, Notice, Backoff, Disruption, ReapPublisher,
       ReapConsumer, BrokerDown, ConsumerCrash, Stop, BrokerUp, vars, consumer
  <2>. QED
    BY <2>1, <2>2
<1>. QED
  BY <1>1, <1>2, <1>3, <1>4 DEF Next, ConsumeStep

(* However connections, broker and consumer fail, and however many threads *)
(* publish, no accepted copy disappears before its callback has ended.     *)
THEOREM DeliveredAtLeastOnce == Spec => AtLeastOnce
<1>1. Init => Promise!Init
  BY EmptyToSet DEF Init, Promise!Init, Accepted
<1>2. TypeOK /\ ConsumerInv /\ [Next]_vars => [Promise!Next]_<<Accepted, handled, settled>>
  BY PromiseSimulation
<1>. QED
  BY TypeCorrect, <1>1, <1>2, PTL DEF Spec, AtLeastOnce, Promise!Spec

----------------------------------------------------------------------------
(* One publishing thread                                                   *)

OneThread == \A t, u \in Thread : t = u

(* One thread's view of its client, between two accesses to it: the        *)
(* channel it finds is the connection's, and a second attempt has a        *)
(* connection of its own, good until the broker fails.                     *)
CallInv(p) ==
  /\ p.pc \notin {"open_channel", "discard"} => channel = connection
  /\ p.pc = "connect" => connection = None \/ conns[connection] = "closed"
  /\ p.pc \in {"open_channel", "use", "write"} => connection # None
  /\ p.pc = "write" => p.on = connection
  /\ p.pc # "idle" /\ ~p.disturbed => up
  /\ p.pc # "idle" /\ ~p.disturbed /\ p.attempt = 2 =>
       /\ p.pc # "discard"
       /\ p.pc \in {"check", "connect"} => connection = None
       /\ p.pc \in {"open_channel", "use", "write"} => conns[connection] = "open"

ClientInv ==
  /\ \A t \in Thread : CallInv(pub[t])
  /\ NoLeak
  /\ RaisesOnlyIfDisturbed

(* A step of the only thread, from the record of its call before to the    *)
(* one after.                                                              *)
LEMMA OnlyThread ==
  ASSUME OneThread, NEW t \in Thread, CallInv(pub[t])'
  PROVE  \A u \in Thread : CallInv(pub[u])'
BY DEF OneThread

LEMMA ClientStep ==
  ASSUME OneThread, TypeOK, TypeOK', ClientInv, NEW t \in Thread, Publish(t) \/ PublishStep(t)
  PROVE  ClientInv'
<1>. DEFINE p == pub[t]
<1>0. /\ conns \in Seq(State) /\ conns \in [1 .. Len(conns) -> State] /\ Len(conns) \in Nat
      /\ connection \in 0 .. Len(conns) /\ pub \in [Thread -> Call \cup {Idle}]
      /\ p.pc # "idle" => p \in Call
      /\ CallInv(p) /\ up \in BOOLEAN
  BY PubType, LenProperties DEF TypeOK, PublisherType, BrokerType, State, ClientInv
<1>1. CASE Publish(t)
  <2>1. /\ UNCHANGED <<up, conns, connection, channel, failed>> /\ p.pc = "idle"
        /\ pub'[t].pc = "check" /\ pub'[t].attempt = 1 /\ pub'[t].disturbed = ~up
    BY <1>0, <1>1 DEF Publish, In, broker, client
  <2>2. /\ channel' = connection'
        /\ pub'[t].pc = "check" /\ pub'[t].attempt = 1
    BY <1>0, <2>1 DEF CallInv
  <2>3. ~pub'[t].disturbed => up'
    BY <2>1
  <2>4. CallInv(pub[t])'
    BY <2>2, <2>3 DEF CallInv
  <2>. QED
    BY <2>1, <2>4, OnlyThread DEF ClientInv, NoLeak, RaisesOnlyIfDisturbed
<1>2. CASE Check(t)
  <2>1. /\ UNCHANGED <<up, conns, connection, channel, failed>> /\ p.pc = "check"
        /\ pub' = [pub EXCEPT ![t].pc = IF connection = None \/ conns[connection] = "closed"
                                        THEN "connect" ELSE "use"]
    BY <1>2 DEF Check, GoTo, In, IsOpen, broker, client
  <2>2. CallInv(pub[t])'
    BY <1>0, <2>1 DEF CallInv, Call
  <2>. QED
    BY <2>1, <2>2, OnlyThread DEF ClientInv, NoLeak, RaisesOnlyIfDisturbed
<1>3. CASE Connect(t)
  <2>1. UNCHANGED <<up, channel, failed>> /\ p.pc = "connect"
    BY <1>3 DEF Connect, In, broker
  <2>2. CASE up
    <3>1. /\ conns' = Append(conns, "open") /\ connection' = Len(conns) + 1
          /\ pub' = [pub EXCEPT ![t].pc = "open_channel"]
      BY <1>3, <2>2 DEF Connect, GoTo
    <3>2. /\ conns'[Len(conns) + 1] = "open" /\ Len(conns') = Len(conns) + 1
          /\ \A i \in 1 .. Len(conns) : conns'[i] = conns[i]
      BY <1>0, <3>1, AppendProperties DEF State
    <3>3. CallInv(pub[t])'
      BY <1>0, <2>1, <2>2, <3>1, <3>2 DEF CallInv, Call, None
    <3>4. NoLeak'
      <4>1. connection = None \/ conns[connection] = "closed"
        BY <1>0, <2>1 DEF CallInv
      <4>2. DOMAIN conns' = 1 .. Len(conns) + 1
        BY <1>0, <3>1, <3>2, AppendProperties, LenProperties DEF State
      <4>3. ASSUME NEW c \in DOMAIN conns', c # Len(conns) + 1
            PROVE  conns'[c] \notin {"open", "broken"}
        <5>1. c \in 1 .. Len(conns) /\ conns'[c] = conns[c] /\ DOMAIN conns = 1 .. Len(conns)
          BY <1>0, <3>2, <4>2, <4>3
        <5>2. conns[c] \in {"open", "broken"} => c = connection
          BY <5>1 DEF ClientInv, NoLeak
        <5>. QED
          BY <4>1, <5>1, <5>2 DEF None
      <4>. QED
        BY <3>1, <4>3 DEF NoLeak
    <3>. QED
      BY <2>1, <3>3, <3>4, OnlyThread DEF ClientInv, RaisesOnlyIfDisturbed
  <2>3. CASE ~up
    <3>1. UNCHANGED <<conns, connection>> /\ pub' = [pub EXCEPT ![t].pc = "discard"]
      BY <1>3, <2>3 DEF Connect, GoTo
    <3>2. CallInv(pub[t])'
      BY <1>0, <2>1, <2>3, <3>1 DEF CallInv, Call
    <3>. QED
      BY <2>1, <3>1, <3>2, OnlyThread DEF ClientInv, NoLeak, RaisesOnlyIfDisturbed
  <2>. QED
    BY <2>2, <2>3
<1>4. CASE OpenChannel(t)
  <2>1. /\ UNCHANGED <<up, conns, connection>> /\ p.pc = "open_channel" /\ connection # None
    BY <1>0, <1>4 DEF OpenChannel, In, broker, CallInv
  <2>2. /\ failed' = failed
        /\ IF conns[connection] = "open"
           THEN channel' = connection /\ pub' = [pub EXCEPT ![t].pc = "use"]
           ELSE pub' = [pub EXCEPT ![t].pc = "discard"] /\ channel' = channel
    BY <1>4, <2>1 DEF OpenChannel, GoTo
  <2>3. CallInv(pub[t])'
    BY <1>0, <2>1, <2>2 DEF CallInv, Call
  <2>. QED
    BY <2>1, <2>2, <2>3, OnlyThread DEF ClientInv, NoLeak, RaisesOnlyIfDisturbed
<1>5. CASE Use(t)
  <2>1. /\ UNCHANGED <<up, conns, connection, channel>> /\ p.pc = "use"
        /\ channel = connection /\ connection # None
    BY <1>0, <1>5 DEF Use, In, broker, client, CallInv
  <2>2. failed' = failed /\ pub' = [pub EXCEPT ![t].pc = "write", ![t].on = channel]
    BY <1>5, <2>1 DEF Use
  <2>3. CallInv(pub[t])'
    BY <1>0, <2>1, <2>2 DEF CallInv, Call
  <2>. QED
    BY <2>1, <2>2, <2>3, OnlyThread DEF ClientInv, NoLeak, RaisesOnlyIfDisturbed
<1>6. CASE Write(t)
  <2>1. /\ UNCHANGED <<up, connection, channel, failed>> /\ p.pc = "write"
        /\ p.on = connection /\ connection # None /\ channel = connection
    BY <1>0, <1>6 DEF Write, In, CallInv
  <2>2. \/ Return(t) /\ conns' = conns
        \/ Breaks(t) /\ \E s \in {"broken", "closed"} : conns' = [conns EXCEPT ![connection] = s]
        \/ /\ conns[connection] # "open" /\ pub' = [pub EXCEPT ![t].pc = "discard"]
           /\ conns' = conns \/ conns' = [conns EXCEPT ![connection] = "closed"]
    BY <1>6, <2>1 DEF Write, GoTo
  <2>3. NoLeak'
    <3>1. DOMAIN conns' = DOMAIN conns /\ \A c \in DOMAIN conns : c # connection => conns'[c] = conns[c]
      BY <1>0, <2>2
    <3>. QED
      BY <2>1, <3>1 DEF ClientInv, NoLeak
  <2>4. CallInv(pub[t])'
    <3>1. CASE Return(t)
      BY <1>0, <2>1, <3>1 DEF Return, CallInv, Idle
    <3>2. CASE Breaks(t)
      <4>1. pub'[t] = [p EXCEPT !.pc = "discard", !.disturbed = TRUE]
        BY <1>0, <3>2 DEF Breaks, Disturb
      <4>2. pub'[t].pc = "discard" /\ pub'[t].disturbed
        BY <1>0, <2>1, <4>1 DEF Call
      <4>. QED
        BY <4>2 DEF CallInv
    <3>3. CASE conns[connection] # "open" /\ pub' = [pub EXCEPT ![t].pc = "discard"]
      BY <1>0, <2>1, <3>3 DEF CallInv, Call
    <3>. QED
      BY <2>2, <3>1, <3>2, <3>3
  <2>. QED
    BY <2>1, <2>3, <2>4, OnlyThread DEF ClientInv, RaisesOnlyIfDisturbed
<1>7. CASE Discard(t)
  <2>1. /\ up' = up /\ p.pc = "discard" /\ connection' = None /\ channel' = None
        /\ conns' = IF connection # None THEN [conns EXCEPT ![connection] = "closed"] ELSE conns
    BY <1>7 DEF Discard, In, broker
  <2>2. NoLeak'
    <3>1. ASSUME NEW c \in DOMAIN conns' PROVE conns'[c] \notin {"open", "broken"}
      <4>1. c \in DOMAIN conns /\ (conns[c] \in {"open", "broken"} => c = connection)
        BY <1>0, <2>1 DEF ClientInv, NoLeak
      <4>2. c # 0
        BY <1>0, <4>1
      <4>. QED
        BY <1>0, <2>1, <4>1, <4>2 DEF None
    <3>. QED
      BY <3>1 DEF NoLeak
  <2>3. CASE p.attempt = 2
    <3>1. p.disturbed
      BY <1>0, <2>1, <2>3 DEF CallInv
    <3>2. failed' = failed \cup {[message |-> p.message, disturbed |-> p.disturbed]} /\ pub'[t] = Idle
      BY <1>0, <1>7, <2>3 DEF Discard, Escape
    <3>3. RaisesOnlyIfDisturbed'
      BY <3>1, <3>2 DEF ClientInv, RaisesOnlyIfDisturbed
    <3>4. CallInv(pub[t])'
      BY <2>1, <3>2 DEF CallInv, Idle
    <3>. QED
      BY <2>2, <3>3, <3>4, OnlyThread DEF ClientInv
  <2>4. CASE p.attempt # 2
    <3>1. failed' = failed /\ pub' = [pub EXCEPT ![t].pc = "check", ![t].attempt = 2]
      BY <1>7, <2>4 DEF Discard
    <3>2. CallInv(pub[t])'
      BY <1>0, <2>1, <3>1 DEF CallInv, Call
    <3>. QED
      BY <2>2, <3>1, <3>2, OnlyThread DEF ClientInv, RaisesOnlyIfDisturbed
  <2>. QED
    BY <2>3, <2>4
<1>. QED
  BY <1>1, <1>2, <1>3, <1>4, <1>5, <1>6, <1>7 DEF PublishStep

(* A failure of the broker disturbs every call under way, and what it      *)
(* makes stale is not open.                                                *)
LEMMA ClientDisturbed ==
  ASSUME TypeOK, ClientInv, pub' = Disturb(pub),
         conns' = [i \in DOMAIN conns |-> Stale(conns[i])],
         UNCHANGED <<connection, channel, failed>>
  PROVE  ClientInv'
<1>0. conns \in [1 .. Len(conns) -> State] /\ Len(conns) \in Nat /\ connection \in 0 .. Len(conns)
  BY LenProperties DEF TypeOK, PublisherType, State
<1>1. ASSUME NEW t \in Thread PROVE CallInv(pub[t])'
  <2>1. CallInv(pub[t]) /\ pub[t] \in Call \cup {Idle}
    BY PubType DEF ClientInv, TypeOK
  <2>2. CASE pub[t] = Idle
    BY <2>1, <2>2 DEF Disturb, CallInv, Idle
  <2>3. CASE pub[t] \in Call
    <3>1. pub'[t] = [pub[t] EXCEPT !.disturbed = TRUE]
      BY <2>3, CallUpdates DEF Disturb
    <3>2. pub'[t].pc = pub[t].pc /\ pub'[t].on = pub[t].on /\ pub'[t].disturbed
      BY <2>3, <3>1 DEF Call
    <3>3. connection = None \/ conns[connection] = "closed"
            => connection = None \/ conns'[connection] = "closed"
      BY <1>0 DEF Stale, None
    <3>. QED
      BY <2>1, <3>2, <3>3 DEF CallInv
  <2>. QED
    BY <2>1, <2>2, <2>3
<1>2. NoLeak'
  BY <1>0 DEF Stale, ClientInv, NoLeak
<1>. QED
  BY <1>1, <1>2 DEF ClientInv, RaisesOnlyIfDisturbed

LEMMA ClientKept ==
  ASSUME TypeOK, ClientInv, ConsumeStep \/ Disruption \/ BrokerUp \/ UNCHANGED vars
  PROVE  ClientInv'
<1>1. CASE ReapPublisher \/ BrokerDown
  BY <1>1, ClientDisturbed DEF ReapPublisher, BrokerDown
<1>2. CASE UNCHANGED publisher /\ (up => up')
  BY <1>2 DEF publisher, client, ClientInv, CallInv, NoLeak, RaisesOnlyIfDisturbed
<1>. QED
  BY <1>1, <1>2 DEF ConsumeStep, ConsumerConnect, Setup, Deliver, Handle, EndHandling, Settle,
     Notice, Backoff, Disruption, ReapConsumer, ConsumerCrash, Stop, BrokerUp, vars, broker

(* A client that one thread publishes through raises only for a failure of *)
(* the broker during the call, and forgets no connection it has open.  Two *)
(* threads break the first: MsgShared's run shows how.                     *)
THEOREM ClientSound == OneThread => (Spec => [](NoLeak /\ RaisesOnlyIfDisturbed))
<1> SUFFICES ASSUME OneThread PROVE Spec => [](NoLeak /\ RaisesOnlyIfDisturbed)
  OBVIOUS
<1>1. Init => ClientInv
  BY DEF Init, ClientInv, CallInv, NoLeak, RaisesOnlyIfDisturbed, Idle
<1>2. TypeOK /\ TypeOK' /\ ClientInv /\ [Next]_vars => ClientInv'
  BY ClientStep, ClientKept DEF Next
<1>3. ClientInv => NoLeak /\ RaisesOnlyIfDisturbed
  BY DEF ClientInv
<1>. QED
  BY TypeCorrect, <1>1, <1>2, <1>3, PTL DEF Spec
=============================================================================
