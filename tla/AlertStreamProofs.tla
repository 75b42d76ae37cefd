------------------------- MODULE AlertStreamProofs -------------------------
(***************************************************************************)
(* Theorems about AlertStream, for every set of dashboards, of those that  *)
(* stall or leave, every queue bound and any faults.                       *)
(***************************************************************************)
EXTENDS AlertStream, SequenceTheorems, TLAPS

----------------------------------------------------------------------------
(* Type correctness                                                        *)

LEMMA InitType == Init => TypeOK
BY AlertStreamAssumption DEF Init, TypeOK, None, Alert

(* What the broker delivers again is alerts, and no others than before.    *)
LEMMA ReturnedType ==
  ASSUME TypeOK
  PROVE  Returned \in Seq(Alert)
BY DEF TypeOK, Returned, None

LEMMA FeedType ==
  ASSUME TypeOK, Flag \/ OnMessage \/ Ack \/ ConnectionLost
  PROVE  TypeOK'
<1>1. CASE Flag
  <2>1. published + 1 \in Alert
    BY <1>1, AlertStreamAssumption DEF Flag, TypeOK, Alert
  <2>2. bus' \in Seq(Alert)
    BY <1>1, <2>1 DEF Flag, TypeOK
  <2>. QED
    BY <1>1, <2>1, <2>2 DEF Flag, served, TypeOK, Alert
<1>2. CASE OnMessage
  <2>1. bus \in Seq(Alert) /\ bus # << >>
    BY <1>2 DEF OnMessage, TypeOK
  <2>2. Head(bus) \in Alert /\ Tail(bus) \in Seq(Alert)
    BY <2>1, HeadTailProperties
  <2>. QED
    BY <1>2, <2>2 DEF OnMessage, served, TypeOK
<1>3. CASE Ack
  BY <1>3 DEF Ack, served, TypeOK
<1>4. CASE ConnectionLost
  BY <1>4, ReturnedType, AlertStreamAssumption DEF ConnectionLost, served, TypeOK
<1>. QED
  BY <1>1, <1>2, <1>3, <1>4

LEMMA PutType ==
  ASSUME TypeOK, NEW s \in Session, NEW a \in Alert
  PROVE  Put(s, a) \in Seq(Alert) /\ Len(Put(s, a)) <= MaxQueued
<1>1. queued[s] \in Seq(Alert) /\ Len(queued[s]) <= MaxQueued /\ MaxQueued \in Nat
  BY AlertStreamAssumption DEF TypeOK
<1>. QED
  BY <1>1, AppendProperties DEF Put

LEMMA FanOutType ==
  ASSUME TypeOK, FanOut
  PROVE  TypeOK'
<1>1. calls \in Seq(Alert) /\ calls # << >>
  BY DEF TypeOK, FanOut
<1>2. Head(calls) \in Alert /\ Tail(calls) \in Seq(Alert)
  BY <1>1, HeadTailProperties
<1>3. queued' \in [Session -> Seq(Alert)] /\ \A s \in Session : Len(queued'[s]) <= MaxQueued
  BY <1>2, PutType DEF TypeOK, FanOut, PutForAll
<1>4. due' \in [Session -> Seq(Alert)]
  BY <1>2, AppendProperties DEF TypeOK, FanOut, PutForAll
<1>5. behind' \subseteq Session
  BY DEF TypeOK, FanOut, PutForAll
<1>. QED
  BY <1>2, <1>3, <1>4, <1>5 DEF TypeOK, FanOut, PutForAll

LEMMA ServeType ==
  ASSUME TypeOK, NEW s \in Session, Accept(s) \/ Serve(s) \/ Turn(s)
  PROVE  TypeOK'
<1>. USE DEF Goto, feed, served
<1>1. CASE Accept(s)
  BY <1>1 DEF Accept, TypeOK
<1>2. CASE Subscribe(s)
  BY <1>2 DEF Subscribe, TypeOK
<1>3. CASE Get(s)
  <2>1. queued[s] \in Seq(Alert) /\ queued[s] # << >> /\ Len(queued[s]) <= MaxQueued
    BY <1>3 DEF Get, TypeOK
  <2>2. /\ Head(queued[s]) \in Alert /\ Tail(queued[s]) \in Seq(Alert)
        /\ Len(Tail(queued[s])) <= MaxQueued
    BY <2>1, HeadTailProperties, AlertStreamAssumption
  <2>3. Head(queued[s]) # None
    BY <2>2 DEF None, Alert
  <2>4. hand' \in [Session -> Alert \cup {None}]
    BY <1>3, <2>2 DEF Get, TypeOK
  <2>5. queued' \in [Session -> Seq(Alert)] /\ \A t \in Session : Len(queued'[t]) <= MaxQueued
    BY <1>3, <2>2 DEF Get, TypeOK
  <2>6. endpoint' \in [Session -> {"new", "accepted", "get", "send", "closed"}]
    BY <1>3 DEF Get, TypeOK
  <2>7. \A t \in Session : (hand'[t] # None) = (endpoint'[t] = "send")
    BY <1>3, <2>3 DEF Get, TypeOK
  <2>8. subscribers' = {t \in Session : endpoint'[t] \in {"get", "send"}}
    BY <1>3 DEF Get, TypeOK
  <2>. QED
    BY <1>3, <2>4, <2>5, <2>6, <2>7, <2>8 DEF Get, TypeOK
<1>4. CASE Send(s)
  <2>1. hand[s] \in Alert
    BY <1>4 DEF Send, TypeOK
  <2>2. sent' \in [Session -> Seq(Alert)]
    BY <1>4, <2>1, AppendProperties DEF Send, TypeOK
  <2>. QED
    BY <1>4, <2>2 DEF Send, TypeOK
<1>5. CASE Disconnect(s)
  BY <1>5, AlertStreamAssumption DEF Disconnect, TypeOK
<1>6. CASE Turn(s)
  BY <1>6 DEF Turn, TypeOK
<1>. QED
  BY <1>1, <1>2, <1>3, <1>4, <1>5, <1>6 DEF Serve

LEMMA RestartType ==
  ASSUME TypeOK, Restart
  PROVE  TypeOK'
<1>1. bus' \in Seq(Alert)
  BY ReturnedType DEF Restart
<1>2. ToSet(calls) \subseteq Alert
  BY DEF TypeOK, ToSet
<1>. QED
  BY <1>1, <1>2, AlertStreamAssumption DEF Restart, TypeOK

(* Sessions, queues and what each browser is being sent agree with each    *)
(* other, and no queue exceeds its bound.                                  *)
LEMMA TypeStep ==
  ASSUME TypeOK, [Next]_vars
  PROVE  TypeOK'
<1>1. CASE UNCHANGED vars
  BY <1>1 DEF vars, feed, served, TypeOK
<1>. QED
  BY <1>1, FeedType, FanOutType, RestartType, ServeType DEF Next

(* Every reachable state is well typed: a session is subscribed just while *)
(* its handler loops, and its queue holds MaxQueued alerts at most.        *)
THEOREM TypeCorrect == FairSpec => []TypeOK
<1>1. TypeOK /\ [Next]_vars => TypeOK'
  BY TypeStep
<1>. QED
  BY InitType, <1>1, PTL DEF FairSpec

----------------------------------------------------------------------------
(* A slow dashboard harms only itself                                      *)

(* All that a session has been sent, is being sent or will be sent.        *)
Got(s) == sent[s] \o InTransit(s)

(* SlowHarmsOnlyItself is not inductive: a drop must be known to happen    *)
(* only when MaxQueued alerts are held, and a session that has not         *)
(* subscribed yet must be known to start from nothing.                     *)
KeepsUp(s) ==
  /\ Len(Got(s)) <= Len(due[s])
  /\ \A i \in 1 .. Len(Got(s)) : i <= MaxQueued => Got(s)[i] = due[s][i]
  /\ s \notin behind \/ Len(Got(s)) < MaxQueued => Got(s) = due[s]

Untouched(s) == sent[s] = << >> /\ queued[s] = << >> /\ due[s] = << >>

StreamInv ==
  /\ \A s \in Session : endpoint[s] \in {"new", "accepted"} => Untouched(s)
  /\ \A s \in subscribers : KeepsUp(s)

LEMMA AlertSeqs ==
  /\ \A s, t \in Seq(Alert) : s \o t \in Seq(Alert) /\ Len(s \o t) = Len(s) + Len(t)
  /\ \A s, t, u \in Seq(Alert) : (s \o t) \o u = s \o (t \o u)
  /\ \A s \in Seq(Alert) : Len(s) \in Nat /\ s \o << >> = s /\ << >> \o s = s
  /\ \A s \in Seq(Alert), a \in Alert : Append(s, a) = s \o <<a>>
<1>1. \A s, t, u \in Seq(Alert) : (s \o t) \o u = s \o (t \o u)
  BY ConcatAssociative
<1>2. \A s, t \in Seq(Alert) : s \o t \in Seq(Alert) /\ Len(s \o t) = Len(s) + Len(t)
  BY ConcatProperties
<1>3. \A s \in Seq(Alert) : Len(s) \in Nat /\ s \o << >> = s /\ << >> \o s = s
  BY ConcatEmptySeq
<1>4. \A s \in Seq(Alert), a \in Alert : Append(s, a) = s \o <<a>>
  BY AppendIsConcat
<1>. QED
  BY <1>1, <1>2, <1>3, <1>4

LEMMA GotType ==
  ASSUME TypeOK, NEW s \in Session
  PROVE  /\ InTransit(s) \in Seq(Alert)
         /\ Len(InTransit(s)) \in Nat /\ Len(queued[s]) <= Len(InTransit(s))
         /\ Got(s) \in Seq(Alert)
         /\ Len(Got(s)) = Len(sent[s]) + Len(InTransit(s))
         /\ due[s] \in Seq(Alert) /\ sent[s] \in Seq(Alert) /\ queued[s] \in Seq(Alert)
         /\ Len(due[s]) \in Nat /\ Len(sent[s]) \in Nat /\ Len(queued[s]) \in Nat
         /\ Len(queued[s]) <= MaxQueued /\ MaxQueued \in Nat \ {0}
<1>1. /\ due[s] \in Seq(Alert) /\ sent[s] \in Seq(Alert) /\ queued[s] \in Seq(Alert)
      /\ hand[s] \in Alert \cup {None} /\ Len(queued[s]) <= MaxQueued
  BY DEF TypeOK
<1>2. /\ InTransit(s) \in Seq(Alert) /\ Len(InTransit(s)) \in Nat
      /\ Len(queued[s]) <= Len(InTransit(s))
  <2> DEFINE h == IF hand[s] = None THEN << >> ELSE <<hand[s]>>
  <2>1. h \in Seq(Alert)
    BY <1>1
  <2>2. InTransit(s) = h \o queued[s]
    BY DEF InTransit
  <2> HIDE DEF h
  <2>. QED
    BY <1>1, <2>1, <2>2, AlertSeqs
<1>. QED
  BY <1>1, <1>2, AlertSeqs, AlertStreamAssumption DEF Got

(* What is put at the end of a queue is put at the end of what is held.    *)
LEMMA TransitAppend ==
  ASSUME TypeOK, NEW s \in Session, NEW a \in Alert, hand'[s] = hand[s], sent'[s] = sent[s],
         queued'[s] = Append(queued[s], a)
  PROVE  Got(s)' = Append(Got(s), a)
<1>0. /\ queued[s] \in Seq(Alert) /\ sent[s] \in Seq(Alert) /\ <<a>> \in Seq(Alert)
      /\ (IF hand[s] = None THEN << >> ELSE <<hand[s]>>) \in Seq(Alert)
  BY DEF TypeOK
<1>1. PICK h \in Seq(Alert) : h = IF hand[s] = None THEN << >> ELSE <<hand[s]>>
  BY <1>0, Zenon
<1>2. PICK u \in Seq(Alert) : u = <<a>>
  BY <1>0, Zenon
<1>3. PICK q \in Seq(Alert) : q = queued[s]
  BY <1>0, Zenon
<1>4. PICK x \in Seq(Alert) : x = sent[s]
  BY <1>0, Zenon
<1>5. PICK g \in Seq(Alert) : g = Got(s)
  BY GotType, Zenon
<1>6. Append(q, a) = q \o u /\ Append(g, a) = g \o u
  BY <1>2, AppendIsConcat
<1>7. g = x \o (h \o q) /\ Got(s)' = x \o (h \o (q \o u))
  BY <1>1, <1>3, <1>4, <1>5, <1>6 DEF InTransit, Got
<1>8. h \o (q \o u) = (h \o q) \o u
  BY SMTT(30)
<1>9. x \o ((h \o q) \o u) = (x \o (h \o q)) \o u
  <2>. h \o q \in Seq(Alert)
    BY ConcatProperties
  <2>. QED
    BY SMTT(30)
<1>. QED
  BY <1>5, <1>6, <1>7, <1>8, <1>9

(* A fan-out reaches every queue with room; one without room belongs to a  *)
(* session that holds MaxQueued alerts by then.                            *)
LEMMA FanOutKeeps ==
  ASSUME TypeOK, StreamInv, FanOut, NEW s \in subscribers
  PROVE  KeepsUp(s)'
<1>. PICK a \in Alert : a = Head(calls)
  <2>1. calls \in Seq(Alert) /\ calls # << >>
    BY DEF TypeOK, FanOut
  <2>. QED
    BY <2>1, HeadTailProperties
<1>1. s \in Session /\ KeepsUp(s)
  BY DEF TypeOK, StreamInv
<1>2. /\ due'[s] = Append(due[s], a) /\ sent'[s] = sent[s] /\ hand'[s] = hand[s]
      /\ queued'[s] = Put(s, a)
      /\ s \in behind' <=> s \in behind \/ Len(due[s]) - Len(sent[s]) >= MaxQueued
  BY <1>1 DEF FanOut, PutForAll, TypeOK
<1>3. /\ Len(due'[s]) = Len(due[s]) + 1 /\ due'[s][Len(due[s]) + 1] = a
      /\ \A i \in 1 .. Len(due[s]) : due'[s][i] = due[s][i]
  BY <1>1, <1>2, GotType, AppendProperties
<1>a. PICK g : g = Got(s)
  OBVIOUS
<1>6. /\ g \in Seq(Alert) /\ Len(g) \in Nat /\ Len(due[s]) \in Nat /\ Len(sent[s]) \in Nat /\ MaxQueued \in Nat
      /\ Len(queued[s]) \in Nat /\ Len(queued[s]) <= MaxQueued
      /\ Len(g) >= Len(sent[s]) + Len(queued[s])
  <2>1. /\ Got(s) \in Seq(Alert) /\ Len(Got(s)) \in Nat /\ Len(InTransit(s)) \in Nat
        /\ Len(due[s]) \in Nat /\ Len(sent[s]) \in Nat /\ MaxQueued \in Nat
        /\ Len(queued[s]) \in Nat /\ Len(queued[s]) <= MaxQueued
        /\ Len(Got(s)) = Len(sent[s]) + Len(InTransit(s)) /\ Len(queued[s]) <= Len(InTransit(s))
    BY <1>1, GotType
  <2>. QED
    BY <1>a, <2>1
<1>7. /\ Len(g) <= Len(due[s])
      /\ \A i \in 1 .. Len(g) : i <= MaxQueued => g[i] = due[s][i]
      /\ s \notin behind \/ Len(g) < MaxQueued => g = due[s]
  BY <1>1, <1>a DEF KeepsUp
<1>4. CASE Len(queued[s]) < MaxQueued
  <2>1. Got(s)' = Append(g, a)
    BY <1>1, <1>2, <1>4, <1>a, TransitAppend DEF Put
  <2>2. /\ Len(Append(g, a)) = Len(g) + 1 /\ Append(g, a)[Len(g) + 1] = a
        /\ \A i \in 1 .. Len(g) : Append(g, a)[i] = g[i]
    BY <1>6, AppendProperties
  <2>3. s \notin behind' \/ Len(g) + 1 < MaxQueued => g = due[s]
    <3>1. s \notin behind' => s \notin behind
      BY <1>2
    <3>2. Len(g) + 1 < MaxQueued => Len(g) < MaxQueued
      BY <1>6
    <3>. QED
      BY <1>7, <3>1, <3>2
  <2>4. ASSUME NEW i \in 1 .. Len(g) + 1, i <= MaxQueued PROVE Append(g, a)[i] = due'[s][i]
    <3>1. CASE i <= Len(g)
      BY <1>3, <1>6, <1>7, <2>2, <2>4, <3>1
    <3>2. CASE i = Len(g) + 1
      <4>1. g = due[s]
        BY <1>6, <1>7, <2>4, <3>2
      <4>. QED
        BY <1>3, <2>2, <3>2, <4>1
    <3>. QED
      BY <1>6, <3>1, <3>2
  <2>. QED
    BY <1>2, <1>3, <1>6, <1>7, <2>1, <2>2, <2>3, <2>4 DEF KeepsUp
<1>5. CASE ~(Len(queued[s]) < MaxQueued)
  <2>1. Got(s)' = g
    BY <1>2, <1>5, <1>a DEF Put, Got, InTransit
  <2>2. Len(g) - Len(sent[s]) >= MaxQueued /\ Len(due[s]) - Len(sent[s]) >= MaxQueued
    <3>1. PICK n \in Nat : n = Len(queued[s])
      BY <1>6, Zenon
    <3>2. PICK k \in Nat : k = Len(sent[s])
      BY <1>6, Zenon
    <3>3. n >= MaxQueued /\ Len(g) >= k + n
      <4>1. Len(g) >= k + n
        BY <1>6, <3>1, <3>2, Zenon
      <4>2. ~(n < MaxQueued)
        BY <1>5, <3>1, Zenon
      <4>. QED
        BY <1>6, <4>1, <4>2
    <3>4. Len(g) - k >= MaxQueued /\ Len(due[s]) - k >= MaxQueued
      BY <1>6, <1>7, <3>3
    <3>. QED
      BY <3>2, <3>4
  <2>3. s \in behind' /\ ~(Len(g) < MaxQueued)
    BY <1>2, <1>6, <2>2
  <2>. QED
    BY <1>3, <1>6, <1>7, <2>1, <2>3 DEF KeepsUp
<1>. QED
  BY <1>4, <1>5

(* A step of one session moves alerts along without adding or losing any.  *)
LEMMA ServeKeeps ==
  ASSUME TypeOK, NEW s \in Session, Get(s) \/ Send(s)
  PROVE  Got(s)' = Got(s)
<1>1. CASE Get(s)
  <2>1. queued[s] \in Seq(Alert) /\ queued[s] # << >> /\ hand[s] = None
    BY <1>1 DEF Get, TypeOK
  <2>2. Head(queued[s]) \in Alert /\ Tail(queued[s]) \in Seq(Alert)
    BY <2>1, HeadTailProperties
  <2>3. hand'[s] = Head(queued[s]) /\ queued'[s] = Tail(queued[s]) /\ sent'[s] = sent[s]
    BY <1>1 DEF Get, TypeOK, feed
  <2>. PICK q : q = queued[s]
    OBVIOUS
  <2>4. InTransit(s)' = <<Head(q)>> \o Tail(q)
    <3>1. Head(q) # None
      BY <2>2 DEF None, Alert
    <3>. QED
      BY <2>3, <3>1 DEF InTransit
  <2>5. InTransit(s) = queued[s]
    BY <2>1, ConcatEmptySeq DEF InTransit
  <2>6. <<Head(queued[s])>> \o Tail(queued[s]) = queued[s]
    BY <2>1, <2>2
  <2>. QED
    BY <2>3, <2>4, <2>5, <2>6 DEF Got
<1>2. CASE Send(s)
  <2>1. hand[s] \in Alert /\ hand[s] # None /\ queued[s] \in Seq(Alert) /\ sent[s] \in Seq(Alert)
    BY <1>2 DEF Send, TypeOK, None, Alert
  <2>2. hand'[s] = None /\ queued'[s] = queued[s] /\ sent'[s] = Append(sent[s], hand[s])
    BY <1>2 DEF Send, TypeOK, feed
  <2>3. InTransit(s)' = queued[s] /\ InTransit(s) = <<hand[s]>> \o queued[s]
    BY <2>1, <2>2, ConcatEmptySeq DEF InTransit
  <2>4. sent'[s] = sent[s] \o <<hand[s]>> /\ <<hand[s]>> \in Seq(Alert)
    BY <2>1, <2>2, AppendIsConcat
  <2>5. (sent[s] \o <<hand[s]>>) \o queued[s] = sent[s] \o (<<hand[s]>> \o queued[s])
    BY <2>1, <2>4, AlertSeqs
  <2>. QED
    BY <2>3, <2>4, <2>5 DEF Got
<1>. QED
  BY <1>1, <1>2

LEMMA StreamStep ==
  ASSUME TypeOK, TypeOK', StreamInv, [Next]_vars
  PROVE  StreamInv'
<1>. USE DEF Goto, feed, served
<1>0. /\ subscribers = {s \in Session : endpoint[s] \in {"get", "send"}}
      /\ endpoint \in [Session -> {"new", "accepted", "get", "send", "closed"}]
      /\ queued \in [Session -> Seq(Alert)] /\ sent \in [Session -> Seq(Alert)]
      /\ hand \in [Session -> Alert \cup {None}]
  BY DEF TypeOK
<1>1. CASE FanOut
  <2>1. subscribers' = subscribers /\ endpoint' = endpoint
    BY <1>1 DEF FanOut, PutForAll
  <2>2. ASSUME NEW s \in Session, endpoint'[s] \in {"new", "accepted"} PROVE Untouched(s)'
    BY <1>0, <1>1, <2>1, <2>2 DEF FanOut, PutForAll, StreamInv, Untouched
  <2>. QED
    BY <1>1, <2>1, <2>2, FanOutKeeps DEF StreamInv
<1>2. CASE Restart
  <2>1. ASSUME NEW s \in Session, endpoint'[s] \in {"new", "accepted"} PROVE Untouched(s)'
    BY <1>0, <1>2, <2>1 DEF Restart, StreamInv, Untouched
  <2>. QED
    BY <1>2, <2>1 DEF Restart, StreamInv
<1>3. ASSUME NEW s \in Session, Accept(s) \/ Serve(s) \/ Turn(s) PROVE StreamInv'
  <2>1. due' = due /\ behind' = behind
    BY <1>3 DEF Accept, Serve, Subscribe, Get, Send, Disconnect, Turn
  <2>2. ASSUME NEW t \in Session, t # s
        PROVE  /\ endpoint'[t] = endpoint[t] /\ sent'[t] = sent[t] /\ queued'[t] = queued[t]
               /\ Got(t)' = Got(t)
    BY <1>0, <1>3, <2>2 DEF Accept, Serve, Subscribe, Get, Send, Disconnect, Turn, Got, InTransit
  <2>3. endpoint'[s] \in {"new", "accepted"} => Untouched(s)'
    BY <1>0, <1>3, <2>1
       DEF Accept, Serve, Subscribe, Get, Send, Disconnect, Turn, StreamInv, Untouched
  <2>4. s \in subscribers' => KeepsUp(s)'
    <3>1. CASE Get(s) \/ Send(s)
      <4>1. s \in subscribers
        BY <1>0, <3>1 DEF Get, Send
      <4>. QED
        BY <2>1, <3>1, <4>1, ServeKeeps DEF StreamInv, KeepsUp
    <3>2. CASE Subscribe(s)
      <4>1. Untouched(s) /\ hand[s] = None
        BY <1>0, <3>2 DEF Subscribe, StreamInv, TypeOK
      <4>2. Got(s)' = << >> /\ due'[s] = << >>
        BY <2>1, <3>2, <4>1, ConcatEmptySeq DEF Subscribe, Untouched, Got, InTransit
      <4>. QED
        BY <4>2 DEF KeepsUp
    <3>3. CASE Turn(s)
      <4>1. UNCHANGED served
        BY <3>3 DEF Turn
      <4>2. Got(s)' = Got(s)
        BY <4>1 DEF Got, InTransit
      <4>. QED
        BY <2>1, <4>1, <4>2 DEF StreamInv, KeepsUp
    <3>4. CASE Accept(s) \/ Disconnect(s)
      <4>. s \notin subscribers'
        BY <1>0, <3>4 DEF Accept, Disconnect
      <4>. QED
        OBVIOUS
    <3>. QED
      BY <1>3, <3>1, <3>2, <3>3, <3>4 DEF Serve
  <2>5. ASSUME NEW t \in subscribers', t # s PROVE KeepsUp(t)'
    <3>1. t \in Session /\ t \in subscribers
      BY <1>0, <2>2, <2>5 DEF TypeOK
    <3>. QED
      BY <2>1, <2>2, <2>5, <3>1 DEF StreamInv, KeepsUp
  <2>6. ASSUME NEW t \in Session, t # s, endpoint'[t] \in {"new", "accepted"} PROVE Untouched(t)'
    BY <2>1, <2>2, <2>6 DEF StreamInv, Untouched
  <2>. QED
    BY <2>3, <2>4, <2>5, <2>6 DEF StreamInv
<1>4. CASE Flag \/ OnMessage \/ Ack \/ ConnectionLost \/ UNCHANGED vars
  <2>1. UNCHANGED <<served, due, behind>>
    BY <1>4 DEF Flag, OnMessage, Ack, ConnectionLost, vars
  <2>. QED
    BY <2>1 DEF StreamInv, KeepsUp, Untouched, Got, InTransit
<1>. QED
  BY <1>1, <1>2, <1>3, <1>4 DEF Next

LEMMA StreamGives ==
  ASSUME TypeOK, StreamInv
  PROVE  SlowHarmsOnlyItself
<1>1. OthersLoseNothing
  BY DEF OthersLoseNothing, StreamInv, KeepsUp, Got
<1>2. SlowLosesNewest
  <2>1. ASSUME NEW s \in subscribers, NEW n \in Nat, n <= Len(Got(s)), n <= MaxQueued
        PROVE  SubSeq(Got(s), 1, n) = SubSeq(due[s], 1, n)
    <3>1. s \in Session /\ KeepsUp(s)
      BY DEF TypeOK, StreamInv
    <3>2. \A i \in 1 .. n : Got(s)[i] \in Alert /\ due[s][i] \in Alert /\ Got(s)[i] = due[s][i]
      BY <2>1, <3>1, GotType, ElementOfSeq DEF KeepsUp
    <3>3. /\ SubSeq(Got(s), 1, n) \in Seq(Alert) /\ SubSeq(due[s], 1, n) \in Seq(Alert)
          /\ Len(SubSeq(Got(s), 1, n)) = n /\ Len(SubSeq(due[s], 1, n)) = n
          /\ \A i \in 1 .. n : /\ SubSeq(Got(s), 1, n)[i] = Got(s)[i]
                               /\ SubSeq(due[s], 1, n)[i] = due[s][i]
      BY <3>2, SubSeqProperties
    <3>. QED
      BY <3>2, <3>3, SeqEqual
  <2>2. \A s \in subscribers : s \in Session
    BY DEF TypeOK
  <2>. QED
    BY <2>1, <2>2, GotType DEF SlowLosesNewest, Got
<1>. QED
  BY <1>1, <1>2 DEF SlowHarmsOnlyItself

(* However many tabs stall, leave or come, each other dashboard is sent    *)
(* all that is fanned out while it is subscribed, and a slow one loses     *)
(* only the newest.                                                        *)
THEOREM SlowHarmsNoOther == FairSpec => []SlowHarmsOnlyItself
<1>1. Init => StreamInv
  BY DEF Init, StreamInv, Untouched
<1>2. TypeOK /\ TypeOK' /\ StreamInv /\ [Next]_vars => StreamInv'
  BY StreamStep
<1>3. TypeOK /\ StreamInv => SlowHarmsOnlyItself
  BY StreamGives
<1>. QED
  BY <1>1, <1>2, <1>3, TypeCorrect, PTL DEF FairSpec
=============================================================================
