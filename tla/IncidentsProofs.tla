-------------------------- MODULE IncidentsProofs ---------------------------
(***************************************************************************)
(* Theorems about Incidents, for any number of anomalies, any windows, any *)
(* refreshes and clicks under way at once, and any length of the ledger.   *)
(***************************************************************************)
EXTENDS Incidents, Integers, SequenceTheorems, FiniteSetTheorems, TLAPS

----------------------------------------------------------------------------
(* Data                                                                    *)

(* A set of numbers up to n has a greatest. *)
LEMMA MaxOf ==
  ASSUME NEW n \in Nat, NEW S \in SUBSET (0 .. n), S # {}
  PROVE  Max(S) \in S /\ \A y \in S : Max(S) >= y
<1>. DEFINE T == {i \in 0 .. n : \E y \in S : i <= y}
<1>1. T \in SUBSET (0 .. n) /\ 0 \in T /\ \A i \in T : \A j \in 0 .. i : j \in T
  <2>1. PICK y : y \in S
    OBVIOUS
  <2>2. y \in 0 .. n
    BY <2>1
  <2>. QED
    BY <2>1, <2>2
<1>2. IsFiniteSet(0 .. n)
  BY FS_Interval
<1>3. IsFiniteSet(T) /\ Cardinality(T) \in Nat
  BY <1>1, <1>2, FS_Subset, FS_CardinalityType, Zenon
<1>4. \A i \in 0 .. n : (\E y \in S : i <= y) => i \in T
  OBVIOUS
<1>5. \A i \in T : \E y \in S : i <= y
  OBVIOUS
<1>. HIDE DEF T
<1>k. PICK k \in Nat : k = Cardinality(T)
  BY <1>3
<1>6. k \notin T
  <2>1. SUFFICES ASSUME k \in T
                 PROVE  FALSE
    OBVIOUS
  <2>2. 0 .. k \in SUBSET T
    BY <1>1, <2>1
  <2>3. Cardinality(0 .. k) = k + 1
    BY <1>3, FS_Interval
  <2>. QED
    BY <1>3, <1>k, <2>2, <2>3, FS_Subset
<1>7. k - 1 \in T
  <2>1. SUFFICES ASSUME k - 1 \notin T
                 PROVE  FALSE
    OBVIOUS
  <2>2. k # 0
    BY <1>1, <1>6
  <2>3. T \in SUBSET (0 .. k - 2)
    <3>1. ASSUME NEW i \in T, i >= k - 1
          PROVE  FALSE
      BY <1>1, <1>3, <2>1, <2>2, <3>1
    <3>. QED
      BY <1>1, <1>3, <3>1
  <2>4. /\ IsFiniteSet(0 .. k - 2) /\ Cardinality(0 .. k - 2) \in Int
        /\ Cardinality(0 .. k - 2) <= k - 1
    <3>1. k - 2 \in Int /\ 0 \in Int
      OBVIOUS
    <3>2. /\ IsFiniteSet(0 .. k - 2)
          /\ Cardinality(0 .. k - 2) = IF 0 > k - 2 THEN 0 ELSE k - 2 - 0 + 1
      BY <3>1, FS_Interval
    <3>. QED
      BY <2>2, <3>2
  <2>5. Cardinality(T) <= Cardinality(0 .. k - 2)
    BY <2>3, <2>4, FS_Subset
  <2>. QED
    BY <1>k, <2>4, <2>5
<1>8. PICK y \in S : k - 1 <= y
  BY <1>5, <1>7
<1>9. ASSUME NEW z \in S, z > y
      PROVE  FALSE
  <2>1. k \in 0 .. n /\ k <= z
    BY <1>3, <1>8, <1>9
  <2>. QED
    BY <1>4, <1>6, <2>1
<1>10. \A z \in S : y >= z
  BY <1>9
<1>. QED
  BY <1>10 DEF Max

LEMMA Constants ==
  /\ Cardinality(Anomaly) \in Nat /\ Anomaly = 1 .. Cardinality(Anomaly)
  /\ Recent \in Nat \ {0} /\ Actionable \in Nat \ {0} /\ ActionsWindow \in Nat \ {0}
  /\ Recent <= Actionable /\ MaxEntries \in Nat
  /\ Unread \in Nat /\ Unread > Cardinality(Anomaly) /\ Unread > MaxEntries
  /\ IsFiniteSet(Act)
<1>1. Cardinality(Anomaly) \in Nat
  BY FS_CardinalityType, IncidentsAssumption
<1>. QED
  BY <1>1, IncidentsAssumption DEF Unread

(* LatestOf finds the latest, and 0 says that there is none.               *)
LEMMA LatestIs ==
  ASSUME NEW n \in Nat, NEW entries \in SUBSET (1 .. n), NEW a, NEW result
  PROVE  /\ LatestOf(entries, a, result) \in 0 .. n
         /\ \A i \in entries : trail[i].anomaly = a /\ trail[i].result = result =>
              i <= LatestOf(entries, a, result)
         /\ LatestOf(entries, a, result) # 0 =>
              /\ LatestOf(entries, a, result) \in entries
              /\ trail[LatestOf(entries, a, result)].anomaly = a
              /\ trail[LatestOf(entries, a, result)].result = result
<1>1. PICK S : S = {0} \cup {i \in entries : trail[i].anomaly = a /\ trail[i].result = result}
  OBVIOUS
<1>2. S \in SUBSET (0 .. n) /\ S # {}
  <2>1. 0 \in S
    BY <1>1
  <2>2. \A i \in S : i \in 0 .. n
    BY <1>1
  <2>. QED
    BY <2>1, <2>2
<1>3. Max(S) \in S /\ \A y \in S : Max(S) >= y
  BY <1>2, MaxOf
<1>4. LatestOf(entries, a, result) = Max(S)
  BY <1>1 DEF LatestOf
<1>. QED
  BY <1>1, <1>2, <1>3, <1>4

(* Number l is the latest such entry, or 0.                                *)
IsLatest(l, n, entries, a, result) ==
  /\ l \in 0 .. n
  /\ l # 0 => l \in entries /\ trail[l].anomaly = a /\ trail[l].result = result
  /\ \A i \in entries : trail[i].anomaly = a /\ trail[i].result = result => i <= l

LEMMA LatestAs ==
  ASSUME NEW n \in Nat, NEW entries \in SUBSET (1 .. n), NEW a, NEW result
  PROVE  IsLatest(LatestOf(entries, a, result), n, entries, a, result)
BY LatestIs DEF IsLatest

LEMMA SeqMono ==
  ASSUME NEW S, NEW T, S \subseteq T, NEW s \in Seq(S)
  PROVE  s \in Seq(T)
<1>1. s \in [1 .. Len(s) -> S] /\ Len(s) \in Nat
  BY LenProperties
<1>. QED
  BY <1>1, SeqDef

(* What an alert puts in front of the list.                                *)
LEMMA Prepended ==
  ASSUME NEW n \in Nat, NEW limit \in Nat \ {0}, NEW s \in Seq(1 .. n), Len(s) <= limit,
         IsInjective(s), NEW a \in 1 .. n, \A i \in 1 .. Len(s) : s[i] # a,
         NEW m \in 1 .. limit, m = IF Len(s) < limit THEN Len(s) + 1 ELSE limit
  PROVE  /\ SubSeq(<<a>> \o s, 1, m) \in Seq(1 .. n)
         /\ Len(SubSeq(<<a>> \o s, 1, m)) <= limit
         /\ IsInjective(SubSeq(<<a>> \o s, 1, m))
<1>0. Len(s) \in Nat /\ DOMAIN s = 1 .. Len(s)
  BY LenProperties
<1>1. <<a>> \in Seq(1 .. n) /\ Len(<<a>>) = 1 /\ <<a>>[1] = a
  OBVIOUS
<1>2. PICK w : w = <<a>> \o s
  OBVIOUS
<1>3. /\ w \in Seq(1 .. n) /\ Len(w) = Len(s) + 1 /\ w[1] = a
      /\ \A i \in 2 .. Len(w) : w[i] = s[i - 1] /\ i - 1 \in 1 .. Len(s)
  <2>1. /\ <<a>> \o s \in Seq(1 .. n) /\ Len(<<a>> \o s) = 1 + Len(s)
        /\ \A i \in 1 .. 1 + Len(s) :
             (<<a>> \o s)[i] = IF i <= 1 THEN <<a>>[i] ELSE s[i - 1]
    BY <1>1, ConcatProperties
  <2>. QED
    BY <1>0, <1>1, <1>2, <2>1
<1>4. ASSUME NEW i \in 1 .. Len(w), NEW j \in 1 .. Len(w), w[i] = w[j]
      PROVE  i = j
  <2>1. CASE i = 1 \/ j = 1
    <3>1. \A k \in 1 .. Len(w) : k # 1 => w[k] # w[1]
      BY <1>0, <1>3
    <3>. QED
      BY <1>4, <2>1, <3>1
  <2>2. CASE i # 1 /\ j # 1
    <3>1. /\ w[i] = s[i - 1] /\ i - 1 \in DOMAIN s
          /\ w[j] = s[j - 1] /\ j - 1 \in DOMAIN s
      BY <1>0, <1>3, <2>2
    <3>2. i - 1 = j - 1
      BY <1>4, <3>1 DEF IsInjective
    <3>. QED
      BY <1>0, <1>3, <3>2
  <2>. QED
    BY <2>1, <2>2
<1>5. m \in 1 .. Len(w)
  BY <1>0, <1>3
<1>6. \A i \in 1 .. m : w[i] \in 1 .. n /\ i \in 1 .. Len(w)
  BY <1>0, <1>3, <1>5, ElementOfSeq
<1>7. PICK r : r = SubSeq(w, 1, m)
  OBVIOUS
<1>8. r \in Seq(1 .. n) /\ Len(r) = m /\ \A i \in 1 .. m : r[i] = w[i]
  <2>1. /\ SubSeq(w, 1, m) \in Seq(1 .. n)
        /\ Len(SubSeq(w, 1, m)) = IF 1 <= m THEN m - 1 + 1 ELSE 0
        /\ \A i \in 1 .. m - 1 + 1 : SubSeq(w, 1, m)[i] = w[1 + i - 1]
    BY <1>6, SubSeqProperties
  <2>. QED
    BY <1>7, <2>1
<1>9. DOMAIN r = 1 .. m
  BY <1>8, LenProperties
<1>10. IsInjective(r)
  BY <1>4, <1>6, <1>8, <1>9 DEF IsInjective
<1>. QED
  BY <1>2, <1>7, <1>8, <1>10

----------------------------------------------------------------------------
(* The invariant                                                           *)

(* The clicks whose answer may still take two entries of the trail, and    *)
(* those whose answer may take one.                                        *)
Reading == {c \in Act : act[c].pc \in {"read", "append"}}
Publishing == {c \in Act : act[c].pc = "publish"}
RoomKept == Len(trail) + 2 * Cardinality(Reading) + Cardinality(Publishing) <= MaxEntries

(* What a refresh has read is a length the tables had.                     *)
Fetched(f) ==
  /\ ~f.on => f.anomalies = Unread
  /\ f.anomalies # Unread => f.anomalies <= flagged
  /\ f.actions # Unread => f.actions <= Len(trail)

(* A click is about an entry of the trail: one that calls for it until     *)
(* api-bff has read it, that one, and then the dispatch it appended, which *)
(* the refresh it awaits does not miss.                                    *)
Wanted(kind) == IF kind = "approve" THEN "pending_approval" ELSE "executed"

Grounded(click, f) ==
  /\ click.pc = "read" =>
       \E i \in 1 .. Len(trail) :
         trail[i].anomaly = click.anomaly /\ trail[i].result = Wanted(click.kind)
  /\ click.pc \in {"append", "publish", "refresh"} =>
       click.entry \in 1 .. Len(trail) /\ trail[click.entry].anomaly = click.anomaly
  /\ click.pc \in {"publish", "refresh"} => trail[click.entry].result = "dispatched"
  /\ click.pc = "refresh" => f.actions >= click.entry

PanelInv ==
  /\ RoomKept
  /\ \A t \in Timer \cup Act : Fetched(fetch[t])
  /\ \A c \in Act : Grounded(act[c], fetch[c])

----------------------------------------------------------------------------
(* Type correctness and the invariant, step by step                        *)

LEMMA Clicks ==
  ASSUME TypeOK
  PROVE  /\ IsFiniteSet(Reading) /\ Cardinality(Reading) \in Nat
         /\ IsFiniteSet(Publishing) /\ Cardinality(Publishing) \in Nat
         /\ Len(trail) \in Nat /\ DOMAIN trail = 1 .. Len(trail)
BY Constants, FS_Subset, FS_CardinalityType, LenProperties DEF Reading, Publishing, TypeOK

LEMMA Appended ==
  ASSUME TypeOK, NEW e \in Row, trail' = Append(trail, e)
  PROVE  /\ trail' \in Seq(Row) /\ Len(trail') = Len(trail) + 1 /\ trail'[Len(trail')] = e
         /\ \A i \in 1 .. Len(trail) : trail'[i] = trail[i]
BY AppendProperties, LenProperties DEF TypeOK

(* Whatever of AuditTrail happens, one row is appended, about an anomaly.  *)
LEMMA RowWritten ==
  ASSUME TypeOK,
         \/ \E a \in 1 .. flagged, remedy \in Remedies : Decide(a, remedy)
         \/ \E a \in 1 .. flagged, action \in Remedies \cup {"alert_only"} : Withhold(a, action)
         \/ \E i \in Nat : Approve(i) \/ AskReversal(i) \/ DispatchFailed(i) \/ Outcome(i)
  PROVE  \E e \in Row : trail' = Append(trail, e)
<1>1. ASSUME NEW i \in DOMAIN trail
      PROVE  trail[i] \in Row /\ i \in Nat
  BY LenProperties, ElementOfSeq DEF TypeOK
<1>2. CASE \E a \in 1 .. flagged, remedy \in Remedies : Decide(a, remedy)
  <2>1. PICK a \in 1 .. flagged, remedy \in Remedies : Decide(a, remedy)
    BY <1>2
  <2>2. a \in Anomaly
    BY <2>1, Constants DEF TypeOK
  <2>. QED
    BY <2>1, <2>2 DEF Decide, Write, Entry, Row, None
<1>3. ASSUME NEW i \in Nat, Approve(i)
      PROVE  \E e \in Row : trail' = Append(trail, e)
  BY <1>1, <1>3 DEF Approve, Having, Write, Entry, Row, None
<1>4. ASSUME NEW i \in Nat, AskReversal(i)
      PROVE  \E e \in Row : trail' = Append(trail, e)
  BY <1>1, <1>4 DEF AskReversal, Having, Write, Entry, Row, None
<1>5. ASSUME NEW i \in Nat, DispatchFailed(i)
      PROVE  \E e \in Row : trail' = Append(trail, e)
  BY <1>1, <1>5 DEF DispatchFailed, Having, Write, Entry, Row, None
<1>6. ASSUME NEW i \in Nat, Outcome(i)
      PROVE  \E e \in Row : trail' = Append(trail, e)
  BY <1>1, <1>6 DEF Outcome, Having, Write, Entry, Row, None
<1>7. ASSUME NEW a \in 1 .. flagged, NEW action \in Remedies \cup {"alert_only"},
             Withhold(a, action)
      PROVE  \E e \in Row : trail' = Append(trail, e)
  <2>1. a \in Anomaly
    BY Constants DEF TypeOK
  <2>. QED
    BY <1>7, <2>1 DEF Withhold, Write, Entry, Row, RemedyOutcome, None
<1>. QED
  BY <1>2, <1>3, <1>4, <1>5, <1>6, <1>7

(* The tables as they were, or with more in them.                          *)
Later ==
  /\ flagged' \in flagged .. Cardinality(Anomaly)
  /\ trail' \in Seq(Row) /\ Len(trail') \in Len(trail) .. MaxEntries
  /\ \A i \in 1 .. Len(trail) : trail'[i] = trail[i]

LEMMA ShownLater ==
  ASSUME TypeOK, Later, UNCHANGED shown
  PROVE  ShownType'
<1>1. /\ flagged \in Nat /\ flagged' \in Nat /\ flagged <= flagged'
      /\ 1 .. flagged \subseteq 1 .. flagged'
  BY Constants DEF TypeOK, Later
<1>2. list' \in Seq(1 .. flagged')
  BY <1>1, SeqMono DEF TypeOK, ShownType, shown
<1>3. asOf' \in 0 .. Len(trail')
  BY Clicks DEF TypeOK, ShownType, shown, Later
<1>4. busy' \in 0 .. flagged' /\ wide' \in BOOLEAN
  BY <1>1 DEF TypeOK, ShownType, shown
<1>5. IsInjective(list') /\ Len(list') <= Actionable
  BY DEF TypeOK, ShownType, shown
<1>. QED
  BY <1>2, <1>3, <1>4, <1>5 DEF ShownType

LEMMA FetchedLater ==
  ASSUME TypeOK, Later, NEW f \in FetchRecord, Fetched(f)
  PROVE  Fetched(f)'
BY Constants, Clicks DEF Fetched, Later, TypeOK, FetchRecord

LEMMA GroundedLater ==
  ASSUME TypeOK, Later, NEW click \in ClickRecord, NEW f \in FetchRecord, Grounded(click, f)
  PROVE  Grounded(click, f)'
<1>1. /\ Len(trail) \in Nat /\ Len(trail') \in Nat /\ Len(trail) <= Len(trail')
      /\ 1 .. Len(trail) \subseteq 1 .. Len(trail')
      /\ \A i \in 1 .. Len(trail) : trail'[i] = trail[i]
  BY Clicks DEF Later
<1>2. click.pc = "read" =>
        \E i \in 1 .. Len(trail') :
          trail'[i].anomaly = click.anomaly /\ trail'[i].result = Wanted(click.kind)
  BY <1>1 DEF Grounded
<1>3. click.pc \in {"append", "publish", "refresh"} =>
        /\ click.entry \in 1 .. Len(trail) /\ click.entry \in 1 .. Len(trail')
        /\ trail'[click.entry] = trail[click.entry]
  BY <1>1 DEF Grounded
<1>. QED
  BY <1>2, <1>3 DEF Grounded

LEMMA Unmoved ==
  ASSUME TypeOK, UNCHANGED <<trail, flagged>>
  PROVE  Later
BY Constants, Clicks DEF Later, TypeOK

LEMMA TablesStep ==
  ASSUME TypeOK, PanelInv, Flag \/ Elsewhere \/ DecideNothing
  PROVE  TypeOK' /\ PanelInv'
<1>1. UNCHANGED <<shown, fetch, act>>
  BY DEF Flag, Elsewhere, DecideNothing
<1>2. /\ Later
      /\ Len(trail') + 2 * Cardinality(Reading) + Cardinality(Publishing) <= MaxEntries
  <2>1. CASE Flag
    BY <2>1, Constants, Clicks DEF Flag, Later, TypeOK, PanelInv, RoomKept
  <2>2. CASE Elsewhere \/ DecideNothing
    <3>1. PICK e \in Row : trail' = Append(trail, e)
      BY <2>2, RowWritten, Clicks DEF Elsewhere, DecideNothing
    <3>2. Len(trail) + 1 + 2 * Cardinality(Reading) + Cardinality(Publishing) <= MaxEntries
      BY <2>2, Constants, Clicks DEF Elsewhere, DecideNothing, Room, Spare, Reading, Publishing
    <3>3. UNCHANGED flagged
      BY <2>2 DEF Elsewhere, DecideNothing
    <3>. QED
      BY <3>1, <3>2, <3>3, Appended, Constants, Clicks DEF Later, TypeOK
  <2>. QED
    BY <2>1, <2>2
<1>3. RoomKept'
  BY <1>1, <1>2 DEF RoomKept, Reading, Publishing
<1>4. TypeOK'
  <2>1. flagged' \in 0 .. Cardinality(Anomaly) /\ ShownType' /\ Len(trail') <= MaxEntries
    BY <1>1, <1>2, ShownLater, Constants, Clicks DEF TypeOK, Later
  <2>2. \A c \in Act : act'[c].entry <= Len(trail') /\ Paired(act'[c], fetch'[c])
    <3>1. \A c \in Act : act[c].entry \in Nat /\ act[c].entry <= Len(trail)
      BY Constants DEF TypeOK, ClickRecord
    <3>2. Len(trail) \in Nat /\ Len(trail') \in Nat /\ Len(trail) <= Len(trail')
      BY <1>2, Clicks DEF Later
    <3>. QED
      BY <1>1, <3>1, <3>2 DEF TypeOK, Paired
  <2>. QED
    BY <1>1, <1>2, <2>1, <2>2 DEF TypeOK, Later, Paired
<1>5. ASSUME NEW t \in Timer \cup Act
      PROVE  Fetched(fetch[t])'
  <2>1. PICK f \in FetchRecord : f = fetch[t]
    BY DEF TypeOK
  <2>2. Fetched(f)'
    BY <1>2, <2>1, FetchedLater DEF PanelInv
  <2>. QED
    BY <1>1, <2>1, <2>2 DEF Fetched
<1>6. ASSUME NEW c \in Act
      PROVE  Grounded(act[c], fetch[c])'
  <2>1. PICK f \in FetchRecord : f = fetch[c]
    BY DEF TypeOK
  <2>2. PICK click \in ClickRecord : click = act[c]
    BY DEF TypeOK
  <2>3. Grounded(click, f)'
    BY <1>2, <2>1, <2>2, GroundedLater DEF PanelInv
  <2>. QED
    BY <1>1, <2>1, <2>2, <2>3 DEF Grounded
<1>. QED
  BY <1>3, <1>4, <1>5, <1>6 DEF PanelInv

(* All other steps but an alert are of one refresh, of one click or of     *)
(* both at once: what they owe the invariant.                              *)
LEMMA OneMoves ==
  ASSUME TypeOK, PanelInv, Later, ShownType', RoomKept',
         NEW t \in Timer \cup Act, NEW f \in FetchRecord, NEW click \in ClickRecord,
         fetch' = [fetch EXCEPT ![t] = f],
         act' = [c \in Act |-> IF c = t THEN click ELSE act[c]],
         Fetched(f)',
         t \in Act => /\ Grounded(click, f)' /\ Paired(click, f)
                      /\ click.entry <= Len(trail')
  PROVE  TypeOK' /\ PanelInv'
<1>1. ASSUME NEW u \in Timer \cup Act
      PROVE  Fetched(fetch[u])'
  <2>1. CASE u = t
    BY <2>1 DEF TypeOK, Fetched
  <2>2. CASE u # t
    <3>1. PICK g \in FetchRecord : g = fetch[u]
      BY DEF TypeOK
    <3>2. Fetched(g)'
      BY <3>1, FetchedLater DEF PanelInv
    <3>3. fetch'[u] = g
      BY <2>2, <3>1 DEF TypeOK
    <3>. QED
      BY <3>2, <3>3 DEF Fetched
  <2>. QED
    BY <2>1, <2>2
<1>2. ASSUME NEW c \in Act
      PROVE  Grounded(act[c], fetch[c])'
  <2>1. CASE c = t
    <3>1. act'[c] = click /\ fetch'[c] = f
      BY <2>1 DEF TypeOK
    <3>. QED
      BY <2>1, <3>1 DEF Grounded
  <2>2. CASE c # t
    <3>1. PICK g \in FetchRecord : g = fetch[c]
      BY DEF TypeOK
    <3>2. PICK other \in ClickRecord : other = act[c]
      BY DEF TypeOK
    <3>3. Grounded(other, g)'
      BY <3>1, <3>2, GroundedLater DEF PanelInv
    <3>4. act'[c] = other /\ fetch'[c] = g
      BY <2>2, <3>1, <3>2 DEF TypeOK
    <3>. QED
      BY <3>3, <3>4 DEF Grounded
  <2>. QED
    BY <2>1, <2>2
<1>3. ASSUME NEW c \in Act
      PROVE  act'[c].entry <= Len(trail') /\ Paired(act'[c], fetch'[c])
  <2>1. act[c].entry \in Nat /\ act[c].entry <= Len(trail)
    BY Constants DEF TypeOK, ClickRecord
  <2>2. Len(trail) \in Nat /\ Len(trail') \in Nat /\ Len(trail) <= Len(trail')
    BY Clicks DEF Later
  <2>3. CASE c = t
    <3>1. act'[c] = click /\ fetch'[c] = f
      BY <2>3 DEF TypeOK
    <3>. QED
      BY <2>3, <3>1 DEF Paired
  <2>4. CASE c # t
    <3>1. act'[c] = act[c] /\ fetch'[c] = fetch[c]
      BY <2>4 DEF TypeOK
    <3>. QED
      BY <2>1, <2>2, <3>1 DEF TypeOK, Paired
  <2>. QED
    BY <2>3, <2>4
<1>4. flagged' \in 0 .. Cardinality(Anomaly) /\ Len(trail') <= MaxEntries
  BY Constants, Clicks DEF TypeOK, Later
<1>5. fetch' \in [Timer \cup Act -> FetchRecord] /\ act' \in [Act -> ClickRecord]
  BY DEF TypeOK
<1>6. TypeOK'
  BY <1>3, <1>4, <1>5 DEF TypeOK, Later, Paired
<1>. QED
  BY <1>1, <1>2, <1>6 DEF PanelInv

LEMMA AskIs ==
  ASSUME NEW t, NEW isWide \in BOOLEAN, Ask(t, isWide)
  PROVE  \E f \in FetchRecord :
           /\ f.on /\ f.anomalies = Unread /\ f.actions = Unread
           /\ fetch' = [fetch EXCEPT ![t] = f]
<1>1. PICK none : none = NoFetch
  OBVIOUS
<1>2. none \in FetchRecord /\ none.anomalies = Unread /\ none.actions = Unread
  BY <1>1 DEF NoFetch, FetchRecord
<1>3. PICK f : f = [none EXCEPT !.on = TRUE, !.wide = isWide]
  OBVIOUS
<1>4. f \in FetchRecord /\ f.on /\ f.anomalies = Unread /\ f.actions = Unread
  BY <1>2, <1>3 DEF FetchRecord
<1>5. fetch' = [fetch EXCEPT ![t] = f]
  BY <1>1, <1>3, Zenon DEF Ask
<1>. QED
  BY <1>4, <1>5

(* Asking, and reading one of the tables.                                  *)
LEMMA FetchStep ==
  ASSUME TypeOK, PanelInv, NEW t \in Timer \cup Act,
         (t \in Timer /\ Poll(t)) \/ Toggle(t) \/ ReadAnomalies(t) \/ ReadActions(t)
  PROVE  TypeOK' /\ PanelInv'
<1>1. UNCHANGED <<trail, flagged, list, asOf, busy, act>> /\ wide' \in BOOLEAN
  BY DEF Poll, Toggle, ReadAnomalies, ReadActions, shown, TypeOK, ShownType
<1>2. Later /\ ShownType' /\ RoomKept'
  BY <1>1, Unmoved DEF TypeOK, ShownType, PanelInv, RoomKept, Reading, Publishing
<1>3. PICK old \in FetchRecord : old = fetch[t]
  BY DEF TypeOK
<1>4. PICK click \in ClickRecord : t \in Act => click = act[t]
  <2>1. NoAct \in ClickRecord
    BY Constants DEF NoAct, ClickRecord, Kind, None
  <2>. QED
    BY <2>1 DEF TypeOK
<1>5. act' = [c \in Act |-> IF c = t THEN click ELSE act[c]]
  BY <1>1, <1>4 DEF TypeOK
<1>6. ASSUME NEW f \in FetchRecord, fetch' = [fetch EXCEPT ![t] = f],
             \/ f.on = old.on /\ f.actions \in {old.actions, Len(trail)}
             \/ t \in Act => click.pc = "idle",
             Fetched(f)'
      PROVE  TypeOK' /\ PanelInv'
  <2>1. ASSUME t \in Act
        PROVE  Grounded(click, f)' /\ Paired(click, f) /\ click.entry <= Len(trail')
    <3>1. Grounded(click, old) /\ Paired(click, old) /\ click.entry <= Len(trail)
      BY <1>3, <1>4, <2>1 DEF TypeOK, PanelInv, Grounded, Paired
    <3>2. CASE f.on = old.on /\ f.actions \in {old.actions, Len(trail)}
      BY <1>1, <3>1, <3>2 DEF Grounded, Paired
    <3>3. CASE click.pc = "idle"
      BY <1>1, <3>1, <3>3 DEF Grounded, Paired
    <3>. QED
      BY <1>6, <2>1, <3>2, <3>3
  <2>. QED
    BY <1>2, <1>5, <1>6, <2>1, OneMoves
<1>7. CASE (t \in Timer /\ Poll(t)) \/ Toggle(t)
  <2>1. PICK isWide \in BOOLEAN : Ask(t, isWide)
    BY <1>7 DEF Poll, Toggle, TypeOK, ShownType
  <2>2. PICK f \in FetchRecord : /\ f.on /\ f.anomalies = Unread /\ f.actions = Unread
                                 /\ fetch' = [fetch EXCEPT ![t] = f]
    BY <2>1, AskIs
  <2>3. Fetched(f)'
    BY <2>2 DEF Fetched
  <2>4. t \in Act => click.pc = "idle"
    BY <1>4, <1>7, IncidentsAssumption DEF Toggle, Free
  <2>. QED
    BY <1>6, <2>2, <2>3, <2>4
<1>8. CASE ReadAnomalies(t)
  <2>1. PICK f : f = [old EXCEPT !.anomalies = flagged]
    OBVIOUS
  <2>2. /\ f \in FetchRecord /\ f.on = old.on /\ f.actions = old.actions /\ f.anomalies = flagged
        /\ fetch' = [fetch EXCEPT ![t] = f] /\ old.on
    BY <1>3, <1>8, <2>1 DEF FetchRecord, ReadAnomalies, TypeOK
  <2>3. Fetched(f)'
    BY <1>1, <1>3, <2>2, Constants DEF Fetched, PanelInv, TypeOK
  <2>. QED
    BY <1>6, <2>2, <2>3
<1>9. CASE ReadActions(t)
  <2>1. PICK f : f = [old EXCEPT !.actions = Len(trail)]
    OBVIOUS
  <2>2. /\ f \in FetchRecord /\ f.on = old.on /\ f.actions = Len(trail)
        /\ f.anomalies = old.anomalies
        /\ fetch' = [fetch EXCEPT ![t] = f] /\ old.on
    <3>1. Len(trail) \in 0 .. MaxEntries
      BY Constants, Clicks DEF TypeOK
    <3>. QED
      BY <1>3, <1>9, <2>1, <3>1 DEF FetchRecord, ReadActions, TypeOK
  <2>3. Fetched(f)'
    BY <1>1, <1>3, <2>2, Constants, Clicks DEF Fetched, PanelInv, TypeOK
  <2>. QED
    BY <1>6, <2>2, <2>3
<1>. QED
  BY <1>7, <1>8, <1>9

(* What list_anomalies answers: no anomaly twice, and no more than the     *)
(* wide view's window.                                                     *)
LEMMA NewestType ==
  ASSUME NEW count \in Nat, NEW isWide \in BOOLEAN
  PROVE  /\ NewestAnomalies(count, isWide) \in Seq(1 .. count)
         /\ Len(NewestAnomalies(count, isWide)) <= Actionable
         /\ IsInjective(NewestAnomalies(count, isWide))
<1>1. PICK limit \in Nat : limit = (IF isWide THEN Actionable ELSE Recent)
  BY Constants
<1>2. PICK n \in Nat : n = (IF count < limit THEN count ELSE limit)
  OBVIOUS
<1>3. n <= count /\ n <= Actionable
  BY <1>1, <1>2, Constants
<1>4. NewestAnomalies(count, isWide) = [i \in 1 .. n |-> count + 1 - i]
  BY <1>1, <1>2 DEF NewestAnomalies
<1>5. [i \in 1 .. n |-> count + 1 - i] \in [1 .. n -> 1 .. count]
  BY <1>3
<1>6. /\ [i \in 1 .. n |-> count + 1 - i] \in Seq(1 .. count)
      /\ Len([i \in 1 .. n |-> count + 1 - i]) = n
  BY <1>5, SeqDef, LenProperties
<1>7. IsInjective([i \in 1 .. n |-> count + 1 - i])
  BY DEF IsInjective
<1>. QED
  BY <1>3, <1>4, <1>6, <1>7

(* The end of a refresh, and with it of the click that awaited it.         *)
LEMMA EndStep ==
  ASSUME TypeOK, PanelInv, NEW t \in Timer \cup Act, Show(t) \/ RefreshFails(t)
  PROVE  TypeOK' /\ PanelInv'
<1>1. UNCHANGED <<trail, flagged, wide>> /\ EndOf(t) /\ Later
  BY Unmoved DEF Show, RefreshFails
<1>2. fetch[t].on
  BY DEF Show, RefreshFails, PanelInv, Fetched
<1>3. busy' \in 0 .. flagged
  BY <1>1 DEF EndOf, TypeOK, ShownType, None
<1>4. ShownType'
  <2>1. CASE Show(t)
    <3>1. PICK f \in FetchRecord : f = fetch[t]
      BY DEF TypeOK
    <3>2. f.anomalies \in Nat /\ f.anomalies <= flagged /\ f.actions \in 0 .. Len(trail)
      BY <2>1, <3>1, Constants, Clicks DEF Show, PanelInv, Fetched, FetchRecord, TypeOK
    <3>3. PICK new : new = NewestAnomalies(f.anomalies, f.wide)
      OBVIOUS
    <3>4. new \in Seq(1 .. f.anomalies) /\ Len(new) <= Actionable /\ IsInjective(new)
      BY <3>2, <3>3, NewestType DEF FetchRecord
    <3>5. new \in Seq(1 .. flagged)
      BY <3>2, <3>4, SeqMono, Constants DEF TypeOK
    <3>6. list' = new /\ asOf' = f.actions
      BY <2>1, <3>1, <3>3 DEF Show
    <3>. QED
      BY <1>1, <1>3, <3>2, <3>4, <3>5, <3>6 DEF ShownType, TypeOK
  <2>2. CASE RefreshFails(t)
    BY <1>1, <1>3, <2>2 DEF RefreshFails, TypeOK, ShownType
  <2>. QED
    BY <2>1, <2>2
<1>5. NoFetch \in FetchRecord /\ NoAct \in ClickRecord
  BY Constants DEF NoFetch, FetchRecord, NoAct, ClickRecord, Kind, None
<1>6. PICK click \in ClickRecord : click = (IF Awaited(t) THEN NoAct ELSE IF t \in Act THEN act[t]
                                                                           ELSE NoAct)
  BY <1>5 DEF TypeOK
<1>7. /\ fetch' = [fetch EXCEPT ![t] = NoFetch]
      /\ act' = [c \in Act |-> IF c = t THEN click ELSE act[c]]
  BY <1>1, <1>6 DEF EndOf, Awaited, TypeOK
<1>8. NoAct.pc = "idle" /\ NoAct.entry = 0 /\ NoFetch.on = FALSE
  BY DEF NoAct, NoFetch, None
<1>9. click.pc = "idle" /\ click.entry <= Len(trail)
  <2>1. CASE Awaited(t) \/ t \notin Act
    BY <1>6, <1>8, <2>1, Clicks DEF Awaited
  <2>2. CASE ~Awaited(t) /\ t \in Act
    BY <1>2, <1>6, <2>2 DEF TypeOK, Paired, Awaited
  <2>. QED
    BY <2>1, <2>2
<1>10. RoomKept'
  <2>1. \A c \in Act : act'[c].pc \in {"read", "append", "publish"} \/
                       act[c].pc \in {"read", "append", "publish"} => act'[c] = act[c]
    <3>1. \A c \in Act : c # t => act'[c] = act[c]
      BY <1>7
    <3>2. t \in Act => act[t].pc \in {"idle", "refresh"} /\ act'[t] = click
      BY <1>2, <1>7 DEF TypeOK, Paired
    <3>. QED
      BY <1>9, <3>1, <3>2
  <2>2. Reading' = Reading /\ Publishing' = Publishing
    BY <2>1 DEF Reading, Publishing
  <2>. QED
    BY <1>1, <2>2 DEF PanelInv, RoomKept
<1>11. Fetched(NoFetch)'
  BY DEF Fetched, NoFetch
<1>12. Grounded(click, NoFetch)' /\ Paired(click, NoFetch) /\ click.entry <= Len(trail')
  <2>1. Grounded(click, NoFetch)'
    BY <1>9 DEF Grounded
  <2>. QED
    BY <1>1, <1>8, <1>9, <2>1 DEF Paired
<1>. QED
  BY <1>1, <1>4, <1>5, <1>7, <1>10, <1>11, <1>12, OneMoves

LEMMA AlertStep ==
  ASSUME TypeOK, PanelInv, NEW a \in Anomaly, OnAlert(a)
  PROVE  TypeOK' /\ PanelInv'
<1>1. UNCHANGED <<trail, flagged, asOf, wide, busy, fetch, act>> /\ list' = Prepend(a)
      /\ a \in 1 .. flagged /\ flagged \in Nat
  BY Constants DEF OnAlert, TypeOK
<1>2. PICK s \in Seq(1 .. flagged) : s = list
  BY DEF TypeOK, ShownType
<1>3. Len(s) \in Nat /\ Len(s) <= Actionable /\ IsInjective(s) /\ DOMAIN s = 1 .. Len(s)
  BY <1>2, LenProperties DEF TypeOK, ShownType
<1>4. list' \in Seq(1 .. flagged) /\ Len(list') <= Actionable /\ IsInjective(list')
  <2>1. CASE a \in Range(s)
    BY <1>1, <1>2, <1>3, <2>1 DEF Prepend
  <2>2. CASE a \notin Range(s)
    <3>1. \A i \in 1 .. Len(s) : s[i] # a
      BY <1>3, <2>2 DEF Range
    <3>2. PICK m \in 1 .. Actionable : m = IF Len(s) < Actionable THEN Len(s) + 1 ELSE Actionable
      BY <1>3, Constants
    <3>3. list' = SubSeq(<<a>> \o s, 1, m)
      BY <1>1, <1>2, <2>2, <3>2 DEF Prepend
    <3>4. flagged \in Nat /\ Actionable \in Nat \ {0} /\ a \in 1 .. flagged
      BY <1>1, Constants
    <3>5. /\ SubSeq(<<a>> \o s, 1, m) \in Seq(1 .. flagged)
          /\ Len(SubSeq(<<a>> \o s, 1, m)) <= Actionable
          /\ IsInjective(SubSeq(<<a>> \o s, 1, m))
      BY <1>3, <3>1, <3>2, <3>4, Prepended
    <3>. QED
      BY <3>3, <3>5
  <2>. QED
    BY <2>1, <2>2
<1>5. TypeOK'
  BY <1>1, <1>4 DEF TypeOK, ShownType, Paired
<1>6. PanelInv'
  BY <1>1 DEF PanelInv, RoomKept, Reading, Publishing, Fetched, Grounded
<1>. QED
  BY <1>5, <1>6

(* A button shown, however stale, is about an entry of the trail.          *)
LEMMA OfferGrounded ==
  ASSUME TypeOK, NEW kind \in Kind, NEW a, Offered(kind, a)
  PROVE  /\ a \in 1 .. flagged
         /\ \E i \in 1 .. Len(trail) :
              trail[i].anomaly = a /\ trail[i].result = Wanted(kind)
<1>1. asOf \in Nat /\ asOf <= Len(trail) /\ Len(trail) \in Nat
  BY Clicks DEF TypeOK, ShownType
<1>2. PICK window \in SUBSET (1 .. asOf) : window = NewestActions(asOf)
  BY DEF NewestActions
<1>3. PICK other : LatestOf(window, a, Wanted(kind)) > LatestOf(window, a, other)
  BY <1>2 DEF Offered, CallsFor, Wanted, Kind
<1>4. /\ LatestOf(window, a, Wanted(kind)) \in 0 .. asOf
      /\ LatestOf(window, a, other) \in 0 .. asOf
      /\ LatestOf(window, a, Wanted(kind)) # 0 =>
           /\ LatestOf(window, a, Wanted(kind)) \in window
           /\ trail[LatestOf(window, a, Wanted(kind))].anomaly = a
           /\ trail[LatestOf(window, a, Wanted(kind))].result = Wanted(kind)
  BY <1>1, <1>2, LatestIs
<1>5. PICK l \in 1 .. asOf : l = LatestOf(window, a, Wanted(kind))
  BY <1>1, <1>3, <1>4
<1>6. a \in 1 .. flagged
  BY LenProperties, ElementOfSeq DEF Offered, Range, TypeOK, ShownType
<1>. QED
  BY <1>1, <1>4, <1>5, <1>6

(* api-bff finds the row it looks for.                                     *)
LEMMA TargetFound ==
  ASSUME TypeOK, PanelInv, NEW c \in Act, act[c].pc = "read"
  PROVE  /\ Target(c) \in 1 .. Len(trail)
         /\ trail[Target(c)].anomaly = act[c].anomaly
         /\ trail[Target(c)].result = Wanted(act[c].kind)
<1>1. Target(c) = LatestOf(1 .. Len(trail), act[c].anomaly, Wanted(act[c].kind))
  BY Clicks DEF Target, Wanted
<1>2. PICK i \in 1 .. Len(trail) :
        trail[i].anomaly = act[c].anomaly /\ trail[i].result = Wanted(act[c].kind)
  BY DEF PanelInv, Grounded
<1>3. Len(trail) \in Nat /\ 1 .. Len(trail) \in SUBSET (1 .. Len(trail))
  BY Clicks
<1>4. IsLatest(Target(c), Len(trail), 1 .. Len(trail), act[c].anomaly, Wanted(act[c].kind))
  BY <1>1, <1>3, LatestAs
<1>. QED
  BY <1>2, <1>3, <1>4 DEF IsLatest

LEMMA ClickStep ==
  ASSUME TypeOK, PanelInv, NEW c \in Act, NEW kind \in Kind, NEW a \in Anomaly,
         Click(c, kind, a)
  PROVE  TypeOK' /\ PanelInv'
<1>1. /\ UNCHANGED <<trail, flagged, list, asOf, wide, fetch>> /\ Later
      /\ act[c].pc = "idle" /\ ~fetch[c].on /\ Offered(kind, a) /\ Room(2 + Spare) /\ busy' = a
  BY Unmoved DEF Click, Free
<1>2. /\ a \in 1 .. flagged
      /\ \E i \in 1 .. Len(trail) : trail[i].anomaly = a /\ trail[i].result = Wanted(kind)
  BY <1>1, OfferGrounded
<1>3. PICK click : click = [pc |-> "read", kind |-> kind, anomaly |-> a, entry |-> None,
                            wide |-> wide]
  OBVIOUS
<1>4. /\ click.pc = "read" /\ click.kind = kind /\ click.anomaly = a /\ click.entry = 0
      /\ click \in ClickRecord
  BY <1>2, <1>3, Constants DEF ClickRecord, None, TypeOK, ShownType
<1>5. PICK f \in FetchRecord : f = fetch[c]
  BY DEF TypeOK
<1>6. /\ fetch' = [fetch EXCEPT ![c] = f]
      /\ act' = [d \in Act |-> IF d = c THEN click ELSE act[d]]
  BY <1>1, <1>3, <1>5 DEF Click, TypeOK
<1>7. ShownType'
  BY <1>1, <1>2, Constants DEF ShownType, TypeOK
<1>8. RoomKept'
  <2>1. /\ Reading' = Reading \cup {c} /\ Publishing' = Publishing /\ c \notin Reading
    BY <1>1, <1>4, <1>6 DEF Reading, Publishing
  <2>2. Cardinality(Reading') = Cardinality(Reading) + 1
    BY <2>1, Clicks, FS_AddElement
  <2>3. Len(trail) + 2 + 2 * Cardinality(Reading) + Cardinality(Publishing) <= MaxEntries
    BY <1>1, Clicks, Constants DEF Room, Spare, Reading, Publishing
  <2>. QED
    BY <1>1, <2>1, <2>2, <2>3, Clicks, Constants DEF RoomKept
<1>9. Fetched(f)'
  BY <1>1, <1>5 DEF PanelInv, Fetched
<1>10. Grounded(click, f)' /\ click.entry <= Len(trail')
  BY <1>1, <1>2, <1>4, Clicks DEF Grounded
<1>11. Paired(click, f)
  BY <1>1, <1>4, <1>5 DEF Paired
<1>. QED
  BY <1>1, <1>4, <1>5, <1>6, <1>7, <1>8, <1>9, <1>10, <1>11, OneMoves

(* What Advance leaves of a click.                                         *)
LEMMA Advanced ==
  ASSUME TypeOK, NEW c \in Act, NEW pc, NEW entry, Advance(c, pc, entry),
         pc \in {"append", "publish", "refresh"}, entry \in 0 .. MaxEntries
  PROVE  \E click \in ClickRecord :
           /\ click.pc = pc /\ click.entry = entry /\ click.anomaly = act[c].anomaly
           /\ click.kind = act[c].kind
           /\ act' = [d \in Act |-> IF d = c THEN click ELSE act[d]]
<1>1. PICK old \in ClickRecord : old = act[c]
  BY DEF TypeOK
<1>2. PICK click : click = [old EXCEPT !.pc = pc, !.entry = entry]
  OBVIOUS
<1>3. /\ click \in ClickRecord /\ click.pc = pc /\ click.entry = entry
      /\ click.anomaly = old.anomaly /\ click.kind = old.kind
  BY <1>2 DEF ClickRecord
<1>4. act' = [d \in Act |-> IF d = c THEN click ELSE act[d]]
  BY <1>1, <1>2 DEF Advance, TypeOK
<1>. QED
  BY <1>1, <1>3, <1>4

LEMMA ServingStep ==
  ASSUME TypeOK, PanelInv, NEW c \in Act, Serving(c) \/ PublishFails(c)
  PROVE  TypeOK' /\ PanelInv'
<1>1. PICK f \in FetchRecord : f = fetch[c]
  BY DEF TypeOK
<1>2. /\ Grounded(act[c], f) /\ Fetched(f) /\ Paired(act[c], f)
      /\ act[c].entry \in Nat /\ act[c].entry <= Len(trail)
  BY <1>1 DEF PanelInv, TypeOK, ClickRecord, Paired, Grounded, Fetched
<1>3. Len(trail) \in Nat /\ Len(trail) \in 0 .. MaxEntries
  BY Constants, Clicks DEF TypeOK
<1>4. CASE ReadRow(c)
  <2>1. UNCHANGED <<trail, flagged, shown, fetch>> /\ Later /\ act[c].pc = "read"
    BY <1>4, Unmoved DEF ReadRow
  <2>2. PICK n \in 1 .. Len(trail) : n = Target(c)
    BY <2>1, TargetFound
  <2>3. PICK click \in ClickRecord :
          /\ click.pc = "append" /\ click.entry = n /\ click.anomaly = act[c].anomaly
          /\ act' = [d \in Act |-> IF d = c THEN click ELSE act[d]]
    <3>1. n \in 0 .. MaxEntries
      BY <1>3, <2>2, Constants
    <3>2. Advance(c, "append", n)
      BY <1>4, <2>2, Zenon DEF ReadRow
    <3>. QED
      BY <3>1, <3>2, Advanced
  <2>4. RoomKept'
    <3>1. Reading' = Reading /\ Publishing' = Publishing
      BY <2>1, <2>3 DEF Reading, Publishing
    <3>. QED
      BY <2>1, <3>1 DEF RoomKept, PanelInv
  <2>5. fetch' = [fetch EXCEPT ![c] = f] /\ ShownType' /\ Fetched(f)'
    BY <1>1, <1>2, <2>1 DEF TypeOK, ShownType, shown, Fetched
  <2>6. trail[n].anomaly = act[c].anomaly
    BY <2>1, <2>2, TargetFound
  <2>7. Grounded(click, f)' /\ click.entry <= Len(trail')
    BY <2>1, <2>2, <2>3, <2>6 DEF Grounded
  <2>8. Paired(click, f)
    BY <1>2, <2>1, <2>3 DEF Paired
  <2>. QED
    BY <2>1, <2>3, <2>4, <2>5, <2>7, <2>8, OneMoves
<1>5. CASE AppendDispatch(c)
  <2>1. UNCHANGED <<flagged, shown, fetch>> /\ act[c].pc = "append"
    BY <1>5 DEF AppendDispatch
  <2>2. act[c].entry \in 1 .. Len(trail) /\ trail[act[c].entry].anomaly = act[c].anomaly
    BY <1>2, <2>1 DEF Grounded
  <2>3. PICK e \in Row : /\ trail' = Append(trail, e) /\ e.anomaly = act[c].anomaly
                         /\ e.result = "dispatched"
    <3>1. PICK e \in Row : trail' = Append(trail, e)
      BY <1>2, <1>5, RowWritten DEF AppendDispatch
    <3>2. e = trail'[Len(trail')]
      BY <3>1, Appended
    <3>3. PICK action, ref : e = Entry(trail[act[c].entry].anomaly, act[c].entry, ref, action,
                                       "dispatched")
      <4>1. \E action, ref :
              trail' = Append(trail, Entry(trail[act[c].entry].anomaly, act[c].entry, ref,
                                           action, "dispatched"))
        BY <1>5 DEF AppendDispatch, Approve, AskReversal, Write
      <4>2. PICK action, ref :
              trail' = Append(trail, Entry(trail[act[c].entry].anomaly, act[c].entry, ref,
                                           action, "dispatched"))
        BY <4>1
      <4>3. PICK d : d = Entry(trail[act[c].entry].anomaly, act[c].entry, ref, action,
                               "dispatched")
        OBVIOUS
      <4>4. trail'[Len(trail) + 1] = d
        BY <1>3, <4>2, <4>3 DEF TypeOK
      <4>. QED
        BY <3>1, <3>2, <4>3, <4>4, Appended
    <3>. QED
      BY <2>2, <3>1, <3>3 DEF Entry
  <2>4. /\ trail' \in Seq(Row) /\ Len(trail') = Len(trail) + 1 /\ trail'[Len(trail')] = e
        /\ \A i \in 1 .. Len(trail) : trail'[i] = trail[i]
    BY <2>3, Appended
  <2>5. Reading # {} /\ Cardinality(Reading \ {c}) = Cardinality(Reading) - 1
        /\ Cardinality(Publishing \cup {c}) = Cardinality(Publishing) + 1
    BY <2>1, Clicks, FS_AddElement, FS_RemoveElement DEF Reading, Publishing
  <2>6. Len(trail') + 2 * Cardinality(Reading \ {c}) + Cardinality(Publishing \cup {c})
          <= MaxEntries
    BY <2>4, <2>5, Clicks, Constants DEF PanelInv, RoomKept
  <2>7. Len(trail') \in 0 .. MaxEntries /\ Len(trail') \in Nat
    <3>0. IsFiniteSet(Reading \ {c}) /\ IsFiniteSet(Publishing \cup {c})
      BY Clicks, FS_AddElement, FS_RemoveElement
    <3>1. Cardinality(Reading \ {c}) \in Nat /\ Cardinality(Publishing \cup {c}) \in Nat
      BY <3>0, FS_CardinalityType
    <3>. QED
      BY <1>3, <2>4, <2>6, <3>1, Constants
  <2>8. Later
    BY <1>3, <2>1, <2>4, <2>7, Constants DEF Later, TypeOK
  <2>9. PICK n \in 1 .. Len(trail') : n = Len(trail')
    BY <1>3, <2>4
  <2>10. PICK click \in ClickRecord :
          /\ click.pc = "publish" /\ click.entry = n /\ click.anomaly = act[c].anomaly
          /\ act' = [d \in Act |-> IF d = c THEN click ELSE act[d]]
    BY <1>5, <2>7, <2>9, Advanced DEF AppendDispatch
  <2>11. RoomKept'
    <3>1. Reading' = Reading \ {c} /\ Publishing' = Publishing \cup {c}
      BY <2>1, <2>10 DEF Reading, Publishing
    <3>. QED
      BY <2>6, <3>1 DEF RoomKept
  <2>12. fetch' = [fetch EXCEPT ![c] = f] /\ ShownType' /\ Fetched(f)'
    BY <1>1, <1>2, <2>1, <2>8, ShownLater, FetchedLater DEF TypeOK
  <2>13. Grounded(click, f)' /\ click.entry <= Len(trail')
    BY <2>3, <2>4, <2>7, <2>9, <2>10 DEF Grounded
  <2>14. Paired(click, f)
    BY <1>2, <2>1, <2>10 DEF Paired
  <2>. QED
    BY <2>8, <2>10, <2>11, <2>12, <2>13, <2>14, OneMoves
<1>6. CASE PublishRequest(c)
  <2>1. UNCHANGED <<trail, flagged, shown>> /\ Later /\ act[c].pc = "publish"
    BY <1>6, Unmoved DEF PublishRequest
  <2>2. PICK n \in 1 .. Len(trail) : n = act[c].entry
    BY <1>2, <2>1 DEF Grounded
  <2>3. PICK click \in ClickRecord :
          /\ click.pc = "refresh" /\ click.entry = n /\ click.anomaly = act[c].anomaly
          /\ act' = [d \in Act |-> IF d = c THEN click ELSE act[d]]
    <3>1. n \in 0 .. MaxEntries
      BY <1>3, <2>2, Constants
    <3>2. Advance(c, "refresh", n)
      BY <1>6, <2>2, Zenon DEF PublishRequest
    <3>. QED
      BY <3>1, <3>2, Advanced
  <2>4. PICK g \in FetchRecord : /\ g.on /\ g.anomalies = Unread /\ g.actions = Unread
                                 /\ fetch' = [fetch EXCEPT ![c] = g]
    BY <1>6, AskIs DEF PublishRequest, TypeOK, ClickRecord
  <2>5. RoomKept'
    <3>1. Reading' = Reading /\ Publishing' = Publishing \ {c}
      BY <2>1, <2>3 DEF Reading, Publishing
    <3>2. Cardinality(Publishing') <= Cardinality(Publishing) /\ Cardinality(Publishing') \in Nat
      BY <3>1, Clicks, FS_Subset, FS_CardinalityType
    <3>. QED
      BY <2>1, <3>1, <3>2, Clicks, Constants DEF RoomKept, PanelInv
  <2>6. ShownType' /\ Fetched(g)'
    BY <2>1, <2>4 DEF TypeOK, ShownType, shown, Fetched
  <2>7. Grounded(click, g)' /\ click.entry <= Len(trail')
    <3>1. trail[n].anomaly = act[c].anomaly /\ trail[n].result = "dispatched"
      BY <1>2, <2>1, <2>2 DEF Grounded
    <3>2. g.actions >= n
      BY <1>3, <2>4, Constants
    <3>. QED
      BY <2>1, <2>3, <3>1, <3>2 DEF Grounded
  <2>8. Paired(click, g)
    BY <2>3, <2>4 DEF Paired
  <2>. QED
    BY <2>1, <2>3, <2>4, <2>5, <2>6, <2>7, <2>8, OneMoves
<1>7. CASE PublishFails(c)
  <2>1. /\ UNCHANGED <<flagged, list, asOf, wide, fetch>> /\ act[c].pc = "publish"
        /\ busy' = None /\ DispatchFailed(act[c].entry)
    BY <1>7 DEF PublishFails
  <2>2. PICK e \in Row : trail' = Append(trail, e)
    BY <1>2, <2>1, RowWritten
  <2>3. /\ trail' \in Seq(Row) /\ Len(trail') = Len(trail) + 1
        /\ \A i \in 1 .. Len(trail) : trail'[i] = trail[i]
    BY <2>2, Appended
  <2>4. Cardinality(Publishing \ {c}) = Cardinality(Publishing) - 1
    BY <2>1, Clicks, FS_RemoveElement DEF Publishing
  <2>5. /\ Len(trail') + 2 * Cardinality(Reading) + Cardinality(Publishing \ {c}) <= MaxEntries
        /\ Len(trail') \in Nat /\ Len(trail') <= MaxEntries
    <3>1. Cardinality(Publishing \ {c}) \in Nat
      BY Clicks, FS_RemoveElement, FS_CardinalityType
    <3>2. /\ Len(trail) \in Nat /\ Cardinality(Reading) \in Nat /\ Cardinality(Publishing) \in Nat
          /\ MaxEntries \in Nat
      BY Clicks, Constants
    <3>3. Len(trail) + 2 * Cardinality(Reading) + Cardinality(Publishing) <= MaxEntries
      BY DEF PanelInv, RoomKept
    <3>. QED
      BY <2>3, <2>4, <3>1, <3>2, <3>3
  <2>6. Later
    BY <1>3, <2>1, <2>3, <2>5, Constants DEF Later, TypeOK
  <2>7. ShownType'
    BY <1>3, <2>1, <2>3, Constants DEF TypeOK, ShownType, None
  <2>8. act' = [d \in Act |-> IF d = c THEN NoAct ELSE act[d]]
    BY <1>7 DEF PublishFails, TypeOK
  <2>9. NoAct \in ClickRecord /\ NoAct.pc = "idle" /\ NoAct.entry = 0
    BY Constants DEF NoAct, ClickRecord, Kind, None
  <2>10. RoomKept'
    <3>1. Reading' = Reading /\ Publishing' = Publishing \ {c}
      BY <2>1, <2>8, <2>9 DEF Reading, Publishing
    <3>. QED
      BY <2>5, <3>1 DEF RoomKept
  <2>11. fetch' = [fetch EXCEPT ![c] = f] /\ Fetched(f)'
    BY <1>1, <1>2, <2>1, <2>6, FetchedLater DEF TypeOK
  <2>12. Grounded(NoAct, f)' /\ NoAct.entry <= Len(trail')
    BY <2>5, <2>9 DEF Grounded
  <2>13. Paired(NoAct, f)
    BY <1>2, <2>1, <2>9 DEF Paired
  <2>. QED
    BY <2>6, <2>7, <2>8, <2>9, <2>10, <2>11, <2>12, <2>13, OneMoves
<1>. QED
  BY <1>4, <1>5, <1>6, <1>7 DEF Serving

LEMMA Step ==
  ASSUME TypeOK, PanelInv, [Next]_vars
  PROVE  TypeOK' /\ PanelInv'
<1>1. CASE UNCHANGED vars
  BY <1>1 DEF vars, shown, TypeOK, ShownType, PanelInv, RoomKept, Reading, Publishing,
              Fetched, Grounded, Paired
<1>2. CASE \E c \in Act : \/ \E kind \in Kind, a \in Anomaly : Click(c, kind, a)
                          \/ Serving(c) \/ PublishFails(c)
  BY <1>2, ClickStep, ServingStep
<1>3. CASE \E t \in Timer \cup Act : Toggle(t) \/ Fetching(t) \/ RefreshFails(t)
  BY <1>3, FetchStep, EndStep DEF Fetching
<1>4. CASE \E t \in Timer : Poll(t)
  BY <1>4, FetchStep
<1>. QED
  BY <1>1, <1>2, <1>3, <1>4, TablesStep, AlertStep DEF Next, Kind

LEMMA Start ==
  ASSUME Init
  PROVE  TypeOK /\ PanelInv
<1>1. NoFetch \in FetchRecord /\ NoAct \in ClickRecord
  BY Constants DEF NoFetch, FetchRecord, NoAct, ClickRecord, Kind, None
<1>2. NoAct.pc = "idle" /\ NoAct.entry = 0 /\ NoFetch.on = FALSE /\ NoFetch.anomalies = Unread
      /\ NoFetch.actions = Unread
  BY DEF NoAct, NoFetch, None
<1>3. \A c \in Act : act[c] = NoAct /\ fetch[c] = NoFetch
  BY DEF Init
<1>4. \A c \in Act : act[c].entry <= Len(trail) /\ Paired(act[c], fetch[c])
  <2>1. Len(trail) = 0
    BY DEF Init, TrailInit
  <2>2. Paired(NoAct, NoFetch)
    BY <1>2 DEF Paired
  <2>. QED
    BY <1>2, <1>3, <2>1, <2>2
<1>5. TypeOK
  <2>1. list = << >> /\ list \in Seq(1 .. flagged) /\ Len(list) = 0
    BY DEF Init
  <2>2. IsInjective(list)
    BY <2>1 DEF IsInjective
  <2>3. trail = << >> /\ trail \in Seq(Row) /\ Len(trail) = 0
    BY DEF Init, TrailInit
  <2>4. ShownType
    <3>1. asOf = 0 /\ busy = 0 /\ flagged = 0 /\ wide \in BOOLEAN
      BY DEF Init, None
    <3>. QED
      BY <2>1, <2>2, <2>3, <3>1, Constants DEF ShownType
  <2>. QED
    BY <1>1, <1>4, <2>3, <2>4, Constants DEF Init, TypeOK
<1>6. Reading = {} /\ Publishing = {}
  BY <1>2, <1>3 DEF Reading, Publishing
<1>7. RoomKept
  <2>1. Cardinality({}) = 0
    BY FS_EmptySet
  <2>. QED
    BY <1>6, <2>1, Constants DEF Init, TrailInit, RoomKept
<1>8. PanelInv
  BY <1>2, <1>3, <1>7 DEF Init, PanelInv, Fetched, Grounded
<1>. QED
  BY <1>5, <1>8

(* The panel's state is what it should be, whatever overtakes what: no     *)
(* anomaly is listed twice or more often than the window allows, and what  *)
(* a refresh or a click still has to do has the ledger it is about.        *)
THEOREM TypeCorrect == FairSpec => [](TypeOK /\ PanelInv)
<1>1. Init => TypeOK /\ PanelInv
  BY Start
<1>2. TypeOK /\ PanelInv /\ [Next]_vars => TypeOK' /\ PanelInv'
  BY Step
<1>. QED
  BY <1>1, <1>2, PTL DEF FairSpec

----------------------------------------------------------------------------
(* What the panel offers                                                   *)

(* A suffix of the ledger that calls for a button shows its latest row.    *)
LEMMA SuffixCallsFor ==
  ASSUME NEW n \in Nat, NEW kind \in Kind, NEW a, CallsFor(NewestActions(n), kind, a)
  PROVE  CallsFor(1 .. n, kind, a)
<1>1. PICK window \in SUBSET (1 .. n) : window = NewestActions(n)
  BY DEF NewestActions
<1>2. \A i \in 1 .. n, j \in window : i \notin window => i < j
  BY <1>1, Constants DEF NewestActions
<1>3. PICK yes, no : \A entries : CallsFor(entries, kind, a) <=>
                       LatestOf(entries, a, yes) > LatestOf(entries, a, no)
  <2>1. CASE kind = "approve"
    BY <2>1 DEF CallsFor
  <2>2. CASE kind = "rollback"
    BY <2>2 DEF CallsFor
  <2>. QED
    BY <2>1, <2>2 DEF Kind
<1>4. 1 .. n \in SUBSET (1 .. n)
  OBVIOUS
<1>5. PICK wy, wn, ly, ln :
        /\ wy = LatestOf(window, a, yes) /\ wn = LatestOf(window, a, no)
        /\ ly = LatestOf(1 .. n, a, yes) /\ ln = LatestOf(1 .. n, a, no)
  OBVIOUS
<1>6. /\ wy \in 0 .. n /\ (wy # 0 => wy \in window /\ trail[wy].anomaly = a /\ trail[wy].result = yes)
      /\ wn \in 0 .. n
      /\ \A i \in window : trail[i].anomaly = a /\ trail[i].result = no => i <= wn
  BY <1>5, LatestIs
<1>7. /\ ly \in 0 .. n
      /\ \A i \in 1 .. n : trail[i].anomaly = a /\ trail[i].result = yes => i <= ly
      /\ ln \in 0 .. n
      /\ ln # 0 => ln \in 1 .. n /\ trail[ln].anomaly = a /\ trail[ln].result = no
  BY <1>4, <1>5, LatestIs
<1>8. wy > wn
  BY <1>1, <1>3, <1>5
<1>9. wy \in window /\ wy <= ly
  BY <1>6, <1>7, <1>8
<1>10. ln < wy
  BY <1>2, <1>6, <1>7, <1>8, <1>9
<1>. QED
  BY <1>3, <1>5, <1>6, <1>7, <1>9, <1>10

(* A window of the ledger never offers a button that the whole of it, as   *)
(* it was when the window was read, does not call for.                     *)
THEOREM WindowHolds == FairSpec => []WindowNeverOffersMore
<1>1. TypeOK => WindowNeverOffersMore
  BY SuffixCallsFor, Clicks DEF WindowNeverOffersMore, Offered, TypeOK, ShownType
<1>. QED
  BY <1>1, TypeCorrect, PTL

(* A click is never answered with the 404 that nothing awaits it: what the *)
(* button was about is still in the ledger.                                *)
THEOREM NeverRefused == FairSpec => []OfferNeverRefused
<1>1. TypeOK /\ PanelInv => OfferNeverRefused
  BY TargetFound DEF OfferNeverRefused
<1>. QED
  BY <1>1, TypeCorrect, PTL

LEMMA OnlyRefreshEnds ==
  ASSUME TypeOK, [Next]_vars, NEW c \in Act, act[c].pc = "refresh", act'[c].pc = "idle"
  PROVE  UNCHANGED trail
<1>1. CASE UNCHANGED act
  BY <1>1
<1>2. CASE \E t \in Timer \cup Act : Show(t) \/ RefreshFails(t)
  BY <1>2 DEF Show, RefreshFails
<1>3. CASE \E d \in Act : act[d].pc # "refresh" /\ act' = [act EXCEPT ![d] = act'[d]]
  BY <1>3 DEF TypeOK
<1>4. ASSUME NEW d \in Act, NEW kind \in {"approve", "rollback"}, NEW a \in Anomaly,
             Click(d, kind, a)
      PROVE  UNCHANGED trail
  BY <1>4 DEF Click
<1>5. ASSUME NEW d \in Act, Serving(d) \/ PublishFails(d)
      PROVE  UNCHANGED trail
  <2>1. act[d].pc # "refresh"
    BY <1>5 DEF Serving, ReadRow, AppendDispatch, PublishRequest, PublishFails
  <2>2. act' = [act EXCEPT ![d] = act'[d]]
    BY <1>5 DEF Serving, ReadRow, AppendDispatch, PublishRequest, PublishFails, Advance, TypeOK
  <2>. QED
    BY <1>3, <2>1, <2>2
<1>6. CASE \/ Flag \/ Elsewhere \/ DecideNothing \/ \E a \in Anomaly : OnAlert(a)
           \/ \E t \in Timer : Poll(t)
           \/ \E t \in Timer \cup Act : Toggle(t) \/ ReadAnomalies(t) \/ ReadActions(t)
  BY <1>1, <1>6 DEF Flag, Elsewhere, DecideNothing, OnAlert, Poll, Toggle, ReadAnomalies, ReadActions
<1>. QED
  BY <1>1, <1>2, <1>4, <1>5, <1>6 DEF Next, Fetching, vars

(* A window read after dispatch e offers approval only of a later row.     *)
LEMMA NothingOlder ==
  ASSUME NEW m \in Nat, NEW n \in 0 .. m, NEW e \in 1 .. n, NEW a,
         trail[e].anomaly = a /\ trail[e].result = "dispatched",
         CallsFor(NewestActions(n), "approve", a)
  PROVE  LatestOf(1 .. m, a, "pending_approval") > e
<1>1. PICK window \in SUBSET (1 .. n) : window = NewestActions(n)
  BY DEF NewestActions
<1>2. PICK yes, no, l : /\ yes = LatestOf(window, a, "pending_approval")
                        /\ no = LatestOf(window, a, "dispatched")
                        /\ l = LatestOf(1 .. m, a, "pending_approval")
  OBVIOUS
<1>3. yes > no
  BY <1>1, <1>2 DEF CallsFor
<1>4. n \in Nat /\ 1 .. m \in SUBSET (1 .. m)
  OBVIOUS
<1>5. /\ yes \in 0 .. n
      /\ yes # 0 =>
           yes \in window /\ trail[yes].anomaly = a /\ trail[yes].result = "pending_approval"
  <2>1. IsLatest(yes, n, window, a, "pending_approval")
    BY <1>2, <1>4, LatestAs
  <2>. QED
    BY <2>1 DEF IsLatest
<1>6. /\ no \in 0 .. n
      /\ \A i \in window : trail[i].anomaly = a /\ trail[i].result = "dispatched" => i <= no
  <2>1. IsLatest(no, n, window, a, "dispatched")
    BY <1>2, <1>4, LatestAs
  <2>. QED
    BY <2>1 DEF IsLatest
<1>7. /\ l \in 0 .. m
      /\ \A i \in 1 .. m :
           trail[i].anomaly = a /\ trail[i].result = "pending_approval" => i <= l
  <2>1. IsLatest(l, m, 1 .. m, a, "pending_approval")
    BY <1>2, <1>4, LatestAs
  <2>. QED
    BY <2>1 DEF IsLatest
<1>8. yes \in window /\ yes <= l
  BY <1>3, <1>5, <1>6, <1>7
<1>9. yes > e
  <2>1. CASE e \in window
    BY <1>2, <1>3, <1>5, <1>6, <1>8, <2>1
  <2>2. CASE e \notin window
    BY <1>1, <1>8, <2>2, Constants DEF NewestActions
  <2>. QED
    BY <2>1, <2>2
<1>. QED
  BY <1>2, <1>5, <1>7, <1>8, <1>9

LEMMA WithdrawnStep ==
  ASSUME TypeOK, PanelInv, TypeOK', [Next]_vars, NEW c \in Act, NEW a \in Anomaly,
         act[c].pc = "refresh", act[c].anomaly = a,
         act'[c].pc = "idle", asOf' = fetch[c].actions, Offered("approve", a)'
  PROVE  LatestOf(DOMAIN trail, a, "pending_approval") > act[c].entry
<1>1. PICK e \in 1 .. Len(trail) : e = act[c].entry
  BY DEF PanelInv, Grounded
<1>2. trail[e].anomaly = a /\ trail[e].result = "dispatched" /\ fetch[c].actions >= e
  BY <1>1 DEF PanelInv, Grounded
<1>3. trail' = trail
  BY OnlyRefreshEnds
<1>4. PICK m \in Nat : m = Len(trail) /\ DOMAIN trail = 1 .. m
  BY Clicks
<1>5. PICK n \in 0 .. m : n = asOf' /\ e \in 1 .. n
  BY <1>2, <1>3, <1>4 DEF TypeOK, ShownType
<1>6. CallsFor(NewestActions(n), "approve", a)
  BY <1>3, <1>5 DEF Offered, CallsFor, LatestOf, NewestActions
<1>7. LatestOf(1 .. m, a, "pending_approval") > e
  BY <1>2, <1>5, <1>6, NothingOlder
<1>. QED
  BY <1>1, <1>4, <1>7

(* The refresh an approval awaited never offers the same decision again:   *)
(* it shows the dispatch, or another row that waits after it.              *)
THEOREM WithdrawnHolds == FairSpec => WithdrawnOnceApproved
<1>1. TypeOK /\ PanelInv /\ [Next]_vars => TypeOK'
  BY Step
<1>2. ASSUME TypeOK, PanelInv, TypeOK', [Next]_vars
      PROVE  [\A c \in Act, a \in Anomaly :
                (/\ act[c].pc = "refresh" /\ act[c].kind = "approve" /\ act[c].anomaly = a
                 /\ act'[c].pc = "idle" /\ asOf' = fetch[c].actions)
                => \/ ~Offered("approve", a)'
                   \/ LatestOf(DOMAIN trail, a, "pending_approval") > act[c].entry]_vars
  BY <1>2, WithdrawnStep
<1>. QED
  BY <1>1, <1>2, TypeCorrect, PTL DEF FairSpec, WithdrawnOnceApproved
=============================================================================
