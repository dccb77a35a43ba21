-------------------------- MODULE BrowserTrips_proofs --------------------------
(***************************************************************************)
(* Machine-checked proofs about BrowserTrips, for any number of tabs, edits *)
(* and replans and any length of the kept history.  The invariant ties a    *)
(* version number to the one trip that may carry it; from that the version  *)
(* check of commitEdit is enough to lose no edit.                           *)
(***************************************************************************)
EXTENDS BrowserTrips, SequenceTheorems, TLAPS

-----------------------------------------------------------------------------
(* The version record.                                                     *)

\* A chain extended by the next revision is a chain.
LEMMA ChainAppend ==
  ASSUME NEW h \in Seq(Revisions), NEW v \in Nat, Chain(h, v)
  PROVE  LET g == Append(h, [base |-> v, next |-> v + 1]) IN
         g \in Seq(Revisions) /\ Len(g) = Len(h) + 1 /\ Chain(g, v + 1)
<1> DEFINE rev == [base |-> v, next |-> v + 1]
           g == Append(h, rev)
<1>1. rev \in Revisions
  BY DEF Revisions
<1>2. /\ g \in Seq(Revisions)
      /\ Len(g) = Len(h) + 1
      /\ \A i \in 1..Len(h) : g[i] = h[i]
      /\ g[Len(h) + 1] = rev
  BY <1>1, AppendProperties
<1>3. Len(h) \in Nat
  OBVIOUS
<1> HIDE DEF g
<1>4. \A i \in 1..Len(g) : g[i].next = g[i].base + 1
  BY <1>2, <1>3 DEF Chain
<1>5. \A i \in 1..(Len(g) - 1) : g[i].next = g[i + 1].base
  <2> TAKE i \in 1..(Len(g) - 1)
  <2>1. CASE i < Len(h)
    BY <2>1, <1>2, <1>3 DEF Chain
  <2>2. CASE i = Len(h)
    BY <2>2, <1>2, <1>3 DEF Chain
  <2> QED
    BY <2>1, <2>2, <1>2, <1>3
<1>6. g[Len(g)].next = v + 1
  BY <1>2, <1>3
<1> QED
  BY <1>2, <1>4, <1>5, <1>6 DEF g, Chain

\* Cutting a chain to its newest revisions leaves a chain.
LEMMA ChainNewest ==
  ASSUME NEW h \in Seq(Revisions), NEW v \in Nat, Chain(h, v)
  PROVE  Newest(h) \in Histories /\ Chain(Newest(h), v)
<1>0. MaxHistory \in Nat \ {0} /\ Len(h) \in Nat
  BY StoreAssumption
<1>1. CASE Len(h) <= MaxHistory
  BY <1>0, <1>1 DEF Newest, Histories
<1>2. CASE Len(h) > MaxHistory
  <2> DEFINE m == Len(h) - MaxHistory + 1
             g == SubSeq(h, m, Len(h))
  <2>1. m \in Int /\ m >= 1 /\ m <= Len(h)
    BY <1>0, <1>2
  <2>2. \A i \in m..Len(h) : h[i] \in Revisions
    BY <2>1, <1>0, ElementOfSeq
  <2>3. /\ g \in Seq(Revisions)
        /\ Len(g) = MaxHistory
        /\ \A i \in 1..MaxHistory : g[i] = h[m + i - 1]
    <3>1. /\ g \in Seq(Revisions)
          /\ Len(g) = IF m <= Len(h) THEN Len(h) - m + 1 ELSE 0
          /\ \A i \in 1..(Len(h) - m + 1) : g[i] = h[m + i - 1]
      <4> HIDE DEF m
      <4> QED
        BY <2>1, <2>2, <1>0, SubSeqProperties
    <3>2. Len(h) - m + 1 = MaxHistory
      BY <1>0
    <3> QED
      BY <3>1, <3>2, <2>1
  <2>4. Newest(h) = g
    BY <1>2, <1>0 DEF Newest
  <2> HIDE DEF g
  <2>5. \A i \in 1..MaxHistory : m + i - 1 \in 1..Len(h)
    BY <1>0, <1>2
  <2>6. \A i \in 1..Len(g) : g[i].next = g[i].base + 1
    BY <2>3, <2>5 DEF Chain
  <2>7. \A i \in 1..(Len(g) - 1) : g[i].next = g[i + 1].base
    <3> TAKE i \in 1..(Len(g) - 1)
    <3>1. /\ i \in 1..MaxHistory
          /\ i + 1 \in 1..MaxHistory
          /\ m + i - 1 \in 1..(Len(h) - 1)
      BY <2>3, <1>0, <1>2
    <3>2. g[i] = h[m + i - 1] /\ g[i + 1] = h[(m + i - 1) + 1]
      <4>1. m + (i + 1) - 1 = (m + i - 1) + 1
        BY <3>1, <2>1
      <4> QED
        BY <3>1, <2>3, <4>1
    <3>3. h[m + i - 1].next = h[(m + i - 1) + 1].base
      BY <3>1 DEF Chain
    <3> QED
      BY <3>2, <3>3
  <2>8. g[Len(g)].next = v
    <3>1. g[MaxHistory] = h[m + MaxHistory - 1]
      BY <2>3, <1>0
    <3>2. m + MaxHistory - 1 = Len(h)
      BY <1>0
    <3> QED
      BY <3>1, <3>2, <2>3, <1>0, <1>2 DEF Chain
  <2> QED
    BY <2>3, <2>4, <2>6, <2>7, <2>8, <1>0 DEF Histories, Chain
<1> QED
  BY <1>0, <1>1, <1>2

\* What commitEdit and undoLast append keeps the record a chain that ends at
\* the new version.
LEMMA HistoryGrows ==
  ASSUME NEW h \in Histories, NEW trip \in Trips, NEW v \in Nat,
         Chain(h, v), trip.version = v + 1
  PROVE  LET g == Newest(Append(h, Revision(trip))) IN
         g \in Histories /\ Chain(g, trip.version)
<1> DEFINE rev == [base |-> v, next |-> v + 1]
           g == Append(h, rev)
<1>1. Revision(trip) = rev
  BY DEF Revision
<1>2. h \in Seq(Revisions) /\ v + 1 \in Nat
  BY DEF Histories
<1>3. g \in Seq(Revisions) /\ Chain(g, v + 1)
  BY <1>2, ChainAppend
<1> HIDE DEF rev, g
<1>4. Newest(g) \in Histories /\ Chain(Newest(g), v + 1)
  BY <1>2, <1>3, ChainNewest
<1> QED
  BY <1>1, <1>4 DEF g

-----------------------------------------------------------------------------
(* What the store writes.                                                  *)

\* A component of an envelope has its type, and a trip in somebody's hands is
\* one of Hands.
LEMMA Components ==
  ASSUME TypeOK
  PROVE  /\ Stored => /\ stored \in Envelopes
                      /\ stored.trip \in Trips
                      /\ stored.previous \in Trips \cup {NoTrip}
                      /\ stored.history \in Histories
         /\ \A t \in Tabs : held[t] \in Trips \cup {NoTrip} /\ held[t] \in Hands
         /\ \A r \in Replans : /\ replans[r].base \in Trips \cup {NoTrip}
                               /\ replans[r].result \in Trips \cup {NoTrip}
                               /\ replans[r].base \in Hands
  BY DEF TypeOK, Stored, Envelopes, Orders, Hands

\* A commit onto the stored version writes a well-typed envelope whose record
\* is a chain.
LEMMA CommittedType ==
  ASSUME TypeOK, HistoryIsChain, Stored,
         NEW trip \in Trips, trip.version = stored.trip.version + 1
  PROVE  /\ Committed(trip) \in Envelopes
         /\ Committed(trip).trip = trip
         /\ Committed(trip).previous = stored.trip
         /\ Chain(Committed(trip).history, trip.version)
<1>1. /\ stored.trip \in Trips /\ stored.history \in Histories
      /\ stored.trip.version \in Nat
  BY Components DEF Trips
<1>2. Chain(stored.history, stored.trip.version)
  BY DEF HistoryIsChain
<1>3. /\ Newest(Append(stored.history, Revision(trip))) \in Histories
      /\ Chain(Newest(Append(stored.history, Revision(trip))), trip.version)
  BY <1>1, <1>2, HistoryGrows
<1> QED
  BY <1>1, <1>3 DEF Committed, Envelopes

\* So does an undo.
LEMMA UndoneType ==
  ASSUME TypeOK, HistoryIsChain, NEW t \in Tabs, Undo(t)
  PROVE  /\ Stored /\ Stored'
         /\ stored' \in Envelopes
         /\ stored'.previous = NoTrip
         /\ stored'.trip.version = stored.trip.version + 1
         /\ stored'.trip.content = stored.previous.content
         /\ Chain(stored'.history, stored'.trip.version)
         /\ held' = [held EXCEPT ![t] = stored'.trip]
<1> DEFINE trip == [stored.previous EXCEPT !.version = stored.trip.version + 1]
<1>1. Stored /\ stored.previous # NoTrip
  BY DEF Undo
<1>2. /\ stored.trip \in Trips /\ stored.history \in Histories
      /\ stored.trip.version \in Nat /\ stored.previous \in Trips
  BY <1>1, Components DEF Trips
<1>3. /\ trip \in Trips
      /\ trip.version = stored.trip.version + 1
      /\ trip.content = stored.previous.content
  BY <1>2 DEF Trips
<1>4. /\ stored' = [trip |-> trip, previous |-> NoTrip,
                    history |-> Newest(Append(stored.history, Revision(trip)))]
      /\ held' = [held EXCEPT ![t] = trip]
  BY DEF Undo
<1> HIDE DEF trip
<1>5. Chain(stored.history, stored.trip.version)
  BY <1>1 DEF HistoryIsChain
<1>6. /\ Newest(Append(stored.history, Revision(trip))) \in Histories
      /\ Chain(Newest(Append(stored.history, Revision(trip))), trip.version)
  BY <1>2, <1>3, <1>5, HistoryGrows
<1>7. stored' \in Envelopes
  BY <1>3, <1>4, <1>6 DEF Envelopes
<1>8. Stored'
  BY <1>7, NoTripAssumption DEF Stored
<1> QED
  BY <1>1, <1>3, <1>4, <1>6, <1>7, <1>8

-----------------------------------------------------------------------------
(* The invariant.                                                          *)

LEMMA InitInv == Init => IInv
<1> SUFFICES ASSUME Init PROVE IInv
  OBVIOUS
<1>1. TypeOK
  BY DEF Init, TypeOK, Orders, NoOrder
<1>2. ~Stored /\ Hands \subseteq {NoTrip}
  BY DEF Init, Stored, Hands, NoOrder
<1>3. OrderInv
  BY DEF Init, OrderInv, NoOrder
<1> QED
  BY <1>1, <1>2, <1>3
  DEF IInv, HistoryIsChain, VersionNamesTrip, UnsavedInv, OriginInv, PreviousInv

\* A commit onto the stored version by a page or a replan that is at this
\* version: with what it adds (an edit never stored, a replan never ended
\* before) it is the next version of the stored trip.
LEMMA CommitKeeps ==
  ASSUME IInv, Stored, NEW base \in Hands \ {NoTrip}, ~Resaved,
         base.version = stored.trip.version
  PROVE  base = stored.trip
  BY DEF IInv, VersionNamesTrip

LEMMA SavePlanInv == ASSUME IInv, SavePlan PROVE IInv'
<1> USE DEF IInv
<1>0. /\ stored' = [trip |-> PlannedTrip, previous |-> NoTrip, history |-> <<>>]
      /\ saves' = IF saves = 0 THEN 1 ELSE 2
      /\ UNCHANGED <<held, replans, used>>
  BY DEF SavePlan
<1>1. stored' \in Envelopes
  <2>1. PlannedTrip \in Trips
    BY DEF PlannedTrip, Trips
  <2>2. <<>> \in Histories
    BY StoreAssumption DEF Histories
  <2> QED
    BY <1>0, <2>1, <2>2 DEF Envelopes
<1>2. TypeOK'
  BY <1>0, <1>1 DEF TypeOK
<1>3. HistoryIsChain'
  BY <1>0 DEF HistoryIsChain, Chain
<1>4. Hands' = Hands
  BY <1>0 DEF Hands
<1>5. VersionNamesTrip'
  <2>1. CASE saves = 0
    BY <2>1, <1>4 DEF VersionNamesTrip, UnsavedInv
  <2>2. CASE saves # 0
    BY <2>2, <1>0 DEF VersionNamesTrip, Resaved
  <2> QED
    BY <2>1, <2>2
<1>6. UnsavedInv'
  BY <1>0 DEF UnsavedInv
<1>7. OrderInv'
  BY <1>0 DEF OrderInv
<1>8. OriginInv'
  BY <1>0, <1>4 DEF OriginInv, Made, PlannedTrip
<1>9. PreviousInv'
  BY <1>0 DEF PreviousInv
<1> QED
  BY <1>2, <1>3, <1>5, <1>6, <1>7, <1>8, <1>9

LEMMA OpenInv == ASSUME IInv, NEW t \in Tabs, Open(t) PROVE IInv'
<1> USE DEF IInv
<1>0. /\ held' = [held EXCEPT ![t] = IF Stored THEN stored.trip ELSE NoTrip]
      /\ UNCHANGED <<stored, replans, used, saves>>
  BY DEF Open
<1>1. TypeOK'
  BY <1>0, Components DEF TypeOK
<1>2. HistoryIsChain' /\ PreviousInv'
  BY <1>0 DEF HistoryIsChain, PreviousInv, Stored, Resaved
<1>3. Hands' \subseteq Hands \cup {IF Stored THEN stored.trip ELSE NoTrip}
  BY <1>0 DEF Hands, TypeOK
<1>4. VersionNamesTrip'
  <2> SUFFICES ASSUME Stored, ~Resaved, NEW trip \in Hands', trip # NoTrip
               PROVE  /\ trip.version <= stored.trip.version
                      /\ trip.version = stored.trip.version => trip = stored.trip
    BY <1>0 DEF VersionNamesTrip, Stored, Resaved
  <2>1. CASE trip \in Hands
    BY <2>1 DEF VersionNamesTrip
  <2>2. CASE trip = stored.trip
    BY <2>2, Components DEF Trips
  <2> QED
    BY <1>3, <2>1, <2>2
<1>5. UnsavedInv'
  BY <1>0, <1>3 DEF UnsavedInv, Stored
<1>6. OrderInv'
  BY <1>0 DEF OrderInv
<1>7. OriginInv'
  <2>1. Made' = Made
    BY <1>0 DEF Made
  <2> QED
    BY <1>0, <1>3, <2>1 DEF OriginInv, Stored
<1> QED
  BY <1>1, <1>2, <1>4, <1>5, <1>6, <1>7

LEMMA EditInv ==
  ASSUME IInv, NEW t \in Tabs, NEW e \in Edits, Edit(t, e) PROVE IInv'
<1> USE DEF IInv
<1> DEFINE trip == [version |-> held[t].version + 1,
                    content |-> held[t].content \cup {e}]
<1>0. /\ Stored /\ held[t] # NoTrip /\ e \notin used
      /\ stored.trip.version = held[t].version
      /\ stored' = Committed(trip)
      /\ held' = [held EXCEPT ![t] = trip]
      /\ used' = used \cup {e}
      /\ UNCHANGED <<replans, saves>>
  BY DEF Edit, Expects
<1>1. /\ held[t] \in Trips /\ held[t] \in Hands \ {NoTrip}
      /\ stored.trip \in Trips
  BY <1>0, Components
<1>2. /\ trip \in Trips
      /\ trip.version = stored.trip.version + 1
      /\ trip.content = held[t].content \cup {e}
  BY <1>0, <1>1 DEF Trips, Changes
<1> HIDE DEF trip
<1>3. /\ stored' \in Envelopes
      /\ stored'.trip = trip
      /\ stored'.previous = stored.trip
      /\ Chain(stored'.history, trip.version)
  BY <1>0, <1>2, CommittedType
<1>4. TypeOK'
  BY <1>0, <1>2, <1>3 DEF TypeOK
<1>5. HistoryIsChain'
  BY <1>3 DEF HistoryIsChain
<1>6. Hands' \subseteq Hands \cup {trip}
  BY <1>0 DEF Hands, TypeOK
<1>7. VersionNamesTrip'
  <2> SUFFICES ASSUME ~Resaved, NEW other \in Hands', other # NoTrip
               PROVE  /\ other.version <= trip.version
                      /\ other.version = trip.version => other = trip
    BY <1>0, <1>3 DEF VersionNamesTrip, Resaved
  <2>1. CASE other = trip
    BY <2>1, <1>2 DEF Trips
  <2>2. CASE other \in Hands
    <3>1. other.version <= stored.trip.version
      BY <2>2, <1>0 DEF VersionNamesTrip
    <3>2. other \in Trips
      BY <2>2 DEF Hands, TypeOK, Orders
    <3> QED
      BY <3>1, <3>2, <1>1, <1>2 DEF Trips
  <2> QED
    BY <1>6, <2>1, <2>2
<1>8. UnsavedInv'
  BY <1>0 DEF UnsavedInv
<1>9. OrderInv'
  BY <1>0 DEF OrderInv
<1>10. OriginInv'
  <2>1. Made \subseteq Made' /\ e \in Made'
    BY <1>0 DEF Made
  <2>2. trip.content \subseteq Made'
    BY <2>1, <1>1, <1>2 DEF OriginInv
  <2> QED
    BY <2>1, <2>2, <1>0, <1>3, <1>6 DEF OriginInv
<1>11. PreviousInv'
  <2> SUFFICES ASSUME ~Resaved
               PROVE  stored.trip.content = trip.content \ {e} /\ e \in trip.content
    BY <1>0, <1>3 DEF PreviousInv, Resaved
  <2>1. held[t] = stored.trip
    BY <1>0, <1>1, CommitKeeps
  <2>2. e \notin Made
    BY <1>0, StoreAssumption DEF Made
  <2> QED
    BY <2>1, <2>2, <1>1, <1>2 DEF OriginInv
<1> QED
  BY <1>4, <1>5, <1>7, <1>8, <1>9, <1>10, <1>11

LEMMA ConfirmReplanInv ==
  ASSUME IInv, NEW t \in Tabs, NEW r \in Replans, ConfirmReplan(t, r)
  PROVE  IInv'
<1> USE DEF IInv
<1>0. /\ replans[r] = NoOrder /\ held[t] # NoTrip
      /\ replans' = [replans EXCEPT ![r].base = held[t]]
      /\ UNCHANGED <<stored, held, used, saves>>
  BY DEF ConfirmReplan
<1>1. held[t] \in Trips /\ held[t] \in Hands
  BY <1>0, Components
<1>2. \A q \in Replans : /\ replans'[q].result = replans[q].result
                         /\ q # r => replans'[q] = replans[q]
  BY <1>0 DEF TypeOK, Orders
<1>3. replans'[r].base = held[t] /\ replans[r].result = NoTrip
  BY <1>0 DEF TypeOK, Orders, NoOrder
<1>4. TypeOK'
  BY <1>0, <1>1 DEF TypeOK, Orders
<1>5. HistoryIsChain' /\ PreviousInv'
  BY <1>0 DEF HistoryIsChain, PreviousInv, Stored, Resaved
<1>6. Hands' \subseteq Hands
  BY <1>0, <1>1, <1>2, <1>3 DEF Hands
<1>7. VersionNamesTrip' /\ UnsavedInv'
  BY <1>0, <1>6 DEF VersionNamesTrip, UnsavedInv, Stored, Resaved
<1>8. OrderInv'
  <2>1. r \notin held[t].content
    <3>1. r \notin Made
      BY <1>3, StoreAssumption DEF Made, TypeOK
    <3> QED
      BY <3>1, <1>0, <1>1 DEF OriginInv
  <2> SUFFICES ASSUME NEW q \in Replans
               PROVE LET base == replans'[q].base
                         result == replans'[q].result IN
                     /\ base = NoTrip => result = NoTrip
                     /\ base # NoTrip => q \notin base.content
                     /\ result \notin {NoTrip, base} =>
                          /\ result.version = base.version + 1
                          /\ result.content = base.content \cup {q}
    BY DEF OrderInv
  <2>2. CASE q = r
    BY <2>1, <2>2, <1>2, <1>3
  <2>3. CASE q # r
    BY <2>3, <1>2 DEF OrderInv
  <2> QED
    BY <2>2, <2>3
<1>9. OriginInv'
  <2>1. Made' = Made
    BY <1>0, <1>2 DEF Made
  <2> QED
    BY <1>0, <1>6, <2>1 DEF OriginInv, Stored
<1> QED
  BY <1>4, <1>5, <1>7, <1>8, <1>9

LEMMA EndReplanInv ==
  ASSUME IInv, NEW r \in Replans, EndReplan(r) PROVE IInv'
<1> USE DEF IInv
<1> DEFINE base == replans[r].base
           next == [version |-> base.version + 1, content |-> base.content \cup {r}]
<1>0. PICK result \in {base, next} :
        replans' = [replans EXCEPT ![r].result = result]
  BY DEF EndReplan
<1>1. /\ base # NoTrip /\ replans[r].result = NoTrip
      /\ UNCHANGED <<stored, held, used, saves>>
  BY DEF EndReplan
<1>2. base \in Trips
  BY <1>1, Components
<1>3. next \in Trips /\ next.version = base.version + 1
      /\ next.content = base.content \cup {r}
  BY <1>2 DEF Trips, Changes
<1> HIDE DEF next
<1>4. result \in Trips /\ result # NoTrip
  BY <1>0, <1>2, <1>3, NoTripAssumption
<1>5. /\ \A q \in Replans : /\ replans'[q].base = replans[q].base
                            /\ q # r => replans'[q] = replans[q]
      /\ replans'[r].result = result
  BY <1>0 DEF TypeOK, Orders
<1>6. TypeOK'
  BY <1>0, <1>1, <1>4 DEF TypeOK, Orders
<1>7. HistoryIsChain' /\ PreviousInv'
  BY <1>1 DEF HistoryIsChain, PreviousInv, Stored, Resaved
<1>8. Hands' = Hands
  BY <1>1, <1>5 DEF Hands
<1>9. VersionNamesTrip' /\ UnsavedInv'
  BY <1>1, <1>8 DEF VersionNamesTrip, UnsavedInv, Stored, Resaved
<1>10. OrderInv'
  <2> SUFFICES ASSUME NEW q \in Replans
               PROVE LET b == replans'[q].base
                         res == replans'[q].result IN
                     /\ b = NoTrip => res = NoTrip
                     /\ b # NoTrip => q \notin b.content
                     /\ res \notin {NoTrip, b} =>
                          /\ res.version = b.version + 1
                          /\ res.content = b.content \cup {q}
    BY DEF OrderInv
  <2>1. CASE q = r
    BY <2>1, <1>0, <1>1, <1>3, <1>5 DEF OrderInv
  <2>2. CASE q # r
    BY <2>2, <1>5 DEF OrderInv
  <2> QED
    BY <2>1, <2>2
<1>11. OriginInv'
  <2>1. Made \subseteq Made'
    BY <1>1, <1>4, <1>5 DEF Made
  <2> QED
    BY <1>1, <1>8, <2>1 DEF OriginInv, Stored
<1> QED
  BY <1>6, <1>7, <1>9, <1>10, <1>11

\* The trip a replan's page commits is the next version of the stored one.
LEMMA ReplanCommit ==
  ASSUME IInv, NEW r \in Replans, AcceptReplan(r)
  PROVE  LET base == replans[r].base  result == replans[r].result IN
         /\ Stored /\ Stored'
         /\ base \in Hands \ {NoTrip} /\ base.version = stored.trip.version
         /\ base \in Trips /\ result \in Trips
         /\ r \notin base.content
         /\ result.version = stored.trip.version + 1
         /\ result.content = base.content \cup {r}
         /\ stored' \in Envelopes
         /\ stored'.trip = result
         /\ stored'.previous = stored.trip
         /\ Chain(stored'.history, result.version)
<1> USE DEF IInv
<1> DEFINE base == replans[r].base
           result == replans[r].result
<1>0. /\ Stored /\ stored.trip.version = base.version
      /\ result \notin {NoTrip, base}
      /\ stored' = Committed(result)
  BY DEF AcceptReplan, Expects
<1>1. base # NoTrip /\ base \in Hands /\ base \in Trips /\ result \in Trips
  BY <1>0, Components DEF OrderInv
<1>2. /\ r \notin base.content
      /\ result.version = stored.trip.version + 1
      /\ result.content = base.content \cup {r}
  BY <1>0, <1>1 DEF OrderInv
<1>3. /\ stored' \in Envelopes
      /\ stored'.trip = result
      /\ stored'.previous = stored.trip
      /\ Chain(stored'.history, result.version)
  BY <1>0, <1>1, <1>2, CommittedType
<1>4. Stored'
  BY <1>3, NoTripAssumption DEF Stored
<1> QED
  BY <1>0, <1>1, <1>2, <1>3, <1>4

\* A step that writes a next version of the stored trip, and gives it at most
\* to the page that made it, keeps versions naming trips.
LEMMA NewVersion ==
  ASSUME TypeOK, VersionNamesTrip, Stored, saves' = saves,
         Hands' \subseteq Hands \cup {stored'.trip},
         stored'.trip.version = stored.trip.version + 1
  PROVE  VersionNamesTrip'
<1> SUFFICES ASSUME ~Resaved, NEW other \in Hands', other # NoTrip
             PROVE  /\ other.version <= stored'.trip.version
                    /\ other.version = stored'.trip.version
                         => other = stored'.trip
  BY DEF VersionNamesTrip, Resaved
<1>0. stored.trip.version \in Nat
  BY Components DEF Trips
<1>1. CASE other = stored'.trip
  BY <1>0, <1>1
<1>2. CASE other \in Hands
  <2>1. other.version <= stored.trip.version
    BY <1>2 DEF VersionNamesTrip
  <2>2. other.version \in Nat
    BY <1>2 DEF Hands, TypeOK, Orders, Trips
  <2> QED
    BY <2>1, <2>2, <1>0
<1> QED
  BY <1>1, <1>2

LEMMA AcceptReplanInv ==
  ASSUME IInv, NEW r \in Replans, AcceptReplan(r) PROVE IInv'
<1> USE DEF IInv
<1>0. UNCHANGED <<held, replans, used, saves>>
  BY DEF AcceptReplan
<1>1. TypeOK'
  BY <1>0, ReplanCommit DEF TypeOK
<1>2. HistoryIsChain'
  BY ReplanCommit DEF HistoryIsChain
<1>3. Hands' = Hands
  BY <1>0 DEF Hands
<1>4. VersionNamesTrip'
  BY <1>0, <1>3, ReplanCommit, NewVersion
<1>5. UnsavedInv'
  BY <1>0, ReplanCommit DEF UnsavedInv
<1>6. OrderInv'
  BY <1>0 DEF OrderInv
<1>7. OriginInv'
  <2>1. Made' = Made /\ r \in Made
    BY <1>0, NoTripAssumption, ReplanCommit DEF Made
  <2>2. stored'.trip.content \subseteq Made
    BY <2>1, ReplanCommit DEF OriginInv
  <2> QED
    BY <2>1, <2>2, <1>3, ReplanCommit DEF OriginInv
<1>8. PreviousInv'
  <2> SUFFICES ASSUME ~Resaved
               PROVE  \E c \in stored'.trip.content :
                        stored.trip.content = stored'.trip.content \ {c}
    BY <1>0, ReplanCommit DEF PreviousInv, Resaved
  <2>1. replans[r].base = stored.trip
    BY ReplanCommit, CommitKeeps
  <2> QED
    BY <2>1, ReplanCommit
<1> QED
  BY <1>1, <1>2, <1>4, <1>5, <1>6, <1>7, <1>8

LEMMA UndoInv == ASSUME IInv, NEW t \in Tabs, Undo(t) PROVE IInv'
<1> USE DEF IInv
<1>0. /\ UNCHANGED <<replans, used, saves>>
      /\ stored.previous # NoTrip
  BY DEF Undo
<1>1. TypeOK'
  <2>1. stored'.trip \in Trips
    BY UndoneType DEF Envelopes
  <2> QED
    BY <1>0, <2>1, UndoneType DEF TypeOK
<1>2. HistoryIsChain' /\ PreviousInv'
  BY UndoneType DEF HistoryIsChain, PreviousInv
<1>3. Hands' \subseteq Hands \cup {stored'.trip}
  BY <1>0, UndoneType DEF Hands, TypeOK
<1>4. VersionNamesTrip'
  BY <1>0, <1>3, UndoneType, NewVersion
<1>5. UnsavedInv'
  BY <1>0, UndoneType DEF UnsavedInv
<1>6. OrderInv'
  BY <1>0 DEF OrderInv
<1>7. OriginInv'
  <2>1. Made' = Made
    BY <1>0 DEF Made
  <2>2. stored'.trip.content \subseteq Made
    BY <1>0, UndoneType DEF OriginInv
  <2> QED
    BY <2>1, <2>2, <1>3, UndoneType DEF OriginInv
<1> QED
  BY <1>1, <1>2, <1>4, <1>5, <1>6, <1>7

LEMMA ForgetInv == ASSUME IInv, Forget PROVE IInv'
<1> USE DEF IInv
<1>0. stored' = NoTrip /\ UNCHANGED <<held, replans, used, saves>>
  BY DEF Forget
<1>1. TypeOK'
  BY <1>0 DEF TypeOK
<1>2. ~Stored' /\ Hands' = Hands /\ Made' = Made
  BY <1>0 DEF Stored, Hands, Made
<1> QED
  BY <1>0, <1>1, <1>2
  DEF HistoryIsChain, VersionNamesTrip, UnsavedInv, OrderInv, OriginInv,
      PreviousInv

LEMMA StutterInv == ASSUME IInv, UNCHANGED vars PROVE IInv'
<1> USE DEF IInv, vars
<1>1. TypeOK'
  BY DEF TypeOK
<1>2. HistoryIsChain' /\ PreviousInv' /\ OrderInv'
  BY DEF HistoryIsChain, PreviousInv, OrderInv, Stored, Resaved
<1>3. Hands' = Hands /\ Made' = Made
  BY DEF Hands, Made
<1>4. VersionNamesTrip' /\ UnsavedInv' /\ OriginInv'
  BY <1>3 DEF VersionNamesTrip, UnsavedInv, OriginInv, Stored, Resaved
<1> QED
  BY <1>1, <1>2, <1>4

\* What pages hold, what is stored and what replans return agree in every
\* reachable state.
THEOREM InvariantHolds == Spec => []IInv
<1>1. Init => IInv
  BY InitInv
<1>2. IInv /\ [Next]_vars => IInv'
  <2> SUFFICES ASSUME IInv, [Next]_vars PROVE IInv'
    OBVIOUS
  <2> QED
    BY SavePlanInv, OpenInv, EditInv, ConfirmReplanInv, EndReplanInv,
       AcceptReplanInv, UndoInv, ForgetInv, StutterInv DEF Next
<1> QED
  BY <1>1, <1>2, PTL DEF Spec

\* Every variable of the store and its pages always has its type.
THEOREM TypeCorrect == Spec => []TypeOK
  BY InvariantHolds, PTL DEF IInv

\* The version record kept in the browser is a chain that ends at the stored
\* version, whatever its length is cut to.
THEOREM HistoryStaysChain == Spec => []HistoryIsChain
  BY InvariantHolds, PTL DEF IInv

\* Until the plan's page stores the trip again, whoever is at the stored
\* version has the stored trip: the check of commitEdit is enough.
THEOREM VersionsNameTrips == Spec => []VersionNamesTrip
  BY InvariantHolds, PTL DEF IInv

\* Until then no step of any tab, replan or progress page takes an edit out of
\* the stored trip, an undo of the last commit excepted.
THEOREM NoEditLost == Spec => EditsKept
<1>1. ASSUME IInv, [Next]_vars PROVE [~Resaved' => Kept]_vars
  <2> USE DEF IInv
  <2> SUFFICES ASSUME IInv, Next, ~Resaved', Stored, Stored' PROVE Kept
    BY <1>1 DEF Kept
  <2>1. CASE SavePlan
    BY <2>1 DEF SavePlan, Resaved, UnsavedInv, TypeOK
  <2>2. ASSUME NEW t \in Tabs, Open(t) PROVE Kept
    BY <2>2 DEF Open, Kept
  <2>3. ASSUME NEW t \in Tabs, Undo(t) PROVE Kept
    BY <2>3, UndoneType DEF Kept, Undone, Undo
  <2>4. ASSUME NEW t \in Tabs, NEW e \in Edits, Edit(t, e) PROVE Kept
    <3>1. held[t] \in Hands \ {NoTrip}
      BY <2>4, Components DEF Edit
    <3>2. ~Resaved /\ held[t].version = stored.trip.version
      BY <2>4 DEF Edit, Expects, Resaved
    <3>3. held[t] = stored.trip
      BY <3>1, <3>2, CommitKeeps
    <3> QED
      BY <2>4, <3>3 DEF Edit, Committed, Kept
  <2>5. ASSUME NEW t \in Tabs, NEW r \in Replans, ConfirmReplan(t, r) PROVE Kept
    BY <2>5 DEF ConfirmReplan, Kept
  <2>6. ASSUME NEW r \in Replans, EndReplan(r) PROVE Kept
    BY <2>6 DEF EndReplan, Kept
  <2>7. ASSUME NEW r \in Replans, AcceptReplan(r) PROVE Kept
    <3>1. ~Resaved
      BY <2>7 DEF AcceptReplan, Resaved
    <3>2. replans[r].base = stored.trip
      BY <2>7, <3>1, ReplanCommit, CommitKeeps
    <3> QED
      BY <2>7, <3>2, ReplanCommit DEF Kept
  <2>8. CASE Forget
    BY <2>8 DEF Forget, Stored
  <2> QED
    BY <2>1, <2>2, <2>3, <2>4, <2>5, <2>6, <2>7, <2>8 DEF Next
<1> QED
  BY <1>1, InvariantHolds, PTL DEF Spec, EditsKept

\* An undo takes exactly one change out of the stored trip.
THEOREM UndoTakesOneChange == Spec => UndoTakesOne
<1>1. ASSUME IInv
      PROVE  \A t \in Tabs : (Undo(t) /\ ~Resaved) =>
               \E c \in stored.trip.content :
                 stored'.trip.content = stored.trip.content \ {c}
  <2> SUFFICES ASSUME IInv, NEW t \in Tabs, Undo(t), ~Resaved
               PROVE  \E c \in stored.trip.content :
                        stored'.trip.content = stored.trip.content \ {c}
    BY <1>1
  <2>1. Stored /\ stored.previous # NoTrip
    BY DEF Undo
  <2>2. stored'.trip.content = stored.previous.content
    BY UndoneType DEF IInv
  <2> QED
    BY <2>1, <2>2 DEF IInv, PreviousInv
<1> QED
  BY <1>1, InvariantHolds, PTL DEF Spec, UndoTakesOne
=============================================================================
