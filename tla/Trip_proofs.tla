------------------------------ MODULE Trip_proofs ------------------------------
(***************************************************************************)
(* Machine-checked proofs about how a trip is checked, edited and made.    *)
(* The hard validator is sound: a trip that it finds nothing blocking in   *)
(* can be walked, whatever its days, activities, legs and bookings are.    *)
(* The validator compares neighbours in a day's order; the proof goes from *)
(* neighbours to every pair by induction along that order.  An edit stays  *)
(* in scope: the page's own by what previewChange changes, a model's by    *)
(* what localReplan and the validator refuse.  And a trip that the planner *)
(* delivers rests on what the tools found: what a place is said to be      *)
(* stays through every round of repair, and a place that was not told      *)
(* apart leaves a claim, through merging, renaming and resolving the       *)
(* evidence, that blocks the trip.  A claim itself stays as its group's    *)
(* evidence decided it: names made for a group are no other group's.       *)
(***************************************************************************)
EXTENDS TripEdits, TripAssembly, Claims, FoldFacts, TLAPS

-----------------------------------------------------------------------------
(* Orders on the places of a list *)

\* What comes first in a finite, strict and total order, and what comes last.
LEMMA HasLast ==
  ASSUME NEW S, IsFiniteSet(S), S # {}, NEW R,
         \A x \in S : <<x, x>> \notin R,
         \A x, y, z \in S : <<x, y>> \in R /\ <<y, z>> \in R => <<x, z>> \in R,
         \A x, y \in S : x = y \/ <<x, y>> \in R \/ <<y, x>> \in R
  PROVE  \E last \in S : \A x \in S \ {last} : <<x, last>> \in R
<1> DEFINE After(x) == {y \in S : <<x, y>> \in R}
           B == {After(x) : x \in S}
<1>1. PICK m \in B : \A n \in B : n \subseteq m => n = m
  <2>1. B \subseteq SUBSET S
    OBVIOUS
  <2>2. B # {}
    <3>1. PICK x \in S : TRUE
      OBVIOUS
    <3>2. After(x) \in B
      BY <3>1
    <3> QED
      BY <3>2
  <2> HIDE DEF B
  <2> QED
    BY <2>1, <2>2, LeastSubset
<1>2. PICK x \in S : m = After(x)
  BY <1>1
<1>3. After(x) = {}
  <2> SUFFICES ASSUME NEW y \in After(x) PROVE FALSE
    OBVIOUS
  <2>1. y \in S /\ <<x, y>> \in R
    OBVIOUS
  <2>2. After(y) \in B
    BY <2>1
  <2>3. y \notin After(y)
    BY <2>1
  <2>4. After(y) \subseteq After(x)
    <3>1. <<x, y>> \in R
      OBVIOUS
    <3> QED
      BY <2>1, <3>1
  <2> QED
    BY <1>1, <1>2, <2>2, <2>3, <2>4
<1>4. \A y \in S \ {x} : <<y, x>> \in R
  BY <1>3
<1> QED
  BY <1>2, <1>4

\* A list of activities with the types the schema gives them.
WellTimed(a) == /\ a.start \in Int /\ a.end \in Int /\ a.end > a.start

ActivityList(acts) ==
    /\ DOMAIN acts = 1 .. Len(acts) /\ Len(acts) \in Nat
    /\ \A i \in DOMAIN acts : WellTimed(acts[i])

LEMMA ListsAreFinite ==
  ASSUME NEW acts, ActivityList(acts), NEW S, S \subseteq DOMAIN acts
  PROVE  IsFiniteSet(S)
<1>1. IsFiniteSet(1 .. Len(acts))
  <2>1. 1 \in Int /\ Len(acts) \in Int
    BY DEF ActivityList
  <2> QED
    BY <2>1, FS_Interval
<1> QED
  BY <1>1, FS_Subset DEF ActivityList

\* Among some places of a day there is one that comes last.
LEMMA LastInDay ==
  ASSUME NEW acts, ActivityList(acts), NEW S, S \subseteq DOMAIN acts, S # {}
  PROVE  \E last \in S : \A k \in S \ {last} : Precedes(acts, k, last)
<1> DEFINE R == {q \in S \X S : Precedes(acts, q[1], q[2])}
<1>1. IsFiniteSet(S)
  BY ListsAreFinite
<1>2. \A i \in S : i \in Int /\ acts[i].start \in Int
  BY DEF ActivityList, WellTimed
<1>3. \A x, y \in S : <<x, y>> \in R <=> Precedes(acts, x, y)
  OBVIOUS
<1> HIDE DEF R
<1>4. /\ \A x \in S : <<x, x>> \notin R
      /\ \A x, y, z \in S : <<x, y>> \in R /\ <<y, z>> \in R => <<x, z>> \in R
      /\ \A x, y \in S : x = y \/ <<x, y>> \in R \/ <<y, x>> \in R
  BY <1>2, <1>3 DEF Precedes
<1>5. \E last \in S : \A x \in S \ {last} : <<x, last>> \in R
  BY <1>1, <1>4, HasLast
<1> QED
  BY <1>3, <1>5

\* Before a place that has a main activity before it comes a last one.
LEMMA PreviousMainExists ==
  ASSUME NEW acts, ActivityList(acts), NEW i \in DOMAIN acts,
         NEW j \in DOMAIN acts, Main(acts[j]), Precedes(acts, j, i)
  PROVE  \E q \in PreviousMain(acts, i) : q = j \/ Precedes(acts, j, q)
<1> DEFINE earlier == {k \in DOMAIN acts : Precedes(acts, k, i) /\ Main(acts[k])}
<1>1. PICK q \in earlier : \A k \in earlier \ {q} : Precedes(acts, k, q)
  <2>1. earlier # {} /\ earlier \subseteq DOMAIN acts
    OBVIOUS
  <2> HIDE DEF earlier
  <2> QED
    BY <2>1, LastInDay
<1>2. q \in PreviousMain(acts, i)
  BY <1>1 DEF PreviousMain
<1> QED
  BY <1>1, <1>2

-----------------------------------------------------------------------------
(* The order of a day *)

\* Nothing between neighbours overlaps: what OrderIssues is about.
NeighboursApart(acts) ==
    \A i \in DOMAIN acts : Main(acts[i]) =>
        \A j \in PreviousMain(acts, i) : acts[j].end <= acts[i].start

\* Then no two main activities overlap, at whatever distance.
LEMMA MainsApart ==
  ASSUME NEW acts, ActivityList(acts), NeighboursApart(acts)
  PROVE  \A i, j \in DOMAIN acts :
            Main(acts[i]) /\ Main(acts[j]) /\ Precedes(acts, j, i)
            => acts[j].end <= acts[i].start
<1> DEFINE Before(i) == {k \in DOMAIN acts : Precedes(acts, k, i)}
           Wrong(i, j) == /\ Main(acts[i]) /\ Main(acts[j])
                          /\ Precedes(acts, j, i)
                          /\ ~(acts[j].end <= acts[i].start)
           B == {Before(i) : i \in {k \in DOMAIN acts :
                                        \E j \in DOMAIN acts : Wrong(k, j)}}
<1>0. \A k \in DOMAIN acts : /\ k \in Int /\ acts[k].start \in Int
                             /\ acts[k].end \in Int
                             /\ acts[k].end > acts[k].start
  BY DEF ActivityList, WellTimed
<1> SUFFICES ASSUME B # {} PROVE FALSE
  OBVIOUS
<1>1. PICK m \in B : \A n \in B : n \subseteq m => n = m
  <2>1. B \subseteq SUBSET (DOMAIN acts) /\ IsFiniteSet(DOMAIN acts)
    BY ListsAreFinite
  <2> HIDE DEF B
  <2> QED
    BY <2>1, LeastSubset
<1>2. PICK i \in DOMAIN acts, j \in DOMAIN acts : Wrong(i, j) /\ m = Before(i)
  BY <1>1
<1>3. PICK q \in PreviousMain(acts, i) : q = j \/ Precedes(acts, j, q)
  BY <1>2, PreviousMainExists
<1>4. /\ q \in DOMAIN acts /\ Main(acts[q]) /\ Precedes(acts, q, i)
      /\ acts[q].end <= acts[i].start
  BY <1>2, <1>3 DEF PreviousMain, NeighboursApart
<1>5. q # j /\ Precedes(acts, j, q)
  BY <1>2, <1>3, <1>4
<1>6. Before(q) \subseteq Before(i) /\ q \in Before(i) /\ q \notin Before(q)
  BY <1>0, <1>4 DEF Precedes
<1>7. ~Wrong(q, j)
  BY <1>1, <1>2, <1>6
<1>8. acts[j].end <= acts[q].start
  BY <1>2, <1>4, <1>5, <1>7
<1> QED
  BY <1>0, <1>2, <1>4, <1>8

-----------------------------------------------------------------------------
(* What nothing blocking means, check by check *)

Unblocked(list) == \A i \in list : i.severity # "blocking"

LEMMA CheckByCheck ==
  ASSUME NEW t, NEW base, ~Blocking(validateTrip(t, base))
  PROVE  /\ Parses(t)
         /\ Unblocked(BookingsKept(t, base))
         /\ \A day \in ToSet(t.days) :
              /\ Unblocked(OrderIssues(day))
              /\ Unblocked(EvidenceIssues(t, day))
              /\ \A a \in ToSet(day.activities) :
                    Unblocked(ActivityIssues(t, day, a))
<1>1. Parses(t)
  <2> SUFFICES ASSUME ~Parses(t) PROVE FALSE
    OBVIOUS
  <2>1. issue("INVALID_TRIP", <<"trip">>) \in validateTrip(t, base)
    BY DEF validateTrip
  <2> QED
    BY <2>1 DEF Blocking, issue, issueOn
<1>2. /\ Unblocked(validateTimeAndScope(t))
      /\ Unblocked(validateConstraints(t, base))
  BY <1>1 DEF validateTrip, Blocking, Unblocked
<1>3. Unblocked(BookingsKept(t, base))
  BY <1>2 DEF validateConstraints, Unblocked
<1>4. ASSUME NEW day \in ToSet(t.days)
      PROVE  /\ Unblocked(OrderIssues(day))
             /\ Unblocked(EvidenceIssues(t, day))
             /\ \A a \in ToSet(day.activities) :
                   Unblocked(ActivityIssues(t, day, a))
  <2>1. EvidenceIssues(t, day) \subseteq validateConstraints(t, base)
    BY DEF validateConstraints
  <2>2. OrderIssues(day) \subseteq validateTimeAndScope(t)
    BY DEF validateTimeAndScope
  <2>3. \A a \in ToSet(day.activities) :
          ActivityIssues(t, day, a) \subseteq validateTimeAndScope(t)
    BY DEF validateTimeAndScope
  <2> QED
    BY <1>2, <2>1, <2>2, <2>3 DEF Unblocked
<1> QED
  BY <1>1, <1>3, <1>4

\* What parses.
LEMMA ParsedDay ==
  ASSUME NEW t, Parses(t), NEW day \in ToSet(t.days)
  PROVE  /\ ActivityList(day.activities)
         /\ \A i \in DOMAIN day.activities :
              day.activities[i] \in ToSet(day.activities)
         /\ \A a \in ToSet(day.activities) :
              /\ WellTimed(a) /\ a.duration \in 1 .. 1440
              /\ a \in Activities(t)
              /\ \A w \in UNION ToSet(a.opens) : {w.start, w.end} \subseteq Int
              /\ \E i \in DOMAIN day.activities : day.activities[i] = a
         /\ \A l \in ToSet(day.legs) :
              /\ {l.start, l.end} \subseteq Int
              /\ {l.duration, l.buffer} \subseteq Nat
<1>1. day.activities \in Seq(Activities(t)) /\ day.legs \in Seq(Legs(t))
  BY DEF Parses
<1>2. /\ ToSet(day.activities) \subseteq Activities(t)
      /\ ToSet(day.legs) \subseteq Legs(t)
  BY DEF Activities, Legs
<1>3. \A a \in Activities(t) :
        /\ WellTimed(a) /\ a.duration \in 1 .. 1440
        /\ \A w \in UNION ToSet(a.opens) : {w.start, w.end} \subseteq Int
  BY DEF Parses, WellTimed
<1>4. \A l \in Legs(t) : /\ {l.start, l.end} \subseteq Int
                         /\ {l.duration, l.buffer} \subseteq Nat
  BY DEF Parses
<1>5. ActivityList(day.activities)
  BY <1>1, <1>3 DEF ActivityList
<1>6. /\ \A i \in DOMAIN day.activities :
              day.activities[i] \in ToSet(day.activities)
      /\ \A a \in ToSet(day.activities) :
              \E i \in DOMAIN day.activities : day.activities[i] = a
  BY DEF ToSet
<1> QED
  BY <1>2, <1>3, <1>4, <1>5, <1>6

LEMMA TravelIssuesBlock ==
  \A day, p, a : \A k \in TravelIssues(day, p, a) : k.severity = "blocking"
BY DEF TravelIssues, FirstLeg, issue, issueOn

LEMMA UnblockedOrder ==
  ASSUME NEW day, Unblocked(OrderIssues(day)),
         ActivityList(day.activities)
  PROVE  /\ NeighboursApart(day.activities)
         /\ \A i \in DOMAIN day.activities : Main(day.activities[i]) =>
              \A j \in PreviousMain(day.activities, i) :
                TravelIssues(day, day.activities[j], day.activities[i]) = {}
<1> DEFINE acts == day.activities
<1>1. ASSUME NEW i \in DOMAIN acts, Main(acts[i]),
             NEW j \in PreviousMain(acts, i)
      PROVE  /\ acts[j].end <= acts[i].start
             /\ TravelIssues(day, acts[j], acts[i]) = {}
  <2> DEFINE overlap == IF acts[i].start < acts[j].end
                        THEN {issueOn(day.date, "TIME_OVERLAP",
                                      <<acts[j].id, acts[i].id>>)}
                        ELSE {}
  <2>0. j \in DOMAIN acts
    BY DEF PreviousMain
  <2>1. TravelIssues(day, acts[j], acts[i]) \cup overlap \subseteq OrderIssues(day)
    BY <1>1 DEF OrderIssues
  <2>2. Unblocked(TravelIssues(day, acts[j], acts[i])) /\ Unblocked(overlap)
    BY <2>1 DEF Unblocked
  <2>3. ~(acts[i].start < acts[j].end)
    BY <2>2 DEF Unblocked, issue, issueOn
  <2>4. acts[j].end \in Int /\ acts[i].start \in Int
    BY <2>0 DEF ActivityList, WellTimed
  <2>5. \A k \in TravelIssues(day, acts[j], acts[i]) : k.severity = "blocking"
    BY TravelIssuesBlock
  <2> QED
    BY <2>2, <2>3, <2>4, <2>5 DEF Unblocked
<1> QED
  BY <1>1 DEF NeighboursApart

\* A way that raises no issue can be gone.
LEMMA TravelIsPossible ==
  ASSUME NEW day, NEW p, NEW a, TravelIssues(day, p, a) = {},
         p.place # a.place, p.end \in Int, a.start \in Int,
         \A l \in ToSet(day.legs) : /\ {l.start, l.end} \subseteq Int
                                    /\ {l.duration, l.buffer} \subseteq Nat
  PROVE  CanGo(day, p, a.place, a.start)
<1> DEFINE legs == FirstLeg(day, LAMBDA l : l.from = p.place /\ l.to = a.place)
<1>1. legs # {}
  BY DEF TravelIssues
<1>2. PICK l \in legs : TRUE
  BY <1>1
<1>3. l \in ToSet(day.legs) /\ l.from = p.place /\ l.to = a.place
  BY <1>2 DEF FirstLeg, ToSet
<1>4. /\ ~(p.end > l.end)
      /\ ~(Later(p.end, l.start) + l.duration + l.buffer > a.start)
  BY <1>1, <1>2 DEF TravelIssues
<1>5. /\ l.start \in Int /\ l.end \in Int /\ l.duration \in Nat
      /\ l.buffer \in Nat
  BY <1>3
<1>6. Arrives(p, l, a.start)
  BY <1>4, <1>5 DEF Arrives, Later
<1> QED
  BY <1>3, <1>4, <1>5, <1>6 DEF CanGo

-----------------------------------------------------------------------------
(* A day that raises nothing blocking can be walked *)

\* A main activity is on its day, and open while it lasts.
LEMMA MainsAreOpen ==
  ASSUME NEW t, Parses(t), NEW day \in ToSet(t.days),
         Unblocked(EvidenceIssues(t, day)),
         NEW a \in ToSet(day.activities), Main(a),
         Unblocked(ActivityIssues(t, day, a))
  PROVE  /\ localDate(a.start) = day.date /\ localDate(a.end) = day.date
         /\ \E windows \in ToSet(a.opens) : \E w \in windows :
                /\ w.start <= a.start /\ a.end <= w.end
                /\ a.start + a.duration <= w.end
<1> DEFINE off == \/ localDate(a.start) # day.date
                  \/ localDate(a.end) # day.date
                  \/ a.end - a.start < a.duration
           closed == \E windows \in ToSet(a.opens) :
                        \A w \in windows : a.start < w.start \/ a.end > w.end
           unknown == \A windows \in ToSet(a.opens) : windows = {}
<1>1. ~off
  <2>1. off => issueOn(day.date, "ACTIVITY_WINDOW", <<a.id>>)
                 \in ActivityIssues(t, day, a)
    BY DEF ActivityIssues
  <2> QED
    BY <2>1 DEF Unblocked, issue, issueOn
<1>2. ~closed
  <2>1. closed => issueOn(day.date, "OUTSIDE_OPENING_WINDOW", <<a.id>>)
                    \in ActivityIssues(t, day, a)
    BY DEF ActivityIssues
  <2> QED
    BY <2>1 DEF Unblocked, issue, issueOn
<1>3. ~unknown
  <2>1. unknown => issueOn(day.date, "OPENING_UNVERIFIED", <<a.id>>)
                     \in EvidenceIssues(t, day)
    <3> SUFFICES ASSUME unknown
                 PROVE  issueOn(day.date, "OPENING_UNVERIFIED", <<a.id>>)
                          \in EvidenceIssues(t, day)
      OBVIOUS
    <3> DEFINE codes(b) ==
            (IF \E field \in CriticalFields : \A c \in ToSet(t.claims) :
                    \/ c.group[1] \notin {b.id, b.place}
                    \/ c.group[3] # field
                    \/ c.group[2] \notin {NoTime, day.date}
             THEN {"MISSING_CRITICAL_EVIDENCE"} ELSE {}) \cup
            (IF b.reservation # "verified"
             THEN {"RESERVATION_UNVERIFIED"} ELSE {}) \cup
            (IF \A windows \in ToSet(b.opens) : windows = {}
             THEN {"OPENING_UNVERIFIED"} ELSE {})
           listed(b) == {issueOn(day.date, code, <<b.id>>) : code \in codes(b)}
    <3>1. "OPENING_UNVERIFIED" \in codes(a)
      OBVIOUS
    <3> HIDE DEF codes
    <3>2. issueOn(day.date, "OPENING_UNVERIFIED", <<a.id>>) \in listed(a)
      BY <3>1
    <3>3. UNION {listed(b) : b \in {c \in ToSet(day.activities) : Main(c)}}
            \subseteq EvidenceIssues(t, day)
      BY Zenon DEF EvidenceIssues, codes
    <3> HIDE DEF listed
    <3> QED
      BY <3>2, <3>3
  <2> QED
    BY <2>1 DEF Unblocked, issue, issueOn
<1>4. PICK windows \in ToSet(a.opens) : windows # {}
  BY <1>3
<1>5. PICK w \in windows : ~(a.start < w.start) /\ ~(a.end > w.end)
  BY <1>2
<1>6. /\ a.start \in Int /\ a.end \in Int /\ a.duration \in Int
      /\ w.start \in Int /\ w.end \in Int
  <2>1. WellTimed(a) /\ a.duration \in 1 .. 1440
    BY ParsedDay
  <2>2. {w.start, w.end} \subseteq Int
    BY ParsedDay
  <2> QED
    BY <2>1, <2>2, SMTT(30) DEF WellTimed
<1> QED
  BY <1>1, <1>5, <1>6

LEMMA DaysAreWalkable ==
  ASSUME NEW t, Parses(t), NEW day \in ToSet(t.days),
         Unblocked(OrderIssues(day)), Unblocked(EvidenceIssues(t, day)),
         \A a \in ToSet(day.activities) : Unblocked(ActivityIssues(t, day, a))
  PROVE  Walkable(day)
<1> DEFINE acts == day.activities
           main == {a \in ToSet(acts) : Main(a)}
           LeadsTo(p, a) == /\ p # a /\ p.start <= a.start
                            /\ ~ \E b \in main \ {p, a} :
                                  p.start <= b.start /\ b.start <= a.start
<1>1. /\ ActivityList(acts)
      /\ \A a \in main : \E i \in DOMAIN acts : acts[i] = a
      /\ \A i \in DOMAIN acts : acts[i] \in ToSet(acts)
  BY ParsedDay
<1>2. \A i \in DOMAIN acts : /\ i \in Int /\ acts[i].start \in Int
                             /\ acts[i].end \in Int
                             /\ acts[i].end > acts[i].start
  BY <1>1 DEF ActivityList, WellTimed
<1>3. \A i, j \in DOMAIN acts :
        Main(acts[i]) /\ Main(acts[j]) /\ Precedes(acts, j, i)
        => acts[j].end <= acts[i].start
  BY <1>1, UnblockedOrder, MainsApart
<1>4. \A a \in main :
         /\ localDate(a.start) = day.date /\ localDate(a.end) = day.date
         /\ \E windows \in ToSet(a.opens) : \E w \in windows :
                w.start <= a.start /\ a.start + a.duration <= w.end
  BY MainsAreOpen
<1>5. ASSUME NEW p \in main, NEW a \in main, p # a
      PROVE  p.end <= a.start \/ a.end <= p.start
  <2>1. PICK j \in DOMAIN acts, i \in DOMAIN acts : p = acts[j] /\ a = acts[i]
    BY <1>1
  <2>2. Precedes(acts, i, j) \/ Precedes(acts, j, i)
    BY <1>2, <1>5, <2>1 DEF Precedes
  <2> QED
    BY <1>3, <2>1, <2>2
<1>6. ASSUME NEW p \in main, NEW a \in main, LeadsTo(p, a), p.place # a.place
      PROVE  CanGo(day, p, a.place, a.start)
  <2>1. PICK j \in DOMAIN acts, i \in DOMAIN acts : p = acts[j] /\ a = acts[i]
    BY <1>1
  <2>2. /\ p.start \in Int /\ p.end \in Int /\ p.end > p.start
        /\ a.start \in Int /\ a.end \in Int /\ a.end > a.start
    BY <1>2, <2>1
  <2>3. p # a /\ p.start <= a.start
    BY <1>6
  <2>4. p.start < a.start
    BY <1>5, <2>2, <2>3
  <2>5. Precedes(acts, j, i)
    BY <2>1, <2>4 DEF Precedes
  <2>6. ASSUME NEW k \in DOMAIN acts, Main(acts[k]), Precedes(acts, k, i), k # j
        PROVE  Precedes(acts, k, j)
    <3> SUFFICES ASSUME Precedes(acts, j, k) PROVE FALSE
      BY <1>2, <2>6 DEF Precedes
    <3>1. p.end <= acts[k].start /\ acts[k].end <= a.start
      BY <1>3, <2>1, <2>6
    <3>2. /\ acts[k].start \in Int /\ acts[k].end \in Int
          /\ acts[k].end > acts[k].start
      BY <1>2
    <3>3. acts[k] \in main \ {p, a}
      BY <1>1, <2>2, <2>6, <3>1, <3>2
    <3>4. p.start <= acts[k].start /\ acts[k].start <= a.start
      BY <2>2, <3>1, <3>2
    <3> QED
      BY <1>6, <3>3, <3>4
  <2>7. j \in PreviousMain(acts, i)
    BY <2>1, <2>5, <2>6 DEF PreviousMain
  <2>8. TravelIssues(day, p, a) = {}
    BY <1>1, <2>1, <2>7, UnblockedOrder
  <2>9. \A l \in ToSet(day.legs) : /\ {l.start, l.end} \subseteq Int
                                   /\ {l.duration, l.buffer} \subseteq Nat
    BY ParsedDay
  <2> QED
    BY <1>6, <2>2, <2>8, <2>9, TravelIsPossible
<1> QED
  BY <1>4, <1>5, <1>6 DEF Walkable

-----------------------------------------------------------------------------
(* The bookings of a trip that raises nothing blocking are kept *)

LEMMA BookingTimes ==
  ASSUME NEW t, Parses(t), NEW b \in ExpectedBookings(t)
  PROVE  b.start \in Int /\ b.end \in Int
<1>1. b \in ToSet(t.brief.booked \o t.bookings)
  BY DEF ExpectedBookings, ToSet
<1> QED
  BY <1>1 DEF Parses

LEMMA SpansAreFree ==
  ASSUME NEW t, NEW base, Parses(t), Unblocked(BookingsKept(t, base)),
         ExpectedBookings(base) = ExpectedBookings(t)
  PROVE  BookingsFree(t)
<1> SUFFICES ASSUME NEW b \in ExpectedBookings(t), NEW a \in Activities(t),
                    b.start # NoTime, b.end # NoTime, b.type # "hotel",
                    Main(a), a.booking # b.id
             PROVE  a.end <= b.start \/ b.end <= a.start
  BY DEF BookingsFree
<1>1. OverlapIssues(t, b) \subseteq BookingsKept(t, base)
  <2>1. BookingKept(t, b) \subseteq BookingsKept(t, base)
    BY DEF BookingsKept
  <2>2. OverlapIssues(t, b) \subseteq BookingKept(t, b)
    BY DEF BookingKept
  <2> QED
    BY <2>1, <2>2
<1>2. ~(a.start < b.end /\ a.end > b.start)
  <2> SUFFICES ASSUME a.start < b.end /\ a.end > b.start PROVE FALSE
    OBVIOUS
  <2>1. issueOn(localDate(a.start), "LOCK_OVERLAP", <<a.id, b.id>>)
          \in OverlapIssues(t, b)
    BY DEF OverlapIssues
  <2> QED
    BY <1>1, <2>1 DEF Unblocked, issue, issueOn
<1>3. /\ a.start \in Int /\ a.end \in Int
      /\ b.start \in Int /\ b.end \in Int
  BY BookingTimes DEF Parses
<1> QED
  BY <1>2, <1>3

\* Of the activities before a booking there is a last one, if there is any.
LEMMA BeforeBookingExists ==
  ASSUME NEW day, NEW b, ActivityList(day.activities),
         NEW j \in DOMAIN day.activities,
         day.activities[j].booking # b.id, day.activities[j].start < b.start
  PROVE  BeforeBooking(day, b) # {}
<1> DEFINE acts == day.activities
           earlier == {k \in DOMAIN acts : /\ acts[k].booking # b.id
                                           /\ acts[k].start < b.start}
           Sooner(x, y) == \/ acts[x].start < acts[y].start
                           \/ acts[x].start = acts[y].start /\ y < x
           R == {q \in earlier \X earlier : Sooner(q[1], q[2])}
<1>1. earlier # {} /\ earlier \subseteq DOMAIN acts
  OBVIOUS
<1>2. IsFiniteSet(earlier)
  BY <1>1, ListsAreFinite
<1>3. \A x \in earlier : x \in Int /\ acts[x].start \in Int
  BY DEF ActivityList, WellTimed
<1>4. BeforeBooking(day, b) =
        {x \in earlier : \A y \in earlier :
            \/ acts[y].start < acts[x].start
            \/ acts[y].start = acts[x].start /\ x <= y}
  BY DEF BeforeBooking
<1> HIDE DEF earlier
<1>5. \A x, y \in earlier : <<x, y>> \in R <=> Sooner(x, y)
  OBVIOUS
<1> HIDE DEF R
<1>6. /\ \A x \in earlier : <<x, x>> \notin R
      /\ \A x, y, z \in earlier :
            <<x, y>> \in R /\ <<y, z>> \in R => <<x, z>> \in R
      /\ \A x, y \in earlier : x = y \/ <<x, y>> \in R \/ <<y, x>> \in R
  BY <1>3, <1>5
<1>7. PICK x \in earlier : \A y \in earlier \ {x} : <<y, x>> \in R
  BY <1>1, <1>2, <1>6, HasLast
<1>8. \A y \in earlier : \/ acts[y].start < acts[x].start
                         \/ acts[y].start = acts[x].start /\ x <= y
  <2> SUFFICES ASSUME NEW y \in earlier
               PROVE  \/ acts[y].start < acts[x].start
                      \/ acts[y].start = acts[x].start /\ x <= y
    OBVIOUS
  <2>1. CASE y = x
    BY <1>3, <2>1
  <2>2. CASE y # x
    <3>1. Sooner(y, x)
      BY <1>5, <1>7, <2>2
    <3> QED
      BY <1>3, <3>1
  <2> QED
    BY <2>1, <2>2
<1> QED
  BY <1>4, <1>8

\* From the activity that the validator looks at one arrives in time.
LEMMA WayToBooking ==
  ASSUME NEW t, NEW day, NEW b, Unblocked(BookingIssues(t, day, b)),
         NEW i \in BeforeBooking(day, b), ActivityList(day.activities),
         b.start \in Int,
         \A l \in ToSet(day.legs) : /\ {l.start, l.end} \subseteq Int
                                    /\ {l.duration, l.buffer} \subseteq Nat
  PROVE  \E l \in ToSet(day.legs) : Boards(t, day, b, day.activities[i], l)
<1> DEFINE p == day.activities[i]
           legs == FirstLeg(day, LAMBDA l : /\ l.from = p.place
                                            /\ l.booking = b.id \/ l.to = b.id)
           more == IF t.brief.extra THEN 15 ELSE 0
           late == \/ legs = {}
                   \/ \E l \in legs :
                        Later(p.end, l.start) + l.duration + l.buffer
                          + Lead(b.type) + more > b.start
<1>1. ~late
  <2>1. late => issueOn(day.date, "LOCK_UNREACHABLE", <<p.id, b.id>>)
                  \in BookingIssues(t, day, b)
    BY DEF BookingIssues, FirstLeg
  <2> QED
    BY <2>1 DEF Unblocked, issue, issueOn
<1>2. PICK l \in legs : TRUE
  BY <1>1
<1>3. /\ l \in ToSet(day.legs) /\ l.from = p.place
      /\ b.id \in {l.to, l.booking}
  BY <1>2 DEF FirstLeg, ToSet
<1>4. ~(Later(p.end, l.start) + l.duration + l.buffer
          + Lead(b.type) + more > b.start)
  BY <1>1, <1>2
<1>5. /\ p.end \in Int /\ l.start \in Int /\ l.duration \in Nat
      /\ l.buffer \in Nat /\ Lead(b.type) \in Nat /\ more \in Nat
  <2>1. i \in DOMAIN day.activities
    BY DEF BeforeBooking
  <2> QED
    BY <1>3, <2>1 DEF ActivityList, WellTimed, Lead
<1> HIDE DEF more
<1>6. Arrives(p, l, b.start - Lead(b.type) - more)
  BY <1>4, <1>5 DEF Arrives, Later
<1> QED
  BY <1>3, <1>6 DEF more, Boards

LEMMA BookingsAreMet ==
  ASSUME NEW t, NEW base, Parses(t), Unblocked(BookingsKept(t, base)),
         ExpectedBookings(base) = ExpectedBookings(t),
         NEW day \in ToSet(t.days), Unblocked(OrderIssues(day)),
         NEW b \in Timed(t), localDate(b.start) = day.date
  PROVE  \/ Reached(t, day, b)
         \/ LegIsOver(t, day, b)
         \/ HiddenByFallback(day, b)
<1> DEFINE acts == day.activities
<1>1. /\ ActivityList(acts)
      /\ \A a \in ToSet(acts) : \E i \in DOMAIN acts : acts[i] = a
      /\ \A i \in DOMAIN acts : acts[i] \in ToSet(acts)
      /\ \A l \in ToSet(day.legs) : /\ {l.start, l.end} \subseteq Int
                                    /\ {l.duration, l.buffer} \subseteq Nat
  BY ParsedDay
<1>2. /\ b \in ExpectedBookings(t) /\ b.start # NoTime /\ b.type # "hotel"
      /\ b.start \in Int
  BY BookingTimes DEF Timed
<1>3. Unblocked(BookingIssues(t, day, b))
  <2>1. BookingIssues(t, day, b) \subseteq BookingKept(t, b)
    BY <1>2 DEF BookingKept
  <2>2. BookingKept(t, b) \subseteq BookingsKept(t, base)
    BY <1>2 DEF BookingsKept
  <2> QED
    BY <2>1, <2>2 DEF Unblocked
<1>4. \A i \in DOMAIN acts : /\ i \in Int /\ acts[i].start \in Int
                             /\ acts[i].end \in Int
                             /\ acts[i].end > acts[i].start
  BY <1>1 DEF ActivityList, WellTimed
<1>5. CASE MainsBefore(day, b) = {}
  BY <1>5 DEF Reached, LastBefore
<1>6. CASE MainsBefore(day, b) # {}
  <2>1. PICK a \in MainsBefore(day, b) : TRUE
    BY <1>6
  <2>2. PICK j \in DOMAIN acts : acts[j] = a
    BY <1>1 DEF MainsBefore
  <2>3. acts[j].booking # b.id /\ acts[j].start < b.start
    BY <2>2 DEF MainsBefore
  <2>4. BeforeBooking(day, b) # {}
    BY <1>1, <2>3, BeforeBookingExists
  <2>5. PICK i \in BeforeBooking(day, b) : TRUE
    BY <2>4
  <2> DEFINE f == acts[i]
  <2>6. /\ i \in DOMAIN acts /\ f \in ToSet(acts) /\ f.start < b.start
        /\ f.booking # b.id
        /\ \A k \in DOMAIN acts :
             acts[k].booking # b.id /\ acts[k].start < b.start
             => acts[k].start <= f.start
    BY <1>1, <1>4 DEF BeforeBooking
  <2>7. \A c \in MainsBefore(day, b) : c.start <= f.start
    BY <1>1, <2>6 DEF MainsBefore
  <2>8. CASE ~Main(f)
    BY <2>6, <2>7, <2>8 DEF HiddenByFallback
  <2>9. CASE Main(f)
    <3>1. f \in MainsBefore(day, b)
      BY <2>6, <2>9 DEF MainsBefore
    <3>2. ASSUME NEW c \in MainsBefore(day, b), f.start <= c.start
          PROVE  c = f
      <4>1. PICK k \in DOMAIN acts : acts[k] = c /\ Main(acts[k])
        BY <1>1 DEF MainsBefore
      <4>2. acts[k].start = f.start
        BY <1>4, <2>6, <2>7, <3>2, <4>1
      <4>3. k = i
        <5> SUFFICES ASSUME k # i PROVE FALSE
          OBVIOUS
        <5>1. Precedes(acts, k, i) \/ Precedes(acts, i, k)
          BY <1>4, <2>6, <4>2 DEF Precedes
        <5>2. acts[k].end <= f.start \/ f.end <= acts[k].start
          BY <1>1, <2>6, <2>9, <4>1, <5>1, UnblockedOrder, MainsApart
        <5> QED
          BY <1>4, <2>6, <4>2, <5>2
      <4> QED
        BY <4>1, <4>3
    <3>3. PICK l \in ToSet(day.legs) : Boards(t, day, b, f, l)
      BY <1>1, <1>2, <1>3, WayToBooking
    <3>4. \A c \in LastBefore(day, b) : c = f
      BY <3>1, <3>2 DEF LastBefore
    <3>5. f \in LastBefore(day, b)
      BY <2>7, <3>1 DEF LastBefore
    <3>6. Connected(t, day, b)
      BY <3>3, <3>4 DEF Connected
    <3>7. f.end \in Int /\ l.end \in Int
      BY <1>1, <1>4, <2>6
    <3>8. CASE f.end <= l.end
      BY <3>3, <3>4, <3>8 DEF Reached
    <3>9. CASE f.end > l.end
      BY <3>3, <3>5, <3>6, <3>9 DEF LegIsOver
    <3> QED
      BY <3>7, <3>8, <3>9
  <2> QED
    BY <2>8, <2>9
<1> QED
  BY <1>5, <1>6

\* The hard validator is sound: a trip in which it finds nothing blocking, against
\* a baseline with the same confirmed bookings, can be gone on (validateTrip).
THEOREM ValidatorIsSound ==
  ASSUME NEW t, NEW base, ~Blocking(validateTrip(t, base)),
         ExpectedBookings(base) = ExpectedBookings(t)
  PROVE  Feasible(t)
<1>1. /\ Parses(t)
      /\ Unblocked(BookingsKept(t, base))
      /\ \A day \in ToSet(t.days) :
           /\ Unblocked(OrderIssues(day))
           /\ Unblocked(EvidenceIssues(t, day))
           /\ \A a \in ToSet(day.activities) :
                 Unblocked(ActivityIssues(t, day, a))
  BY CheckByCheck
<1>2. BookingsFree(t)
  BY <1>1, SpansAreFree
<1>3. ASSUME NEW i \in DOMAIN t.days
      PROVE  t.days[i] \in ToSet(t.days)
  BY DEF ToSet
<1>4. ASSUME NEW i \in DOMAIN t.days
      PROVE  Walkable(t.days[i])
  BY <1>1, <1>3, DaysAreWalkable
<1>5. ASSUME NEW i \in DOMAIN t.days, NEW b \in Timed(t),
             localDate(b.start) = t.days[i].date
      PROVE  \/ Reached(t, t.days[i], b)
             \/ LegIsOver(t, t.days[i], b)
             \/ HiddenByFallback(t.days[i], b)
  BY <1>1, <1>3, <1>5, BookingsAreMet
<1> QED
  BY <1>2, <1>4, <1>5 DEF Feasible

-----------------------------------------------------------------------------
(* Edits *)

\* What the theorems assume: the planner delivers a trip that parses, and calls
\* it as the validator finds it against a baseline with its bookings.
DeliveredTrip ==
    /\ Parses(BaseTrip)
    /\ BaseTrip.status # "blocked" =>
         \E base : /\ ExpectedBookings(base) = ExpectedBookings(BaseTrip)
                   /\ ~Blocking(validateTrip(BaseTrip, base))

LEMMA SameBookings ==
  ASSUME NEW t, NEW u, u.brief = t.brief, u.bookings = t.bookings
  PROVE  ExpectedBookings(u) = ExpectedBookings(t)
BY DEF ExpectedBookings

\* Version and status do not matter to where one can go.
LEMMA FeasibleByParts ==
  ASSUME NEW t, NEW u, Feasible(t),
         u.brief = t.brief, u.bookings = t.bookings, u.days = t.days
  PROVE  Feasible(u)
<1>1. ExpectedBookings(u) = ExpectedBookings(t)
  BY SameBookings
<1>2. Activities(u) = Activities(t) /\ Timed(u) = Timed(t)
  BY <1>1 DEF Activities, Timed
<1>3. BookingsFree(u)
  BY <1>1, <1>2 DEF Feasible, BookingsFree
<1>4. \A day, b, a, l : Boards(u, day, b, a, l) <=> Boards(t, day, b, a, l)
  BY DEF Boards
<1>5. \A day, b : /\ Reached(u, day, b) <=> Reached(t, day, b)
                  /\ Connected(u, day, b) <=> Connected(t, day, b)
  BY <1>4 DEF Reached, Connected
<1>6. \A day, b : LegIsOver(u, day, b) <=> LegIsOver(t, day, b)
  BY <1>4, <1>5 DEF LegIsOver
<1> QED
  BY <1>2, <1>3, <1>5, <1>6 DEF Feasible

\* A change keeps the parts of a trip, and only locks and budgets touch what the
\* user has confirmed.
LEMMA CandidateParts ==
  ASSUME NEW t, TripParts \subseteq DOMAIN t, NEW c
  PROVE  /\ DOMAIN Candidate(t, c) = DOMAIN t
         /\ c.type \notin {"lock", "budget"} =>
              /\ Candidate(t, c).brief = t.brief
              /\ Candidate(t, c).bookings = t.bookings
<1>1. CASE c.type = "note"
  BY <1>1 DEF Candidate, TripParts
<1>2. CASE c.type = "replan"
  BY <1>2 DEF Candidate
<1>3. CASE c.type = "budget"
  BY <1>3 DEF Candidate
<1>4. CASE c.type = "lock"
  BY <1>4 DEF Candidate, Locked
<1>5. CASE c.type \notin {"note", "replan", "budget", "lock"}
  <2>1. Candidate(t, c) = [t EXCEPT !.days = EditedDays(t, c)]
    BY <1>5 DEF Candidate
  <2> QED
    BY <2>1 DEF TripParts
<1> QED
  BY <1>1, <1>2, <1>3, <1>4, <1>5

\* Neither do they to what parses.
LEMMA ParsesByParts ==
  ASSUME NEW t, NEW u, Parses(t), TripParts \subseteq DOMAIN u,
         u.brief = t.brief, u.bookings = t.bookings, u.days = t.days
  PROVE  Parses(u)
<1>1. Activities(u) = Activities(t) /\ Legs(u) = Legs(t)
  BY DEF Activities, Legs
<1> QED
  BY <1>1 DEF Parses

\* A stored trip is the one that was checked, under its new version and status.
LEMMA StoredIsChecked ==
  ASSUME NEW t, Parses(t), NEW base, NEW version,
         ExpectedBookings(base) = ExpectedBookings(t),
         trip' = [t EXCEPT !.version = version,
                           !.status = Status(validateTrip(t, base))]
  PROVE  Parses(trip') /\ UsableIsFeasible'
<1>1. /\ DOMAIN trip' = DOMAIN t
      /\ trip'.brief = t.brief /\ trip'.bookings = t.bookings
      /\ trip'.days = t.days
      /\ trip'.status = Status(validateTrip(t, base))
      /\ TripParts \subseteq DOMAIN t
  BY DEF TripParts, Parses
<1>2. trip'.status # "blocked" => ~Blocking(validateTrip(t, base))
  BY <1>1 DEF Status
<1>3. trip'.status # "blocked" => Feasible(t)
  BY <1>2, ValidatorIsSound
<1>4. PICK u : u = trip'
  OBVIOUS
<1>5. u.status # "blocked" => Feasible(u)
  BY <1>1, <1>3, <1>4, FeasibleByParts
<1>6. Parses(u)
  BY <1>1, <1>4, ParsesByParts
<1> QED
  BY <1>4, <1>5, <1>6 DEF UsableIsFeasible, Feasible

LEMMA CommitKeepsEdits ==
  ASSUME EditsInv, NEW c, Commit(c)
  PROVE  EditsInv'
<1> DEFINE t == Candidate(trip, c)
           base == IF c.type \in {"lock", "budget"} THEN t ELSE trip
<1>1. /\ trip' = [t EXCEPT !.version = trip.version + 1,
                           !.status = Status(PreviewIssues(trip, c))]
      /\ PreviewIssues(trip, c) = validateTrip(t, base)
      /\ replan' = <<>> /\ Parses(t)
  BY DEF Commit, PreviewIssues
<1>2. c.type \notin {"lock", "budget"} =>
           t.brief = trip.brief /\ t.bookings = trip.bookings
  <2>1. TripParts \subseteq DOMAIN trip
    BY DEF EditsInv, Parses
  <2> QED
    BY <2>1, CandidateParts
<1> HIDE DEF t
<1>3. ExpectedBookings(base) = ExpectedBookings(t)
  BY <1>2, SameBookings
<1> HIDE DEF base
<1>4. Parses(trip') /\ UsableIsFeasible'
  BY <1>1, <1>3, StoredIsChecked
<1> QED
  BY <1>1, <1>4 DEF EditsInv, AskedInv

\* A change is handed to a model as it was previewed.
LEMMA StartKeepsEdits ==
  ASSUME EditsInv, NEW c \in Changes, StartReplan(c)
  PROVE  EditsInv'
<1>1. trip' = trip /\ replan' = <<[change |-> c, round |-> 1]>>
  BY DEF StartReplan
<1>2. Accepted(trip, c)
  BY DEF StartReplan, Accepted
<1>3. PICK r : r = replan'
  OBVIOUS
<1>4. "change" \in DOMAIN r[1] /\ r[1].change = c
  BY <1>1, <1>3
<1>5. PICK t : t = trip
  OBVIOUS
<1>6. Accepted(t, r[1].change) /\ trip' = t
  BY <1>1, <1>2, <1>4, <1>5
<1>7. AskedInv'
  BY <1>3, <1>4, <1>6 DEF AskedInv
<1> QED
  BY <1>1, <1>7 DEF EditsInv, UsableIsFeasible

LEMMA RoundKeepsEdits ==
  ASSUME EditsInv, NEW days, ReplanRound(days)
  PROVE  EditsInv'
<1> DEFINE base == Candidate(trip, replan[1].change)
           t == WithDays(base, days)
<1>1. CASE trip' = trip /\ replan' # <<>>
  <2>1. replan' = <<[replan[1] EXCEPT !.round = 2]>> /\ replan # <<>>
    BY <1>1 DEF ReplanRound
  <2>2. "change" \in DOMAIN replan[1] /\ Accepted(trip, replan[1].change)
    BY <2>1 DEF EditsInv, AskedInv
  <2>3. PICK r : r = replan'
    OBVIOUS
  <2>4. "change" \in DOMAIN r[1] /\ r[1].change = replan[1].change
    BY <2>1, <2>2, <2>3
  <2>5. PICK u : u = trip
    OBVIOUS
  <2>6. Accepted(u, r[1].change) /\ trip' = u
    BY <1>1, <2>2, <2>4, <2>5
  <2>7. AskedInv'
    BY <2>3, <2>4, <2>6 DEF AskedInv
  <2> QED
    BY <1>1, <2>7 DEF EditsInv, UsableIsFeasible
<1>2. CASE trip' = trip /\ replan' = <<>>
  BY <1>2 DEF EditsInv, UsableIsFeasible, AskedInv
<1>3. CASE trip' # trip
  <2>1. /\ trip' = [t EXCEPT !.version = trip.version + 1,
                             !.status = Status(validateTrip(t, base))]
        /\ replan # <<>> /\ replan' = <<>> /\ Parses(t)
    BY <1>3 DEF ReplanRound
  <2>2. TripParts \subseteq DOMAIN base
    BY <2>1 DEF EditsInv, AskedInv, Accepted, Parses
  <2> HIDE DEF base
  <2>3. t.brief = base.brief /\ t.bookings = base.bookings
    BY <2>2 DEF WithDays, TripParts
  <2> HIDE DEF t
  <2>4. ExpectedBookings(base) = ExpectedBookings(t)
    BY <2>3, SameBookings
  <2>5. Parses(trip') /\ UsableIsFeasible'
    BY <2>1, <2>4, StoredIsChecked
  <2> QED
    BY <2>1, <2>5 DEF EditsInv, AskedInv
<1> QED
  BY <1>1, <1>2, <1>3

LEMMA EditsStart ==
  ASSUME DeliveredTrip, EditsInit
  PROVE  EditsInv
<1>1. BaseTrip.status # "blocked" => Feasible(BaseTrip)
  BY ValidatorIsSound DEF DeliveredTrip
<1> QED
  BY <1>1 DEF EditsInit, EditsInv, AskedInv, UsableIsFeasible, DeliveredTrip

LEMMA EditKeepsEdits ==
  ASSUME EditsInv, [EditsNext]_editVars
  PROVE  EditsInv'
<1>1. CASE \E c \in Changes : Commit(c)
  BY <1>1, CommitKeepsEdits
<1>2. CASE \E c \in Changes : StartReplan(c)
  BY <1>2, StartKeepsEdits
<1>3. CASE Replan
  BY <1>3, RoundKeepsEdits DEF Replan
<1>4. CASE UNCHANGED editVars
  BY <1>4 DEF editVars, EditsInv, UsableIsFeasible, AskedInv
<1> QED
  BY <1>1, <1>2, <1>3, <1>4 DEF EditsNext

\* The inductive invariant of the edits: what is stored parses and is what it is
\* called, and what a model is asked about may be asked.
THEOREM EditsInvariant ==
  ASSUME DeliveredTrip
  PROVE  EditsSpec => []EditsInv
<1>1. EditsInit => EditsInv
  BY EditsStart
<1>2. EditsInv /\ [EditsNext]_editVars => EditsInv'
  BY EditKeepsEdits
<1> QED
  BY <1>1, <1>2, PTL DEF EditsSpec

\* Any sequence of edits, answered by the model with whatever days, keeps the
\* stored trip one that can be gone on unless it is called blocked
\* (previewChange, commitChange, localReplan).
THEOREM UsableTripsAreFeasible ==
  ASSUME DeliveredTrip
  PROVE  EditsSpec => []UsableIsFeasible
<1>1. EditsInv => UsableIsFeasible
  BY DEF EditsInv
<1> QED
  BY <1>1, EditsInvariant, PTL

-----------------------------------------------------------------------------
(* What an edit leaves alone *)

\* No id stands twice: what is said of two places of a trip.
LEMMA NotDoubled ==
  ASSUME NEW t, Doubled(t) = {},
         NEW i \in DOMAIN t.days, NEW j \in DOMAIN t.days[i].activities,
         NEW k \in DOMAIN t.days, NEW l \in DOMAIN t.days[k].activities,
         t.days[i].activities[j].id = t.days[k].activities[l].id
  PROVE  i = k /\ j = l
<1> DEFINE lists == ActivitiesByDay(t)
           id(p) == EntityAt(lists, p).id
<1>1. /\ DOMAIN lists = DOMAIN t.days
      /\ lists[i] = t.days[i].activities /\ lists[k] = t.days[k].activities
  BY DEF ActivitiesByDay
<1>2. <<i, j>> \in Places(lists) /\ <<k, l>> \in Places(lists)
  BY <1>1 DEF Places
<1>3. id(<<i, j>>) = id(<<k, l>>)
  BY <1>1 DEF EntityAt
<1>4. \A q \in Places(lists) : ~ \E o \in Places(lists) \ {q} : id(o) = id(q)
  BY DEF Doubled
<1> HIDE DEF lists, id
<1> QED
  BY <1>2, <1>3, <1>4

\* What is found of an id.
LEMMA FindSelects ==
  ASSUME NEW E, NEW s \in Seq(E), NEW id
  PROVE  /\ Find(s, id) \in Seq(E)
         /\ Find(s, id) = <<>> <=> \A i \in DOMAIN s : s[i].id # id
         /\ Find(s, id) # <<>> =>
              /\ Len(Find(s, id)) \in Nat /\ Len(Find(s, id)) >= 1
              /\ \E i \in DOMAIN s : Find(s, id)[1] = s[i] /\ s[i].id = id
<1>0. PICK S : S = {e \in ToSet(s) : e.id = id}
  OBVIOUS
<1>1. PICK q : q = Only(s, S) /\ q = Find(s, id)
  BY <1>0 DEF Find
<1>2. \A i \in DOMAIN s : s[i] \in S <=> s[i].id = id
  BY <1>0 DEF ToSet
<1>3. /\ q \in Seq(E \cap S) /\ ToSet(q) = ToSet(s) \cap S
      /\ q # <<>> => \E i \in DOMAIN s : s[i] \in S /\ q[1] = s[i]
  <2>1. /\ Only(s, S) \in Seq(E \cap S) /\ ToSet(Only(s, S)) = ToSet(s) \cap S
        /\ Only(s, S) # <<>> =>
              \E i \in DOMAIN s : s[i] \in S /\ Only(s, S)[1] = s[i]
    BY OnlySelects
  <2> QED
    BY <1>1, <2>1
<1>4. q \in Seq(E)
  BY <1>3
<1>5. q = <<>> <=> ToSet(q) = {}
  <2>1. DOMAIN q = {} <=> q = <<>>
    BY <1>4
  <2> QED
    BY <2>1 DEF ToSet
<1>6. ToSet(s) \cap S = {} <=> \A i \in DOMAIN s : s[i].id # id
  BY <1>2 DEF ToSet
<1>7. q # <<>> => Len(q) \in Nat /\ Len(q) >= 1
  BY <1>4
<1> QED
  BY <1>1, <1>2, <1>3, <1>4, <1>5, <1>6, <1>7

\* The activities and legs of a trip, place by place.
LEMMA ActivityPlaces ==
  ASSUME NEW t
  PROVE  /\ \A a : a \in Activities(t) <=>
              \E i \in DOMAIN t.days : \E j \in DOMAIN t.days[i].activities :
                 a = t.days[i].activities[j]
         /\ \A l : l \in Legs(t) <=>
              \E i \in DOMAIN t.days : \E j \in DOMAIN t.days[i].legs :
                 l = t.days[i].legs[j]
  BY DEF Activities, Legs, ToSet

LEMMA SameFactsChain ==
  \A a, b, c : SameFacts(a, b) /\ SameFacts(b, c) => SameFacts(a, c)
  BY DEF SameFacts

LEMMA OwnFacts == \A a : SameFacts(a, a)
  BY DEF SameFacts

LEMMA EditedFacts ==
  ASSUME NEW a, NEW c
  PROVE  SameFacts(a, EditedActivity(a, c))
  BY DEF SameFacts, EditedActivity

\* Two changes of scope make one.
LEMMA ScopeChain ==
  ASSUME NEW t, NEW p, NEW v, NEW dates,
         InScope(t, p, dates), InScope(p, v, dates)
  PROVE  InScope(t, v, dates)
<1>1. \A a \in Activities(t) : \E b \in Activities(v) : SameFacts(a, b)
  BY SameFactsChain DEF InScope
<1>2. /\ {a \in Activities(t) : a.locked} \subseteq Activities(v)
      /\ {l \in Legs(t) : l.locked} \subseteq Legs(v)
  BY DEF InScope
<1>3. /\ v.bookings = t.bookings /\ DOMAIN v.days = DOMAIN t.days
      /\ \A i \in DOMAIN t.days :
           /\ v.days[i].date = t.days[i].date
           /\ v.days[i] = t.days[i] \/ t.days[i].date \in dates
  BY DEF InScope
<1> QED
  BY <1>1, <1>2, <1>3 DEF InScope

\* What InScope is about are a trip's days and bookings.
LEMMA ScopeByParts ==
  ASSUME NEW t, NEW u, NEW v, NEW dates, InScope(t, u, dates),
         v.bookings = u.bookings, v.days = u.days
  PROVE  InScope(t, v, dates)
<1>1. Activities(v) = Activities(u) /\ Legs(v) = Legs(u)
  BY DEF Activities, Legs
<1> QED
  BY <1>1 DEF InScope

\* Days with the same activities and legs differ in notes only.
LEMMA SameEntitiesInScope ==
  ASSUME NEW t, NEW u, NEW dates,
         u.bookings = t.bookings, DOMAIN u.days = DOMAIN t.days,
         \A i \in DOMAIN t.days :
           /\ u.days[i].date = t.days[i].date
           /\ u.days[i].activities = t.days[i].activities
           /\ u.days[i].legs = t.days[i].legs
           /\ u.days[i] = t.days[i] \/ t.days[i].date \in dates
  PROVE  InScope(t, u, dates)
<1>1. \A a : a \in Activities(t) => a \in Activities(u)
  BY ActivityPlaces
<1>2. \A l : l \in Legs(t) => l \in Legs(u)
  BY ActivityPlaces
<1> QED
  BY <1>1, <1>2, OwnFacts DEF InScope

LEMMA NoteInScope ==
  ASSUME NEW t, Parses(t), NEW c, c.type = "note"
  PROVE  InScope(t, Candidate(t, c), AffectedDates(t, c))
<1> DEFINE on == DayOf(t, c.date)
           days == [i \in DOMAIN t.days |->
                      IF i \in on THEN [t.days[i] EXCEPT !.notes = c.text]
                      ELSE t.days[i]]
           u == [t EXCEPT !.days = days]
<1>1. /\ TripParts \subseteq DOMAIN t /\ t.days \in Seq(ToSet(t.days))
      /\ \A i \in DOMAIN t.days : DayParts \subseteq DOMAIN t.days[i]
  BY DEF Parses, ToSet
<1>2. u.days = days /\ u.bookings = t.bookings
  BY <1>1 DEF TripParts
<1>3. \A i \in on : t.days[i].date = c.date
  BY DEF DayOf
<1>4. AffectedDates(t, c) = {c.date} /\ Candidate(t, c) = u
  BY DEF AffectedDates, Candidate
<1> HIDE DEF on
<1>5. /\ DOMAIN days = DOMAIN t.days
      /\ \A i \in DOMAIN t.days :
           /\ days[i].date = t.days[i].date
           /\ days[i].activities = t.days[i].activities
           /\ days[i].legs = t.days[i].legs
           /\ days[i] = t.days[i] \/ t.days[i].date = c.date
  BY <1>1, <1>3 DEF DayParts
<1> HIDE DEF days, u
<1> QED
  BY <1>2, <1>4, <1>5, SameEntitiesInScope

\* The day and the activity that an edit starts from.
EditStart(t, id, from, j) ==
    /\ from \in DOMAIN t.days /\ j \in DOMAIN t.days[from].activities
    /\ t.days[from].activities[j].id = id
    /\ Find(t.days[from].activities, id) # <<>>
    /\ Find(t.days[from].activities, id)[1] = t.days[from].activities[j]

LEMMA EditStarts ==
  ASSUME NEW t, Parses(t), NEW id, DaysWith(t, id) # {}
  PROVE  \E j : EditStart(t, id, FirstDayWith(t, id), j)
<1> DEFINE from == FirstDayWith(t, id)
<1>1. PICK S : S = DaysWith(t, id)
  OBVIOUS
<1>2. S \subseteq Nat /\ S # {}
  <2>1. t.days \in Seq(ToSet(t.days))
    BY DEF Parses
  <2> QED
    BY <1>1, <2>1 DEF DaysWith
<1>3. \E i \in S : \A j \in S : i <= j
  BY <1>2, LeastNumber
<1>4. from \in S
  BY <1>1, <1>3 DEF FirstDayWith
<1>5. from \in DOMAIN t.days /\ Find(t.days[from].activities, id) # <<>>
  BY <1>1, <1>4 DEF DaysWith
<1>6. t.days[from].activities \in Seq(Activities(t))
  BY <1>5 DEF Parses, ToSet
<1> HIDE DEF from
<1>7. PICK j \in DOMAIN t.days[from].activities :
        /\ Find(t.days[from].activities, id)[1] = t.days[from].activities[j]
        /\ t.days[from].activities[j].id = id
  BY <1>5, <1>6, FindSelects
<1> QED
  BY <1>5, <1>7 DEF EditStart, from

\* What is edited is not locked.
LEMMA EditedIsUnlocked ==
  ASSUME NEW t, Parses(t), NEW c, c.type \in {"activity", "move"},
         LockConflicts(t, c) = {}, NEW j,
         EditStart(t, c.id, FirstDayWith(t, c.id), j)
  PROVE  ~t.days[FirstDayWith(t, c.id)].activities[j].locked
<1> DEFINE first == Find(t.days[FirstDayWith(t, c.id)].activities, c.id)
<1>1. /\ FirstDayWith(t, c.id) \in DOMAIN t.days
      /\ first # <<>>
      /\ first[1] = t.days[FirstDayWith(t, c.id)].activities[j]
  BY DEF EditStart
<1>2. t.days[FirstDayWith(t, c.id)].activities \in Seq(Activities(t))
  BY <1>1 DEF Parses, ToSet
<1>3. first \in Seq(Activities(t)) /\ Len(first) \in Nat /\ Len(first) >= 1
  BY <1>1, <1>2, FindSelects
<1>4. First(first) = SubSeq(first, 1, 1)
  BY <1>1 DEF First
<1>5. first[1] \in ToSet(First(first))
  <2> HIDE DEF first
  <2>1. 1 \in DOMAIN First(first) /\ First(first)[1] = first[1]
    BY <1>3, <1>4
  <2> QED
    BY <2>1 DEF ToSet
<1>6. {a.id : a \in {b \in ToSet(First(first)) : b.locked}} = {}
  BY DEF LockConflicts
<1> HIDE DEF first
<1>7. ~first[1].locked
  BY <1>5, <1>6
<1> QED
  BY <1>1, <1>7

\* Days that are as they were but for what an edit does to one activity, which
\* it keeps the facts of, are in scope.
LEMMA EditedInScope ==
  ASSUME NEW t, NEW u, NEW dates, NEW a, NEW e,
         u.bookings = t.bookings, DOMAIN u.days = DOMAIN t.days,
         ~a.locked, SameFacts(a, e), e \in Activities(u),
         \A i \in DOMAIN t.days :
           /\ u.days[i].date = t.days[i].date
           /\ u.days[i].legs = t.days[i].legs
           /\ u.days[i] = t.days[i] \/ t.days[i].date \in dates
           /\ \A j \in DOMAIN t.days[i].activities :
                \/ t.days[i].activities[j] = a
                \/ t.days[i].activities[j] \in ToSet(u.days[i].activities)
  PROVE  InScope(t, u, dates)
<1>1. \A b : b \in Activities(t) => b = a \/ b \in Activities(u)
  BY ActivityPlaces DEF ToSet
<1>2. \A l : l \in Legs(t) => l \in Legs(u)
  BY ActivityPlaces
<1> QED
  BY <1>1, <1>2, OwnFacts DEF InScope

LEMMA ActivityInScope ==
  ASSUME NEW t, Parses(t), NEW c, c.type = "activity",
         Applicable(t, c), LockConflicts(t, c) = {}
  PROVE  InScope(t, Candidate(t, c), AffectedDates(t, c))
<1>1. PICK from : from = FirstDayWith(t, c.id)
  OBVIOUS
<1>2. PICK n : EditStart(t, c.id, from, n)
  BY <1>1, EditStarts DEF Applicable
<1>3. PICK a : a = t.days[from].activities[n]
  OBVIOUS
<1>4. ~a.locked
  BY <1>1, <1>2, <1>3, EditedIsUnlocked
<1>5. PICK e : e = EditedActivity(a, c)
  OBVIOUS
<1>6. SameFacts(a, e)
  BY <1>5, EditedFacts
<1> DEFINE acts == [j \in DOMAIN t.days[from].activities |->
                      IF t.days[from].activities[j] = a THEN e
                      ELSE t.days[from].activities[j]]
           days == [t.days EXCEPT ![from].activities = acts]
           u == [t EXCEPT !.days = days]
<1>7. Candidate(t, c) = u
  BY <1>1, <1>2, <1>3, <1>5 DEF Candidate, EditedDays, EditStart
<1>8. /\ TripParts \subseteq DOMAIN t /\ t.days \in Seq(ToSet(t.days))
      /\ \A i \in DOMAIN t.days : DayParts \subseteq DOMAIN t.days[i]
  BY DEF Parses, ToSet
<1>9. u.days = days /\ u.bookings = t.bookings
  BY <1>8 DEF TripParts
<1>10. from \in DOMAIN t.days /\ n \in DOMAIN t.days[from].activities
  BY <1>2 DEF EditStart
<1>11. /\ acts[n] = e /\ DOMAIN acts = DOMAIN t.days[from].activities
       /\ \A j \in DOMAIN t.days[from].activities :
            t.days[from].activities[j] = a
              \/ acts[j] = t.days[from].activities[j]
  BY <1>3, <1>10
<1> HIDE DEF acts
<1>12. /\ DOMAIN days = DOMAIN t.days /\ days[from].activities = acts
       /\ \A i \in DOMAIN t.days : /\ days[i].date = t.days[i].date
                                   /\ days[i].legs = t.days[i].legs
                                   /\ i # from => days[i] = t.days[i]
  BY <1>8, <1>10 DEF DayParts
<1> HIDE DEF days, u
<1>13. e \in Activities(u)
  BY <1>9, <1>10, <1>11, <1>12, ActivityPlaces
<1>14. \A i \in DOMAIN t.days : \A j \in DOMAIN t.days[i].activities :
         \/ t.days[i].activities[j] = a
         \/ t.days[i].activities[j] \in ToSet(days[i].activities)
  BY <1>11, <1>12 DEF ToSet
<1>15. AffectedDates(t, c) = {t.days[from].date}
  BY <1>1 DEF AffectedDates
<1> QED
  BY <1>4, <1>6, <1>7, <1>9, <1>12, <1>13, <1>14, <1>15, EditedInScope

\* A move: the activity leaves its day, and no other of that day goes with it.
LEMMA MoveInScope ==
  ASSUME NEW t, Parses(t), NEW c, c.type = "move",
         Applicable(t, c), LockConflicts(t, c) = {}, Doubled(t) = {}
  PROVE  InScope(t, Candidate(t, c), AffectedDates(t, c))
<1>1. PICK from : from = FirstDayWith(t, c.id)
  OBVIOUS
<1>2. PICK n : EditStart(t, c.id, from, n)
  BY <1>1, EditStarts DEF Applicable
<1>3. PICK a : a = t.days[from].activities[n]
  OBVIOUS
<1>4. ~a.locked
  BY <1>1, <1>2, <1>3, EditedIsUnlocked
<1>5. PICK e : e = EditedActivity(a, c)
  OBVIOUS
<1>6. SameFacts(a, e)
  BY <1>5, EditedFacts
<1>7. PICK to : to = CHOOSE i \in DayOf(t, c.date) : TRUE
  OBVIOUS
<1>8. to \in DOMAIN t.days /\ t.days[to].date = c.date
  <2>1. DayOf(t, c.date) # {}
    BY DEF Applicable
  <2>2. to \in DayOf(t, c.date)
    BY <1>7, <2>1
  <2> QED
    BY <2>2 DEF DayOf
<1>9. PICK S : S = {b \in ToSet(t.days[from].activities) : b.id # c.id}
  OBVIOUS
<1>10. PICK rest : rest = Only(t.days[from].activities, S)
  OBVIOUS
<1> DEFINE taken == [t.days EXCEPT ![from].activities = rest]
           acts == Append(taken[to].activities, e)
           days == [taken EXCEPT ![to].activities = acts]
           u == [t EXCEPT !.days = days]
<1>11. Candidate(t, c) = u
  BY <1>1, <1>2, <1>3, <1>5, <1>7, <1>9, <1>10
     DEF Candidate, EditedDays, EditStart
<1>12. /\ TripParts \subseteq DOMAIN t /\ t.days \in Seq(ToSet(t.days))
       /\ \A i \in DOMAIN t.days :
            /\ DayParts \subseteq DOMAIN t.days[i]
            /\ t.days[i].activities \in Seq(Activities(t))
  BY DEF Parses, ToSet
<1>13. u.days = days /\ u.bookings = t.bookings
  BY <1>12 DEF TripParts
<1>14. from \in DOMAIN t.days /\ n \in DOMAIN t.days[from].activities
  BY <1>2 DEF EditStart
<1>15. rest \in Seq(Activities(t)) /\ ToSet(rest) = S
  <2>1. PICK s : s = t.days[from].activities
    OBVIOUS
  <2>2. s \in Seq(Activities(t))
    BY <1>12, <1>14, <2>1
  <2>3. /\ Only(s, S) \in Seq(Activities(t) \cap S)
        /\ ToSet(Only(s, S)) = ToSet(s) \cap S
    BY <2>2, OnlySelects
  <2> QED
    BY <1>9, <1>10, <2>1, <2>3
<1>16. /\ DOMAIN taken = DOMAIN t.days /\ taken[from].activities = rest
       /\ \A i \in DOMAIN t.days : /\ taken[i].date = t.days[i].date
                                   /\ taken[i].legs = t.days[i].legs
                                   /\ taken[i].activities \in Seq(Activities(t))
                                   /\ DayParts \subseteq DOMAIN taken[i]
                                   /\ i # from => taken[i] = t.days[i]
  BY <1>12, <1>14, <1>15 DEF DayParts
<1> HIDE DEF taken
<1>17. /\ Len(taken[to].activities) \in Nat
       /\ acts[Len(taken[to].activities) + 1] = e
       /\ Len(taken[to].activities) + 1 \in DOMAIN acts
       /\ \A j \in DOMAIN taken[to].activities :
            j \in DOMAIN acts /\ acts[j] = taken[to].activities[j]
  <2>1. PICK E : E = Activities(t) \cup {e}
    OBVIOUS
  <2>2. PICK q : q = taken[to].activities
    OBVIOUS
  <2>3. q \in Seq(E) /\ e \in E
    BY <1>8, <1>16, <2>1, <2>2
  <2> QED
    BY <2>2, <2>3
<1>18. e \in ToSet(acts) /\ ToSet(taken[to].activities) \subseteq ToSet(acts)
  BY <1>17 DEF ToSet
<1> HIDE DEF acts
<1>19. /\ DOMAIN days = DOMAIN t.days /\ days[to].activities = acts
       /\ \A i \in DOMAIN t.days : /\ days[i].date = t.days[i].date
                                   /\ days[i].legs = t.days[i].legs
                                   /\ i # to => days[i] = taken[i]
  BY <1>8, <1>16 DEF DayParts
<1> HIDE DEF days, u
<1>20. e \in Activities(u)
  BY <1>8, <1>13, <1>18, <1>19, ActivityPlaces DEF ToSet
<1>21. ASSUME NEW i \in DOMAIN t.days, NEW j \in DOMAIN t.days[i].activities,
              t.days[i].activities[j] # a
       PROVE  t.days[i].activities[j] \in ToSet(taken[i].activities)
  <2>1. t.days[i].activities[j] \in ToSet(t.days[i].activities)
    BY DEF ToSet
  <2>2. CASE i # from
    BY <1>16, <2>1, <2>2
  <2>3. CASE i = from
    <3>1. t.days[from].activities[n].id = c.id
      BY <1>2 DEF EditStart
    <3>2. t.days[i].activities[j].id # c.id
      BY <1>3, <1>14, <1>21, <2>3, <3>1, NotDoubled
    <3> QED
      BY <1>9, <1>15, <1>16, <2>1, <2>3, <3>2
  <2> QED
    BY <2>2, <2>3
<1>22. \A i \in DOMAIN t.days : \A j \in DOMAIN t.days[i].activities :
         \/ t.days[i].activities[j] = a
         \/ t.days[i].activities[j] \in ToSet(days[i].activities)
  BY <1>18, <1>19, <1>21
<1>23. AffectedDates(t, c) = {t.days[from].date, c.date}
  BY <1>1 DEF AffectedDates
<1>24. \A i \in DOMAIN t.days :
         days[i] = t.days[i] \/ t.days[i].date \in {t.days[from].date, c.date}
  BY <1>8, <1>16, <1>19
<1> QED
  BY <1>4, <1>6, <1>11, <1>13, <1>19, <1>20, <1>22, <1>23, <1>24, EditedInScope

\* Every change but a lock is in scope before a model has said a word.
LEMMA CandidateInScope ==
  ASSUME NEW t, Parses(t), Doubled(t) = {}, NEW c \in Changes, Accepted(t, c),
         c.type # "lock"
  PROVE  InScope(t, Candidate(t, c), AffectedDates(t, c))
<1>1. Applicable(t, c) /\ LockConflicts(t, c) = {}
  BY DEF Accepted
<1>2. CASE c.type = "note"
  BY <1>2, NoteInScope
<1>3. CASE c.type = "replan"
  BY <1>3, SameEntitiesInScope DEF Candidate
<1>4. CASE c.type = "budget"
  <2>1. TripParts \subseteq DOMAIN t
    BY DEF Parses
  <2>2. PICK u : u = Candidate(t, c)
    OBVIOUS
  <2>3. u.days = t.days /\ u.bookings = t.bookings
    BY <1>4, <2>1, <2>2 DEF Candidate, TripParts
  <2> QED
    BY <2>2, <2>3, SameEntitiesInScope
<1>5. CASE c.type = "activity"
  BY <1>1, <1>5, ActivityInScope
<1>6. CASE c.type = "move"
  BY <1>1, <1>6, MoveInScope
<1> QED
  BY <1>2, <1>3, <1>4, <1>5, <1>6, ChangesAssumption

-----------------------------------------------------------------------------
(* What a model may answer *)

\* An answer has as many activities as were asked about, each with the facts of
\* one of them, and no id twice: so each of those asked about is still there.
LEMMA NoneIsLost ==
  ASSUME NEW E, NEW old \in Seq(E), NEW new \in Seq(E),
         Len(new) = Len(old),
         \A m \in DOMAIN old : "id" \in DOMAIN old[m],
         \A j, k \in DOMAIN new : new[j].id = new[k].id => j = k,
         \A j \in DOMAIN new :
            \E m \in DOMAIN old : SameFacts(old[m], new[j])
  PROVE  \A m \in DOMAIN old : \E j \in DOMAIN new : SameFacts(old[m], new[j])
<1>1. PICK n \in Nat : n = Len(old) /\ n = Len(new)
  BY LenProperties
<1>2. PICK D : D = 1 .. n
  OBVIOUS
<1>3. DOMAIN old = D /\ DOMAIN new = D
  BY <1>1, <1>2, LenProperties
<1>4. IsFiniteSet(D)
  <2>1. 1 \in Int /\ n \in Int
    BY <1>1
  <2> QED
    BY <1>2, <2>1, FS_Interval
<1> DEFINE f == [j \in D |-> CHOOSE m \in D : SameFacts(old[m], new[j])]
<1>5. \A j \in D : f[j] \in D /\ SameFacts(old[f[j]], new[j])
  BY <1>3
<1>6. f \in [D -> D]
  BY <1>5
<1> HIDE DEF f
<1>7. \A j \in D : old[f[j]].id = new[j].id
  BY <1>3, <1>5 DEF SameFacts
<1>8. \A j, k \in D : f[j] = f[k] => j = k
  BY <1>3, <1>7
<1>9. f \in Injection(D, D)
  BY <1>6, <1>8 DEF Injection, IsInjective
<1>10. f \in Surjection(D, D)
  BY <1>4, <1>9, FS_Injection
<1>11. \A m \in D : \E j \in D : f[j] = m
  BY <1>10 DEF Surjection
<1> QED
  BY <1>3, <1>5, <1>11

\* Nothing blocking: dates follow each other, ids are not doubled, and what is
\* locked stays.
LEMMA CheckedAnswer ==
  ASSUME NEW v, NEW p, ~Blocking(validateTrip(v, p))
  PROVE  /\ Parses(v) /\ Doubled(v) = {}
         /\ \A i, j \in DOMAIN v.days : v.days[i].date = v.days[j].date => i = j
         /\ {a \in Activities(p) : a.locked} \subseteq Activities(v)
         /\ {l \in Legs(p) : l.locked} \subseteq Legs(v)
<1>1. Parses(v)
  BY CheckByCheck
<1>2. /\ Unblocked(validateTimeAndScope(v))
      /\ Unblocked(validateConstraints(v, p))
  BY <1>1 DEF validateTrip, Blocking, Unblocked
<1>3. Doubled(v) = {}
  <2> DEFINE lists == ActivitiesByDay(v)
             id(q) == EntityAt(lists, q).id
  <2>1. DuplicateIssues(v) \subseteq validateTimeAndScope(v)
    BY DEF validateTimeAndScope
  <2>2. ASSUME NEW q \in Places(lists), NEW o \in Places(lists) \ {q},
               id(o) = id(q), o[1] <= q[1]
        PROVE  FALSE
    <3>1. issueOn(v.days[q[1]].date, "DUPLICATE_ENTITY", <<id(q)>>)
            \in DuplicateIssues(v)
      BY <2>2 DEF DuplicateIssues
    <3> QED
      BY <1>2, <2>1, <3>1 DEF Unblocked, issueOn
  <2>3. \A q \in Places(lists) : q[1] \in Int
    <3>1. DOMAIN lists = DOMAIN v.days /\ DOMAIN v.days \subseteq Int
      BY <1>1 DEF ActivitiesByDay, Parses
    <3> QED
      BY <3>1 DEF Places
  <2>4. \A q \in Places(lists), o \in Places(lists) : id(o) = id(q) => o = q
    <3> HIDE DEF lists, id
    <3> QED
      BY <2>2, <2>3
  <2> QED
    BY <2>4 DEF Doubled
<1>4. ASSUME NEW i \in DOMAIN v.days, NEW j \in DOMAIN v.days,
             v.days[i].date = v.days[j].date
      PROVE  i = j
  <2>1. ScopeIssues(v) \subseteq validateTimeAndScope(v)
    BY DEF validateTimeAndScope
  <2>2. tripDates(v) = [k \in DOMAIN v.days |-> v.days[k].date]
    <3>1. tripDates(v) # [k \in DOMAIN v.days |-> v.days[k].date] =>
            issue("TRIP_DATES", <<"trip">>) \in ScopeIssues(v)
      BY DEF ScopeIssues
    <3> QED
      BY <1>2, <2>1, <3>1 DEF Unblocked, issue, issueOn
  <2>3. PICK first \in Int, last \in Int :
          first = v.brief.first /\ last = v.brief.last
    BY <1>1 DEF Parses
  <2>4. PICK S : S = 1 .. last - first + 1
    OBVIOUS
  <2>5. S \subseteq Int /\ tripDates(v) = [k \in S |-> first + k - 1]
    BY <2>3, <2>4 DEF tripDates
  <2>6. DOMAIN v.days = S
    BY <2>2, <2>5
  <2>7. v.days[i].date = first + i - 1 /\ v.days[j].date = first + j - 1
    BY <2>2, <2>5, <2>6
  <2>8. i \in Int /\ j \in Int /\ first + i - 1 = first + j - 1
    BY <1>4, <2>5, <2>6, <2>7
  <2> QED
    BY <2>3, <2>8
<1>5. LocksKept(v, p) \subseteq validateConstraints(v, p)
  BY DEF validateConstraints
<1>6. ASSUME NEW a \in Activities(p), a.locked
      PROVE  a \in Activities(v)
  <2>1. FirstOf(ActivitiesByDay(v), a.id) = {a}
    <3> SUFFICES ASSUME FirstOf(ActivitiesByDay(v), a.id) # {a}
                 PROVE  FALSE
      OBVIOUS
    <3>1. PICK day \in ToSet(p.days) : a \in ToSet(day.activities)
      BY DEF Activities
    <3>2. issueOn(day.date, "LOCKED_ACTIVITY_CHANGED", <<a.id>>)
            \in DayLocksKept(v, day)
      BY <1>6, <3>1 DEF DayLocksKept
    <3>3. DayLocksKept(v, day) \subseteq LocksKept(v, p)
      BY <3>1 DEF LocksKept
    <3> QED
      BY <1>2, <1>5, <3>2, <3>3 DEF Unblocked, issueOn
  <2>2. PICK q \in Places(ActivitiesByDay(v)) :
          a = EntityAt(ActivitiesByDay(v), q)
    BY <2>1 DEF FirstOf
  <2> QED
    BY <2>2, ActivityPlaces DEF Places, EntityAt, ActivitiesByDay
<1>7. ASSUME NEW l \in Legs(p), l.locked
      PROVE  l \in Legs(v)
  <2>1. FirstOf(LegsByDay(v), l.id) = {l}
    <3> SUFFICES ASSUME FirstOf(LegsByDay(v), l.id) # {l}
                 PROVE  FALSE
      OBVIOUS
    <3>1. PICK day \in ToSet(p.days) : l \in ToSet(day.legs)
      BY DEF Legs
    <3>2. issueOn(day.date, "LOCKED_LEG_CHANGED", <<l.id>>)
            \in DayLocksKept(v, day)
      BY <1>7, <3>1 DEF DayLocksKept
    <3>3. DayLocksKept(v, day) \subseteq LocksKept(v, p)
      BY <3>1 DEF LocksKept
    <3> QED
      BY <1>2, <1>5, <3>2, <3>3 DEF Unblocked, issueOn
  <2>2. PICK q \in Places(LegsByDay(v)) : l = EntityAt(LegsByDay(v), q)
    BY <2>1 DEF FirstOf
  <2> QED
    BY <2>2, ActivityPlaces DEF Places, EntityAt, LegsByDay
<1> QED
  BY <1>1, <1>3, <1>4, <1>6, <1>7

LEMMA KeptIsList ==
  ASSUME NEW E, NEW s \in Seq(E), NEW S
  PROVE  \E D : Only(s, S) \in Seq(D)
  BY OnlySelects

LEMMA FirstKept ==
  ASSUME NEW E, NEW s \in Seq(E), NEW S, Only(s, S) # <<>>
  PROVE  Only(s, S)[1] \in S
  BY OnlySelects

\* Where a round puts the days of an answer.
LEMMA AnswerPlaces ==
  ASSUME NEW p, Parses(p), NEW D, NEW days \in Seq(D)
  PROVE  /\ WithDays(p, days).bookings = p.bookings
         /\ DOMAIN WithDays(p, days).days = DOMAIN p.days
         /\ \A k \in DOMAIN p.days :
              \/ WithDays(p, days).days[k] = p.days[k]
              \/ /\ WithDays(p, days).days[k] \in ToSet(days)
                 /\ WithDays(p, days).days[k].date = p.days[k].date
<1> DEFINE S(k) == {d \in ToSet(days) : d.date = p.days[k].date}
           new(k) == Only(days, S(k))
           put == [k \in DOMAIN p.days |->
                     IF new(k) = <<>> THEN p.days[k] ELSE new(k)[1]]
<1>1. WithDays(p, days) = [p EXCEPT !.days = put]
  BY DEF WithDays
<1>2. TripParts \subseteq DOMAIN p
  BY DEF Parses
<1>3. /\ WithDays(p, days).bookings = p.bookings
      /\ WithDays(p, days).days = put
  BY <1>1, <1>2 DEF TripParts
<1>4. ASSUME NEW k \in DOMAIN p.days
      PROVE  \/ put[k] = p.days[k]
             \/ put[k] \in ToSet(days) /\ put[k].date = p.days[k].date
  <2>1. PICK T : T = S(k)
    OBVIOUS
  <2>2. Only(days, T) # <<>> => Only(days, T)[1] \in T
    BY FirstKept
  <2>3. new(k) # <<>> => new(k)[1] \in S(k)
    BY <2>1, <2>2
  <2> QED
    BY <2>3
<1> HIDE DEF put
<1> QED
  <2>1. DOMAIN put = DOMAIN p.days
    BY DEF put
  <2> QED
    BY <1>3, <1>4, <2>1

LEMMA AnswerInScope ==
  ASSUME NEW p, Parses(p), NEW dates, NEW D, NEW days \in Seq(D),
         AllowedDays(p, dates, days),
         ~Blocking(validateTrip(WithDays(p, days), p))
  PROVE  InScope(p, WithDays(p, days), dates)
<1>1. PICK v : v = WithDays(p, days)
  OBVIOUS
<1>2. /\ Parses(v) /\ Doubled(v) = {}
      /\ \A i, j \in DOMAIN v.days : v.days[i].date = v.days[j].date => i = j
      /\ {a \in Activities(p) : a.locked} \subseteq Activities(v)
      /\ {l \in Legs(p) : l.locked} \subseteq Legs(v)
  BY <1>1, CheckedAnswer
<1>3. /\ v.bookings = p.bookings /\ DOMAIN v.days = DOMAIN p.days
      /\ \A k \in DOMAIN p.days :
           \/ v.days[k] = p.days[k]
           \/ v.days[k] \in ToSet(days) /\ v.days[k].date = p.days[k].date
  BY <1>1, AnswerPlaces
<1>4. \A k \in DOMAIN p.days : v.days[k].date = p.days[k].date
  BY <1>3
<1>5. \A i \in DOMAIN days : days[i].date \in dates
  BY DEF AllowedDays
<1>6. \A k \in DOMAIN p.days :
        v.days[k] = p.days[k] \/ p.days[k].date \in dates
  BY <1>3, <1>5 DEF ToSet
<1>7. ASSUME NEW k \in DOMAIN p.days, v.days[k] # p.days[k]
      PROVE  /\ Len(v.days[k].activities) = Len(p.days[k].activities)
             /\ \A a \in ToSet(v.days[k].activities) :
                  AllowedActivity(a, p.days[k])
  <2>1. PICK i \in DOMAIN days :
          days[i] = v.days[k] /\ days[i].date = p.days[k].date
    BY <1>3, <1>7 DEF ToSet
  <2>2. PICK o : o = CHOOSE m \in DOMAIN p.days : p.days[m].date = days[i].date
    OBVIOUS
  <2>3. o \in DOMAIN p.days /\ p.days[o].date = days[i].date
    BY <2>1, <2>2
  <2>4. o = k
    BY <1>2, <1>3, <1>4, <2>1, <2>3
  <2>5. /\ Len(days[i].activities) = Len(p.days[o].activities)
        /\ \A a \in ToSet(days[i].activities) : AllowedActivity(a, p.days[o])
    BY <2>2 DEF AllowedDays
  <2> QED
    BY <2>1, <2>4, <2>5
<1>8. ASSUME NEW k \in DOMAIN p.days, v.days[k] # p.days[k],
             NEW m \in DOMAIN p.days[k].activities
      PROVE  \E j \in DOMAIN v.days[k].activities :
               SameFacts(p.days[k].activities[m], v.days[k].activities[j])
  <2>1. PICK old : old = p.days[k].activities
    OBVIOUS
  <2>2. PICK new : new = v.days[k].activities
    OBVIOUS
  <2>3. PICK E : E = Activities(p) \cup Activities(v)
    OBVIOUS
  <2>4. old \in Seq(Activities(p)) /\ new \in Seq(Activities(v))
    BY <1>2, <1>3, <2>1, <2>2 DEF Parses, ToSet
  <2>5. old \in Seq(E) /\ new \in Seq(E)
    BY <2>3, <2>4
  <2>6. \A n \in DOMAIN old : "id" \in DOMAIN old[n]
    <3>1. \A a \in Activities(p) : "id" \in DOMAIN a
      BY DEF Parses, ActivityParts
    <3> QED
      BY <2>4, <3>1
  <2>7. \A i, j \in DOMAIN new : new[i].id = new[j].id => i = j
    BY <1>2, <1>3, <2>2, NotDoubled
  <2>8. Len(new) = Len(old)
    BY <1>7, <1>8, <2>1, <2>2
  <2>9. ASSUME NEW j \in DOMAIN new
        PROVE  \E n \in DOMAIN old : SameFacts(old[n], new[j])
    <3>1. AllowedActivity(new[j], p.days[k])
      BY <1>7, <1>8, <2>2 DEF ToSet
    <3>2. PICK first : first = Find(old, new[j].id)
      OBVIOUS
    <3>3. first # <<>> /\ SameFacts(first[1], new[j])
      BY <2>1, <3>1, <3>2 DEF AllowedActivity
    <3>4. \E n \in DOMAIN old : first[1] = old[n]
      BY <2>5, <3>2, <3>3, FindSelects
    <3> QED
      BY <3>3, <3>4
  <2>10. \A n \in DOMAIN old : \E j \in DOMAIN new : SameFacts(old[n], new[j])
    BY <2>5, <2>6, <2>7, <2>8, <2>9, NoneIsLost
  <2> QED
    BY <2>1, <2>2, <2>10
<1>9. \A a \in Activities(p) : \E b \in Activities(v) : SameFacts(a, b)
  <2> SUFFICES ASSUME NEW a \in Activities(p)
               PROVE  \E b \in Activities(v) : SameFacts(a, b)
    OBVIOUS
  <2>0. PICK k \in DOMAIN p.days : \E m \in DOMAIN p.days[k].activities :
          a = p.days[k].activities[m]
    BY ActivityPlaces
  <2>1. PICK m \in DOMAIN p.days[k].activities : a = p.days[k].activities[m]
    BY <2>0
  <2>2. CASE v.days[k] = p.days[k]
    BY <1>3, <2>1, <2>2, ActivityPlaces, OwnFacts
  <2>3. CASE v.days[k] # p.days[k]
    BY <1>3, <1>8, <2>1, <2>3, ActivityPlaces
  <2> QED
    BY <2>2, <2>3
<1> QED
  BY <1>1, <1>2, <1>3, <1>4, <1>6, <1>9 DEF InScope

\* Whatever is answered is a list of days.
LEMMA AnswersAreLists ==
  ASSUME NEW t, Parses(t), NEW dates, NEW days \in AnsweredDays(t, dates)
  PROVE  \E D : days \in Seq(D)
<1> DEFINE on == {d \in ToSet(t.days) : d.date \in dates}
           asked == Only(t.days, on)
           others == Only(t.days, ToSet(t.days) \ on)
           changed == UNION {{[asked EXCEPT ![i] = day] :
                                day \in DayAnswers(asked[i])} : i \in DOMAIN asked}
<1>1. \A S : \E D : Only(t.days, S) \in Seq(D)
  <2>1. t.days \in Seq(ToSet(t.days))
    BY DEF Parses
  <2> QED
    BY <2>1, KeptIsList
<1>2. CASE days = <<>>
  BY <1>2
<1>3. CASE days = others
  <2>1. PICK S : S = ToSet(t.days) \ on
    OBVIOUS
  <2> QED
    BY <1>1, <1>3, <2>1
<1>4. CASE days \in changed
  <2>1. PICK D : asked \in Seq(D)
    <3>1. PICK S : S = on
      OBVIOUS
    <3> QED
      BY <1>1, <3>1
  <2> HIDE DEF asked
  <2>2. PICK i \in DOMAIN asked :
          \E day \in DayAnswers(asked[i]) : days = [asked EXCEPT ![i] = day]
    BY <1>4
  <2>3. PICK day : days = [asked EXCEPT ![i] = day]
    BY <2>2
  <2>4. PICK E : E = D \cup {day}
    OBVIOUS
  <2>5. asked \in Seq(E) /\ day \in E
    BY <2>1, <2>4
  <2>6. days \in Seq(E)
    BY <2>2, <2>3, <2>5
  <2> QED
    BY <2>6
<1>5. days \in {<<>>, others} \cup changed
  BY DEF AnsweredDays
<1> HIDE DEF changed, others
<1> QED
  BY <1>2, <1>3, <1>4, <1>5

\* A change as commitChange saves it.
LEMMA CommitInScope ==
  ASSUME EditsInv, Doubled(trip) = {}, NEW c \in Changes, Commit(c)
  PROVE  \/ InScope(trip, trip', AffectedDates(trip, c))
         \/ /\ c.type = "lock"
            /\ trip' = [Locked(trip, c) EXCEPT !.version = trip'.version,
                                               !.status = trip'.status]
<1>1. /\ trip' = [Candidate(trip, c) EXCEPT
                    !.version = trip.version + 1,
                    !.status = Status(PreviewIssues(trip, c))]
      /\ Accepted(trip, c) /\ Parses(trip)
  BY DEF Commit, Accepted, EditsInv
<1>2. PICK u : u = Candidate(trip, c)
  OBVIOUS
<1>3. TripParts \subseteq DOMAIN u
  BY <1>1, <1>2 DEF Accepted, Parses
<1>4. PICK t : t = trip'
  OBVIOUS
<1>5. /\ t.version = trip.version + 1
      /\ t.status = Status(PreviewIssues(trip, c))
      /\ t.days = u.days /\ t.bookings = u.bookings
  BY <1>1, <1>2, <1>3, <1>4 DEF TripParts
<1>6. CASE c.type = "lock"
  <2>1. u = Locked(trip, c)
    BY <1>2, <1>6 DEF Candidate
  <2> QED
    BY <1>1, <1>2, <1>4, <1>5, <1>6, <2>1
<1>7. CASE c.type # "lock"
  <2>1. InScope(trip, u, AffectedDates(trip, c))
    BY <1>1, <1>2, <1>7, CandidateInScope
  <2>2. PICK dates : dates = AffectedDates(trip, c)
    OBVIOUS
  <2>3. PICK old : old = trip
    OBVIOUS
  <2>4. InScope(old, t, dates)
    BY <1>5, <2>1, <2>2, <2>3, ScopeByParts
  <2> QED
    BY <1>4, <2>2, <2>3, <2>4
<1> QED
  BY <1>6, <1>7

\* An answer that is accepted becomes the trip.
LEMMA RoundInScope ==
  ASSUME EditsInv, Doubled(trip) = {}, replan # <<>>, trip' # trip,
         NEW days \in AnsweredDays(Candidate(trip, replan[1].change),
                                   AffectedDates(trip, replan[1].change)),
         ReplanRound(days)
  PROVE  LET c == replan[1].change IN
         \/ InScope(trip, trip', AffectedDates(trip, c))
         \/ /\ c.type = "lock"
            /\ trip' = [Locked(trip, c) EXCEPT !.version = trip'.version,
                                               !.status = trip'.status]
<1>1. PICK c : c = replan[1].change
  OBVIOUS
<1>2. PICK old : old = trip
  OBVIOUS
<1>3. PICK p : p = Candidate(old, c)
  OBVIOUS
<1>4. PICK dates : dates = AffectedDates(old, c)
  OBVIOUS
<1>5. PICK v : v = WithDays(p, days)
  OBVIOUS
<1>6. c \in Changes /\ Accepted(old, c) /\ Parses(old) /\ Parses(p)
  BY <1>1, <1>2, <1>3 DEF EditsInv, AskedInv, Accepted
<1>7. /\ AllowedDays(p, dates, days) /\ Parses(v)
      /\ ~Blocking(validateTrip(v, p))
      /\ trip' = [v EXCEPT !.version = old.version + 1,
                           !.status = Status(validateTrip(v, p))]
  BY <1>1, <1>2, <1>3, <1>4, <1>5 DEF ReplanRound
<1>8. PICK t : t = trip'
  OBVIOUS
<1>9. /\ t.version = old.version + 1
      /\ t.status = Status(validateTrip(v, p))
      /\ t.days = v.days /\ t.bookings = v.bookings
  <2>1. TripParts \subseteq DOMAIN v
    BY <1>7 DEF Parses
  <2> QED
    BY <1>7, <1>8, <2>1 DEF TripParts
<1>10. PICK D : days \in Seq(D)
  <2>1. days \in AnsweredDays(p, dates)
    BY <1>1, <1>2, <1>3, <1>4
  <2> QED
    BY <1>6, <2>1, AnswersAreLists
<1>11. InScope(p, v, dates)
  BY <1>5, <1>6, <1>7, <1>10, AnswerInScope
<1>12. CASE c.type # "lock"
  <2>1. InScope(old, p, dates)
    BY <1>2, <1>3, <1>4, <1>6, <1>12, CandidateInScope
  <2>2. InScope(old, v, dates)
    BY <1>11, <2>1, ScopeChain
  <2>3. InScope(old, t, dates)
    BY <1>9, <2>2, ScopeByParts
  <2> QED
    BY <1>1, <1>2, <1>4, <1>8, <2>3
<1>13. CASE c.type = "lock"
  <2>1. dates = {}
    BY <1>4, <1>13 DEF AffectedDates
  <2>2. \A k \in DOMAIN p.days : v.days[k] = p.days[k]
    BY <1>11, <2>1 DEF InScope
  <2>3. p = Locked(old, c)
    BY <1>3, <1>13 DEF Candidate
  <2> DEFINE put == [k \in DOMAIN p.days |->
                 LET new == Only(days, {d \in ToSet(days) :
                                          d.date = p.days[k].date})
                 IN  IF new = <<>> THEN p.days[k] ELSE new[1]]
  <2>4. v = [p EXCEPT !.days = put]
    BY <1>5 DEF WithDays
  <2>5. DOMAIN put = DOMAIN p.days /\ put = [k \in DOMAIN p.days |-> put[k]]
    OBVIOUS
  <2> HIDE DEF put
  <2>6. TripParts \subseteq DOMAIN p /\ p.days \in Seq(ToSet(p.days))
    BY <1>6 DEF Parses
  <2>7. v.days = put
    BY <2>4, <2>6 DEF TripParts
  <2>8. put = p.days
    BY <2>2, <2>5, <2>6, <2>7
  <2>9. v = p
    <3>1. p = [x \in DOMAIN p |-> p[x]]
      BY <2>3 DEF Locked
    <3> QED
      BY <2>4, <2>8, <3>1
  <2> QED
    BY <1>1, <1>2, <1>7, <1>8, <1>9, <1>13, <2>3, <2>9
<1> QED
  BY <1>12, <1>13

\* A step that changes the trip changes what it was asked to change and no more,
\* whatever a model answers: what is locked stays, activities keep their facts,
\* days that the change does not name are left alone (previewChange,
\* commitChange, localReplan).
THEOREM ChangesStayInScope ==
  ASSUME DeliveredTrip
  PROVE  EditsSpec => EditsStayInScope
<1> DEFINE Step ==
      trip' # trip /\ Doubled(trip) = {} =>
        \E c \in Changes :
          /\ Applicable(trip, c) /\ (replan # <<>> => c = replan[1].change)
          /\ \/ InScope(trip, trip', AffectedDates(trip, c))
             \/ /\ c.type = "lock"
                /\ trip' = [Locked(trip, c) EXCEPT !.version = trip'.version,
                                                   !.status = trip'.status]
<1>1. ASSUME EditsInv, EditsNext
      PROVE  Step
  <2> SUFFICES ASSUME trip' # trip, Doubled(trip) = {}
               PROVE  Step
    OBVIOUS
  <2>1. CASE \E c \in Changes : Commit(c)
    <3>1. PICK c \in Changes : Commit(c)
      BY <2>1
    <3>2. Applicable(trip, c) /\ replan = <<>>
      BY <3>1 DEF Commit
    <3> QED
      BY <1>1, <3>1, <3>2, CommitInScope
  <2>2. CASE \E c \in Changes : StartReplan(c)
    BY <2>2 DEF StartReplan
  <2>3. CASE Replan
    <3>1. PICK days \in AnsweredDays(Candidate(trip, replan[1].change),
                                     AffectedDates(trip, replan[1].change)) :
            ReplanRound(days) /\ replan # <<>>
      BY <2>3 DEF Replan
    <3>2. /\ replan[1].change \in Changes
          /\ Applicable(trip, replan[1].change)
      BY <1>1, <3>1 DEF EditsInv, AskedInv, Accepted
    <3> QED
      BY <1>1, <3>1, <3>2, RoundInScope
  <2> QED
    BY <1>1, <2>1, <2>2, <2>3 DEF EditsNext
<1>2. EditsInv /\ [EditsNext]_editVars => [Step]_editVars
  BY <1>1
<1>3. EditsSpec => [][Step]_editVars
  BY <1>2, EditsInvariant, PTL DEF EditsSpec
<1> QED
  BY <1>3 DEF EditsStayInScope

-----------------------------------------------------------------------------
(* mergeEvidence *)

IsMerge(g, s) ==
  g = [t \in SUBSET (DOMAIN s) |->
         IF t = {} THEN <<>> ELSE MergeOne(g[t \ {Max(t)}], s[Max(t)])]

LEMMA MergeIsChosen ==
  ASSUME NEW s
  PROVE  Merge(s) = (CHOOSE g : IsMerge(g, s))[DOMAIN s]
  BY SMT DEF Merge, FoldLeft, MapThenFoldSet, IsMerge

\* A set of pieces of evidence in which one may have another's name.
Shared(M) == \A e, m \in M : [e EXCEPT !.id = m.id] \in M

LEMMA MergedIn ==
  ASSUME NEW M, Shared(M), NEW r \in Seq(M), NEW e \in M
  PROVE  MergeOne(r, e) \in Seq(M)
<1>1. Append(r, e) \in Seq(M)
  BY AppendProperties
<1>2. PICK n \in Nat : n = Len(r) /\ DOMAIN r = 1 .. n
  BY LenProperties
<1>3. \A i \in 1 .. n : r[i] \in M
  BY <1>2, ElementOfSeq
<1>4. \A i \in 1 .. n : [e EXCEPT !.id = r[i].id] \in M
  BY <1>3 DEF Shared
<1> DEFINE q == [i \in DOMAIN r |->
                   IF MergeKey(r[i]) = MergeKey(e) /\ e.at > r[i].at
                   THEN [e EXCEPT !.id = r[i].id] ELSE r[i]]
<1>5. q \in [1 .. n -> M]
  BY <1>2, <1>3, <1>4
<1>6. q \in Seq(M)
  BY <1>5
<1> QED
  BY <1>1, <1>6 DEF MergeOne

LEMMA MergeSteps ==
  ASSUME NEW M, Shared(M), NEW s \in Seq(M)
  PROVE  \E p : /\ p[0] = <<>>
                /\ \A k \in 1 .. Len(s) : p[k] = MergeOne(p[k - 1], s[k])
                /\ \A k \in 0 .. Len(s) : p[k] \in Seq(M)
                /\ Merge(s) = p[Len(s)]
<1>0. <<>> \in Seq(M)
  OBVIOUS
<1>1. PICK R : R = Seq(M)
  OBVIOUS
<1>2. PICK h : h = [x \in R \X M |-> MergeOne(x[1], x[2])]
  OBVIOUS
<1>3. Keeps(h, M, R) /\ \A r \in R, e \in M : h[<<r, e>>] = MergeOne(r, e)
  BY <1>1, <1>2, MergedIn DEF Keeps
<1>4. PICK b : b = <<>> /\ b \in R
  BY <1>0, <1>1
<1>5. PICK g : /\ IsSeqFold(g, h, b, s)
               /\ \A t \in SUBSET (DOMAIN s) :
                    /\ g[t] \in R
                    /\ t # {} => g[t \ {Max(t)}] \in R /\ s[Max(t)] \in M
  <2>1. Keeps(h, M, R) /\ b \in R /\ s \in Seq(M)
    BY <1>3, <1>4
  <2> QED
    BY <2>1, SeqFoldExists
<1>6. IsMerge(g, s)
  BY <1>3, <1>4, <1>5 DEF IsSeqFold, IsMerge
<1>7. PICK f : f = CHOOSE i : IsMerge(i, s)
  OBVIOUS
<1>8. IsMerge(f, s)
  BY <1>6, <1>7
<1>9. PICK n \in Nat : n = Len(s) /\ DOMAIN s = 1 .. n
  BY LenProperties
<1> DEFINE p == [k \in 0 .. n |-> f[1 .. k]]
<1>10. p[0] = <<>>
  <2>1. 1 .. 0 = {} /\ {} \in SUBSET (DOMAIN s) /\ 0 \in 0 .. n
    OBVIOUS
  <2> QED
    BY <1>8, <2>1 DEF IsMerge
<1>11. \A k \in 1 .. n : p[k] = MergeOne(p[k - 1], s[k])
  <2> TAKE k \in 1 .. n
  <2>1. f[1 .. k] = MergeOne(f[1 .. (k - 1)], s[k])
    BY <1>8, <1>9, FirstIndices, ZenonT(30) DEF IsMerge
  <2>2. k \in 0 .. n /\ k - 1 \in 0 .. n
    OBVIOUS
  <2> QED
    BY <2>1, <2>2
<1>12. Merge(s) = p[n]
  BY <1>7, <1>9, MergeIsChosen
<1> HIDE DEF p
<1>13. \A k \in 0 .. n : p[k] \in R
  <2>1. \A k \in 1 .. n : s[k] \in M
    BY <1>9, ElementOfSeq
  <2>2. \A k \in 1 .. n : p[k - 1] \in R => p[k] \in R
    BY <1>1, <1>11, <2>1, MergedIn
  <2>3. p[0] \in R
    BY <1>4, <1>10
  <2> QED
    BY <2>2, <2>3, StepsStay
<1> QED
  BY <1>1, <1>9, <1>10, <1>11, <1>12, <1>13

-----------------------------------------------------------------------------
(* normalizeEvidence *)

\* A piece of evidence under its final name, after those in r.
Named(group, used, r, e) ==
  IF e.id \in used \cup {d.id : d \in ToSet(r)}
  THEN [e EXCEPT !.id = NewName(group, e)] ELSE e

WithName(group, used, r, e) == Append(r, Named(group, used, r, e))

IsRename(g, group, used, s) ==
  g = [t \in SUBSET (DOMAIN s) |->
         IF t = {} THEN <<>>
         ELSE WithName(group, used, g[t \ {Max(t)}], s[Max(t)])]

LEMMA RenameIsChosen ==
  ASSUME NEW group, NEW used, NEW s
  PROVE  Rename(group, used, s) =
           (CHOOSE g : IsRename(g, group, used, s))[DOMAIN s]
  BY SMT DEF WithName, Named, Rename, FoldLeft, MapThenFoldSet, IsRename

\* A set of pieces of evidence that may be named anew.
Renamed(M, group) == \A e \in M : [e EXCEPT !.id = NewName(group, e)] \in M

LEMMA NamedIn ==
  ASSUME NEW M, NEW group, NEW used, Renamed(M, group),
         NEW r \in Seq(M), NEW e \in M
  PROVE  WithName(group, used, r, e) \in Seq(M)
<1>1. Named(group, used, r, e) \in M
  BY DEF Named, Renamed
<1> QED
  BY <1>1, AppendProperties DEF WithName

LEMMA RenameSteps ==
  ASSUME NEW M, NEW group, NEW used, Renamed(M, group),
         NEW s \in Seq(M)
  PROVE  \E p : /\ p[0] = <<>>
                /\ \A k \in 1 .. Len(s) :
                      p[k] = WithName(group, used, p[k - 1], s[k])
                /\ \A k \in 0 .. Len(s) : p[k] \in Seq(M)
                /\ Rename(group, used, s) = p[Len(s)]
<1>0. <<>> \in Seq(M)
  OBVIOUS
<1>1. PICK R : R = Seq(M)
  OBVIOUS
<1>2. PICK h : h = [x \in R \X M |-> WithName(group, used, x[1], x[2])]
  OBVIOUS
<1>3. /\ Keeps(h, M, R)
      /\ \A r \in R, e \in M : h[<<r, e>>] = WithName(group, used, r, e)
  BY <1>1, <1>2, NamedIn DEF Keeps
<1>4. PICK b : b = <<>> /\ b \in R
  BY <1>0, <1>1
<1>5. PICK g : /\ IsSeqFold(g, h, b, s)
               /\ \A t \in SUBSET (DOMAIN s) :
                    /\ g[t] \in R
                    /\ t # {} => g[t \ {Max(t)}] \in R /\ s[Max(t)] \in M
  <2>1. Keeps(h, M, R) /\ b \in R /\ s \in Seq(M)
    BY <1>3, <1>4
  <2> QED
    BY <2>1, SeqFoldExists
<1>6. IsRename(g, group, used, s)
  BY <1>3, <1>4, <1>5 DEF IsSeqFold, IsRename
<1>7. PICK f : f = CHOOSE i : IsRename(i, group, used, s)
  OBVIOUS
<1>8. IsRename(f, group, used, s)
  BY <1>6, <1>7
<1>9. PICK n \in Nat : n = Len(s) /\ DOMAIN s = 1 .. n
  BY LenProperties
<1> DEFINE p == [k \in 0 .. n |-> f[1 .. k]]
<1>10. p[0] = <<>>
  <2>1. 1 .. 0 = {} /\ {} \in SUBSET (DOMAIN s) /\ 0 \in 0 .. n
    OBVIOUS
  <2> QED
    BY <1>8, <2>1 DEF IsRename
<1>11. \A k \in 1 .. n : p[k] = WithName(group, used, p[k - 1], s[k])
  <2> TAKE k \in 1 .. n
  <2>1. f[1 .. k] = WithName(group, used, f[1 .. (k - 1)], s[k])
    BY <1>8, <1>9, FirstIndices, ZenonT(30) DEF IsRename
  <2>2. k \in 0 .. n /\ k - 1 \in 0 .. n
    OBVIOUS
  <2> QED
    BY <2>1, <2>2
<1>12. Rename(group, used, s) = p[n]
  BY <1>7, <1>9, RenameIsChosen
<1> HIDE DEF p
<1>13. \A k \in 0 .. n : p[k] \in R
  <2>1. \A k \in 1 .. n : s[k] \in M
    BY <1>9, ElementOfSeq
  <2>2. \A k \in 1 .. n : p[k - 1] \in R => p[k] \in R
    BY <1>1, <1>11, <2>1, NamedIn
  <2>3. p[0] \in R
    BY <1>4, <1>10
  <2> QED
    BY <2>2, <2>3, StepsStay
<1> QED
  BY <1>1, <1>9, <1>10, <1>11, <1>12, <1>13

NextGroup(r, o) == IF Contains(r, o.group) THEN r ELSE Append(r, o.group)

LEMMA NextGroupIn ==
  ASSUME NEW E, NEW Q, \A o \in E : o.group \in Q, NEW r \in Seq(Q), NEW o \in E
  PROVE  NextGroup(r, o) \in Seq(Q)
  BY AppendProperties DEF NextGroup

IsGroups(g, s) ==
  g = [t \in SUBSET (DOMAIN s) |->
         IF t = {} THEN <<>> ELSE NextGroup(g[t \ {Max(t)}], s[Max(t)])]

LEMMA GroupsIsChosen ==
  ASSUME NEW s
  PROVE  Groups(s) = (CHOOSE g : IsGroups(g, s))[DOMAIN s]
  BY SMT DEF NextGroup, Groups, FoldLeft, MapThenFoldSet, IsGroups

LEMMA GroupsSteps ==
  ASSUME NEW E, NEW Q, \A o \in E : o.group \in Q, NEW s \in Seq(E)
  PROVE  \E p : /\ p[0] = <<>>
                /\ \A k \in 1 .. Len(s) : p[k] = NextGroup(p[k - 1], s[k])
                /\ \A k \in 0 .. Len(s) : p[k] \in Seq(Q)
                /\ Groups(s) = p[Len(s)]
<1>0. <<>> \in Seq(Q)
  OBVIOUS
<1>1. PICK R : R = Seq(Q)
  OBVIOUS
<1>2. PICK h : h = [x \in R \X E |-> NextGroup(x[1], x[2])]
  OBVIOUS
<1>3. Keeps(h, E, R) /\ \A r \in R, e \in E : h[<<r, e>>] = NextGroup(r, e)
  BY <1>1, <1>2, NextGroupIn DEF Keeps
<1>4. PICK b : b = <<>> /\ b \in R
  BY <1>0, <1>1
<1>5. PICK g : /\ IsSeqFold(g, h, b, s)
               /\ \A t \in SUBSET (DOMAIN s) :
                    /\ g[t] \in R
                    /\ t # {} => g[t \ {Max(t)}] \in R /\ s[Max(t)] \in E
  <2>1. Keeps(h, E, R) /\ b \in R /\ s \in Seq(E)
    BY <1>3, <1>4
  <2> QED
    BY <2>1, SeqFoldExists, ZenonT(30)
<1>6. IsGroups(g, s)
  BY <1>3, <1>4, <1>5 DEF IsSeqFold, IsGroups
<1>7. PICK f : f = CHOOSE i : IsGroups(i, s)
  OBVIOUS
<1>8. IsGroups(f, s)
  BY <1>6, <1>7
<1>9. PICK n \in Nat : n = Len(s) /\ DOMAIN s = 1 .. n
  BY LenProperties
<1> DEFINE p == [k \in 0 .. n |-> f[1 .. k]]
<1>10. p[0] = <<>>
  <2>1. 1 .. 0 = {} /\ {} \in SUBSET (DOMAIN s) /\ 0 \in 0 .. n
    OBVIOUS
  <2> QED
    BY <1>8, <2>1 DEF IsGroups
<1>11. \A k \in 1 .. n : p[k] = NextGroup(p[k - 1], s[k])
  <2> TAKE k \in 1 .. n
  <2>1. f[1 .. k] = NextGroup(f[1 .. (k - 1)], s[k])
    BY <1>8, <1>9, FirstIndices, ZenonT(30) DEF IsGroups
  <2>2. k \in 0 .. n /\ k - 1 \in 0 .. n
    OBVIOUS
  <2> QED
    BY <2>1, <2>2
<1>12. Groups(s) = p[n]
  BY <1>7, <1>9, GroupsIsChosen
<1> HIDE DEF p
<1>13. \A k \in 0 .. n : p[k] \in R
  <2>1. \A k \in 1 .. n : s[k] \in E
    BY <1>9, ElementOfSeq
  <2>2. \A k \in 1 .. n : p[k - 1] \in R => p[k] \in R
    BY <1>1, <1>11, <2>1, NextGroupIn
  <2>3. p[0] \in R
    BY <1>4, <1>10
  <2> QED
    BY <2>2, <2>3, StepsStay
<1> QED
  BY <1>1, <1>9, <1>10, <1>11, <1>12, <1>13

\* The groups are those of the observations.
LEMMA GroupsCover ==
  ASSUME NEW E, NEW Q, \A o \in E : o.group \in Q, NEW s \in Seq(E)
  PROVE  /\ Groups(s) \in Seq(Q)
         /\ \A o \in ToSet(s) : o.group \in ToSet(Groups(s))
<1>1. PICK p : /\ p[0] = <<>>
               /\ \A k \in 1 .. Len(s) : p[k] = NextGroup(p[k - 1], s[k])
               /\ \A k \in 0 .. Len(s) : p[k] \in Seq(Q)
               /\ Groups(s) = p[Len(s)]
  BY GroupsSteps
<1>2. PICK n \in Nat : n = Len(s) /\ DOMAIN s = 1 .. n
  BY LenProperties
<1> DEFINE G == {k \in 0 .. n : \A i \in 1 .. k : s[i].group \in ToSet(p[k])}
<1>3. 0 \in G
  OBVIOUS
<1>4. ASSUME NEW k \in 1 .. n, k - 1 \in G
      PROVE  k \in G
  <2>1. PICK q, o : /\ q = p[k - 1] /\ o = s[k] /\ q \in Seq(Q) /\ o.group \in Q
                    /\ \A i \in 1 .. k - 1 : s[i].group \in ToSet(q)
    BY <1>1, <1>2, <1>4, ElementOfSeq
  <2>2. p[k] = NextGroup(q, o)
    BY <1>1, <1>2, <2>1
  <2>3. ToSet(q) \subseteq ToSet(NextGroup(q, o))
        /\ o.group \in ToSet(NextGroup(q, o))
    <3>1. PICK m \in Nat : m = Len(q) /\ DOMAIN q = 1 .. m
      BY <2>1, LenProperties
    <3>2. CASE Contains(q, o.group)
      BY <3>1, <3>2 DEF NextGroup, Contains, ToSet
    <3>3. CASE ~Contains(q, o.group)
      <4>1. NextGroup(q, o) = Append(q, o.group)
        BY <3>3 DEF NextGroup
      <4>2. ToSet(Append(q, o.group)) = ToSet(q) \cup {o.group}
        BY <2>1, AppendedSet
      <4> QED
        BY <4>1, <4>2
    <3> QED
      BY <3>2, <3>3
  <2>4. \A i \in 1 .. k : i \in 1 .. k - 1 \/ i = k
    OBVIOUS
  <2> QED
    BY <2>1, <2>2, <2>3, <2>4
<1> HIDE DEF G
<1>5. \A k \in 0 .. n : k \in G
  BY <1>2, <1>3, <1>4, UpTo
<1>6. n \in G
  BY <1>5
<1>7. \A o \in ToSet(s) : \E i \in 1 .. n : s[i] = o
  BY <1>2 DEF ToSet
<1> QED
  BY <1>1, <1>2, <1>6, <1>7 DEF G

\* A group's own evidence keeps the form of what was observed of it.
LEMMA GroupItems ==
  ASSUME NEW E, NEW s \in Seq(E), NEW group, NEW used,
         NEW M, Shared(M), Renamed(M, group),
         \A o \in E : o.group = group => o.item \in M
  PROVE  GroupResult(s, used, group).items \in Seq(M)
<1>1. PICK S : S = {o \in ToSet(s) : o.group = group}
  OBVIOUS
<1>2. PICK own : own = Only(s, S) /\ own \in Seq(E \cap S)
  BY OnlySelects
<1>3. PICK n \in Nat : n = Len(own) /\ DOMAIN own = 1 .. n
  BY <1>2, LenProperties
<1>4. \A i \in 1 .. n : own[i] \in E \cap S
  BY <1>2, <1>3, ElementOfSeq
<1>5. PICK seen : seen = [i \in DOMAIN own |-> own[i].item]
  OBVIOUS
<1>6. seen \in Seq(M)
  BY <1>1, <1>3, <1>4, <1>5
<1>7. Merge(seen) \in Seq(M)
  BY <1>6, MergeSteps, LenProperties
<1>8. Rename(group, used, Merge(seen)) \in Seq(M)
  <2>1. PICK r : r = Merge(seen) /\ r \in Seq(M)
    BY <1>7
  <2>2. PICK p : /\ \A k \in 0 .. Len(r) : p[k] \in Seq(M)
                 /\ Rename(group, used, r) = p[Len(r)]
    BY <2>1, RenameSteps
  <2>3. Len(r) \in 0 .. Len(r)
    BY <2>1, LenProperties
  <2> QED
    BY <2>1, <2>2, <2>3
<1> QED
  BY <1>1, <1>2, <1>5, <1>8 DEF GroupResult

\* The claim of a group keeps its group, and is critical when one of its
\* observations is.
LEMMA GroupClaim ==
  ASSUME NEW E, NEW s \in Seq(E), NEW group, NEW used,
         NEW o \in ToSet(s), o.group = group, o.critical
  PROVE  GroupResult(s, used, group).claim.critical
<1>1. PICK S : S = {i \in ToSet(s) : i.group = group}
  OBVIOUS
<1>2. PICK own : own = Only(s, S) /\ ToSet(own) = ToSet(s) \cap S
  BY OnlySelects
<1>3. \E i \in ToSet(own) : i.critical
  BY <1>1, <1>2
<1>4. PICK items : items = Rename(group, used,
                                  Merge([i \in DOMAIN own |-> own[i].item]))
  OBVIOUS
<1>5. PICK claim : claim = [group |-> group, value |-> NoValue,
                  evidence |-> {e.id : e \in ToSet(items)},
                  critical |-> \E i \in ToSet(own) : i.critical,
                  status |-> "recheck_required", conflicts |-> {}]
  OBVIOUS
<1>6. GroupResult(s, used, group).claim = Resolve(claim, items)
  BY <1>1, <1>2, <1>4, <1>5 DEF GroupResult
<1>7. Resolve(claim, items).critical = claim.critical
  BY <1>5 DEF Resolve
<1> QED
  BY <1>3, <1>5, <1>6, <1>7

\* When everything that was observed of a group failed, so does its claim.
LEMMA FailedGroup ==
  ASSUME NEW E, NEW s \in Seq(E), NEW group, NEW used,
         NEW M, Shared(M), Renamed(M, group),
         \A o \in E : o.group = group => o.item \in M,
         \A e \in M : e.status = "failed"
  PROVE  GroupResult(s, used, group).claim.status = "failed"
<1>1. PICK items : items = GroupResult(s, used, group).items /\ items \in Seq(M)
  BY GroupItems
<1>2. PICK own : own = Only(s, {o \in ToSet(s) : o.group = group})
  OBVIOUS
<1>3. PICK claim : claim = [group |-> group, value |-> NoValue,
                  evidence |-> {e.id : e \in ToSet(items)},
                  critical |-> \E o \in ToSet(own) : o.critical,
                  status |-> "recheck_required", conflicts |-> {}]
  OBVIOUS
<1>4. GroupResult(s, used, group).claim = Resolve(claim, items)
  BY <1>1, <1>2, <1>3 DEF GroupResult
<1>5. PICK S : S = {e \in ToSet(items) : /\ e.id \in claim.evidence
                                        /\ e.status # "failed"
                                        /\ e.value # NoValue}
  OBVIOUS
<1>6. M \cap S = {}
  BY <1>5
<1>7. Only(items, S) = <<>>
  <2>1. PICK q : q = Only(items, S) /\ q \in Seq(M \cap S)
    BY <1>1, OnlySelects
  <2>2. q \in Seq({})
    BY <1>6, <2>1
  <2>3. Len(q) = 0
    <3>1. PICK n \in Nat : n = Len(q) /\ DOMAIN q = 1 .. n
      BY <2>2, LenProperties
    <3>2. \A i \in 1 .. n : q[i] \in {}
      BY <2>2, <3>1, ElementOfSeq
    <3> QED
      BY <3>1, <3>2
  <2> QED
    BY <2>1, <2>2, <2>3, EmptySeq
<1>8. Referenced(claim, items) = <<>>
  BY <1>5, <1>7 DEF Referenced
<1>9. Resolve(claim, items).status = "failed"
  BY <1>3, <1>8 DEF Resolve
<1> QED
  BY <1>4, <1>9

IsNormal(g, obs, b, s) ==
  g = [t \in SUBSET (DOMAIN s) |->
         IF t = {} THEN b ELSE AddGroup(obs, g[t \ {Max(t)}], s[Max(t)])]

Nothing == [evidence |-> <<>>, claims |-> <<>>, issues |-> {}]

LEMMA NormalIsChosen ==
  ASSUME NEW obs
  PROVE  Normalize(obs) =
           (CHOOSE g : IsNormal(g, obs, Nothing, Groups(obs)))
             [DOMAIN Groups(obs)]
  BY SMT DEF Normalize, FoldLeft, MapThenFoldSet, IsNormal, Nothing

\* The claims of the groups Q of observations.
ClaimsOf(obs, Q, U) ==
  UNION {{GroupResult(obs, used, group).claim : used \in SUBSET U} :
         group \in Q}

Results(obs, Q, M, U) ==
  [evidence : Seq(M), claims : Seq(ClaimsOf(obs, Q, U)),
   issues : SUBSET UNION {ClaimIssues(c) : c \in ClaimsOf(obs, Q, U)}]

Normal(E, obs, Q, M, U) ==
  /\ obs \in Seq(E)
  /\ \A o \in E : o.group \in Q /\ o.item \in M
  /\ Shared(M) /\ \A group \in Q : Renamed(M, group)
  /\ U = {e.id : e \in M}

LEMMA AddedIn ==
  ASSUME NEW E, NEW obs, NEW Q, NEW M, NEW U, Normal(E, obs, Q, M, U),
         NEW r \in Results(obs, Q, M, U), NEW group \in Q
  PROVE  /\ AddGroup(obs, r, group) \in Results(obs, Q, M, U)
         /\ \E used \in SUBSET U : AddGroup(obs, r, group).claims =
              Append(r.claims, GroupResult(obs, used, group).claim)
         /\ r.claims \in Seq(ClaimsOf(obs, Q, U))
<1>1. PICK used : used = {e.id : e \in ToSet(r.evidence)}
  OBVIOUS
<1>2. PICK g : g = GroupResult(obs, used, group)
  OBVIOUS
<1>3. r.evidence \in Seq(M) /\ r.claims \in Seq(ClaimsOf(obs, Q, U))
      /\ r.issues \in SUBSET UNION {ClaimIssues(c) : c \in ClaimsOf(obs, Q, U)}
  BY DEF Results
<1>4. used \in SUBSET U
  <2>1. \A e \in ToSet(r.evidence) : e \in M
    BY <1>3, ElementOfSeq, LenProperties DEF ToSet
  <2> QED
    BY <1>1, <2>1 DEF Normal
<1>5. g.items \in Seq(M)
  BY <1>2, GroupItems DEF Normal
<1>6. g.claim \in ClaimsOf(obs, Q, U)
  BY <1>2, <1>4 DEF ClaimsOf
<1>7. AddGroup(obs, r, group) =
        [evidence |-> r.evidence \o g.items,
         claims |-> Append(r.claims, g.claim),
         issues |-> r.issues \cup ClaimIssues(g.claim)]
  BY <1>1, <1>2 DEF AddGroup
<1>8. r.evidence \o g.items \in Seq(M)
  BY <1>3, <1>5, JoinedSet
<1>9. Append(r.claims, g.claim) \in Seq(ClaimsOf(obs, Q, U))
  BY <1>3, <1>6, AppendProperties
<1>10. r.issues \cup ClaimIssues(g.claim)
         \in SUBSET UNION {ClaimIssues(c) : c \in ClaimsOf(obs, Q, U)}
  BY <1>3, <1>6
<1>11. AddGroup(obs, r, group) \in Results(obs, Q, M, U)
  BY <1>7, <1>8, <1>9, <1>10 DEF Results
<1>12. AddGroup(obs, r, group).claims = Append(r.claims, g.claim)
  BY <1>7
<1> QED
  BY <1>2, <1>3, <1>4, <1>11, <1>12

LEMMA NormalSteps ==
  ASSUME NEW E, NEW obs, NEW Q, NEW M, NEW U, Normal(E, obs, Q, M, U),
         NEW s \in Seq(Q)
  PROVE  \E p : /\ p[0] = Nothing
                /\ \A k \in 1 .. Len(s) : p[k] = AddGroup(obs, p[k - 1], s[k])
                /\ \A k \in 0 .. Len(s) : p[k] \in Results(obs, Q, M, U)
                /\ s = Groups(obs) => Normalize(obs) = p[Len(s)]
<1>0. Nothing \in Results(obs, Q, M, U)
  BY DEF Nothing, Results
<1>1. PICK R : R = Results(obs, Q, M, U)
  OBVIOUS
<1>2. PICK h : h = [x \in R \X Q |-> AddGroup(obs, x[1], x[2])]
  OBVIOUS
<1>3. Keeps(h, Q, R) /\ \A r \in R, e \in Q : h[<<r, e>>] = AddGroup(obs, r, e)
  BY <1>1, <1>2, AddedIn DEF Keeps
<1>4. PICK b : b = Nothing /\ b \in R
  BY <1>0, <1>1
<1>5. PICK g : /\ IsSeqFold(g, h, b, s)
               /\ \A t \in SUBSET (DOMAIN s) :
                    /\ g[t] \in R
                    /\ t # {} => g[t \ {Max(t)}] \in R /\ s[Max(t)] \in Q
  <2>1. Keeps(h, Q, R) /\ b \in R /\ s \in Seq(Q)
    BY <1>3, <1>4
  <2> QED
    BY <2>1, SeqFoldExists
<1>6. IsNormal(g, obs, b, s)
  BY <1>3, <1>5 DEF IsSeqFold, IsNormal
<1>7. PICK f : f = CHOOSE i : IsNormal(i, obs, b, s)
  OBVIOUS
<1>8. IsNormal(f, obs, b, s)
  BY <1>6, <1>7
<1>9. PICK n \in Nat : n = Len(s) /\ DOMAIN s = 1 .. n
  BY LenProperties
<1> DEFINE p == [k \in 0 .. n |-> f[1 .. k]]
<1>10. p[0] = b
  <2>1. 1 .. 0 = {} /\ {} \in SUBSET (DOMAIN s) /\ 0 \in 0 .. n
    OBVIOUS
  <2> QED
    BY <1>8, <2>1 DEF IsNormal
<1>11. \A k \in 1 .. n : p[k] = AddGroup(obs, p[k - 1], s[k])
  <2> TAKE k \in 1 .. n
  <2>1. f[1 .. k] = AddGroup(obs, f[1 .. (k - 1)], s[k])
    BY <1>8, <1>9, FirstIndices, ZenonT(30) DEF IsNormal
  <2>2. k \in 0 .. n /\ k - 1 \in 0 .. n
    OBVIOUS
  <2> QED
    BY <2>1, <2>2
<1>12. s = Groups(obs) => Normalize(obs) = p[n]
  BY <1>4, <1>7, <1>9, NormalIsChosen
<1> HIDE DEF p
<1>13. \A k \in 0 .. n : p[k] \in R
  <2>1. \A k \in 1 .. n : s[k] \in Q
    BY <1>9, ElementOfSeq
  <2>2. \A k \in 1 .. n : p[k - 1] \in R => p[k] \in R
    BY <1>1, <1>11, <2>1, AddedIn
  <2>3. p[0] \in R
    BY <1>4, <1>10
  <2> QED
    BY <2>2, <2>3, StepsStay
<1> QED
  BY <1>1, <1>4, <1>9, <1>10, <1>11, <1>12, <1>13

\* Every group that was observed has its claim.
LEMMA EveryGroupClaims ==
  ASSUME NEW E, NEW obs, NEW Q, NEW M, NEW U, Normal(E, obs, Q, M, U),
         NEW o \in ToSet(obs)
  PROVE  \E used : GroupResult(obs, used, o.group).claim
                      \in ToSet(Normalize(obs).claims)
<1>1. PICK s \in Seq(Q) : s = Groups(obs) /\ o.group \in ToSet(s)
  BY GroupsCover DEF Normal
<1>2. PICK p : /\ p[0] = Nothing
               /\ \A k \in 1 .. Len(s) : p[k] = AddGroup(obs, p[k - 1], s[k])
               /\ \A k \in 0 .. Len(s) : p[k] \in Results(obs, Q, M, U)
               /\ Normalize(obs) = p[Len(s)]
  BY <1>1, NormalSteps
<1>3. PICK n \in Nat : n = Len(s) /\ DOMAIN s = 1 .. n
  BY LenProperties
<1> DEFINE Claimed(r, group) ==
             \E used : GroupResult(obs, used, group).claim \in ToSet(r.claims)
           G == {k \in 0 .. n : \A i \in 1 .. k : Claimed(p[k], s[i])}
<1>4. 0 \in G
  OBVIOUS
<1>5. ASSUME NEW k \in 1 .. n, k - 1 \in G
      PROVE  k \in G
  <2>1. PICK r, group : /\ r = p[k - 1] /\ group = s[k] /\ group \in Q
                        /\ r \in Results(obs, Q, M, U)
                        /\ p[k] = AddGroup(obs, r, group)
    BY <1>2, <1>3, ElementOfSeq
  <2>7. r \in Results(obs, Q, M, U) /\ group \in Q
    BY <2>1
  <2>2. PICK used \in SUBSET U :
          AddGroup(obs, r, group).claims =
            Append(r.claims, GroupResult(obs, used, group).claim)
    BY <2>7, AddedIn
  <2>3. r.claims \in Seq(ClaimsOf(obs, Q, U))
        /\ GroupResult(obs, used, group).claim \in ClaimsOf(obs, Q, U)
    BY <2>1, AddedIn DEF ClaimsOf
  <2>4. ToSet(p[k].claims) =
          ToSet(r.claims) \cup {GroupResult(obs, used, group).claim}
    BY <2>1, <2>2, <2>3, AppendedSet
  <2>5. Claimed(p[k], group) /\ \A i \in 1 .. k - 1 : Claimed(p[k], s[i])
    BY <1>5, <2>1, <2>4
  <2>6. \A i \in 1 .. k : i \in 1 .. k - 1 \/ i = k
    OBVIOUS
  <2> HIDE DEF Claimed
  <2> QED
    BY <2>1, <2>5, <2>6
<1> HIDE DEF G
<1>6. \A k \in 0 .. n : k \in G
  BY <1>3, <1>4, <1>5, UpTo
<1>7. n \in G
  BY <1>6
<1>8. \E i \in 1 .. n : s[i] = o.group
  BY <1>1, <1>3 DEF ToSet
<1> QED
  BY <1>2, <1>3, <1>7, <1>8 DEF G

-----------------------------------------------------------------------------
(* From a plan to a trip *)

\* Whoever visits it, a place that was not told apart has a claim that failed.
UnresolvedClaims(outcome, claims) ==
  \A i \in DOMAIN Plan : \A c \in ToSet(Kept(Plan[i])) :
    Resolved(c, outcome[c.id]) = <<>> =>
      \E claim \in ToSet(claims) : claim.critical /\ claim.status # "verified"

\* An activity says of its place what was found out for a candidate of its id.
SaysWhatWasFound(outcome, a) ==
  \E i \in DOMAIN Plan : \E c \in ToSet(Kept(Plan[i])) :
    /\ c.id = a.id
    /\ Facts(a) = Facts(ActivityOf(c, Plan[i].date, outcome[c.id]))

Assembled == {"hard_validation", "repair", "finalization", "done"}

AssemblyFields == {"brief", "days", "claims", "alerts", "status"}

\* The inductive invariant: until the ways are asked for, the trip is what was
\* collected; afterwards it says of every place what was found out, and a place
\* that was not told apart has left a claim that nobody can take away.
AssemblyInv ==
  /\ stage \in {"evidence_collection", "route_and_budget"} \cup Assembled
  /\ AssemblyFields \subseteq DOMAIN draft
  /\ stage # "evidence_collection" => found \in Findings
  /\ stage = "route_and_budget" => draft = collectEvidence(found)
  /\ stage \in Assembled =>
       /\ draft.brief = Brief /\ baseline.brief = Brief
       /\ UnresolvedClaims(found, draft.claims)
       /\ \A a \in Activities(draft) : SaysWhatWasFound(found, a)
  /\ stage = "done" => FinalIsBacked

\* What was found out for a visit, and where it stands in the plan.
LEMMA PlanParts ==
  ASSUME PlanAssumption, NEW i \in DOMAIN Plan
  PROVE  /\ Plan[i] \in ToSet(Plan) /\ Plan[i].date \in Int
         /\ Kept(Plan[i]) \in Seq(Visits)
         /\ \A c \in ToSet(Kept(Plan[i])) : c \in Visits
<1>1. Plan[i] \in ToSet(Plan)
  BY DEF ToSet
<1>2. Plan[i].date \in Int /\ Plan[i].activities \in Seq(Candidates)
  BY <1>1 DEF PlanAssumption
<1>3. PICK S : S = {c \in ToSet(Plan[i].activities) : ~isTransferPlaceholder(c)}
  OBVIOUS
<1>4. PICK q : q = Only(Plan[i].activities, S) /\ q \in Seq(Candidates \cap S)
  BY <1>2, OnlySelects
<1>5. Candidates \cap S \subseteq Visits
  BY <1>3 DEF Visits
<1>6. PICK n \in Nat : n = Len(q) /\ DOMAIN q = 1 .. n
  BY <1>4, LenProperties
<1>7. \A j \in 1 .. n : q[j] \in Visits
  BY <1>4, <1>5, <1>6, ElementOfSeq
<1>8. q \in Seq(Visits)
  <2>1. q = [j \in 1 .. n |-> q[j]]
    BY <1>4, <1>6
  <2>2. q \in [1 .. n -> Visits]
    BY <1>7, <2>1
  <2> QED
    BY <2>2
<1>9. \A c \in ToSet(q) : c \in Visits
  BY <1>6, <1>7 DEF ToSet
<1>10. q = Kept(Plan[i])
  BY <1>3, <1>4 DEF Kept
<1> QED
  BY <1>1, <1>2, <1>8, <1>9, <1>10

\* Sources and names of what is observed.
Sources == {"dedicated_api", "web", "official"}
Fields == {"address", "opening_hours", "reservation_rules", "cost"}

Observed(x, c, date) ==
  /\ \E field \in Fields : x.group = <<c.id, date, field>>
  /\ \E kind \in {"address", "rules", "page", "cost"}, source \in Sources :
       \E value, status : x.item = Item(<<kind, c.id>>, source, value, status)

NoAddress(c) == Item(<<"address", c.id>>, "dedicated_api", "", "failed")


LEMMA ObservationsOf ==
  ASSUME NEW c, NEW date, NEW o
  PROVE  LET s == Observations(c, date, o) IN
         /\ s \in Seq(ToSet(s))
         /\ \A x \in ToSet(s) : Observed(x, c, date)
         /\ Resolved(c, o) = <<>> =>
              \A x \in ToSet(s) : x.group = <<c.id, date, "address">> =>
                x.item = NoAddress(c)
         /\ \E x \in ToSet(s) :
              x.group = <<c.id, date, "address">> /\ x.critical
<1>1. PICK place : place = Resolved(c, o)
  OBVIOUS
<1>2. PICK address : address = IF place = <<>> THEN NoAddress(c)
                     ELSE Item(<<"address", c.id>>, "dedicated_api",
                               place[1].place, "verified")
  OBVIOUS
<1>3. PICK page : page = Pages(c, o)
  OBVIOUS
<1>4. PICK pending : pending = IF page = <<>>
                   THEN Item(<<"rules", c.id>>, "web", "", "recheck_required")
                   ELSE Item(<<"page", c.id>>, "official", "excerpt",
                             page[1].status)
  OBVIOUS
<1>5. PICK a, b, d, e :
        /\ a = [group |-> <<c.id, date, "address">>, critical |-> TRUE,
                item |-> address]
        /\ b = [group |-> <<c.id, date, "opening_hours">>, critical |-> TRUE,
                item |-> pending]
        /\ d = [group |-> <<c.id, date, "reservation_rules">>,
                critical |-> TRUE, item |-> pending]
        /\ e = [group |-> <<c.id, date, "cost">>, critical |-> FALSE,
                item |-> Item(<<"cost", c.id>>, "official", "price",
                              "verified")]
  OBVIOUS
<1>6. PICK t : t = IF \/ page = <<>> \/ page[1].status # "verified"
                      \/ page[1].price = <<>>
                   THEN <<>> ELSE <<e>>
  OBVIOUS
<1>7. Observations(c, date, o) = <<a, b, d>> \o t
  BY <1>1, <1>2, <1>3, <1>4, <1>5, <1>6 DEF Observations, NoAddress
<1>8. PICK s : s = <<a, b, d>> \o t
  OBVIOUS
<1>9. /\ s \in Seq({a, b, d, e}) /\ ToSet(s) \subseteq {a, b, d, e}
      /\ a \in ToSet(s)
  <2>1. t = <<>> \/ t = <<e>>
    BY <1>6
  <2>2. /\ s \in Seq({a, b, d, e}) /\ ToSet(s) \subseteq {a, b, d} \cup ToSet(t)
        /\ {a, b, d} \subseteq ToSet(s) /\ ToSet(t) \subseteq {e}
    BY <1>8, <2>1, ThreeOrFour, ZenonT(30)
  <2> QED
    BY <2>2
<1>10. s \in Seq(ToSet(s))
  <2>1. PICK n \in Nat : /\ n = Len(s) /\ DOMAIN s = 1 .. n
                         /\ s = [i \in 1 .. n |-> s[i]]
    BY <1>9, LenProperties
  <2>2. s \in [1 .. n -> ToSet(s)]
    BY <2>1 DEF ToSet
  <2> QED
    BY <2>2
<1>11. Observed(a, c, date)
  BY <1>2, <1>5 DEF Observed, Fields, Sources, NoAddress
<1>12. Observed(b, c, date) /\ Observed(d, c, date)
  BY <1>4, <1>5 DEF Observed, Fields, Sources
<1>13. Observed(e, c, date)
  BY <1>5 DEF Observed, Fields, Sources
<1>14. /\ a.group = <<c.id, date, "address">> /\ a.critical
       /\ place = <<>> => a.item = NoAddress(c)
       /\ b.group # a.group /\ d.group # a.group /\ e.group # a.group
  BY <1>2, <1>5
<1> QED
  BY <1>1, <1>7, <1>8, <1>9, <1>10, <1>11, <1>12, <1>13, <1>14

GroupsOf == {<<c.id, Plan[i].date, field>> :
               c \in Visits, i \in DOMAIN Plan, field \in Fields}

Letters == {"evidence", "address", "rules", "page", "cost"} \cup GroupsOf
             \cup {c.id : c \in Visits}

\* Pieces of evidence of these values and states.
Evidences(V, T) == [id : Seq(Letters), source : Sources, origin : Sources,
                    at : {1}, value : V, status : T]

LEMMA EvidenceSets ==
  ASSUME NEW V, NEW T
  PROVE  /\ Shared(Evidences(V, T))
         /\ \A group \in GroupsOf : Renamed(Evidences(V, T), group)
<1>1. Shared(Evidences(V, T))
  BY DEF Shared, Evidences
<1>2. ASSUME NEW group \in GroupsOf, NEW e \in Evidences(V, T)
      PROVE  [e EXCEPT !.id = NewName(group, e)] \in Evidences(V, T)
  <2>1. "evidence" \in Letters /\ group \in Letters /\ e.id \in Seq(Letters)
    BY DEF Letters, Evidences
  <2>2. <<"evidence", group>> \in Seq(Letters)
    BY <2>1
  <2>3. NewName(group, e) \in Seq(Letters)
    BY <2>1, <2>2, JoinedSet DEF NewName
  <2> QED
    BY <2>3 DEF Evidences
<1> QED
  BY <1>1, <1>2 DEF Renamed

LEMMA ItemForm ==
  ASSUME NEW c \in Visits, NEW kind \in {"address", "rules", "page", "cost"},
         NEW source \in Sources, NEW value, NEW status, NEW item,
         item = Item(<<kind, c.id>>, source, value, status)
  PROVE  item \in Evidences({item.value}, {item.status})
<1>1. kind \in Letters /\ c.id \in Letters
  BY DEF Letters
<1>2. <<kind, c.id>> \in Seq(Letters)
  BY <1>1
<1> QED
  BY <1>2 DEF Item, Evidences

LEMMA ObservedForm ==
  ASSUME NEW c \in Visits, NEW i \in DOMAIN Plan, NEW x,
         Observed(x, c, Plan[i].date)
  PROVE  /\ x.group \in GroupsOf
         /\ x.item \in Evidences({x.item.value}, {x.item.status})
<1>1. x.group \in GroupsOf
  BY DEF Observed, GroupsOf
<1>2. x.item \in Evidences({x.item.value}, {x.item.status})
  BY ItemForm DEF Observed
<1> QED
  BY <1>1, <1>2


LEMMA DayObserved ==
  ASSUME PlanAssumption, NEW outcome, NEW i \in DOMAIN Plan
  PROVE  LET s == DayObservations(Plan[i], outcome) IN
         /\ s \in Seq(ToSet(s))
         /\ \A x : x \in ToSet(s) <=> \E c \in ToSet(Kept(Plan[i])) :
              x \in ToSet(Observations(c, Plan[i].date, outcome[c.id]))
<1>1. PICK kept, date : kept = Kept(Plan[i]) /\ date = Plan[i].date
  OBVIOUS
<1>2. PICK n \in Nat : n = Len(kept) /\ DOMAIN kept = 1 .. n
  BY <1>1, PlanParts, LenProperties
<1>3. PICK ss : ss = [j \in 1 .. n |->
                        Observations(kept[j], date, outcome[kept[j].id])]
  OBVIOUS
<1>4. \A j \in 1 .. n : ss[j] = Observations(kept[j], date, outcome[kept[j].id])
  BY <1>3
<1>5. \A j \in 1 .. n : ss[j] \in Seq(ToSet(ss[j]))
  BY <1>4, ObservationsOf
<1>6. ss = [j \in 1 .. n |-> ss[j]]
  BY <1>3
<1>7. PICK s : s = FlattenSeq(ss)
  OBVIOUS
<1>8. /\ s \in Seq(ToSet(s))
      /\ \A x : x \in ToSet(s) <=> \E j \in 1 .. n : x \in ToSet(ss[j])
  BY <1>5, <1>6, <1>7, Joined
<1>9. s = DayObservations(Plan[i], outcome)
  BY <1>1, <1>2, <1>3, <1>7 DEF DayObservations
<1>10. \A x : (\E j \in 1 .. n : x \in ToSet(ss[j]))
                <=> \E c \in ToSet(kept) :
                      x \in ToSet(Observations(c, date, outcome[c.id]))
  <2>1. /\ \A j \in 1 .. n : kept[j] \in ToSet(kept)
        /\ \A c \in ToSet(kept) : \E j \in 1 .. n : kept[j] = c
    BY <1>2 DEF ToSet
  <2> QED
    BY <1>4, <2>1
<1> QED
  BY <1>1, <1>8, <1>9, <1>10

AllObservations(outcome) ==
  FlattenSeq([i \in DOMAIN Plan |-> DayObservations(Plan[i], outcome)])

LEMMA AllObserved ==
  ASSUME PlanAssumption, NEW outcome
  PROVE  LET s == AllObservations(outcome) IN
         /\ s \in Seq(ToSet(s))
         /\ \A x : x \in ToSet(s) <=>
              \E i \in DOMAIN Plan : \E c \in ToSet(Kept(Plan[i])) :
                x \in ToSet(Observations(c, Plan[i].date, outcome[c.id]))
<1>1. PICK n \in Nat : n = Len(Plan) /\ DOMAIN Plan = 1 .. n
  BY LenProperties DEF PlanAssumption
<1>2. PICK ss : ss = [i \in 1 .. n |-> DayObservations(Plan[i], outcome)]
  OBVIOUS
<1>3. \A i \in 1 .. n : ss[i] = DayObservations(Plan[i], outcome)
  BY <1>2
<1>4. \A i \in 1 .. n : ss[i] \in Seq(ToSet(ss[i]))
  BY <1>1, <1>3, DayObserved
<1>5. ss = [i \in 1 .. n |-> ss[i]]
  BY <1>2
<1>6. PICK s : s = FlattenSeq(ss)
  OBVIOUS
<1>7. /\ s \in Seq(ToSet(s))
      /\ \A x : x \in ToSet(s) <=> \E i \in 1 .. n : x \in ToSet(ss[i])
  BY <1>4, <1>5, <1>6, Joined
<1>8. s = AllObservations(outcome)
  BY <1>1, <1>2, <1>6 DEF AllObservations
<1>9. \A x : \A i \in 1 .. n : x \in ToSet(ss[i]) <=>
        \E c \in ToSet(Kept(Plan[i])) :
          x \in ToSet(Observations(c, Plan[i].date, outcome[c.id]))
  BY <1>1, <1>3, DayObserved
<1> QED
  BY <1>1, <1>7, <1>8, <1>9

\* A place that nobody told apart leaves a critical claim that failed.
LEMMA UnresolvedIsClaimed ==
  ASSUME PlanAssumption, NEW outcome
  PROVE  UnresolvedClaims(outcome, Normalize(AllObservations(outcome)).claims)
<1> SUFFICES ASSUME NEW i \in DOMAIN Plan, NEW c \in ToSet(Kept(Plan[i])),
                    Resolved(c, outcome[c.id]) = <<>>
             PROVE  \E claim \in
                         ToSet(Normalize(AllObservations(outcome)).claims) :
                      claim.critical /\ claim.status # "verified"
  BY DEF UnresolvedClaims
<1>1. PICK obs, E : /\ obs = AllObservations(outcome) /\ E = ToSet(obs)
  OBVIOUS
<1>2. /\ obs \in Seq(E)
      /\ \A x : x \in E <=>
           \E j \in DOMAIN Plan : \E d \in ToSet(Kept(Plan[j])) :
             x \in ToSet(Observations(d, Plan[j].date, outcome[d.id]))
  BY <1>1, AllObserved
<1>3. PICK V, T : V = {x.item.value : x \in E} /\ T = {x.item.status : x \in E}
  OBVIOUS
<1>4. PICK M, U : M = Evidences(V, T) /\ U = {e.id : e \in M}
  OBVIOUS
<1>5. ASSUME NEW x \in E
      PROVE  \E j \in DOMAIN Plan : \E d \in Visits :
               /\ Observed(x, d, Plan[j].date)
               /\ Resolved(d, outcome[d.id]) = <<>>
                    => (x.group = <<d.id, Plan[j].date, "address">>
                          => x.item = NoAddress(d))
  <2>3. PICK j \in DOMAIN Plan : \E d \in ToSet(Kept(Plan[j])) :
          x \in ToSet(Observations(d, Plan[j].date, outcome[d.id]))
    BY <1>2
  <2>1. PICK d \in ToSet(Kept(Plan[j])) :
          x \in ToSet(Observations(d, Plan[j].date, outcome[d.id]))
    BY <2>3
  <2>2. d \in Visits
    BY <2>1, PlanParts
  <2> QED
    BY <2>1, <2>2, ObservationsOf
<1>6. \A x \in E : x.group \in GroupsOf /\ x.item \in M
  <2> TAKE x \in E
  <2>1. /\ x.group \in GroupsOf
        /\ x.item \in Evidences({x.item.value}, {x.item.status})
    BY <1>5, ObservedForm
  <2>2. x.item.value \in V /\ x.item.status \in T
    BY <1>3
  <2> QED
    BY <1>4, <2>1, <2>2 DEF Evidences
<1>7. Normal(E, obs, GroupsOf, M, U)
  BY <1>2, <1>4, <1>6, EvidenceSets DEF Normal
<1>8. PICK group : group = <<c.id, Plan[i].date, "address">>
  OBVIOUS
<1>9. PICK o \in ToSet(obs) : o.group = group /\ o.critical
  <2>1. \E o \in ToSet(Observations(c, Plan[i].date, outcome[c.id])) :
          o.group = group /\ o.critical
    BY <1>8, ObservationsOf
  <2> QED
    BY <1>1, <1>2, <2>1
<1>10. PICK used : GroupResult(obs, used, group).claim
                      \in ToSet(Normalize(obs).claims)
  BY <1>7, <1>9, EveryGroupClaims
<1>11. GroupResult(obs, used, group).claim.critical
  BY <1>2, <1>9, GroupClaim
<1>12. PICK F : F = Evidences({NoValue}, {"failed"})
  OBVIOUS
<1>13. ASSUME NEW x \in E, x.group = group
       PROVE  x.item \in F
  <2>1. PICK j \in DOMAIN Plan, d \in Visits :
               /\ Observed(x, d, Plan[j].date)
               /\ Resolved(d, outcome[d.id]) = <<>>
                    => (x.group = <<d.id, Plan[j].date, "address">>
                          => x.item = NoAddress(d))
    BY <1>5
  <2>2. d.id = c.id /\ Plan[j].date = Plan[i].date
    BY <1>8, <1>13, <2>1 DEF Observed
  <2>3. c \in Visits
    BY PlanParts
  <2>4. d.keyword = c.keyword /\ d.city = c.city
    BY <2>2, <2>3 DEF PlanAssumption
  <2>5. Resolved(d, outcome[d.id]) = <<>>
    BY <2>2, <2>4 DEF Resolved, exactPlaceCandidate
  <2>6. x.item = NoAddress(d)
    BY <1>8, <1>13, <2>1, <2>2, <2>5
  <2>7. x.item \in Evidences({x.item.value}, {x.item.status})
    BY <2>6, ItemForm DEF NoAddress, Sources
  <2>8. x.item.value = NoValue /\ x.item.status = "failed"
    BY <2>6 DEF NoAddress, Item
  <2> QED
    BY <1>12, <2>7, <2>8
<1>14. /\ Shared(F) /\ Renamed(F, group)
       /\ \A e \in F : e.status = "failed"
  <2>1. group \in GroupsOf
    BY <1>1, <1>6, <1>9
  <2> QED
    BY <1>12, <2>1, EvidenceSets DEF Evidences
<1>15. GroupResult(obs, used, group).claim.status = "failed"
  BY <1>2, <1>13, <1>14, FailedGroup
<1> QED
  BY <1>1, <1>10, <1>11, <1>15

TripFields == {"brief", "bookings", "days", "items", "percent", "claims",
               "evidence", "alerts", "version", "status"}

LEMMA Collected ==
  ASSUME NEW outcome, NEW t, t = collectEvidence(outcome)
  PROVE  /\ DOMAIN t = TripFields
         /\ t.brief = Brief
         /\ t.claims = Normalize(AllObservations(outcome)).claims
         /\ t.days = [i \in DOMAIN Plan |->
                [id |-> Plan[i].id, date |-> Plan[i].date, legs |-> <<>>,
                 notes |-> "",
                 activities |-> DayActivities(Plan[i], outcome)]]
  BY DEF collectEvidence, NoTrip, AllObservations, TripFields

LEMMA MadeFromPlan ==
  ASSUME PlanAssumption, NEW outcome, NEW i \in DOMAIN Plan,
         NEW a \in ToSet(DayActivities(Plan[i], outcome))
  PROVE  SaysWhatWasFound(outcome, a)
<1>1. PICK kept : kept = Kept(Plan[i])
  OBVIOUS
<1>2. PICK j \in DOMAIN kept :
        a = ActivityOf(kept[j], Plan[i].date, outcome[kept[j].id])
  BY <1>1 DEF DayActivities, ToSet
<1>3. PICK c : c = kept[j] /\ c \in ToSet(kept)
  BY DEF ToSet
<1>4. a.id = c.id
  BY <1>2, <1>3 DEF ActivityOf
<1> QED
  BY <1>1, <1>2, <1>3, <1>4 DEF SaysWhatWasFound

\* The days of t with other legs.
SameButLegs(days, t) ==
  \E legs : days = [i \in DOMAIN t.days |-> [t.days[i] EXCEPT !.legs = legs[i]]]

LEMMA RoutesKeep ==
  ASSUME NEW t, DOMAIN t = TripFields, NEW route, NEW r,
         r = completeRoutesAndBudget(t, route)
  PROVE  /\ DOMAIN r = TripFields
         /\ r.brief = t.brief /\ r.claims = t.claims
         /\ SameButLegs(r.days, t)
<1>1. PICK legs : legs = [i \in DOMAIN t.days |->
            LET ways == SetToSeq(Ways(t.days[i]))
            IN  FlattenSeq([k \in DOMAIN ways |->
                    LegOf(t.days[i], ways[k], route[<<i, ways[k]>>])])]
  OBVIOUS
<1>2. PICK days : days = [i \in DOMAIN t.days |->
                            [t.days[i] EXCEPT !.legs = legs[i]]]
  OBVIOUS
<1>3. \E evidence, items, alerts :
        r = [t EXCEPT !.days = days, !.evidence = evidence,
                      !.items = items, !.alerts = alerts]
  BY <1>1, <1>2, Zenon DEF completeRoutesAndBudget
<1>4. DOMAIN r = TripFields
  BY <1>3
<1>5. r.brief = t.brief /\ r.claims = t.claims /\ r.days = days
  BY <1>3 DEF TripFields
<1> QED
  BY <1>2, <1>4, <1>5 DEF SameButLegs

LEMMA RoutesOfThePlan ==
  ASSUME PlanAssumption, NEW outcome, NEW route, NEW r,
         r = completeRoutesAndBudget(collectEvidence(outcome), route)
  PROVE  /\ DOMAIN r = TripFields /\ r.brief = Brief
         /\ UnresolvedClaims(outcome, r.claims)
         /\ \A a \in Activities(r) : SaysWhatWasFound(outcome, a)
<1>1. PICK t : t = collectEvidence(outcome)
  OBVIOUS
<1>2. /\ DOMAIN t = TripFields
      /\ t.brief = Brief
      /\ t.claims = Normalize(AllObservations(outcome)).claims
      /\ t.days = [i \in DOMAIN Plan |->
                [id |-> Plan[i].id, date |-> Plan[i].date, legs |-> <<>>,
                 notes |-> "",
                 activities |-> DayActivities(Plan[i], outcome)]]
  BY <1>1, Collected
<1>0. DOMAIN t = TripFields /\ r = completeRoutesAndBudget(t, route)
  BY <1>1, <1>2
<1>8. /\ DOMAIN r = TripFields
      /\ r.brief = t.brief /\ r.claims = t.claims
      /\ SameButLegs(r.days, t)
  BY <1>0, RoutesKeep
<1>3. PICK legs : /\ DOMAIN r = TripFields
                  /\ r.brief = t.brief /\ r.claims = t.claims
                  /\ r.days = [i \in DOMAIN t.days |->
                                 [t.days[i] EXCEPT !.legs = legs[i]]]
  BY <1>8 DEF SameButLegs
<1>4. DOMAIN r.days = DOMAIN Plan
  BY <1>2, <1>3
<1>5. \A i \in DOMAIN Plan :
        r.days[i].activities = DayActivities(Plan[i], outcome)
  <2> TAKE i \in DOMAIN Plan
  <2>1. t.days[i] = [id |-> Plan[i].id, date |-> Plan[i].date, legs |-> <<>>,
                     notes |-> "",
                     activities |-> DayActivities(Plan[i], outcome)]
    BY <1>2
  <2>2. r.days[i] = [t.days[i] EXCEPT !.legs = legs[i]]
    BY <1>2, <1>3
  <2>3. PICK d, m, acts : /\ d = t.days[i] /\ m = r.days[i]
                          /\ acts = DayActivities(Plan[i], outcome)
    OBVIOUS
  <2>7. d = [id |-> Plan[i].id, date |-> Plan[i].date, legs |-> <<>>,
             notes |-> "", activities |-> acts]
    BY <2>1, <2>3
  <2>4. /\ DOMAIN d = {"id", "date", "legs", "notes", "activities"}
        /\ d.activities = acts
    BY <2>7
  <2>5. m = [d EXCEPT !.legs = legs[i]]
    BY <2>2, <2>3
  <2>6. m.activities = acts
    BY <2>4, <2>5
  <2> QED
    BY <2>3, <2>6
<1>6. \A a \in Activities(r) : SaysWhatWasFound(outcome, a)
  <2> TAKE a \in Activities(r)
  <2>1. PICK i \in DOMAIN Plan : a \in ToSet(r.days[i].activities)
    BY <1>4 DEF Activities, ToSet
  <2>2. a \in ToSet(DayActivities(Plan[i], outcome))
    BY <1>5, <2>1
  <2> QED
    BY <2>2, MadeFromPlan
<1>7. UnresolvedClaims(outcome, r.claims)
  BY <1>2, <1>3, UnresolvedIsClaimed
<1> QED
  BY <1>2, <1>3, <1>6, <1>7

-----------------------------------------------------------------------------
(* The model's repair *)

LEMMA RepairedFields ==
  ASSUME NEW t, NEW candidate \in Repaired(t)
  PROVE  DOMAIN candidate = DOMAIN t
<1>1. ASSUME NEW i, NEW j, NEW r \in RepairedAt(t, i, j)
      PROVE  DOMAIN r = DOMAIN t
  BY <1>1 DEF RepairedAt
<1>2. \/ \E i, j : candidate \in RepairedAt(t, i, j)
      \/ candidate = [t EXCEPT !.alerts = {}]
      \/ candidate = [t EXCEPT !.claims = <<>>]
      \/ candidate = [t EXCEPT !.days[1].legs = <<>>]
  BY DEF Repaired
<1> QED
  BY <1>1, <1>2

\* What a model may not touch stays.
LEMMA AuthorizedKeeps ==
  ASSUME NEW candidate, ~Unauthorized(candidate),
         \A a \in Activities(draft) : SaysWhatWasFound(found, a)
  PROVE  /\ candidate.brief = baseline.brief
         /\ candidate.claims = draft.claims
         /\ \A a \in Activities(candidate) : SaysWhatWasFound(found, a)
<1>1. /\ candidate.brief = baseline.brief /\ candidate.claims = draft.claims
      /\ \A a \in Activities(candidate) :
           \E o \in FirstOf(ActivitiesByDay(draft), a.id) : Facts(o) = Facts(a)
  BY DEF Unauthorized
<1>2. ASSUME NEW a \in Activities(candidate)
      PROVE  SaysWhatWasFound(found, a)
  <2>1. PICK o \in FirstOf(ActivitiesByDay(draft), a.id) : Facts(o) = Facts(a)
    BY <1>1
  <2>2. PICK p \in Places(ActivitiesByDay(draft)) :
          o = EntityAt(ActivitiesByDay(draft), p) /\ o.id = a.id
    BY DEF FirstOf
  <2>3. o \in Activities(draft)
    BY <2>2 DEF Places, EntityAt, ActivitiesByDay, Activities, ToSet
  <2> QED
    BY <2>1, <2>2, <2>3 DEF SaysWhatWasFound
<1> QED
  BY <1>1, <1>2

-----------------------------------------------------------------------------
(* What a trip without a blocking issue rests on *)

LEMMA NothingUnverified ==
  ASSUME NEW t, NEW base, ~Blocking(validateTrip(t, base))
  PROVE  /\ \A claim \in ToSet(t.claims) :
              claim.critical => claim.status = "verified"
         /\ "tickets" \in t.brief.includes =>
              \A a \in Activities(t) : Main(a) => a.cost # Unknown
<1>1. Parses(t)
  BY CheckByCheck
<1>2. /\ BudgetIssues(t) \subseteq validateTrip(t, base)
      /\ ClaimIssuesOf(t) \subseteq validateTrip(t, base)
  BY <1>1 DEF validateTrip, validateConstraints
<1>3. \A i \in BudgetIssues(t) \cup ClaimIssuesOf(t) : i.severity # "blocking"
  BY <1>2 DEF Blocking
<1>4. ASSUME NEW claim \in ToSet(t.claims), claim.critical,
             claim.status # "verified"
      PROVE  FALSE
  <2>1. PICK i : i = [code |-> "UNVERIFIED_CLAIM",
                      ids |-> <<claim.group[1], claim.group[3]>>,
                      date |-> claim.group[2],
                      severity |-> IF claim.critical THEN "blocking"
                                   ELSE "warning"]
    OBVIOUS
  <2>2. i \in ClaimIssuesOf(t)
    BY <1>4, <2>1 DEF ClaimIssuesOf
  <2>3. i.severity = "blocking"
    BY <1>4, <2>1
  <2> QED
    BY <1>3, <2>2, <2>3
<1>5. ASSUME "tickets" \in t.brief.includes, NEW a \in Activities(t), Main(a),
             a.cost = Unknown
      PROVE  FALSE
  <2>1. issue("UNKNOWN_ENTITY_COST", <<"trip">>) \in BudgetIssues(t)
    BY <1>5 DEF BudgetIssues
  <2> QED
    BY <1>3, <2>1 DEF issue, issueOn
<1> QED
  BY <1>4, <1>5

LEMMA ActivityFields ==
  ASSUME NEW c, NEW date, NEW o, NEW page,
         page = Only(Pages(c, o),
                     {p \in ToSet(Pages(c, o)) : p.status = "verified"})
  PROVE  LET a == ActivityOf(c, date, o) IN
         /\ page = <<>> \/ page[1].hours = <<>> => a.opens = <<>>
         /\ page # <<>> /\ page[1].hours # <<>> => a.opens =
              <<{[start |-> date * Minutes + page[1].hours[1].start,
                  end |-> date * Minutes + page[1].hours[1].end]}>>
         /\ page # <<>> /\ page[1].price = <<>> => a.cost = Unknown
  BY DEF ActivityOf

\* A place that was told apart: the only result, or the only one of its name and
\* city.
IsExact(c, p) == p.name = c.keyword /\ p.city = c.city

LEMMA ToldApart ==
  ASSUME NEW c, NEW list, list \in Seq(ToSet(list)),
         NEW place, place = exactPlaceCandidate(c, list), place # <<>>
  PROVE  \E i \in DOMAIN list :
           /\ place[1] = list[i]
           /\ \A j \in DOMAIN list \ {i} :
                IsExact(c, list[i]) /\ ~IsExact(c, list[j])
<1>1. PICK S : S = {p \in ToSet(list) : p.name = c.keyword /\ p.city = c.city}
  OBVIOUS
<1>2. PICK exact : exact = Only(list, S)
  OBVIOUS
<1>3. \/ Len(list) = 1 /\ place = list
      \/ Len(exact) = 1 /\ place = exact
  BY <1>1, <1>2 DEF exactPlaceCandidate
<1>4. CASE Len(list) = 1 /\ place = list
  <2>1. DOMAIN list = 1 .. 1
    BY <1>4, LenProperties
  <2> QED
    BY <1>4, <2>1
<1>5. CASE Len(exact) = 1 /\ place = exact
  <2>1. KeepsOne(list, S)
    BY OnlyOne
  <2>2. PICK i \in 1 .. Len(list) :
          /\ list[i] \in S /\ exact[1] = list[i]
          /\ \A j \in 1 .. Len(list) : j # i => list[j] \notin S
    BY <1>2, <1>5, <2>1 DEF KeepsOne
  <2>3. DOMAIN list = 1 .. Len(list)
    BY LenProperties
  <2>4. \A j \in DOMAIN list : list[j] \in S <=> IsExact(c, list[j])
    BY <1>1 DEF ToSet, IsExact
  <2> QED
    BY <1>5, <2>2, <2>3, <2>4
<1> QED
  BY <1>3, <1>4, <1>5

\* What the plan assumes of the outcome of a visit's calls.
LEMMA OutcomeForm ==
  ASSUME PlanAssumption, NEW outcome \in Findings, NEW c \in Visits,
         NEW o, o = outcome[c.id]
  PROVE  /\ o.list \in Seq(ToSet(o.list)) /\ o.page \in Seq(ToSet(o.page))
         /\ \A page \in ToSet(o.page) :
              /\ {"status", "names", "conditional", "hours", "price"}
                    \subseteq DOMAIN page
              /\ page.hours \in Seq([start : 0 .. Minutes - 1,
                                     end : 0 .. Minutes - 1])
  BY DEF PlanAssumption

\* An activity that has opening hours has them from an official page that names
\* its place and does not depend on the day.
LEMMA OpensByPage ==
  ASSUME PlanAssumption, NEW outcome \in Findings, NEW c \in Visits,
         NEW o, o = outcome[c.id], NEW date \in Int,
         NEW a, a = ActivityOf(c, date, o),
         NEW windows \in ToSet(a.opens), NEW w \in windows
  PROVE  \E page \in ToSet(o.page) :
           /\ page.status = "verified" /\ ~page.conditional
           /\ page.names \cap NamesOfPlace(c, o) # {}
           /\ \E h \in ToSet(page.hours) :
                /\ h \in [start : 0 .. Minutes - 1, end : 0 .. Minutes - 1]
                /\ w.start = date * Minutes + h.start
                /\ w.end = date * Minutes + h.end
           /\ a.cost # Unknown => page.price # <<>>
<1>1. PICK believed, S : /\ believed = Pages(c, o)
                         /\ S = {p \in ToSet(believed) : p.status = "verified"}
  OBVIOUS
<1>2. PICK page : page = Only(believed, S)
  OBVIOUS
<1>3. /\ page # <<>> /\ page[1].hours # <<>>
      /\ a.opens = <<{[start |-> date * Minutes + page[1].hours[1].start,
                       end |-> date * Minutes + page[1].hours[1].end]}>>
      /\ page[1].price = <<>> => a.cost = Unknown
  <2>1. a.opens # <<>>
    BY DEF ToSet
  <2> QED
    BY <1>1, <1>2, <2>1, ActivityFields
<1>4. PICK n \in Nat : /\ n = Len(o.page) /\ DOMAIN o.page = 1 .. n
                       /\ \A i \in 1 .. n : o.page[i] \in ToSet(o.page)
  BY OutcomeForm, LenProperties, ElementOfSeq
<1>5. believed \in Seq(ToSet(believed))
  <2>1. believed = [i \in 1 .. n |-> believed[i]]
    BY <1>1, <1>4 DEF Pages
  <2>2. believed \in [1 .. n -> ToSet(believed)]
    BY <2>1 DEF ToSet
  <2> QED
    BY <2>2
<1>6. page[1] \in S
  <2>1. page \in Seq(ToSet(believed) \cap S)
    BY <1>2, <1>5, OnlySelects
  <2>2. PICK m \in Nat : m = Len(page) /\ DOMAIN page = 1 .. m
    BY <2>1, LenProperties
  <2>3. m # 0
    BY <1>3, <2>1, <2>2, EmptySeq
  <2> QED
    BY <2>1, <2>2, <2>3, ElementOfSeq
<1>7. PICK i \in 1 .. n : page[1] = PageBelieved(NamesOfPlace(c, o), o.page[i])
                          /\ page[1].status = "verified"
  BY <1>1, <1>4, <1>6 DEF Pages, ToSet
<1>8. PICK q : q = o.page[i] /\ q \in ToSet(o.page)
  BY <1>4
<1>9. /\ {"status", "names", "conditional", "hours", "price"} \subseteq DOMAIN q
      /\ q.hours \in Seq([start : 0 .. Minutes - 1, end : 0 .. Minutes - 1])
  BY <1>8, OutcomeForm
<1>10. /\ page[1].hours = q.hours /\ page[1].price = q.price
       /\ q.status = "verified" /\ ~q.conditional
       /\ q.names \cap NamesOfPlace(c, o) # {}
  BY <1>7, <1>8, <1>9 DEF PageBelieved
<1>11. PICK h : h = q.hours[1] /\ h \in ToSet(q.hours)
                /\ h \in [start : 0 .. Minutes - 1, end : 0 .. Minutes - 1]
  <2>1. PICK m \in Nat : m = Len(q.hours) /\ DOMAIN q.hours = 1 .. m
    BY <1>9, LenProperties
  <2>2. m # 0
    BY <1>3, <1>9, <1>10, <2>1, EmptySeq
  <2>3. PICK H, hours :
          /\ H = [start : 0 .. Minutes - 1, end : 0 .. Minutes - 1]
          /\ hours = q.hours /\ hours \in Seq(H)
    BY <1>9
  <2>4. 1 \in 1 .. m /\ DOMAIN hours = 1 .. m /\ m = Len(hours)
    BY <2>1, <2>2, <2>3
  <2>5. hours[1] \in H
    BY <2>3, <2>4, ElementOfSeq
  <2>6. hours[1] \in ToSet(hours)
    BY <2>4 DEF ToSet
  <2> QED
    BY <2>3, <2>5, <2>6
<1>12. windows = {[start |-> date * Minutes + h.start,
                   end |-> date * Minutes + h.end]}
  BY <1>3, <1>10, <1>11 DEF ToSet
<1>13. w.start = date * Minutes + h.start /\ w.end = date * Minutes + h.end
  BY <1>12
<1> QED
  BY <1>3, <1>8, <1>10, <1>11, <1>13

LEMMA DayOfTime ==
  ASSUME NEW date \in Int, NEW time \in Int
  PROVE  /\ date * Minutes <= time => date <= localDate(time)
         /\ time <= date * Minutes + (Minutes - 1) => localDate(time) <= date
  BY SMT DEF Minutes, localDate

\* An activity of an unblocked trip is in a confirmed city.
LEMMA CityIsConfirmed ==
  ASSUME NEW t, NEW day, NEW a, Unblocked(ActivityIssues(t, day, a))
  PROVE  a.city \in {t.brief.city} \cup {d.to : d \in t.brief.dayTrips}
<1> SUFFICES ASSUME a.city \notin {t.brief.city}
                                \cup {d.to : d \in t.brief.dayTrips}
             PROVE  FALSE
  OBVIOUS
<1>1. issueOn(day.date, "MULTI_CITY", <<a.id>>) \in ActivityIssues(t, day, a)
  BY DEF ActivityIssues
<1> QED
  BY <1>1 DEF Unblocked, issueOn

LEMMA MainsAreBacked ==
  ASSUME PlanAssumption, NEW outcome \in Findings, NEW t, NEW base,
         ~Blocking(validateTrip(t, base)), t.brief = Brief,
         UnresolvedClaims(outcome, t.claims),
         NEW day \in ToSet(t.days), NEW a \in ToSet(day.activities), Main(a),
         SaysWhatWasFound(outcome, a)
  PROVE  \E c \in {d \in Visits : d.id = a.id} :
           Backed(outcome[a.id], c, day.date, a)
<1>0. PICK i \in DOMAIN Plan : \E c \in ToSet(Kept(Plan[i])) :
        /\ c.id = a.id
        /\ Facts(a) = Facts(ActivityOf(c, Plan[i].date, outcome[c.id]))
  BY DEF SaysWhatWasFound
<1>1. PICK c \in ToSet(Kept(Plan[i])) :
        /\ c.id = a.id
        /\ Facts(a) = Facts(ActivityOf(c, Plan[i].date, outcome[c.id]))
  BY <1>0
<1>2. PICK o, date, made : /\ o = outcome[a.id] /\ date = Plan[i].date
                           /\ made = ActivityOf(c, date, o)
  OBVIOUS
<1>3. c \in Visits /\ date \in Int
  BY <1>1, <1>2, PlanParts
<1>4. o = outcome[c.id]
  BY <1>1, <1>2
<1>5. /\ a.place = made.place /\ a.city = made.city /\ a.cost = made.cost
      /\ a.opens = made.opens
  BY <1>1, <1>2, <1>4 DEF Facts
<1>6. /\ Parses(t)
      /\ Unblocked(EvidenceIssues(t, day))
      /\ Unblocked(ActivityIssues(t, day, a))
  BY CheckByCheck
<1>7. /\ \A claim \in ToSet(t.claims) :
              claim.critical => claim.status = "verified"
      /\ "tickets" \in Brief.includes => a.cost # Unknown
  <2>1. a \in Activities(t)
    BY DEF Activities
  <2> QED
    BY <2>1, NothingUnverified
<1>8. PICK hit, i0 : /\ hit = exactPlaceCandidate(c, o.list)
                     /\ i0 \in DOMAIN o.list /\ hit # <<>>
                     /\ hit[1] = o.list[i0]
                     /\ \A j \in DOMAIN o.list \ {i0} :
                          IsExact(c, o.list[i0]) /\ ~IsExact(c, o.list[j])
  <2>1. PICK hit : hit = exactPlaceCandidate(c, o.list)
    OBVIOUS
  <2>2. Resolved(c, o) # <<>>
    BY <1>1, <1>4, <1>7 DEF UnresolvedClaims
  <2>3. hit # <<>>
    BY <2>1, <2>2 DEF Resolved
  <2>4. o.list \in Seq(ToSet(o.list))
    BY <1>3, <1>4, OutcomeForm
  <2> QED
    BY <2>1, <2>3, <2>4, ToldApart
<1>9. PICK place : place = IF o.detail = <<>> THEN o.list[i0] ELSE o.detail[1]
  OBVIOUS
<1>10. /\ a.place = "place:" \o place.place /\ a.city = place.city
       /\ NamesOfPlace(c, o) = {c.keyword, place.name}
  <2>1. Resolved(c, o) # <<>> /\ Resolved(c, o)[1] = place
    BY <1>8, <1>9 DEF Resolved
  <2>2. /\ made.place = "place:" \o Resolved(c, o)[1].place
        /\ made.city = Resolved(c, o)[1].city
    BY <1>2, <2>1 DEF ActivityOf
  <2> QED
    BY <1>5, <2>1, <2>2 DEF NamesOfPlace
<1>11. /\ localDate(a.start) = day.date /\ localDate(a.end) = day.date
       /\ \E windows \in ToSet(a.opens) : \E w \in windows :
            w.start <= a.start /\ a.end <= w.end
  BY <1>6, MainsAreOpen
<1>18. PICK windows \in ToSet(a.opens) : \E w \in windows :
         w.start <= a.start /\ a.end <= w.end
  BY <1>11
<1>12. PICK w \in windows : w.start <= a.start /\ a.end <= w.end
  BY <1>18
<1>13. PICK page, h :
         /\ page \in ToSet(o.page)
         /\ page.status = "verified" /\ ~page.conditional
         /\ page.names \cap NamesOfPlace(c, o) # {}
         /\ h \in ToSet(page.hours)
         /\ h \in [start : 0 .. Minutes - 1, end : 0 .. Minutes - 1]
         /\ w.start = date * Minutes + h.start
         /\ w.end = date * Minutes + h.end
         /\ made.cost # Unknown => page.price # <<>>
  <2>1. windows \in ToSet(made.opens)
    BY <1>5, <1>18
  <2>2. \E page \in ToSet(o.page) :
          /\ page.status = "verified" /\ ~page.conditional
          /\ page.names \cap NamesOfPlace(c, o) # {}
          /\ \E h \in ToSet(page.hours) :
               /\ h \in [start : 0 .. Minutes - 1, end : 0 .. Minutes - 1]
               /\ w.start = date * Minutes + h.start
               /\ w.end = date * Minutes + h.end
          /\ made.cost # Unknown => page.price # <<>>
    <3>1. made = ActivityOf(c, date, o)
      BY <1>2
    <3> QED
      BY <1>3, <1>4, <1>12, <2>1, <3>1, OpensByPage
  <2> QED
    BY <2>2
<1>14. a.start \in Int /\ a.end \in Int
  BY <1>6, ParsedDay DEF WellTimed
<1>15. date = day.date
  <2>1. PICK s, e \in Int : s = a.start /\ e = a.end
    BY <1>14
  <2>2. date * Minutes <= s /\ e <= date * Minutes + (Minutes - 1)
    <3>3. h.start \in 0 .. Minutes - 1 /\ h.end \in 0 .. Minutes - 1
      BY <1>13
    <3>4. PICK m, n : m = h.start /\ n = h.end
      OBVIOUS
    <3>5. m \in 0 .. Minutes - 1 /\ n \in 0 .. Minutes - 1
      BY <3>3, <3>4
    <3>6. Minutes - 1 \in Int
      BY DEF Minutes
    <3>7. m \in Int /\ n \in Int /\ 0 <= m /\ n <= Minutes - 1
      BY <3>5, <3>6
    <3>1. /\ m = h.start /\ n = h.end /\ m \in Int /\ n \in Int
          /\ 0 <= m /\ n <= Minutes - 1
      BY <3>4, <3>7
    <3>2. PICK first, last : /\ first = w.start /\ last = w.end
                             /\ first = date * Minutes + m
                             /\ last = date * Minutes + n
                             /\ first <= s /\ e <= last
      BY <1>12, <1>13, <2>1, <3>1
    <3> QED
      BY <1>3, <3>1, <3>2 DEF Minutes
  <2>3. date <= localDate(s) /\ localDate(e) <= date
    BY <1>3, <1>14, <2>1, <2>2, DayOfTime
  <2>4. localDate(s) = localDate(e) /\ localDate(s) \in Int
    BY <1>11, <1>14, <2>1 DEF localDate, Minutes
  <2> QED
    BY <1>3, <1>11, <2>1, <2>3, <2>4
<1>16. "tickets" \in Brief.includes => page.price # <<>>
  BY <1>5, <1>7, <1>13
<1>17. /\ day.date * Minutes + h.start <= a.start
       /\ a.end <= day.date * Minutes + h.end
  BY <1>12, <1>13, <1>15
<1>19. a.city \in {Brief.city} \cup {d.to : d \in Brief.dayTrips}
  BY <1>6, CityIsConfirmed
<1>20. Backed(o, c, day.date, a)
  <2>1. {c.keyword, place.name} \cap page.names # {}
    BY <1>10, <1>13
  <2> QED
    BY <1>8, <1>9, <1>10, <1>13, <1>16, <1>17, <1>19, <2>1
    DEF Backed, IsExact
<1> QED
  BY <1>1, <1>2, <1>3, <1>20

LEMMA DeliveredIsBacked ==
  ASSUME PlanAssumption, NEW outcome \in Findings, NEW t, NEW base,
         ~Blocking(validateTrip(t, base)), t.brief = Brief,
         UnresolvedClaims(outcome, t.claims),
         \A a \in Activities(t) : SaysWhatWasFound(outcome, a),
         NEW day \in ToSet(t.days)
  PROVE  /\ Walkable(day)
         /\ \A a \in {b \in ToSet(day.activities) : Main(b)} :
              \E c \in {d \in Visits : d.id = a.id} :
                Backed(outcome[a.id], c, day.date, a)
<1>1. Walkable(day)
  BY CheckByCheck, DaysAreWalkable
<1>2. \A a \in ToSet(day.activities) : SaysWhatWasFound(outcome, a)
  BY DEF Activities
<1> QED
  BY <1>1, <1>2, MainsAreBacked

-----------------------------------------------------------------------------
(* The stages *)

LEMMA AssemblyStarts ==
  ASSUME AssemblyInit
  PROVE  AssemblyInv
  BY DEF AssemblyInit, AssemblyInv, NoTrip, Assembled, FinalIsBacked,
     AssemblyFields

\* The days rest on what was found.
Rests(days, outcome) ==
  \A day \in ToSet(days) :
    /\ Walkable(day)
    /\ \A a \in {b \in ToSet(day.activities) : Main(b)} :
         \E c \in {d \in Visits : d.id = a.id} :
           Backed(outcome[a.id], c, day.date, a)

LEMMA AssemblyStep ==
  ASSUME PlanAssumption, AssemblyInv, [AssemblyNext]_assemblyVars
  PROVE  AssemblyInv'
<1> DEFINE Sourced == \A a \in Activities(draft) : SaysWhatWasFound(found, a)
<1>1. CASE EvidenceCollection
  <2>1. PICK outcome \in Findings : draft' = collectEvidence(outcome)
                                    /\ found' = outcome
    BY <1>1 DEF EvidenceCollection
  <2>2. DOMAIN draft' = TripFields
    BY <2>1, Collected
  <2>3. stage' = "route_and_budget"
    BY <1>1 DEF EvidenceCollection
  <2> QED
    BY <2>1, <2>2, <2>3 DEF AssemblyInv, Assembled, TripFields,
       FinalIsBacked, AssemblyFields
<1>2. CASE RouteAndBudget
  <2>1. PICK route : draft' = completeRoutesAndBudget(draft, route)
    BY <1>2 DEF RouteAndBudget
  <2>2. /\ stage = "route_and_budget" /\ stage' = "hard_validation"
        /\ baseline' = draft' /\ found' = found
    BY <1>2 DEF RouteAndBudget
  <2>3. found \in Findings /\ draft = collectEvidence(found)
    BY <2>2 DEF AssemblyInv
  <2>4. PICK r : r = draft'
    OBVIOUS
  <2>5. /\ DOMAIN r = TripFields /\ r.brief = Brief
        /\ UnresolvedClaims(found, r.claims)
        /\ \A a \in Activities(r) : SaysWhatWasFound(found, a)
    BY <2>1, <2>3, <2>4, RoutesOfThePlan
  <2>6. /\ UnresolvedClaims(found, draft.claims)'
        /\ Sourced'
    BY <2>2, <2>4, <2>5 DEF UnresolvedClaims, Activities, SaysWhatWasFound
  <2> QED
    BY <2>2, <2>3, <2>4, <2>5, <2>6 DEF AssemblyInv, Assembled, TripFields,
       FinalIsBacked, AssemblyFields
<1>3. CASE HardValidation
  <2>1. /\ stage = "hard_validation" /\ stage' = "repair"
        /\ draft' = draft /\ baseline' = baseline /\ found' = found
    BY <1>3 DEF HardValidation
  <2>2. /\ UnresolvedClaims(found, draft.claims)'
        /\ Sourced'
    BY <2>1 DEF AssemblyInv, Assembled, UnresolvedClaims, Activities,
       SaysWhatWasFound
  <2> QED
    BY <2>1, <2>2 DEF AssemblyInv, Assembled, FinalIsBacked
<1>4. CASE Repair
  <2>1. /\ stage = "repair" /\ stage' \in {"repair", "finalization"}
        /\ baseline' = baseline /\ found' = found
    BY <1>4 DEF Repair
  <2>2. /\ draft.brief = Brief /\ baseline.brief = Brief
        /\ AssemblyFields \subseteq DOMAIN draft
        /\ UnresolvedClaims(found, draft.claims) /\ Sourced
        /\ found \in Findings
    BY <2>1 DEF AssemblyInv, Assembled
  <2>3. \/ draft' = draft
        \/ \E status : draft' = [draft EXCEPT !.status = status]
        \/ draft' \in Repaired(draft) /\ ~Unauthorized(draft')
    BY <1>4 DEF Repair
  <2>4. PICK r : r = draft'
    OBVIOUS
  <2>5. /\ AssemblyFields \subseteq DOMAIN r
        /\ r.brief = Brief /\ r.claims = draft.claims
        /\ \A a \in Activities(r) : SaysWhatWasFound(found, a)
    <3>1. CASE r = draft
      BY <2>2, <3>1
    <3>2. CASE \E status : r = [draft EXCEPT !.status = status]
      <4>1. /\ DOMAIN r = DOMAIN draft
            /\ r.brief = draft.brief /\ r.claims = draft.claims
            /\ r.days = draft.days
        BY <2>2, <3>2 DEF AssemblyFields
      <4> QED
        BY <2>2, <4>1 DEF Activities
    <3>3. CASE r \in Repaired(draft) /\ ~Unauthorized(r)
      <4>1. DOMAIN r = DOMAIN draft
        BY <3>3, RepairedFields
      <4>2. /\ r.brief = baseline.brief /\ r.claims = draft.claims
            /\ \A a \in Activities(r) : SaysWhatWasFound(found, a)
        BY <2>2, <3>3, AuthorizedKeeps
      <4> QED
        BY <2>2, <4>1, <4>2
    <3> QED
      BY <2>3, <2>4, <3>1, <3>2, <3>3
  <2>6. /\ UnresolvedClaims(found, draft.claims)'
        /\ Sourced'
    BY <2>1, <2>2, <2>4, <2>5 DEF UnresolvedClaims, Activities,
       SaysWhatWasFound
  <2> QED
    BY <2>1, <2>2, <2>4, <2>5, <2>6 DEF AssemblyInv, Assembled, FinalIsBacked
<1>5. CASE Finalization
  <2>1. /\ stage = "finalization" /\ stage' = "done"
        /\ baseline' = baseline /\ found' = found
    BY <1>5 DEF Finalization
  <2>2. /\ draft.brief = Brief /\ baseline.brief = Brief
        /\ AssemblyFields \subseteq DOMAIN draft
        /\ UnresolvedClaims(found, draft.claims) /\ Sourced
        /\ found \in Findings
    BY <2>1 DEF AssemblyInv, Assembled
  <2>3. PICK list, alerts : /\ list = validateTrip(draft, baseline)
                            /\ draft' = [draft EXCEPT !.alerts = alerts,
                                                      !.status = Status(list)]
    BY <1>5 DEF Finalization
  <2>4. PICK r : r = draft'
    OBVIOUS
  <2>5. /\ DOMAIN r = DOMAIN draft
        /\ r.brief = draft.brief /\ r.claims = draft.claims
        /\ r.days = draft.days /\ r.status = Status(list)
    BY <2>2, <2>3, <2>4 DEF AssemblyFields
  <2>6. /\ UnresolvedClaims(found, draft.claims)'
        /\ Sourced'
    BY <2>1, <2>2, <2>4, <2>5 DEF UnresolvedClaims, Activities,
       SaysWhatWasFound
  <2>7. ASSUME r.status # "blocked", NEW day \in ToSet(r.days)
        PROVE  /\ Walkable(day)
               /\ \A a \in {b \in ToSet(day.activities) : Main(b)} :
                    \E c \in {d \in Visits : d.id = a.id} :
                      Backed(found[a.id], c, day.date, a)
    <3>1. ~Blocking(validateTrip(draft, baseline))
      BY <2>3, <2>5, <2>7 DEF Status
    <3>2. day \in ToSet(draft.days)
      BY <2>5, <2>7
    <3> QED
      BY <2>2, <3>1, <3>2, DeliveredIsBacked
  <2>9. FinalIsBacked' = (stage' = "done" /\ draft'.status # "blocked"
                             => Rests(draft'.days, found'))
    BY Zenon DEF FinalIsBacked, Rests, Backed
  <2>8. FinalIsBacked'
    BY <2>1, <2>4, <2>7, <2>9 DEF Rests
  <2> QED
    BY <2>1, <2>2, <2>4, <2>5, <2>6, <2>8 DEF AssemblyInv, Assembled
<1>6. CASE UNCHANGED assemblyVars
  <2>1. /\ stage' = stage /\ draft' = draft /\ baseline' = baseline
        /\ found' = found
    BY <1>6 DEF assemblyVars
  <2>2. /\ UnresolvedClaims(found, draft.claims)'
             = UnresolvedClaims(found, draft.claims)
        /\ Sourced' = Sourced
        /\ FinalIsBacked' = FinalIsBacked
    BY <2>1 DEF UnresolvedClaims, Activities, SaysWhatWasFound, FinalIsBacked
  <2> QED
    BY <2>1, <2>2 DEF AssemblyInv, Assembled
<1> QED
  BY <1>1, <1>2, <1>3, <1>4, <1>5, <1>6 DEF AssemblyNext

\* No answer of a repair changes what a trip is called.
LEMMA RepairedStatus ==
  ASSUME NEW t, "status" \in DOMAIN t, NEW candidate \in Repaired(t)
  PROVE  candidate.status = t.status
<1>1. ASSUME NEW i, NEW j, NEW r \in RepairedAt(t, i, j)
      PROVE  r.status = t.status
  BY <1>1 DEF RepairedAt
<1>2. \/ \E i, j : candidate \in RepairedAt(t, i, j)
      \/ candidate = [t EXCEPT !.alerts = {}]
      \/ candidate = [t EXCEPT !.claims = <<>>]
      \/ candidate = [t EXCEPT !.days[1].legs = <<>>]
  BY DEF Repaired
<1> QED
  BY <1>1, <1>2

\* The stages, the rounds of repair and what a trip is called, whatever the plan
\* and the outcomes of the tools are: repairTrip goes round twice at most
\* (agent/repair.ts, agent/pipeline.ts).
THEOREM AssemblyTypeCorrect == AssemblySpec => []AssemblyTypeOK
<1> DEFINE Typed == AssemblyTypeOK /\ "status" \in DOMAIN draft
<1>1. AssemblyInit => Typed
  BY DEF AssemblyInit, AssemblyTypeOK, NoTrip
<1>2. Typed /\ [AssemblyNext]_assemblyVars => Typed'
  <2> SUFFICES ASSUME Typed, [AssemblyNext]_assemblyVars
               PROVE  Typed'
    OBVIOUS
  <2>1. CASE EvidenceCollection
    <3>1. PICK outcome : draft' = collectEvidence(outcome)
      BY <2>1 DEF EvidenceCollection
    <3>2. draft'.status = "draft" /\ "status" \in DOMAIN draft'
      BY <3>1 DEF collectEvidence, NoTrip
    <3> QED
      BY <2>1, <3>2 DEF EvidenceCollection, AssemblyTypeOK
  <2>2. CASE RouteAndBudget
    <3>1. PICK route : draft' = completeRoutesAndBudget(draft, route)
      BY <2>2 DEF RouteAndBudget
    <3>2. draft'.status = draft.status /\ "status" \in DOMAIN draft'
      BY <3>1 DEF completeRoutesAndBudget
    <3> QED
      BY <2>2, <3>2 DEF RouteAndBudget, AssemblyTypeOK
  <2>3. CASE HardValidation
    BY <2>3 DEF HardValidation, AssemblyTypeOK
  <2>4. CASE Repair
    <3>1. CASE Blocking(issues) /\ rounds < 2
      <4>1. stage' = stage /\ rounds' \in 0 .. 2
        BY <2>4, <3>1 DEF Repair, AssemblyTypeOK
      <4>2. draft' = draft \/ draft' \in Repaired(draft)
        BY <2>4, <3>1 DEF Repair
      <4>3. draft'.status = draft.status /\ "status" \in DOMAIN draft'
        BY <4>2, RepairedStatus, RepairedFields
      <4> QED
        BY <4>1, <4>3 DEF AssemblyTypeOK
    <3>2. CASE ~(Blocking(issues) /\ rounds < 2)
      BY <2>4, <3>2 DEF Repair, AssemblyTypeOK, Status
    <3> QED
      BY <3>1, <3>2
  <2>5. CASE Finalization
    BY <2>5 DEF Finalization, AssemblyTypeOK, Status
  <2>6. CASE UNCHANGED assemblyVars
    BY <2>6 DEF assemblyVars, AssemblyTypeOK
  <2> QED
    BY <2>1, <2>2, <2>3, <2>4, <2>5, <2>6 DEF AssemblyNext
<1>3. Typed => AssemblyTypeOK
  OBVIOUS
<1> QED
  BY <1>1, <1>2, <1>3, PTL DEF AssemblySpec

\* The invariant of the planner's stages, whatever the tools find and the model
\* answers (agent/enrichment.ts, agent/repair.ts, agent/pipeline.ts).
THEOREM AssemblyInvariant == PlanAssumption => (AssemblySpec => []AssemblyInv)
<1> SUFFICES ASSUME PlanAssumption
             PROVE  AssemblySpec => []AssemblyInv
  OBVIOUS
<1>1. AssemblyInit => AssemblyInv
  BY AssemblyStarts
<1>2. AssemblyInv /\ [AssemblyNext]_assemblyVars => AssemblyInv'
  BY AssemblyStep
<1> QED
  BY <1>1, <1>2, PTL DEF AssemblySpec

\* A delivered trip that is not called blocked rests on what was found.
THEOREM DeliveredTripsAreBacked ==
  PlanAssumption => (AssemblySpec => []FinalIsBacked)
<1> SUFFICES ASSUME PlanAssumption
             PROVE  AssemblySpec => []FinalIsBacked
  OBVIOUS
<1>1. AssemblyInv => FinalIsBacked
  BY DEF AssemblyInv, FinalIsBacked
<1>2. AssemblySpec => []AssemblyInv
  BY AssemblyInvariant
<1> QED
  BY <1>1, <1>2, PTL

-----------------------------------------------------------------------------
(* Claims stay as they were resolved                                        *)

\* Evidence of the groups Q under any name it may get.
Pieces(Q) ==
  [id : Seq({"evidence"} \cup Q \cup STRING), source : SourceTypes, origin : STRING,
   value : [means : STRING, spelt : Nat], at : Nat, status : STRING]

\* The same piece of evidence, but for its name.
Same(x, e) ==
  /\ x.source = e.source /\ x.origin = e.origin /\ x.value = e.value
  /\ x.at = e.at /\ x.status = e.status

LEMMA PiecesAreClosed ==
  ASSUME NEW Q, NEW group \in Q
  PROVE  /\ Renamed(Pieces(Q), group)
         /\ Shared(Pieces(Q))
<1>1. ASSUME NEW e \in Pieces(Q), NEW d \in Pieces(Q)
      PROVE  [e EXCEPT !.id = d.id] \in Pieces(Q)
  BY DEF Pieces
<1>2. ASSUME NEW e \in Pieces(Q)
      PROVE  [e EXCEPT !.id = NewName(group, e)] \in Pieces(Q)
  <2>1. PICK W : W = {"evidence"} \cup Q \cup STRING
    OBVIOUS
  <2>2. e.id \in Seq(W) /\ <<"evidence", group>> \in Seq(W)
    BY <2>1 DEF Pieces
  <2>3. <<"evidence", group>> \o e.id \in Seq(W)
    BY <2>2, ConcatProperties
  <2> QED
    BY <2>1, <2>3 DEF Pieces, NewName
<1> QED
  BY <1>1, <1>2 DEF Shared, Renamed

\* Merging makes nothing up, and loses no source that says something else.
LEMMA MergeCovers ==
  ASSUME NEW Q, NEW s \in Seq(Pieces(Q))
  PROVE  /\ Merge(s) \in Seq(Pieces(Q))
         /\ \A x \in ToSet(Merge(s)) :
              /\ \E e \in ToSet(s) : Same(x, e)
              /\ \E e \in ToSet(s) : x.id = e.id
         /\ \A e \in ToSet(s) :
              \E x \in ToSet(Merge(s)) : MergeKey(x) = MergeKey(e)
<1>1. PICK n \in Nat : n = Len(s) /\ DOMAIN s = 1 .. n
  BY LenProperties
<1>2. \A i \in 1 .. n : s[i] \in Pieces(Q) /\ s[i] \in ToSet(s)
  BY <1>1, ElementOfSeq DEF ToSet
<1>3. \A e \in ToSet(s) : e \in Pieces(Q)
  BY <1>1, <1>2 DEF ToSet
<1>4. PICK M : M = {x \in Pieces(Q) : /\ \E e \in ToSet(s) : Same(x, e)
                                      /\ \E e \in ToSet(s) : x.id = e.id}
  OBVIOUS
<1>5. Shared(M)
  <2>1. ASSUME NEW e \in M, NEW m \in M
        PROVE  [e EXCEPT !.id = m.id] \in M
    <3>1. PICK x : x = [e EXCEPT !.id = m.id]
      OBVIOUS
    <3>2. x \in Pieces(Q) /\ x.id = m.id /\ Same(x, e)
      BY <1>4, <3>1 DEF Pieces, Same
    <3>3. PICK d \in ToSet(s) : Same(e, d)
      BY <1>4
    <3>4. Same(x, d)
      BY <3>2, <3>3 DEF Same
    <3> QED
      BY <1>4, <3>1, <3>2, <3>4
  <2> QED
    BY <2>1 DEF Shared
<1>6. \A i \in 1 .. n : s[i] \in M
  <2>1. \A e : Same(e, e)
    BY DEF Same
  <2> QED
    BY <1>2, <1>4, <2>1
<1>7. s \in Seq(M)
  BY <1>1, <1>6
<1>8. PICK p : /\ p[0] = <<>>
               /\ \A k \in 1 .. n : p[k] = MergeOne(p[k - 1], s[k])
               /\ \A k \in 0 .. n : p[k] \in Seq(M)
               /\ Merge(s) = p[n]
  BY <1>1, <1>5, <1>7, MergeSteps
<1>9. Merge(s) \in Seq(M) /\ \A x \in ToSet(Merge(s)) : x \in M
  <2>1. PICK r : r = Merge(s) /\ r \in Seq(M)
    BY <1>8
  <2>2. \A x \in ToSet(r) : x \in M
    BY <2>1, ElementOfSeq, LenProperties DEF ToSet
  <2> QED
    BY <2>1, <2>2
<1> DEFINE Covers(r, e) == \E x \in ToSet(r) : MergeKey(x) = MergeKey(e)
           G == {k \in 0 .. n : \A i \in 1 .. k : Covers(p[k], s[i])}
<1>10. 0 \in G
  OBVIOUS
<1>11. ASSUME NEW k \in 1 .. n, k - 1 \in G
       PROVE  k \in G
  <2>1. PICK r, e : /\ r = p[k - 1] /\ e = s[k] /\ r \in Seq(M) /\ e \in M
                    /\ p[k] = MergeOne(r, e)
    BY <1>6, <1>8
  <2>2. PICK m \in Nat : m = Len(r) /\ DOMAIN r = 1 .. m
    BY <2>1, LenProperties
  <2>3. CASE \A i \in DOMAIN r : MergeKey(r[i]) # MergeKey(e)
    <3>1. MergeOne(r, e) = Append(r, e)
      BY <2>3 DEF MergeOne
    <3>2. ToSet(Append(r, e)) = ToSet(r) \cup {e}
      BY <2>1, AppendedSet
    <3>3. Covers(p[k], e) /\ \A d : Covers(r, d) => Covers(p[k], d)
      BY <2>1, <3>1, <3>2
    <3>4. \A i \in 1 .. k : i \in 1 .. k - 1 \/ i = k
      OBVIOUS
    <3> HIDE DEF Covers
    <3> QED
      BY <1>11, <2>1, <3>3, <3>4
  <2>4. CASE ~\A i \in DOMAIN r : MergeKey(r[i]) # MergeKey(e)
    <3>1. PICK q : /\ q = MergeOne(r, e)
                   /\ q = [i \in DOMAIN r |->
                             IF MergeKey(r[i]) = MergeKey(e) /\ e.at > r[i].at
                             THEN [e EXCEPT !.id = r[i].id] ELSE r[i]]
      BY <2>4 DEF MergeOne
    <3>2. \A i \in DOMAIN r : MergeKey(q[i]) = MergeKey(r[i])
      <4>1. \A x : MergeKey([e EXCEPT !.id = x]) = MergeKey(e)
        BY <1>4, <2>1 DEF MergeKey, Pieces
      <4> QED
        BY <3>1, <4>1
    <3>3. DOMAIN q = DOMAIN r
      BY <3>1
    <3>4. \A d : Covers(r, d) => Covers(q, d)
      BY <3>2, <3>3 DEF ToSet
    <3>5. Covers(q, e)
      BY <2>4, <3>2, <3>3 DEF ToSet
    <3>6. \A i \in 1 .. k : i \in 1 .. k - 1 \/ i = k
      OBVIOUS
    <3>7. \A i \in 1 .. k - 1 : Covers(r, s[i])
      BY <1>11, <2>1
    <3>8. q = p[k] /\ e = s[k]
      BY <2>1, <3>1
    <3> HIDE DEF Covers
    <3>9. \A i \in 1 .. k : Covers(q, s[i])
      BY <3>4, <3>5, <3>6, <3>7, <3>8
    <3> QED
      BY <3>8, <3>9
  <2> QED
    BY <2>3, <2>4
<1> HIDE DEF G
<1>12. \A k \in 0 .. n : k \in G
  BY <1>10, <1>11, UpTo
<1>13. n \in G
  BY <1>12
<1>14. \A i \in 1 .. n : Covers(Merge(s), s[i])
  BY <1>8, <1>13 DEF G
<1>15. Merge(s) \in Seq(Pieces(Q))
  <2>1. M \subseteq Pieces(Q)
    BY <1>4
  <2> QED
    BY <1>9, <2>1
<1>16. \A x \in ToSet(Merge(s)) : /\ \E e \in ToSet(s) : Same(x, e)
                                  /\ \E e \in ToSet(s) : x.id = e.id
  BY <1>4, <1>9
<1>17. \A e \in ToSet(s) : Covers(Merge(s), e)
  BY <1>1, <1>14 DEF ToSet
<1> QED
  BY <1>15, <1>16, <1>17

\* A piece of s under the name it gets in its group.
NamedAs(x, e, group, used) ==
  /\ Same(x, e)
  /\ \/ x.id = e.id /\ e.id \notin used
     \/ x.id = NewName(group, e)

\* A group's evidence gets names that are not used; nothing is lost or made up.
LEMMA RenameKeeps ==
  ASSUME NEW Q, NEW group \in Q, NEW used, NEW s \in Seq(Pieces(Q))
  PROVE  /\ Rename(group, used, s) \in Seq(Pieces(Q))
         /\ \A x \in ToSet(Rename(group, used, s)) :
              \E e \in ToSet(s) : NamedAs(x, e, group, used)
         /\ \A e \in ToSet(s) :
              \E x \in ToSet(Rename(group, used, s)) : Same(x, e)
<1>0. PICK M : M = Pieces(Q) /\ Renamed(M, group) /\ s \in Seq(M)
  BY PiecesAreClosed
<1>1. PICK p : /\ p[0] = <<>>
               /\ \A k \in 1 .. Len(s) :
                     p[k] = WithName(group, used, p[k - 1], s[k])
               /\ \A k \in 0 .. Len(s) : p[k] \in Seq(M)
               /\ Rename(group, used, s) = p[Len(s)]
  BY <1>0, RenameSteps, SMTT(30)
<1>2. PICK n \in Nat : n = Len(s) /\ DOMAIN s = 1 .. n
  BY LenProperties
<1> DEFINE Known(r, k) ==
             /\ \A x \in ToSet(r) :
                  \E i \in 1 .. k : NamedAs(x, s[i], group, used)
             /\ \A i \in 1 .. k : \E x \in ToSet(r) : Same(x, s[i])
           G == {k \in 0 .. n : Known(p[k], k)}
<1>3. 0 \in G
  <2>1. ToSet(<<>>) = {} /\ 1 .. 0 = {}
    BY DEF ToSet
  <2> QED
    BY <1>1, <2>1
<1>4. ASSUME NEW k \in 1 .. n, k - 1 \in G
      PROVE  k \in G
  <2>1. PICK r \in Seq(Pieces(Q)) : r = p[k - 1] /\ Known(r, k - 1)
    BY <1>0, <1>1, <1>2, <1>4
  <2>2. PICK e \in Pieces(Q) : e = s[k]
    BY <1>2, ElementOfSeq
  <2>3. PICK x \in Pieces(Q) : x = Named(group, used, r, e)
    BY <2>2, PiecesAreClosed DEF Named, Renamed
  <2>4. p[k] = Append(r, x)
    BY <1>1, <1>2, <2>1, <2>2, <2>3 DEF WithName
  <2>5. /\ Same(x, e)
        /\ \/ x.id = e.id /\ e.id \notin used
           \/ x.id = NewName(group, e)
    <3>1. CASE e.id \in used \cup {d.id : d \in ToSet(r)}
      <4>1. x = [e EXCEPT !.id = NewName(group, e)]
        BY <2>3, <3>1 DEF Named
      <4> QED
        BY <2>2, <4>1 DEF Pieces, Same
    <3>2. CASE e.id \notin used \cup {d.id : d \in ToSet(r)}
      <4>1. x = e
        BY <2>3, <3>2 DEF Named
      <4> QED
        BY <3>2, <4>1 DEF Same
    <3> QED
      BY <3>1, <3>2
  <2>6. NamedAs(x, s[k], group, used)
    BY <2>2, <2>5 DEF NamedAs
  <2>7. ToSet(p[k]) = ToSet(r) \cup {x}
    BY <2>4, AppendedSet
  <2>8. \A i : i \in 1 .. k <=> i \in 1 .. k - 1 \/ i = k
    OBVIOUS
  <2>9. Same(x, s[k])
    BY <2>6 DEF NamedAs
  <2>10. Known(p[k], k)
    BY <2>1, <2>6, <2>7, <2>8, <2>9
  <2> QED
    BY <1>2, <2>10
<1> HIDE DEF G
<1>5. \A k \in 0 .. n : k \in G
  BY <1>3, <1>4, UpTo
<1>6. n \in G
  BY <1>5
<1>7. Known(Rename(group, used, s), n)
  BY <1>1, <1>2, <1>6 DEF G
<1>8. \A e : e \in ToSet(s) <=> \E i \in 1 .. n : e = s[i]
  BY <1>2 DEF ToSet
<1>9. Rename(group, used, s) \in Seq(Pieces(Q))
  BY <1>0, <1>1, <1>2
<1>10. \A x \in ToSet(Rename(group, used, s)) :
         \E e \in ToSet(s) : NamedAs(x, e, group, used)
  BY <1>7, <1>8
<1>11. \A e \in ToSet(s) :
         \E x \in ToSet(Rename(group, used, s)) : Same(x, e)
  BY <1>7, <1>8
<1> QED
  BY <1>9, <1>10, <1>11

\* No group comes twice.
LEMMA GroupsOnce ==
  ASSUME NEW E, NEW Q, \A o \in E : o.group \in Q, NEW s \in Seq(E)
  PROVE  Distinct(Groups(s))
<1>1. PICK p : /\ p[0] = <<>>
               /\ \A k \in 1 .. Len(s) : p[k] = NextGroup(p[k - 1], s[k])
               /\ \A k \in 0 .. Len(s) : p[k] \in Seq(Q)
               /\ Groups(s) = p[Len(s)]
  BY GroupsSteps
<1>2. PICK n \in Nat : n = Len(s)
  BY LenProperties
<1>3. PICK D : D = {r \in Seq(Q) : Distinct(r)}
  OBVIOUS
<1>4. p[0] \in D
  BY <1>1, <1>3 DEF Distinct
<1>5. ASSUME NEW k \in 1 .. n, p[k - 1] \in D
      PROVE  p[k] \in D
  <2>1. PICK r \in Seq(Q) : r = p[k - 1] /\ Distinct(r)
    BY <1>3, <1>5
  <2>2. PICK o \in E : o = s[k] /\ o.group \in Q
    BY <1>2, ElementOfSeq
  <2>3. p[k] = NextGroup(r, o) /\ p[k] \in Seq(Q)
    BY <1>1, <1>2, <2>1, <2>2
  <2>4. CASE Contains(r, o.group)
    BY <1>3, <2>1, <2>3, <2>4 DEF NextGroup
  <2>5. CASE ~Contains(r, o.group)
    <3>1. PICK q : q = p[k] /\ q = Append(r, o.group)
      BY <2>3, <2>5 DEF NextGroup
    <3>2. PICK m \in Nat : m = Len(r) /\ DOMAIN r = 1 .. m
      BY <2>1, LenProperties
    <3>3. /\ q \in Seq(Q) /\ Len(q) = m + 1 /\ q[m + 1] = o.group
          /\ \A i \in 1 .. m : q[i] = r[i]
      BY <2>1, <2>2, <3>1, <3>2, AppendProperties
    <3>4. DOMAIN q = 1 .. m + 1
          /\ \A i : i \in 1 .. m + 1 <=> i \in 1 .. m \/ i = m + 1
      BY <3>2, <3>3, LenProperties
    <3>5. \A i \in 1 .. m : r[i] # o.group
      BY <2>5, <3>2 DEF Contains
    <3>6. \A i, j \in 1 .. m : r[i] = r[j] => i = j
      BY <2>1, <3>2 DEF Distinct
    <3>7. Distinct(q)
      BY <3>3, <3>4, <3>5, <3>6 DEF Distinct
    <3> QED
      BY <1>3, <2>3, <3>1, <3>7
  <2> QED
    BY <2>4, <2>5
<1>6. \A k \in 0 .. n : p[k] \in D
  BY <1>2, <1>4, <1>5, StepsStay
<1>7. p[n] \in D
  BY <1>6
<1> QED
  BY <1>1, <1>2, <1>3, <1>7

\* What a group's evidence is made of.
MadeOf(items, obs, group, used) ==
  /\ \A x \in ToSet(items) : \E o \in ToSet(obs) :
       o.group = group /\ Same(x, o.item)
  /\ \A x \in ToSet(items) : \E o \in ToSet(obs) :
       \/ x.id = o.item.id /\ x.id \notin used
       \/ x.id = NewName(group, o.item)
  /\ \A o \in ToSet(obs) : o.group = group =>
       \E x \in ToSet(items) : MergeKey(x) = MergeKey(o.item)

LEMMA GroupIsMadeOf ==
  ASSUME NEW E, NEW Q, \A o \in E : o.item \in Pieces(Q), NEW obs \in Seq(E),
         NEW group \in Q, NEW used
  PROVE  /\ GroupResult(obs, used, group).items \in Seq(Pieces(Q))
         /\ MadeOf(GroupResult(obs, used, group).items, obs, group, used)
<1>1. PICK S : S = {o \in ToSet(obs) : o.group = group}
  OBVIOUS
<1>2. PICK own : /\ own = Only(obs, S) /\ own \in Seq(E \cap S)
                 /\ ToSet(own) = ToSet(obs) \cap S
  BY OnlySelects
<1>3. PICK n \in Nat : n = Len(own) /\ DOMAIN own = 1 .. n
  BY <1>2, LenProperties
<1>4. \A i \in 1 .. n : own[i] \in E \cap S
  BY <1>2, <1>3, ElementOfSeq
<1>5. PICK seen : seen = [i \in DOMAIN own |-> own[i].item]
  OBVIOUS
<1>6. seen \in Seq(Pieces(Q))
  BY <1>3, <1>4, <1>5
<1>7. \A e : e \in ToSet(seen) <=> \E o \in S : e = o.item
  <2>1. \A o : o \in S <=> \E i \in 1 .. n : o = own[i]
    <3>1. S = ToSet(own)
      BY <1>1, <1>2
    <3>2. ToSet(own) = {own[i] : i \in 1 .. n}
      BY <1>3 DEF ToSet
    <3> QED
      BY <3>1, <3>2
  <2>2. \A e : e \in ToSet(seen) <=> \E i \in 1 .. n : e = own[i].item
    BY <1>3, <1>5 DEF ToSet
  <2> QED
    BY <2>1, <2>2
<1>8. PICK merged \in Seq(Pieces(Q)) :
        /\ merged = Merge(seen)
        /\ \A x \in ToSet(merged) :
             /\ \E e \in ToSet(seen) : Same(x, e)
             /\ \E e \in ToSet(seen) : x.id = e.id
        /\ \A e \in ToSet(seen) :
             \E x \in ToSet(merged) : MergeKey(x) = MergeKey(e)
  BY <1>6, MergeCovers
<1>9. PICK items \in Seq(Pieces(Q)) :
        /\ items = Rename(group, used, merged)
        /\ \A x \in ToSet(items) :
             \E e \in ToSet(merged) : NamedAs(x, e, group, used)
        /\ \A e \in ToSet(merged) : \E x \in ToSet(items) : Same(x, e)
  BY RenameKeeps
<1>10. items = GroupResult(obs, used, group).items
  BY <1>1, <1>2, <1>5, <1>8, <1>9 DEF GroupResult
<1>11. ASSUME NEW x \in ToSet(items)
       PROVE  /\ \E o \in ToSet(obs) : o.group = group /\ Same(x, o.item)
              /\ \E o \in ToSet(obs) : \/ x.id = o.item.id /\ x.id \notin used
                                       \/ x.id = NewName(group, o.item)
  <2>1. PICK e \in ToSet(merged) : NamedAs(x, e, group, used)
    BY <1>9
  <2>2. PICK o \in S : Same(e, o.item)
    BY <1>7, <1>8
  <2>3. PICK q \in S : e.id = q.item.id
    <3>1. PICK d \in ToSet(seen) : e.id = d.id
      BY <1>8
    <3> QED
      BY <1>7, <3>1
  <2>4. Same(x, o.item)
    BY <2>1, <2>2 DEF NamedAs, Same
  <2>5. \/ x.id = q.item.id /\ x.id \notin used
        \/ x.id = NewName(group, q.item)
    BY <2>1, <2>3 DEF NamedAs, NewName
  <2>6. o \in ToSet(obs) /\ o.group = group /\ q \in ToSet(obs)
    BY <1>1
  <2> QED
    BY <2>4, <2>5, <2>6
<1>12. ASSUME NEW o \in ToSet(obs), o.group = group
       PROVE  \E x \in ToSet(items) : MergeKey(x) = MergeKey(o.item)
  <2>1. o.item \in ToSet(seen)
    BY <1>1, <1>7, <1>12
  <2>2. PICK e \in ToSet(merged) : MergeKey(e) = MergeKey(o.item)
    BY <1>8, <2>1
  <2>3. PICK x \in ToSet(items) : Same(x, e)
    BY <1>9
  <2>4. MergeKey(x) = MergeKey(e)
    BY <2>3 DEF Same, MergeKey
  <2> QED
    BY <2>2, <2>4
<1>13. MadeOf(items, obs, group, used)
  BY <1>11, <1>12 DEF MadeOf
<1> QED
  BY <1>10, <1>13

\* A claim before it is resolved.
Opened(obs, group, items) ==
  [group |-> group, value |-> NoValue,
   evidence |-> {e.id : e \in ToSet(items)},
   critical |-> \E o \in ToSet(Only(obs, {p \in ToSet(obs) : p.group = group})) :
                  o.critical,
   status |-> "recheck_required", conflicts |-> {}]

LEMMA ClaimIsResolved ==
  ASSUME NEW obs, NEW used, NEW group
  PROVE  GroupResult(obs, used, group).claim =
           Resolve(Opened(obs, group, GroupResult(obs, used, group).items),
                   GroupResult(obs, used, group).items)
  BY DEF GroupResult, Opened

\* How a claim is decided by the evidence that counts.
Decide(claim, s) ==
  IF s = <<>>
  THEN [claim EXCEPT !.status = "failed", !.conflicts = {}]
  ELSE IF \E m, n \in BestMeanings(s) : m # n
  THEN [claim EXCEPT !.status = "recheck_required",
                     !.conflicts = {e.id : e \in ToSet(s)}]
  ELSE [claim EXCEPT
          !.value = Only(s, {e \in ToSet(s) : e.value.means \in BestMeanings(s)})
                      [1].value,
          !.status = IF \E e \in Best(s) : e.status = "verified"
                     THEN "verified" ELSE "recheck_required",
          !.conflicts = {e.id : e \in {f \in ToSet(s) :
                                  f.value.means \notin BestMeanings(s)}}]

LEMMA ResolveDecides ==
  ASSUME NEW claim, NEW all
  PROVE  Resolve(claim, all) = Decide(claim, Referenced(claim, all))
  BY DEF Resolve, Decide

IsClaim(c) ==
  c = [group |-> c.group, value |-> c.value, evidence |-> c.evidence,
       critical |-> c.critical, status |-> c.status, conflicts |-> c.conflicts]

LEMMA OpenedIsClaim ==
  ASSUME NEW obs, NEW group, NEW items
  PROVE  /\ IsClaim(Opened(obs, group, items))
         /\ Opened(obs, group, items).group = group
         /\ Opened(obs, group, items).evidence = {e.id : e \in ToSet(items)}
  BY DEF IsClaim, Opened

\* Deciding again by the same evidence changes nothing.
LEMMA DecidedOnce ==
  ASSUME NEW claim, IsClaim(claim), NEW s
  PROVE  /\ Decide(Decide(claim, s), s) = Decide(claim, s)
         /\ Decide(claim, s).evidence = claim.evidence
         /\ Decide(claim, s).group = claim.group
<1>2. ASSUME NEW st, NEW co
      PROVE  LET d == [claim EXCEPT !.status = st, !.conflicts = co]
             IN  /\ [d EXCEPT !.status = st, !.conflicts = co] = d
                 /\ d.evidence = claim.evidence /\ d.group = claim.group
  BY DEF IsClaim
<1>3. CASE s = <<>>
  BY <1>2, <1>3 DEF Decide
<1>4. CASE s # <<>> /\ \E m, n \in BestMeanings(s) : m # n
  BY <1>2, <1>4 DEF Decide
<1>5. CASE s # <<>> /\ ~ \E m, n \in BestMeanings(s) : m # n
  <2>1. PICK v, st, co :
          /\ v = Only(s, {e \in ToSet(s) :
                            e.value.means \in BestMeanings(s)})[1].value
          /\ st = IF \E e \in Best(s) : e.status = "verified"
                  THEN "verified" ELSE "recheck_required"
          /\ co = {e.id : e \in {f \in ToSet(s) :
                                  f.value.means \notin BestMeanings(s)}}
    OBVIOUS
  <2>2. \A c : Decide(c, s) =
                [c EXCEPT !.value = v, !.status = st, !.conflicts = co]
    BY <1>5, <2>1 DEF Decide
  <2>3. PICK d : d = [claim EXCEPT !.value = v, !.status = st, !.conflicts = co]
    OBVIOUS
  <2>4. /\ [d EXCEPT !.value = v, !.status = st, !.conflicts = co] = d
        /\ d.evidence = claim.evidence /\ d.group = claim.group
    BY <2>3 DEF IsClaim
  <2>5. Decide(claim, s) = d
    BY <2>2, <2>3
  <2>6. Decide(d, s) = d
    BY <2>2, <2>4
  <2> QED
    BY <2>4, <2>5, <2>6
<1> QED
  BY <1>3, <1>4, <1>5

Names(s) == {e.id : e \in ToSet(s)}

\* Evidence that a claim does not name does not count, whether it came later
LEMMA LaterDoesNotCount ==
  ASSUME NEW E, NEW all \in Seq(E), NEW more \in Seq(E), NEW claim,
         \A e \in ToSet(more) : e.id \notin claim.evidence
  PROVE  Resolve(claim, all \o more) = Resolve(claim, all)
<1> DEFINE Counts(e) == /\ e.id \in claim.evidence /\ e.status # "failed"
                        /\ e.value # NoValue
<1>1. PICK S, T : /\ S = {e \in ToSet(all \o more) : Counts(e)}
                  /\ T = {e \in ToSet(all) : Counts(e)}
  OBVIOUS
<1>2. /\ Referenced(claim, all \o more) = Only(all \o more, S)
      /\ Referenced(claim, all) = Only(all, T)
  BY <1>1 DEF Referenced
<1>3. ToSet(all \o more) = ToSet(all) \cup ToSet(more)
  BY JoinedSet
<1>4. /\ \A e \in ToSet(all) : e \in S <=> e \in T
      /\ \A e \in ToSet(more) : e \notin S
  BY <1>1, <1>3
<1>5. Only(all \o more, S) = Only(all, T)
  BY <1>4, OnlyOfFirst
<1> QED
  BY <1>2, <1>5, ResolveDecides

\* or before.
LEMMA EarlierDoesNotCount ==
  ASSUME NEW E, NEW all \in Seq(E), NEW more \in Seq(E), NEW claim,
         \A e \in ToSet(all) : e.id \notin claim.evidence
  PROVE  Resolve(claim, all \o more) = Resolve(claim, more)
<1> DEFINE Counts(e) == /\ e.id \in claim.evidence /\ e.status # "failed"
                        /\ e.value # NoValue
<1>1. PICK S, T : /\ S = {e \in ToSet(all \o more) : Counts(e)}
                  /\ T = {e \in ToSet(more) : Counts(e)}
  OBVIOUS
<1>2. /\ Referenced(claim, all \o more) = Only(all \o more, S)
      /\ Referenced(claim, more) = Only(more, T)
  BY <1>1 DEF Referenced
<1>3. ToSet(all \o more) = ToSet(all) \cup ToSet(more)
  BY JoinedSet
<1>4. /\ \A e \in ToSet(more) : e \in S <=> e \in T
      /\ \A e \in ToSet(all) : e \notin S
  BY <1>1, <1>3
<1>5. Only(all \o more, S) = Only(more, T)
  BY <1>4, OnlyOfRest
<1> QED
  BY <1>2, <1>5, ResolveDecides

\* A name made for a group tells which.
LEMMA NameTellsGroup ==
  ASSUME NEW Q, NEW g \in Q, NEW h \in Q,
         NEW e \in Pieces(Q), NEW f \in Pieces(Q),
         NewName(g, e) = NewName(h, f)
  PROVE  g = h
<1>1. PICK W : W = {"evidence"} \cup Q \cup STRING
  OBVIOUS
<1>2. PICK a, b, x, y : /\ a = <<"evidence", g>> /\ b = <<"evidence", h>>
                        /\ x = e.id /\ y = f.id
                        /\ a \in Seq(W) /\ b \in Seq(W)
                        /\ x \in Seq(W) /\ y \in Seq(W)
                        /\ a \o x = b \o y
  <2>1. <<"evidence", g>> \in Seq(W) /\ <<"evidence", h>> \in Seq(W)
    BY <1>1
  <2>2. e.id \in Seq(W) /\ f.id \in Seq(W)
    BY <1>1 DEF Pieces
  <2>3. <<"evidence", g>> \o e.id = <<"evidence", h>> \o f.id
    BY DEF NewName
  <2> QED
    BY <2>1, <2>2, <2>3
<1>3. Len(a) = 2 /\ Len(b) = 2 /\ Len(x) \in Nat /\ Len(y) \in Nat
  BY <1>2, LenProperties
<1>4. (a \o x)[2] = a[2]
  <2>1. 2 \in 1 .. Len(a) + Len(x) /\ 2 <= Len(a)
    BY <1>3
  <2> QED
    BY <1>2, <2>1, ConcatProperties
<1>5. (b \o y)[2] = b[2]
  <2>1. 2 \in 1 .. Len(b) + Len(y) /\ 2 <= Len(b)
    BY <1>3
  <2> QED
    BY <1>2, <2>1, ConcatProperties
<1>6. a[2] = g /\ b[2] = h
  BY <1>2
<1> QED
  BY <1>2, <1>4, <1>5, <1>6

\* No source gives a name like those that are made.
NamesAreApart(E) ==
  \A o, p, q \in E : o.item.id # NewName(p.group, q.item)

ObservedOf(E, Q) ==
  /\ Q = {o.group : o \in E}
  /\ \A o \in E : o.item \in Pieces(Q)
  /\ NamesAreApart(E)

\* A name that there may be when k groups have been gathered.
NamedBy(n, obs, s, k) ==
  \/ \E o \in ToSet(obs) : n = o.item.id
  \/ \E i \in 1 .. k, o \in ToSet(obs) : n = NewName(s[i], o.item)

LEMMA NewNamesAreNew ==
  ASSUME NEW E, NEW Q, ObservedOf(E, Q), NEW obs \in Seq(E), NEW s \in Seq(Q),
         Distinct(s), NEW k \in 1 .. Len(s), NEW used,
         \A n \in used : NamedBy(n, obs, s, k - 1),
         NEW items, MadeOf(items, obs, s[k], used)
  PROVE  /\ used \cap Names(items) = {}
         /\ \A n \in used \cup Names(items) : NamedBy(n, obs, s, k)
<1>1. PICK m \in Nat : m = Len(s) /\ DOMAIN s = 1 .. m
  BY LenProperties
<1>2. \A i \in 1 .. m : s[i] \in Q /\ \E o \in E : s[i] = o.group
  BY <1>1, ElementOfSeq DEF ObservedOf
<1>3. \A o \in ToSet(obs) : o \in E /\ o.item \in Pieces(Q)
  <2>1. \A o \in ToSet(obs) : o \in E
    BY ElementOfSeq, LenProperties DEF ToSet
  <2> QED
    BY <2>1 DEF ObservedOf
<1>4. k \in 1 .. m /\ \A i \in 1 .. k - 1 : i \in 1 .. m /\ i # k /\ i \in 1 .. k
  BY <1>1
<1>5. \A o, p \in ToSet(obs), i \in 1 .. m : o.item.id # NewName(s[i], p.item)
  BY <1>2, <1>3 DEF ObservedOf, NamesAreApart
<1>6. ASSUME NEW n \in Names(items)
      PROVE  n \notin used /\ NamedBy(n, obs, s, k)
  <2>1. PICK x \in ToSet(items) : n = x.id
    BY DEF Names
  <2>2. PICK o \in ToSet(obs) : \/ n = o.item.id /\ n \notin used
                                \/ n = NewName(s[k], o.item)
    BY <2>1 DEF MadeOf
  <2>3. CASE n = o.item.id /\ n \notin used
    BY <2>3 DEF NamedBy
  <2>4. CASE n = NewName(s[k], o.item)
    <3>1. NamedBy(n, obs, s, k)
      BY <1>4, <2>4 DEF NamedBy
    <3>2. \A p \in ToSet(obs) : n # p.item.id
      BY <1>4, <1>5, <2>4
    <3>3. ASSUME NEW i \in 1 .. k - 1, NEW p \in ToSet(obs)
          PROVE  n # NewName(s[i], p.item)
      <4>1. s[i] # s[k]
        BY <1>1, <1>4 DEF Distinct
      <4>2. s[i] \in Q /\ s[k] \in Q
            /\ p.item \in Pieces(Q) /\ o.item \in Pieces(Q)
        BY <1>2, <1>3, <1>4
      <4> QED
        BY <2>4, <4>1, <4>2, NameTellsGroup
    <3>4. ~NamedBy(n, obs, s, k - 1)
      BY <3>2, <3>3 DEF NamedBy
    <3> QED
      BY <3>1, <3>4
  <2> QED
    BY <2>2, <2>3, <2>4
<1>7. \A n \in used : NamedBy(n, obs, s, k)
  BY <1>4 DEF NamedBy
<1> QED
  BY <1>6, <1>7

Meaningful(e) == e.status # "failed" /\ e.value # NoValue

\* A claim is verified by a piece of evidence of the best kind, and says what
\* all of that kind do.
LEMMA VerifiedByBest ==
  ASSUME NEW E, NEW s \in Seq(E), NEW claim, IsClaim(claim),
         Decide(claim, s).status = "verified"
  PROVE  /\ \A x, y \in Best(s) : x.value.means = y.value.means
         /\ \E e \in Best(s) : /\ e.status = "verified"
                               /\ Decide(claim, s).value.means = e.value.means
<1>1. s # <<>> /\ ~ \E m, n \in BestMeanings(s) : m # n
  <2>1. ASSUME s = <<>> PROVE FALSE
    <3>1. Decide(claim, s).status = "failed"
      BY <2>1 DEF Decide, IsClaim
    <3> QED
      BY <3>1
  <2>2. ASSUME s # <<>>, \E m, n \in BestMeanings(s) : m # n PROVE FALSE
    <3>1. Decide(claim, s).status = "recheck_required"
      BY <2>2 DEF Decide, IsClaim
    <3> QED
      BY <3>1
  <2> QED
    BY <2>1, <2>2
<1>2. \A x \in Best(s) : x.value.means \in BestMeanings(s) /\ x \in ToSet(s)
  BY DEF BestMeanings, Best
<1>3. \A x, y \in Best(s) : x.value.means = y.value.means
  BY <1>1, <1>2
<1>4. PICK S : S = {e \in ToSet(s) : e.value.means \in BestMeanings(s)}
  OBVIOUS
<1>5. PICK r : r = Only(s, S)
  OBVIOUS
<1>6. /\ Decide(claim, s).value = r[1].value
      /\ Decide(claim, s).status =
           IF \E e \in Best(s) : e.status = "verified"
           THEN "verified" ELSE "recheck_required"
  <2>1. PICK v, st, co :
          /\ v = r[1].value
          /\ st = IF \E e \in Best(s) : e.status = "verified"
                  THEN "verified" ELSE "recheck_required"
          /\ co = {e.id : e \in {f \in ToSet(s) :
                                  f.value.means \notin BestMeanings(s)}}
    OBVIOUS
  <2>2. Decide(claim, s) =
          [claim EXCEPT !.value = v, !.status = st, !.conflicts = co]
    BY <1>1, <1>4, <1>5, <2>1 DEF Decide
  <2>3. Decide(claim, s).value = v /\ Decide(claim, s).status = st
    BY <2>2 DEF IsClaim
  <2> QED
    BY <2>1, <2>3
<1>7. PICK e \in Best(s) : e.status = "verified"
  BY <1>6
<1>8. r[1] \in S
  <2>1. r \in Seq(E \cap S) /\ ToSet(r) = ToSet(s) \cap S
    BY <1>5, OnlySelects
  <2>2. PICK n \in Nat : n = Len(r) /\ DOMAIN r = 1 .. n
    BY <2>1, LenProperties
  <2>3. e \in ToSet(r)
    BY <1>2, <1>4, <2>1
  <2>4. 1 \in 1 .. n
    BY <2>2, <2>3 DEF ToSet
  <2> QED
    BY <2>1, <2>2, <2>4, ElementOfSeq
<1>9. PICK m : m \in BestMeanings(s) /\ m = r[1].value.means
  BY <1>4, <1>8
<1>10. m = e.value.means
  BY <1>1, <1>2, <1>9
<1>11. Decide(claim, s).value.means = e.value.means
  BY <1>6, <1>9, <1>10
<1> QED
  BY <1>3, <1>7, <1>11

\* What is assumed of a piece of evidence: it has no value when it failed, and
\* what it says is not what none means.
Sound(e) ==
  /\ e.status = "failed" => e.value = NoValue
  /\ e.value.means = NoValue.means => e.value = NoValue

\* The second half of StaysResolved.
IsBacked(claim, obs) ==
  claim.status = "verified" =>
    LET own == {o.item : o \in {p \in ToSet(obs) :
                    /\ p.group = claim.group
                    /\ p.item.status # "failed"
                    /\ p.item.value # NoValue}}
    IN  \E e \in own : /\ e.status = "verified"
                       /\ e.value.means = claim.value.means
                       /\ \A f \in own :
                            f.value.means # e.value.means => Rank(f) < Rank(e)

LEMMA VerifiedIsBacked ==
  ASSUME NEW E, NEW Q, ObservedOf(E, Q), \A o \in E : Sound(o.item),
         NEW obs \in Seq(E), NEW group \in Q, NEW used
  PROVE  IsBacked(GroupResult(obs, used, group).claim, obs)
<1>1. PICK items : /\ items = GroupResult(obs, used, group).items
                   /\ items \in Seq(Pieces(Q))
                   /\ MadeOf(items, obs, group, used)
  <2>1. \A o \in E : o.item \in Pieces(Q)
    BY DEF ObservedOf
  <2>2. /\ GroupResult(obs, used, group).items \in Seq(Pieces(Q))
        /\ MadeOf(GroupResult(obs, used, group).items, obs, group, used)
    BY <2>1, GroupIsMadeOf, ZenonT(30)
  <2> QED
    BY <2>2
<1>2. PICK c : c = Opened(obs, group, items) /\ IsClaim(c) /\ c.group = group
               /\ c.evidence = {e.id : e \in ToSet(items)}
  BY OpenedIsClaim
<1>3. PICK s : s = Referenced(c, items)
  OBVIOUS
<1>4. PICK claim : /\ claim = GroupResult(obs, used, group).claim
                   /\ claim = Decide(c, s) /\ claim.group = group
  BY <1>1, <1>2, <1>3, ClaimIsResolved, ResolveDecides, DecidedOnce
<1>5. /\ s \in Seq(Pieces(Q))
      /\ \A e : e \in ToSet(s) <=> e \in ToSet(items) /\ Meaningful(e)
      /\ \A e \in ToSet(s) : Rank(e) \in Nat
  <2>1. PICK S : S = {e \in ToSet(items) : /\ e.id \in c.evidence
                                           /\ e.status # "failed"
                                           /\ e.value # NoValue}
    OBVIOUS
  <2>2. s = Only(items, S)
    BY <1>3, <2>1 DEF Referenced
  <2>3. s \in Seq(Pieces(Q) \cap S) /\ ToSet(s) = ToSet(items) \cap S
    BY <1>1, <2>2, OnlySelects
  <2>4. s \in Seq(Pieces(Q))
    BY <2>3
  <2>5. \A e \in ToSet(s) : e \in Pieces(Q)
    BY <2>4, ElementOfSeq, LenProperties DEF ToSet
  <2>6. \A e \in Pieces(Q) : Rank(e) \in Nat
    BY DEF Pieces, Rank, SourcePriority, SourceTypes
  <2> QED
    BY <1>2, <2>1, <2>3, <2>4, <2>5, <2>6 DEF Meaningful
<1>6. \A o \in ToSet(obs) : o \in E /\ o.item \in Pieces(Q) /\ Sound(o.item)
  <2>1. \A o \in ToSet(obs) : o \in E
    BY ElementOfSeq, LenProperties DEF ToSet
  <2> QED
    BY <2>1 DEF ObservedOf
<1>7. ASSUME claim.status = "verified"
      PROVE  \E e \in ToSet(obs) :
               /\ e.group = group /\ Meaningful(e.item)
               /\ e.item.status = "verified"
               /\ e.item.value.means = claim.value.means
               /\ \A f \in ToSet(obs) :
                    /\ f.group = group /\ Meaningful(f.item)
                    /\ f.item.value.means # e.item.value.means
                    => Rank(f.item) < Rank(e.item)
  <2>1. PICK x \in Best(s) : /\ x.status = "verified"
                             /\ claim.value.means = x.value.means
                             /\ \A y \in Best(s) : y.value.means = x.value.means
    BY <1>2, <1>4, <1>5, <1>7, VerifiedByBest
  <2>2. x \in ToSet(s) /\ x \in ToSet(items) /\ Meaningful(x)
    BY <1>5 DEF Best
  <2>3. PICK o \in ToSet(obs) : o.group = group /\ Same(x, o.item)
    BY <1>1, <2>2 DEF MadeOf
  <2>4. ASSUME NEW f \in ToSet(obs), f.group = group, Meaningful(f.item),
               f.item.value.means # o.item.value.means
        PROVE  Rank(f.item) < Rank(o.item)
    <3>1. PICK y \in ToSet(items) : MergeKey(y) = MergeKey(f.item)
      BY <1>1, <2>4 DEF MadeOf
    <3>2. PICK q \in ToSet(obs) : Same(y, q.item)
      BY <1>1 DEF MadeOf
    <3>3. y.source = f.item.source /\ y.value.means = f.item.value.means
      BY <3>1 DEF MergeKey
    <3>4. Sound(f.item) /\ Sound(q.item)
      BY <1>6
    <3>5. y.value # NoValue
      BY <2>4, <3>3, <3>4 DEF Sound, Meaningful
    <3>6. y.status # "failed"
      BY <3>2, <3>4, <3>5 DEF Sound, Same
    <3>7. y \in ToSet(s)
      BY <1>5, <3>5, <3>6 DEF Meaningful
    <3>8. Rank(y) \in Nat /\ Rank(x) \in Nat
      BY <1>5, <2>2, <3>7
    <3>9. Rank(y) <= Rank(x)
      BY <3>7 DEF Best
    <3>10. Rank(y) # Rank(x)
      BY <2>1, <2>3, <2>4, <3>3, <3>7 DEF Best, Same
    <3>11. Rank(f.item) = Rank(y) /\ Rank(o.item) = Rank(x)
      BY <2>3, <3>3 DEF Rank, Same
    <3> QED
      BY <3>8, <3>9, <3>10, <3>11
  <2>5. Meaningful(o.item) /\ o.item.status = "verified"
        /\ o.item.value.means = claim.value.means
    BY <2>1, <2>2, <2>3 DEF Same, Meaningful
  <2> QED
    BY <2>3, <2>4, <2>5
<1>8. IsBacked(claim, obs)
  BY <1>4, <1>7 DEF IsBacked, Meaningful
<1> QED
  BY <1>4, <1>8

\* What holds when the first k groups have been gathered.
Settled(r, obs, s, k) ==
  /\ \A n \in Names(r.evidence) : NamedBy(n, obs, s, k)
  /\ \A c \in ToSet(r.claims) : /\ c.evidence \subseteq Names(r.evidence)
                                /\ Resolve(c, r.evidence) = c
                                /\ IsBacked(c, obs)

LEMMA AddedIsSettled ==
  ASSUME NEW E, NEW Q, ObservedOf(E, Q), \A o \in E : Sound(o.item),
         NEW obs \in Seq(E), NEW s \in Seq(Q), Distinct(s),
         NEW k \in 1 .. Len(s),
         NEW r, Settled(r, obs, s, k - 1),
         r.evidence \in Seq(Pieces(Q)), NEW C, r.claims \in Seq(C)
  PROVE  Settled(AddGroup(obs, r, s[k]), obs, s, k)
<1>1. PICK group \in Q : group = s[k]
  BY ElementOfSeq
<1>2. PICK used : used = Names(r.evidence)
  OBVIOUS
<1>3. PICK items, claim :
        /\ items = GroupResult(obs, used, group).items
        /\ claim = GroupResult(obs, used, group).claim
  OBVIOUS
<1>4. items \in Seq(Pieces(Q)) /\ MadeOf(items, obs, group, used)
  <2>1. \A o \in E : o.item \in Pieces(Q)
    BY DEF ObservedOf
  <2> QED
    BY <1>3, <2>1, GroupIsMadeOf, ZenonT(30)
<1>5. /\ used \cap Names(items) = {}
      /\ \A n \in used \cup Names(items) : NamedBy(n, obs, s, k)
  <2>1. \A n \in used : NamedBy(n, obs, s, k - 1)
    BY <1>2 DEF Settled
  <2>2. MadeOf(items, obs, s[k], used)
    BY <1>1, <1>4
  <2> QED
    BY <2>1, <2>2, NewNamesAreNew
<1>6. PICK before, all : /\ before = r.evidence /\ all = before \o items
                         /\ before \in Seq(Pieces(Q))
  OBVIOUS
<1>7. PICK q : /\ q = AddGroup(obs, r, s[k])
               /\ q.evidence = all /\ q.claims = Append(r.claims, claim)
  <2>1. AddGroup(obs, r, group) =
          [evidence |-> r.evidence \o items, claims |-> Append(r.claims, claim),
           issues |-> r.issues \cup ClaimIssues(claim)]
    BY <1>2, <1>3 DEF AddGroup, Names
  <2>2. AddGroup(obs, r, group).evidence = all
        /\ AddGroup(obs, r, group).claims = Append(r.claims, claim)
    BY <1>6, <2>1
  <2> QED
    BY <1>1, <2>2
<1>8. Names(all) = used \cup Names(items)
  <2>1. ToSet(all) = ToSet(before) \cup ToSet(items)
    BY <1>4, <1>6, JoinedSet
  <2>2. PICK A, B : A = ToSet(before) /\ B = ToSet(items)
    OBVIOUS
  <2>3. {e.id : e \in A \cup B} = {e.id : e \in A} \cup {e.id : e \in B}
    OBVIOUS
  <2> QED
    BY <1>2, <1>6, <2>1, <2>2, <2>3 DEF Names
<1>9. \A c \in ToSet(r.claims) : /\ c.evidence \subseteq used
                                 /\ Resolve(c, before) = c
                                 /\ IsBacked(c, obs)
  BY <1>2, <1>6 DEF Settled
<1>10. ASSUME NEW c \in ToSet(r.claims)
       PROVE  /\ c.evidence \subseteq Names(all)
              /\ Resolve(c, all) = c
              /\ IsBacked(c, obs)
  <2>1. \A e \in ToSet(items) : e.id \notin c.evidence
    BY <1>5, <1>9 DEF Names
  <2>2. Resolve(c, all) = Resolve(c, before)
    BY <1>4, <1>6, <2>1, LaterDoesNotCount
  <2> QED
    BY <1>8, <1>9, <2>2
<1>11. /\ claim.evidence \subseteq Names(all)
       /\ Resolve(claim, all) = claim
       /\ IsBacked(claim, obs)
  <2>1. PICK c : /\ c = Opened(obs, group, items) /\ IsClaim(c)
                 /\ c.evidence = Names(items)
    BY OpenedIsClaim DEF Names
  <2>2. PICK t : t = Referenced(c, items)
    OBVIOUS
  <2>3. claim = Decide(c, t)
    BY <1>3, <2>1, <2>2, ClaimIsResolved, ResolveDecides
  <2>4. claim.evidence = c.evidence /\ Decide(claim, t) = claim
    BY <2>1, <2>3, DecidedOnce
  <2>5. Referenced(claim, items) = t
    BY <2>2, <2>4 DEF Referenced
  <2>6. Resolve(claim, items) = claim
    BY <2>4, <2>5, ResolveDecides
  <2>7. claim.evidence = Names(items)
    BY <2>1, <2>4
  <2>8. Resolve(claim, all) = Resolve(claim, items)
    <3>1. \A e \in ToSet(before) : e.id \notin claim.evidence
      BY <1>2, <1>5, <1>6, <2>7 DEF Names
    <3> QED
      BY <1>4, <1>6, <3>1, EarlierDoesNotCount
  <2>9. IsBacked(claim, obs)
    BY <1>3, VerifiedIsBacked
  <2> QED
    BY <1>8, <2>6, <2>7, <2>8, <2>9
<1>12. ToSet(q.claims) = ToSet(r.claims) \cup {claim}
  <2>1. PICK D : D = C \cup {claim}
    OBVIOUS
  <2>2. r.claims \in Seq(D) /\ claim \in D
    BY <2>1
  <2> QED
    BY <1>7, <2>2, AppendedSet
<1>13. Settled(q, obs, s, k)
  BY <1>5, <1>7, <1>8, <1>10, <1>11, <1>12 DEF Settled
<1> QED
  BY <1>7, <1>13

\* So every claim of what was observed stays as it was resolved.
LEMMA ObservedIsSettled ==
  ASSUME NEW E, NEW Q, ObservedOf(E, Q), \A o \in E : Sound(o.item),
         NEW obs \in Seq(E)
  PROVE  \E s, k : Settled(Normalize(obs), obs, s, k)
<1>1. PICK M, U : M = Pieces(Q) /\ U = {e.id : e \in M}
  OBVIOUS
<1>2. Normal(E, obs, Q, M, U)
  <2>1. Shared(M) /\ \A group \in Q : Renamed(M, group)
    <3>1. \A group \in Q : Renamed(M, group)
      BY <1>1, PiecesAreClosed
    <3>2. Shared(M)
      BY <1>1 DEF Shared, Pieces
    <3> QED
      BY <3>1, <3>2
  <2>2. \A o \in E : o.group \in Q /\ o.item \in M
    BY <1>1 DEF ObservedOf
  <2> QED
    BY <1>1, <2>1, <2>2 DEF Normal
<1>3. \A o \in E : o.group \in Q
  BY DEF ObservedOf
<1>4. PICK s \in Seq(Q) : s = Groups(obs) /\ Distinct(s)
  BY <1>3, GroupsCover, GroupsOnce
<1>5. PICK p : /\ p[0] = Nothing
               /\ \A k \in 1 .. Len(s) : p[k] = AddGroup(obs, p[k - 1], s[k])
               /\ \A k \in 0 .. Len(s) : p[k] \in Results(obs, Q, M, U)
               /\ Normalize(obs) = p[Len(s)]
  BY <1>2, <1>4, NormalSteps
<1>6. PICK n \in Nat : n = Len(s)
  BY LenProperties
<1> DEFINE G == {k \in 0 .. n : Settled(p[k], obs, s, k)}
<1>7. 0 \in G
  <2>1. Settled(Nothing, obs, s, 0)
    BY DEF Settled, Nothing, Names, ToSet
  <2> QED
    BY <1>5, <2>1
<1>8. ASSUME NEW k \in 1 .. n, k - 1 \in G
      PROVE  k \in G
  <2>1. PICK r : /\ r = p[k - 1] /\ Settled(r, obs, s, k - 1)
                 /\ r \in Results(obs, Q, M, U)
    BY <1>5, <1>6, <1>8
  <2>2. r.evidence \in Seq(Pieces(Q)) /\ r.claims \in Seq(ClaimsOf(obs, Q, U))
    BY <1>1, <2>1 DEF Results
  <2>3. k \in 1 .. Len(s)
    BY <1>6
  <2>4. Settled(AddGroup(obs, r, s[k]), obs, s, k)
    BY <1>4, <2>1, <2>2, <2>3, AddedIsSettled
  <2>5. Settled(p[k], obs, s, k)
    BY <1>5, <2>1, <2>3, <2>4
  <2> QED
    BY <2>5
<1> HIDE DEF G
<1>9. \A k \in 0 .. n : k \in G
  BY <1>6, <1>7, <1>8, UpTo
<1>10. n \in G
  BY <1>9
<1> QED
  BY <1>5, <1>6, <1>10 DEF G

ClaimsInv == observations \in Seq(Observable)

LEMMA ResolvedWhenObserved ==
  ASSUME ObservableAssumption, ClaimsInv
  PROVE  ClaimsStayResolved
<1>1. PICK E, Q : E = Observable /\ Q = {o.group : o \in E}
  OBVIOUS
<1>2. \A o \in E : Sound(o.item)
  BY <1>1 DEF ObservableAssumption, Sound
<1>3. ObservedOf(E, Q)
  <2>1. \A o \in E : o.item \in Pieces(Q)
    <3>1. PICK W : W = {"evidence"} \cup Q \cup STRING
      OBVIOUS
    <3>2. Seq(STRING) \subseteq Seq(W)
      BY <3>1
    <3> QED
      BY <1>1, <3>1, <3>2 DEF ObservableAssumption, Pieces
  <2>2. NamesAreApart(E)
    BY <1>1 DEF ObservableAssumption, NamesAreApart
  <2> QED
    BY <1>1, <2>1, <2>2 DEF ObservedOf
<1>4. PICK s, k : Settled(Normalize(observations), observations, s, k)
  <2>1. observations \in Seq(E)
    BY <1>1 DEF ClaimsInv
  <2> QED
    BY <1>2, <1>3, <2>1, ObservedIsSettled
<1> QED
  BY <1>4 DEF Settled, IsBacked, ClaimsStayResolved, StaysResolved

\* Every claim, whatever was observed and however often, resolves by all the
\* evidence of the trip to what its own group's evidence made of it, and a
\* verified one says what a verified source of the best kind says, which none of
\* that kind contradicts (evidence/normalize.ts, evidence/resolve.ts).
THEOREM ClaimsStay == ObservableAssumption => (ClaimsSpec => []ClaimsStayResolved)
<1> SUFFICES ASSUME ObservableAssumption PROVE ClaimsSpec => []ClaimsStayResolved
  OBVIOUS
<1>1. ClaimsInit => ClaimsInv
  BY DEF ClaimsInit, ClaimsInv
<1>2. ClaimsInv /\ [ClaimsNext]_observations => ClaimsInv'
  BY AppendProperties DEF ClaimsNext, Observe, ClaimsInv
<1>3. ClaimsInv => ClaimsStayResolved
  BY ResolvedWhenObserved
<1> QED
  BY <1>1, <1>2, <1>3, PTL DEF ClaimsSpec
================================================================================
