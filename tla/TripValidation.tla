--------------------------- MODULE TripValidation ---------------------------
(***************************************************************************)
(* The hard validator, validation/trip.ts, and the entities it reads       *)
(* (domain/schema.ts).                                                     *)
(*                                                                         *)
(* Instants are minutes, and a date is a number of days.  An amount is in  *)
(* hundredths and always CNY; a cost is [low, high], and Unknown is a cost  *)
(* of unknown kind.  An issue is [code, ids, date, severity]: its id is its *)
(* code and entities, and date the day its path names, or NoTime.  Of a    *)
(* claim's evidence only what Evidence keeps is left.                      *)
(*                                                                         *)
(*   booking   [id, type, start, end, locked]; an instant may be NoTime    *)
(*   activity  [id, place, city, start, end, flex, duration, importance,   *)
(*              locked, cost, reservation, opens, booking]; opens is <<>>   *)
(*              when there is no list of availability windows, and <<list>> *)
(*   leg       [id, from, to, start, end, duration, buffer, cost, locked,  *)
(*              booking, evidence]; start and end are the departure window *)
(*   day       [id, date, activities, legs, notes]                         *)
(*   brief     [first, last, city, dayTrips, extra, accompanied, limit,    *)
(*              includes, booked]; accompanied: seniors or children, and   *)
(*              extra: those or mobility notes                             *)
(*   trip      [brief, bookings, days, items, percent, claims, evidence,   *)
(*              alerts, version, status]; alerts are the blocking ones     *)
(***************************************************************************)
EXTENDS Evidence

Unknown == [low |-> -1, high |-> -1]
Promise == "tickets are guaranteed" \* a text that promises an inventory

FullSupportCities ==
    {"beijing", "shanghai", "chongqing", "xian", "hangzhou"}

tripDates(trip) == [i \in 1 .. trip.brief.last - trip.brief.first + 1 |->
                        trip.brief.first + i - 1]

issueOn(date, code, ids) ==
    [code |-> code, ids |-> ids, date |-> date, severity |-> "blocking"]
issue(code, ids) == issueOn(NoTime, code, ids)
warning(date, code, ids) ==
    [code |-> code, ids |-> ids, date |-> date, severity |-> "warning"]

Blocking(issues) == \E i \in issues : i.severity = "blocking"

Later(s, t) == IF s > t THEN s ELSE t

Main(a) == a.importance # "fallback"

Activities(trip) == UNION {ToSet(d.activities) : d \in ToSet(trip.days)}
Legs(trip) == UNION {ToSet(d.legs) : d \in ToSet(trip.days)}

\* The fields that the schemas ask for, as far as they matter here.
TripParts == {"brief", "bookings", "days", "version", "status"}
DayParts == {"id", "date", "activities", "legs", "notes"}
ActivityParts == {"id", "start", "end", "flex", "importance", "locked"}
LegParts == {"id", "start", "end", "locked"}

\* TimeWindowSchema, ActivitySchema, TransportLegSchema, BookedItemSchema and
\* TripDaySchema: what parses.
Parses(trip) ==
    /\ TripParts \subseteq DOMAIN trip
    /\ {trip.brief.first, trip.brief.last} \subseteq Int
    /\ trip.days \in Seq(ToSet(trip.days)) /\ Len(trip.days) \in 1 .. 5
    /\ \A d \in ToSet(trip.days) :
        /\ DayParts \subseteq DOMAIN d /\ d.date \in Int
        /\ d.activities \in Seq(Activities(trip)) /\ d.legs \in Seq(Legs(trip))
    /\ \A a \in Activities(trip) :
        /\ ActivityParts \subseteq DOMAIN a
        /\ {a.start, a.end} \subseteq Int /\ a.end > a.start
        /\ a.duration \in 1 .. 1440
        /\ \A w \in UNION ToSet(a.opens) : {w.start, w.end} \subseteq Int
    /\ \A l \in Legs(trip) :
        /\ LegParts \subseteq DOMAIN l
        /\ {l.start, l.end} \subseteq Int /\ l.end > l.start
        /\ {l.duration, l.buffer} \subseteq Nat
    /\ \A b \in ToSet(trip.brief.booked \o trip.bookings) :
        {b.start, b.end} \subseteq Int

-----------------------------------------------------------------------------
(* validateTimeAndScope *)

\* In the day's order of starts, the activity at j comes before the one at i.
Precedes(acts, j, i) ==
    \/ acts[j].start < acts[i].start
    \/ acts[j].start = acts[i].start /\ j < i

\* The places in acts of the last main activity before the one at i.
PreviousMain(acts, i) ==
    LET earlier == {j \in DOMAIN acts : Precedes(acts, j, i) /\ Main(acts[j])}
    IN  {j \in earlier : \A k \in earlier \ {j} : Precedes(acts, k, j)}

ActivityIssues(trip, day, a) ==
    {issueOn(day.date, code, <<a.id>>) : code \in
        (IF \/ localDate(a.start) # day.date \/ localDate(a.end) # day.date
            \/ a.end - a.start < a.duration
         THEN {"ACTIVITY_WINDOW"} ELSE {}) \cup
        (IF /\ a.city # trip.brief.city
            /\ \A d \in trip.brief.dayTrips : d.to # a.city
         THEN {"MULTI_CITY"} ELSE {}) \cup
        (IF \E windows \in ToSet(a.opens) :
                \A w \in windows : a.start < w.start \/ a.end > w.end
         THEN {"OUTSIDE_OPENING_WINDOW"} ELSE {})}

\* `find`: the first leg of the day that fits, if there is one.
FirstLeg(day, Fits(_)) ==
    {day.legs[i] : i \in {k \in DOMAIN day.legs :
        Fits(day.legs[k]) /\ \A j \in 1 .. k - 1 : ~Fits(day.legs[j])}}

\* Fault: the leg's departure window is not looked at.
TravelAtAnyTime(day, p, a) ==
    LET legs == FirstLeg(day, LAMBDA l : l.from = p.place /\ l.to = a.place)
    IN  IF p.place = a.place THEN {}
        ELSE IF legs = {} THEN {issueOn(day.date, "MISSING_ROUTE", <<p.id, a.id>>)}
        ELSE {issueOn(day.date, "UNREACHABLE", <<p.id, l.id, a.id>>) : l \in
                {k \in legs : p.end + k.duration + k.buffer > a.start}}

\* From one main activity to the next, along the first leg between them.
TravelIssues(day, p, a) ==
    LET legs == FirstLeg(day, LAMBDA l : l.from = p.place /\ l.to = a.place)
    IN  IF p.place = a.place THEN {}
        ELSE IF legs = {} THEN {issueOn(day.date, "MISSING_ROUTE", <<p.id, a.id>>)}
        ELSE {issueOn(day.date, "UNREACHABLE", <<p.id, l.id, a.id>>) : l \in
                {k \in legs :
                    \/ p.end > k.end
                    \/ Later(p.end, k.start) + k.duration + k.buffer > a.start}}

OrderIssues(day) ==
    UNION {UNION {
        LET p == day.activities[j]
            a == day.activities[i]
        IN  TravelIssues(day, p, a) \cup
            IF a.start < p.end
            THEN {issueOn(day.date, "TIME_OVERLAP", <<p.id, a.id>>)} ELSE {}
        : j \in PreviousMain(day.activities, i)}
        : i \in {k \in DOMAIN day.activities : Main(day.activities[k])}}

LegIssues(day) ==
    {issueOn(day.date, "LEG_DATE", <<l.id>>) :
        l \in {k \in ToSet(day.legs) : localDate(k.start) # day.date}} \cup
    {issueOn(day.date, "ZERO_ROUTE", <<l.id>>) :
        l \in {k \in ToSet(day.legs) : k.duration = 0 /\ k.from # k.to}}

ActivitiesByDay(trip) == [i \in DOMAIN trip.days |-> trip.days[i].activities]
LegsByDay(trip) == [i \in DOMAIN trip.days |-> trip.days[i].legs]

\* Where the entities of the days' lists stand, and what stands there.
Places(lists) ==
    UNION {{<<i, j>> : j \in DOMAIN lists[i]} : i \in DOMAIN lists}

EntityAt(lists, p) == lists[p[1]][p[2]]

\* An id met before: on an earlier day, or elsewhere on the same one.
DuplicateIssues(trip) ==
    LET lists == ActivitiesByDay(trip)
        id(p) == EntityAt(lists, p).id
        again == {p \in Places(lists) : \E o \in Places(lists) \ {p} :
                        o[1] <= p[1] /\ id(o) = id(p)}
    IN  {issueOn(trip.days[p[1]].date, "DUPLICATE_ENTITY", <<id(p)>>) :
            p \in again}

ScopeIssues(trip) ==
    LET dates == tripDates(trip)
    IN  (IF \/ Len(dates) \notin 3 .. 5
            \/ dates # [i \in DOMAIN trip.days |-> trip.days[i].date]
         THEN {issue("TRIP_DATES", <<"trip">>)} ELSE {}) \cup
        (IF \/ trip.brief.city \notin FullSupportCities
            \/ \E d \in trip.brief.dayTrips : d.minutes > 120
         THEN {issue("UNSUPPORTED_SCOPE", <<"trip">>)} ELSE {})

validateTimeAndScope(trip) ==
    ScopeIssues(trip) \cup DuplicateIssues(trip) \cup
    UNION {
        OrderIssues(day) \cup LegIssues(day) \cup
        (UNION {ActivityIssues(trip, day, a) : a \in ToSet(day.activities)}) \cup
        (IF Cardinality({i \in DOMAIN day.activities :
                            day.activities[i].importance = "core"}) > 2
         THEN {warning(day.date, "DENSE_DAY", <<day.id>>)} ELSE {})
        : day \in ToSet(trip.days)}

-----------------------------------------------------------------------------
(* totalBudget *)

\* The sum with the contingency, rounded to hundredths.
WithContingency(sum, percent) == (sum * (100 + percent) + 50) \div 100

totalBudget(trip) ==
    LET costs == [i \in DOMAIN trip.items |-> trip.items[i].cost]
        Sum(f(_)) == FoldLeft(LAMBDA sum, c : sum + f(c), 0, costs)
    IN  IF costs = <<>> \/ Unknown \in ToSet(costs) THEN Unknown
        ELSE [low |-> WithContingency(Sum(LAMBDA c : c.low), trip.percent),
              high |-> WithContingency(Sum(LAMBDA c : c.high), trip.percent)]

-----------------------------------------------------------------------------
(* validateConstraints *)

\* The locked bookings the user confirmed; a later entry has the last word.
ExpectedBookings(base) ==
    LET all == base.brief.booked \o base.bookings
        locked == {k \in DOMAIN all : all[k].locked}
    IN  {all[i] : i \in {k \in locked :
                           \A j \in locked : j > k => all[j].id # all[k].id}}

Lead(type) == CASE type = "flight" -> 120 [] type = "train" -> 60
                [] OTHER -> 25

\* The activities of a day that the booking's way begins at: of those that start
\* before it and are not its own, whatever their importance, the last.
BeforeBooking(day, booking) ==
    LET acts == day.activities
        earlier == {i \in DOMAIN acts : /\ acts[i].booking # booking.id
                                        /\ acts[i].start < booking.start}
    IN  {i \in earlier : \A j \in earlier :
            \/ acts[j].start < acts[i].start
            \/ acts[j].start = acts[i].start /\ i <= j}

BookingIssues(trip, day, booking) ==
    UNION {
        LET p == day.activities[i]
            legs == FirstLeg(day, LAMBDA l :
                        /\ l.from = p.place
                        /\ l.booking = booking.id \/ l.to = booking.id)
        IN  IF \/ legs = {}
               \/ \E l \in legs :
                    Later(p.end, l.start) + l.duration + l.buffer
                      + Lead(booking.type)
                      + (IF trip.brief.extra THEN 15 ELSE 0) > booking.start
            THEN {issueOn(day.date, "LOCK_UNREACHABLE", <<p.id, booking.id>>)}
            ELSE {}
        : i \in BeforeBooking(day, booking)}

\* `find`: the first entity of that id, or none.
Find(entities, id) ==
    Only(entities, {e \in ToSet(entities) : e.id = id})
First(s) == SubSeq(s, 1, IF s = <<>> THEN 0 ELSE 1)

\* A main activity during a booked span.
OverlapIssues(trip, booking) ==
    {issueOn(localDate(a.start), "LOCK_OVERLAP", <<a.id, booking.id>>) :
        a \in {c \in Activities(trip) :
                /\ booking.end # NoTime
                /\ Main(c) /\ c.booking # booking.id
                /\ c.start < booking.end /\ c.end > booking.start}}

BookingKept(trip, b) ==
    (IF First(Find(trip.bookings, b.id)) # <<b>>
     THEN {issue("LOCK_CHANGED", <<b.id>>)} ELSE {}) \cup
    (IF b.start = NoTime \/ b.type = "hotel" THEN {}
     ELSE OverlapIssues(trip, b) \cup
          UNION {BookingIssues(trip, day, b) : day \in
                    {d \in ToSet(trip.days) : d.date = localDate(b.start)}})

BookingsKept(trip, base) ==
    UNION {BookingKept(trip, b) : b \in ExpectedBookings(base)}

\* `flatMap` and `find`: the first entity of that id over all days.
FirstOf(lists, id) ==
    LET named == {p \in Places(lists) : EntityAt(lists, p).id = id}
    IN  {EntityAt(lists, p) : p \in {q \in named : \A o \in named :
            o[1] > q[1] \/ (o[1] = q[1] /\ o[2] >= q[2])}}

\* Locked activities and legs are found unchanged, on whatever day.
DayLocksKept(trip, day) ==
    {issueOn(day.date, "LOCKED_ACTIVITY_CHANGED", <<a.id>>) : a \in
        {b \in ToSet(day.activities) :
            b.locked /\ FirstOf(ActivitiesByDay(trip), b.id) # {b}}} \cup
    {issueOn(day.date, "LOCKED_LEG_CHANGED", <<l.id>>) : l \in
        {k \in ToSet(day.legs) :
            k.locked /\ FirstOf(LegsByDay(trip), k.id) # {k}}}

LocksKept(trip, base) ==
    UNION {DayLocksKept(trip, day) : day \in ToSet(base.days)}

BudgetIssues(trip) ==
    LET total == totalBudget(trip)
        includes == trip.brief.includes
        limit == trip.brief.limit
    IN  {issue(code, <<"trip">>) : code \in
            (IF \/ /\ "tickets" \in includes
                   /\ \E a \in Activities(trip) : Main(a) /\ a.cost = Unknown
                \/ /\ "local_transport" \in includes
                   /\ \E l \in Legs(trip) : l.cost = Unknown
             THEN {"UNKNOWN_ENTITY_COST"} ELSE {}) \cup
            (IF total = Unknown THEN {"UNKNOWN_BUDGET"} ELSE {}) \cup
            (IF limit # Unknown /\ total # Unknown /\ total.high > limit.high
             THEN {"OVER_BUDGET"} ELSE {}) \cup
            (IF \E c \in includes : \A i \in ToSet(trip.items) : i.category # c
             THEN {"MISSING_BUDGET_CATEGORY"} ELSE {})}

\* A claim's group is <<subject, date, field>>, its date NoTime when it has none.
ClaimIssuesOf(trip) ==
    {[code |-> "UNVERIFIED_CLAIM", ids |-> <<c.group[1], c.group[3]>>,
      date |-> c.group[2], severity |-> IF c.critical THEN "blocking" ELSE "warning"] : c \in
        {d \in ToSet(trip.claims) :
            LET r == Resolve(d, trip.evidence)
            IN  r.status # "verified" \/ d.status # "verified"
                \/ r.value # d.value}}

CriticalFields == {"address", "opening_hours", "reservation_rules"}

EvidenceIssues(trip, day) ==
    (UNION {{issueOn(day.date, code, <<a.id>>) : code \in
               (IF \E field \in CriticalFields : \A c \in ToSet(trip.claims) :
                     \/ c.group[1] \notin {a.id, a.place}
                     \/ c.group[3] # field
                     \/ c.group[2] \notin {NoTime, day.date}
                THEN {"MISSING_CRITICAL_EVIDENCE"} ELSE {}) \cup
               (IF a.reservation # "verified"
                THEN {"RESERVATION_UNVERIFIED"} ELSE {}) \cup
               (IF \A windows \in ToSet(a.opens) : windows = {}
                THEN {"OPENING_UNVERIFIED"} ELSE {})}
            : a \in {b \in ToSet(day.activities) : Main(b)}}) \cup
    {issueOn(day.date, "ROUTE_UNVERIFIED", <<l.id>>) : l \in
        {k \in ToSet(day.legs) :
            \/ k.evidence = {}
            \/ \E id \in k.evidence : \A e \in ToSet(trip.evidence) :
                   e.id # id \/ e.status # "verified"}}

validateConstraints(trip, base) ==
    (IF trip.brief # base.brief THEN {issue("BRIEF_CHANGED", <<"trip">>)}
     ELSE {}) \cup
    BookingsKept(trip, base) \cup LocksKept(trip, base) \cup
    BudgetIssues(trip) \cup ClaimIssuesOf(trip) \cup
    (UNION {EvidenceIssues(trip, day) : day \in ToSet(trip.days)}) \cup
    {issue(a.code, a.ids) : a \in trip.alerts} \cup
    (IF \E d \in ToSet(trip.days) : d.notes = Promise
     THEN {issue("INVENTORY_PROMISE", <<"trip">>)} ELSE {})

validateTrip(trip, base) ==
    IF Parses(trip)
    THEN validateTimeAndScope(trip) \cup validateConstraints(trip, base)
    ELSE {issue("INVALID_TRIP", <<"trip">>)}

\* What a trip with these issues is called.
Status(issues) ==
    IF Blocking(issues) THEN "blocked"
    ELSE IF issues # {} THEN "checked" ELSE "executable"

-----------------------------------------------------------------------------
(* What a usable trip promises, said without the validator's order of checks *)

\* Someone who ends at p and takes the leg is there by the time.
Arrives(p, l, time) ==
    \E t \in {p.end, l.start} : /\ t >= p.end /\ t >= l.start
                               /\ t + l.duration + l.buffer <= time

\* There is a leg to take while it runs.
CanGo(day, p, place, time) ==
    \E l \in ToSet(day.legs) : /\ l.from = p.place /\ l.to = place
                              /\ p.end <= l.end /\ Arrives(p, l, time)

\* Every main activity is open and on its day, no two of a day overlap, and from
\* each one can go on to the next.
Walkable(day) ==
    LET main == {a \in ToSet(day.activities) : Main(a)}
        LeadsTo(p, a) == /\ p # a /\ p.start <= a.start
                         /\ ~ \E b \in main \ {p, a} :
                               p.start <= b.start /\ b.start <= a.start
    IN  /\ \A a \in main :
             /\ localDate(a.start) = day.date /\ localDate(a.end) = day.date
             /\ \E windows \in ToSet(a.opens) : \E w \in windows :
                    w.start <= a.start /\ a.start + a.duration <= w.end
        /\ \A p, a \in main : p # a => p.end <= a.start \/ a.end <= p.start
        /\ \A p, a \in main :
             LeadsTo(p, a) /\ p.place # a.place => CanGo(day, p, a.place, a.start)

\* No main activity is held during a booked time span.
BookingsFree(trip) ==
    \A b \in ExpectedBookings(trip) : \A a \in Activities(trip) :
        b.start # NoTime /\ b.end # NoTime /\ b.type # "hotel"
          /\ Main(a) /\ a.booking # b.id
        => a.end <= b.start \/ b.end <= a.start

\* The main activities before a booking on its day.
MainsBefore(day, b) == {a \in ToSet(day.activities) :
                            Main(a) /\ a.booking # b.id /\ a.start < b.start}

\* How to get from the last main activity before a booking to it in time to
\* board: the activity and a leg.
LastBefore(day, b) ==
    {a \in MainsBefore(day, b) :
        \A c \in MainsBefore(day, b) : c.start <= a.start}

Boards(trip, day, b, a, l) ==
    /\ l \in ToSet(day.legs)
    /\ l.from = a.place /\ b.id \in {l.to, l.booking}
    /\ Arrives(a, l, b.start - Lead(b.type)
                       - (IF trip.brief.extra THEN 15 ELSE 0))

\* It can be done, if the leg still runs when the activity is over ...
Connected(trip, day, b) ==
    \A a \in LastBefore(day, b) :
        \E l \in ToSet(day.legs) : Boards(trip, day, b, a, l)

\* ... and it does.
Reached(trip, day, b) ==
    \A a \in LastBefore(day, b) :
        \E l \in ToSet(day.legs) : Boards(trip, day, b, a, l) /\ a.end <= l.end

Timed(trip) == {b \in ExpectedBookings(trip) :
                    b.start # NoTime /\ b.type # "hotel"}

\* The two cases in which the validator passes a trip whose traveller misses a
\* booking: a fallback starts last before it, and only from there a leg is asked
\* for; and the leg to it does not run any more when the activity is over.
HiddenByFallback(day, b) ==
    \E f \in ToSet(day.activities) :
        /\ ~Main(f) /\ f.start < b.start
        /\ \A a \in MainsBefore(day, b) : a.start <= f.start

LegIsOver(trip, day, b) ==
    /\ Connected(trip, day, b)
    /\ \E a \in LastBefore(day, b), l \in ToSet(day.legs) :
         Boards(trip, day, b, a, l) /\ a.end > l.end

\* A trip one can go on: every main activity is open, no two overlap, from each
\* one gets to the next and, those two cases apart, to every booking in time,
\* and no booked span is used twice.
Feasible(t) ==
    /\ BookingsFree(t)
    /\ \A i \in DOMAIN t.days :
         LET day == t.days[i] IN
         /\ Walkable(day)
         /\ \A b \in {c \in Timed(t) : localDate(c.start) = day.date} :
              \/ Reached(t, day, b)
              \/ LegIsOver(t, day, b)
              \/ HiddenByFallback(day, b)
=============================================================================
