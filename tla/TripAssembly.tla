---------------------------- MODULE TripAssembly ----------------------------
(***************************************************************************)
(* From a plan of candidates to a trip: the stages evidence_collection and *)
(* route_and_budget (agent/enrichment.ts), hard_validation, repair         *)
(* (agent/repair.ts) and finalization (agent/pipeline.ts).                 *)
(*                                                                         *)
(* How a tool call is made, paid and interrupted is in ToolRegistry and    *)
(* PlanningJobs; here it has an outcome.  Weather, platform links, texts   *)
(* and the alternatives decide nothing and are left out.                   *)
(*                                                                         *)
(*   candidate [id, keyword, city, transfer, start, end, duration,         *)
(*              importance]; transfer: its title names a way, not a place  *)
(*   outcome   [list, detail, page]: the places found, each [name, city,   *)
(*              place, located]; <<>> or the details of the one chosen, a  *)
(*              place again; <<>> or the page read, <<[status, names,      *)
(*              conditional, hours, price]>>, names being those in its text *)
(*   route     <<>> or <<[duration, buffer, cost]>>; the buffer depends on *)
(*              the mode, which the provider's city codes decide           *)
(***************************************************************************)
EXTENDS TripValidation

CONSTANTS
    Brief,
    Plan,      \* Seq of [date, activities]: the candidates by day
    Findings,  \* what the tools may find out: candidate's id -> outcome
    Routes,    \* what calculate_route may return for one way
    Party      \* number of people

VARIABLES
    stage, \* the next stage, "done" at the end
    draft, baseline, \* the trip, and as it was before the repair
    found, \* history: the outcome of each candidate's calls
    issues,
    rounds

assemblyVars == <<stage, draft, baseline, found, issues, rounds>>

Candidates == UNION {ToSet(Plan[i].activities) : i \in DOMAIN Plan}

NoTrip ==
    [brief |-> Brief, bookings |-> Brief.booked, days |-> <<>>, items |-> <<>>,
     percent |-> 10, claims |-> <<>>, evidence |-> <<>>, alerts |-> {},
     version |-> 1, status |-> "draft"]

AssemblyInit ==
    /\ stage = "evidence_collection"
    /\ draft = NoTrip /\ baseline = NoTrip
    /\ found = <<>>
    /\ issues = {}
    /\ rounds = 0

-----------------------------------------------------------------------------
(* collectEvidence *)

\* A way between cities, or a place outside the confirmed ones.
isTransferPlaceholder(c) ==
    \/ c.transfer
    \/ c.city # Brief.city /\ \A d \in Brief.dayTrips : d.to # c.city

Visits == {c \in Candidates : ~isTransferPlaceholder(c)}

\* What the theorems assume of the plan and of the tools: lists are lists, the
\* hours of a page are within a day (TimeWindowSchema), and two candidates with
\* one id ask for the same place, since a second call of that id that asks for
\* something else is refused (CALL_CONFLICT, jobs/executor.ts).
PlanAssumption ==
    /\ Plan \in Seq(ToSet(Plan))
    /\ \A day \in ToSet(Plan) :
         day.date \in Int /\ day.activities \in Seq(Candidates)
    /\ \A c, d \in Visits :
         c.id = d.id => c.keyword = d.keyword /\ c.city = d.city
    /\ \A outcome \in Findings : \A c \in Visits :
         LET o == outcome[c.id]
         IN  /\ o.list \in Seq(ToSet(o.list)) /\ o.page \in Seq(ToSet(o.page))
             /\ \A page \in ToSet(o.page) :
                  /\ {"status", "names", "conditional", "hours", "price"}
                        \subseteq DOMAIN page
                  /\ page.hours \in Seq([start : 0 .. Minutes - 1,
                                         end : 0 .. Minutes - 1])

\* The only result, or the only one of several that has the name and the city.
exactPlaceCandidate(c, list) ==
    LET exact == Only(list, {p \in ToSet(list) : p.name = c.keyword
                                                /\ p.city = c.city})
    IN  IF Len(list) = 1 THEN list
        ELSE IF Len(exact) = 1 THEN exact ELSE <<>>

\* The details of the place chosen replace it, when they can be had.
Resolved(c, o) ==
    LET hit == exactPlaceCandidate(c, o.list)
    IN  IF hit = <<>> \/ o.detail = <<>> THEN hit ELSE o.detail

\* Fault: a page is believed whatever else it says about its times.
PageAsRead(names, page) == page

\* A page that has none of these names, or whose times depend on the day, has to
\* be checked again.
PageBelieved(names, page) ==
    [page EXCEPT !.status =
        IF /\ page.status = "verified"
           /\ page.names \cap names = {} \/ page.conditional
        THEN "recheck_required" ELSE page.status]

\* What the candidate's place is called: as asked for, or as resolved.
NamesOfPlace(c, o) ==
    LET place == Resolved(c, o)
    IN  {c.keyword} \cup (IF place = <<>> THEN {} ELSE {place[1].name})

Pages(c, o) ==
    [i \in DOMAIN o.page |-> PageBelieved(NamesOfPlace(c, o), o.page[i])]

Item(id, source, value, status) ==
    [id |-> id, source |-> source, origin |-> source, at |-> 1,
     value |-> IF value = "" THEN NoValue ELSE [means |-> value, spelt |-> 1],
     status |-> status]

\* address, opening_hours, reservation_rules and, when a price is known, cost.
Observations(c, date, o) ==
    LET place == Resolved(c, o)
        page == Pages(c, o)
        address == IF place = <<>>
                   THEN Item(<<"address", c.id>>, "dedicated_api", "", "failed")
                   ELSE Item(<<"address", c.id>>, "dedicated_api",
                             place[1].place, "verified")
        pending == IF page = <<>>
                   THEN Item(<<"rules", c.id>>, "web", "", "recheck_required")
                   ELSE Item(<<"page", c.id>>, "official", "excerpt",
                             page[1].status)
        Of(field, item, critical) ==
            [group |-> <<c.id, date, field>>, critical |-> critical,
             item |-> item]
    IN  <<Of("address", address, TRUE), Of("opening_hours", pending, TRUE),
          Of("reservation_rules", pending, TRUE)>> \o
        IF page = <<>> \/ page[1].status # "verified" \/ page[1].price = <<>>
        THEN <<>>
        ELSE <<Of("cost", Item(<<"cost", c.id>>, "official", "price",
                               "verified"), FALSE)>>

ActivityOf(c, date, o) ==
    LET place == Resolved(c, o)
        read == Pages(c, o)
        page == Only(read, {p \in ToSet(read) : p.status = "verified"})
        At(time) == date * Minutes + time
    IN  [id |-> c.id,
         place |-> IF place = <<>> THEN "unresolved:" \o c.id
                   ELSE "place:" \o place[1].place,
         city |-> IF place = <<>> THEN c.city ELSE place[1].city,
         located |-> place # <<>> /\ place[1].located,
         start |-> At(c.start), end |-> At(c.end), flex |-> 15,
         duration |-> c.duration, importance |-> c.importance,
         locked |-> FALSE, booking |-> "none",
         cost |-> IF page = <<>> \/ page[1].price = <<>> THEN Unknown
                  ELSE [low |-> page[1].price[1].low * Party,
                        high |-> page[1].price[1].high * Party],
         reservation |-> IF read = <<>> THEN "recheck_required"
                         ELSE read[1].status,
         opens |-> IF page = <<>> \/ page[1].hours = <<>> THEN <<>>
                   ELSE <<{[start |-> At(page[1].hours[1].start),
                            end |-> At(page[1].hours[1].end)]}>>]

\* The visits of a day, what was observed of them, and their activities.
Kept(day) ==
    Only(day.activities,
         {c \in ToSet(day.activities) : ~isTransferPlaceholder(c)})

DayObservations(day, outcome) ==
    FlattenSeq([j \in DOMAIN Kept(day) |->
        Observations(Kept(day)[j], day.date, outcome[Kept(day)[j].id])])

DayActivities(day, outcome) ==
    [j \in DOMAIN Kept(day) |->
        ActivityOf(Kept(day)[j], day.date, outcome[Kept(day)[j].id])]

collectEvidence(outcome) ==
    LET set == Normalize(FlattenSeq([i \in DOMAIN Plan |->
                            DayObservations(Plan[i], outcome)]))
    IN  [NoTrip EXCEPT
            !.days = [i \in DOMAIN Plan |->
                [id |-> Plan[i].id, date |-> Plan[i].date, legs |-> <<>>,
                 notes |-> "",
                 activities |-> DayActivities(Plan[i], outcome)]],
            !.claims = set.claims, !.evidence = set.evidence,
            !.alerts = {[code |-> "PLACE_UNRESOLVED", ids |-> <<c.id>>] :
                c \in {k \in Visits : Resolved(k, outcome[k.id]) = <<>>}}]

EvidenceCollection ==
    /\ stage = "evidence_collection"
    /\ \E outcome \in Findings :
         /\ draft' = collectEvidence(outcome)
         /\ found' = outcome
    /\ stage' = "route_and_budget"
    /\ UNCHANGED <<baseline, issues, rounds>>

-----------------------------------------------------------------------------
(* completeRoutesAndBudget *)

\* The day's ways: from each main activity to the next at another place.
Ways(day) ==
    LET acts == day.activities
    IN  UNION {{<<j, i>> : j \in {k \in PreviousMain(acts, i) :
                                    acts[k].place # acts[i].place}} :
               i \in {k \in DOMAIN acts : Main(acts[k])}}

\* A way is asked for when both ends are located, and the tool refuses a
\* departure window that does not end after it starts.  Seniors and children
\* need longer, notes on mobility do not count here.
LegOf(day, way, route) ==
    LET p == day.activities[way[1]]
        a == day.activities[way[2]]
    IN  IF ~p.located \/ ~a.located \/ p.end >= a.start \/ route = <<>>
        THEN <<>>
        ELSE <<[id |-> p.id \o "-" \o a.id, from |-> p.place, to |-> a.place,
                start |-> p.end, end |-> a.start, duration |-> route[1].duration,
                buffer |-> route[1].buffer
                             + (IF Brief.accompanied THEN 15 ELSE 0),
                cost |-> route[1].cost, locked |-> FALSE, booking |-> "none",
                evidence |-> {<<"route", p.id, a.id>>}]>>

Categories(b) ==
    IF b.type = "hotel" THEN "lodging"
    ELSE IF b.type = "activity" THEN "tickets" ELSE "intercity"

\* The costs of what is booked, of the main activities, of the ways, and an
\* unknown one for every category that has none yet.
ItemsOf(days) ==
    LET One(category, cost) == [category |-> category, cost |-> cost]
        booked == [i \in DOMAIN Brief.booked |->
                     One(Categories(Brief.booked[i]), Brief.booked[i].paid)]
        ofDay(day) ==
            LET main == SelectSeq(day.activities, Main)
            IN  [i \in DOMAIN main |-> One("tickets", main[i].cost)] \o
                [i \in DOMAIN day.legs |->
                    One("local_transport", day.legs[i].cost)]
        known == booked \o FlattenSeq([i \in DOMAIN days |-> ofDay(days[i])])
        missing == {c \in Brief.includes :
                        \A i \in ToSet(known) : i.category # c}
    IN  known \o [i \in 1 .. Cardinality(missing) |->
                    One(SetToSeq(missing)[i], Unknown)]

\* The ways of all days, <<day, way>>.
AllWays(t) == UNION {{i} \X Ways(t.days[i]) : i \in DOMAIN t.days}

\* Each way has a route of its own.
completeRoutesAndBudget(t, route) ==
    LET legs == [i \in DOMAIN t.days |->
            LET ways == SetToSeq(Ways(t.days[i]))
            IN  FlattenSeq([k \in DOMAIN ways |->
                    LegOf(t.days[i], ways[k], route[<<i, ways[k]>>])])]
        days == [i \in DOMAIN t.days |-> [t.days[i] EXCEPT !.legs = legs[i]]]
        proofs == FlattenSeq([i \in DOMAIN t.days |->
            [k \in DOMAIN legs[i] |->
                Item(CHOOSE id \in legs[i][k].evidence : TRUE,
                     "dedicated_api", "duration", "verified")]])
        missing == UNION {
            LET day == t.days[i]
            IN  {<<day.activities[w[1]].id, day.activities[w[2]].id>> :
                    w \in {v \in Ways(day) :
                            LegOf(day, v, route[<<i, v>>]) = <<>>}}
            : i \in DOMAIN t.days}
    IN  [t EXCEPT !.days = days, !.evidence = @ \o proofs,
                  !.items = ItemsOf(days),
                  !.alerts = @ \cup {[code |-> "MISSING_ROUTE", ids |-> ids] :
                                        ids \in missing}]

RouteAndBudget ==
    /\ stage = "route_and_budget"
    /\ \E route \in [AllWays(draft) -> Routes] :
         /\ draft' = completeRoutesAndBudget(draft, route)
         /\ baseline' = draft'
    /\ stage' = "hard_validation"
    /\ UNCHANGED <<found, issues, rounds>>

HardValidation ==
    /\ stage = "hard_validation"
    /\ issues' = validateTrip(draft, baseline)
    /\ stage' = "repair"
    /\ UNCHANGED <<draft, baseline, found, rounds>>

-----------------------------------------------------------------------------
(* repairTrip *)

\* The dates of the days that an issue names, or an activity or a leg of.
Affected(t) ==
    {d.date : d \in {e \in ToSet(t.days) : \E i \in issues :
        \/ i.date = e.date
        \/ ToSet(i.ids) \cap ({a.id : a \in ToSet(e.activities)}
                             \cup {l.id : l \in ToSet(e.legs)}) # {}}}

\* What the tools found out about an activity; its place has a city.
Facts(a) == <<a.place, a.city, a.located, a.cost, a.opens, a.reservation>>

\* What the model may not touch: brief, bookings, evidence, claims, costs, the
\* facts of places and legs, and the days without an issue.
Unauthorized(candidate) ==
    \/ candidate.brief # baseline.brief
    \/ candidate.bookings # baseline.bookings
    \/ candidate.evidence # draft.evidence
    \/ candidate.claims # draft.claims
    \/ candidate.items # draft.items
    \/ \E d \in {e \in ToSet(draft.days) : e.date \notin Affected(draft)} :
         First(Only(candidate.days,
                    {n \in ToSet(candidate.days) : n.date = d.date})) # <<d>>
    \/ \E a \in Activities(candidate) :
         \A o \in FirstOf(ActivitiesByDay(draft), a.id) : Facts(o) # Facts(a)
    \/ \E l \in Legs(candidate) :
         \A o \in FirstOf(LegsByDay(draft), l.id) :
             [o EXCEPT !.start = l.start, !.end = l.end] # l
    \/ \E i \in validateTrip(candidate, baseline) : i.code \in
         {"LOCK_CHANGED", "LOCKED_ACTIVITY_CHANGED", "LOCKED_LEG_CHANGED"}

\* What a model may return: the trip with an activity at another time or of no
\* importance, without an activity, without its alerts, or with facts it made up.
RepairedAt(t, i, j) ==
    LET a == t.days[i].activities[j]
        Put(b) == [t EXCEPT !.days[i].activities[j] = b]
    IN  {Put([a EXCEPT !.start = @ + 60, !.end = @ + 60]),
         Put([a EXCEPT !.importance = "fallback"]),
         Put([a EXCEPT !.reservation = "verified"]),
         Put([a EXCEPT !.opens = <<{[start |-> a.start, end |-> a.end]}>>]),
         [t EXCEPT !.days[i].activities = RemoveAt(@, j)]}

Repaired(t) ==
    (UNION {RepairedAt(t, e[1], e[2]) : e \in Places(ActivitiesByDay(t))}) \cup
    {[t EXCEPT !.alerts = {}], [t EXCEPT !.claims = <<>>],
     [t EXCEPT !.days[1].legs = <<>>]}

Repair ==
    /\ stage = "repair"
    /\ IF Blocking(issues) /\ rounds < 2
       THEN /\ \/ \E candidate \in Repaired(draft) :
                    IF Parses(candidate) /\ ~Unauthorized(candidate)
                    THEN /\ draft' = candidate
                         /\ issues' = validateTrip(candidate, baseline)
                    ELSE /\ draft' = draft
                         /\ issues' = issues \cup
                              {issue("REPAIR_UNAUTHORIZED", <<"trip">>)}
               \/ /\ draft' = draft
                  /\ issues' = issues \cup {issue("REPAIR_INVALID", <<"trip">>)}
            /\ rounds' = rounds + 1
            /\ stage' = stage
       ELSE /\ draft' = [draft EXCEPT !.status = Status(issues)]
            /\ stage' = "finalization"
            /\ UNCHANGED <<issues, rounds>>
    /\ UNCHANGED <<baseline, found>>

-----------------------------------------------------------------------------
(* finalization *)

Finalization ==
    /\ stage = "finalization"
    /\ issues' = validateTrip(draft, baseline)
    /\ draft' = [draft EXCEPT
            !.alerts = @ \cup {[code |-> i.code, ids |-> i.ids] :
                i \in {k \in issues' : k.severity = "blocking"}},
            !.status = Status(issues')]
    /\ stage' = "done"
    /\ UNCHANGED <<baseline, found, rounds>>

AssemblyNext ==
    \/ EvidenceCollection \/ RouteAndBudget \/ HardValidation \/ Repair
    \/ Finalization

AssemblySpec == AssemblyInit /\ [][AssemblyNext]_assemblyVars

-----------------------------------------------------------------------------
(* Properties *)

AssemblyTypeOK ==
    /\ stage \in {"evidence_collection", "route_and_budget", "hard_validation",
                  "repair", "finalization", "done"}
    /\ rounds \in 0 .. 2
    /\ draft.status \in {"draft", "executable", "checked", "blocked"}

\* What the outcome o says of the activity a made of the candidate c.
Backed(o, c, date, a) ==
    \E i \in DOMAIN o.list :
        LET hit == o.list[i]
            place == IF o.detail = <<>> THEN hit ELSE o.detail[1]
            IsExact(p) == p.name = c.keyword /\ p.city = c.city
        IN  /\ \A j \in DOMAIN o.list \ {i} :
                   IsExact(hit) /\ ~IsExact(o.list[j])
            /\ a.place = "place:" \o place.place /\ a.city = place.city
            /\ a.city \in {Brief.city} \cup {d.to : d \in Brief.dayTrips}
            /\ \E page \in ToSet(o.page) :
                 /\ page.status = "verified" /\ ~page.conditional
                 /\ {c.keyword, place.name} \cap page.names # {}
                 /\ \E h \in ToSet(page.hours) :
                      /\ date * Minutes + h.start <= a.start
                      /\ a.end <= date * Minutes + h.end
                 /\ "tickets" \in Brief.includes => page.price # <<>>

\* Whatever the tools found and whatever the model made of it in its rounds, a
\* delivered trip that is not called blocked rests on what was found: each main
\* activity is where the search led, to its only result or to the only one of
\* the name and in the city asked for, as the details have it when they could be
\* had, and in a confirmed city; an official page that names what was asked for
\* or what was found, and does not depend on the day, covers its time; its price
\* is known; and every day can be walked.  (agent/enrichment.ts, agent/repair.ts,
\* agent/pipeline.ts)
FinalIsBacked ==
    stage = "done" /\ draft.status # "blocked" =>
        \A day \in ToSet(draft.days) :
            /\ Walkable(day)
            /\ \A a \in {b \in ToSet(day.activities) : Main(b)} :
                 \E c \in {d \in Visits : d.id = a.id} :
                   Backed(found[a.id], c, day.date, a)

\* The comment of exactPlaceCandidate (enrichment.ts:71): a place is resolved to
\* a match of its name and city only.
PlacesAreExact ==
    stage = "done" /\ draft.status # "blocked" =>
        \A day \in ToSet(draft.days) : \A a \in ToSet(day.activities) :
            Main(a) => \A c \in {d \in Visits : d.id = a.id} :
                \E hit \in ToSet(found[a.id].list) :
                    hit.name = c.keyword /\ hit.city = c.city
=============================================================================
