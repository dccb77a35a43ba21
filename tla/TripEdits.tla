----------------------------- MODULE TripEdits -----------------------------
(***************************************************************************)
(* Edits of a stored trip: trips/changes.ts (previewChange, commitChange), *)
(* the handler of trips/http.ts that tells minor from major ones, and the  *)
(* two rounds of trips/replan.ts that a model answers for a major one.     *)
(*                                                                         *)
(* The trip is edited by one page at a time; what a second page does to it *)
(* meanwhile is in BrowserTrips, how the job that runs the rounds can fail *)
(* in PlanningJobs.  Of an edited window its start, end and flexibility    *)
(* count; a change is a record with a type, as ChangeSchema says.          *)
(***************************************************************************)
EXTENDS TripValidation

CONSTANTS
    BaseTrip,   \* the trip the planner delivered
    Changes,    \* what the page may ask for, by ChangeSchema
    Windows,    \* [start, end, flex] a model may set
    MaxVersion  \* bound

ASSUME ChangesAssumption ==
    \A c \in Changes :
        c.type \in {"note", "replan", "budget", "lock", "activity", "move"}

VARIABLES
    trip,   \* the stored trip
    replan  \* <<>>, or <<[change, round]>> while a model is asked

editVars == <<trip, replan>>

EditsInit == trip = BaseTrip /\ replan = <<>>

-----------------------------------------------------------------------------
(* previewChange *)

\* The first day of that date.
DayOf(t, date) ==
    {i \in DOMAIN t.days : /\ t.days[i].date = date
                           /\ \A j \in 1 .. i - 1 : t.days[j].date # date}

\* The days that hold an activity of that id (the first one is edited).
DaysWith(t, id) ==
    {i \in DOMAIN t.days : Find(t.days[i].activities, id) # <<>>}

FirstDayWith(t, id) ==
    CHOOSE i \in DaysWith(t, id) : \A j \in DaysWith(t, id) : i <= j

Entities(t, entity) ==
    IF entity = "booking" THEN t.bookings
    ELSE FlattenSeq([i \in DOMAIN t.days |->
            IF entity = "leg" THEN t.days[i].legs ELSE t.days[i].activities])

\* Neither DATE_NOT_FOUND nor ENTITY_NOT_FOUND.
Applicable(t, c) ==
    CASE c.type \in {"note", "replan"} -> DayOf(t, c.date) # {}
      [] c.type = "budget" -> TRUE
      [] c.type = "lock" -> Find(Entities(t, c.entity), c.id) # <<>>
      [] c.type = "activity" -> DaysWith(t, c.id) # {}
      [] c.type = "move" -> DaysWith(t, c.id) # {} /\ DayOf(t, c.date) # {}

\* The entities with `locked` of the first one of that id set.
SetLock(entities, id, locked) ==
    [i \in DOMAIN entities |->
        IF entities[i].id = id /\ \A j \in 1 .. i - 1 : entities[j].id # id
        THEN [entities[i] EXCEPT !.locked = locked] ELSE entities[i]]

Locked(t, c) ==
    LET Of(day) == IF c.entity = "leg" THEN day.legs ELSE day.activities
        days == [i \in DOMAIN t.days |->
            IF \E j \in 1 .. i - 1 : Find(Of(t.days[j]), c.id) # <<>>
            THEN t.days[i]
            ELSE IF c.entity = "leg"
            THEN [t.days[i] EXCEPT !.legs =
                    SetLock(t.days[i].legs, c.id, c.locked)]
            ELSE [t.days[i] EXCEPT !.activities =
                    SetLock(t.days[i].activities, c.id, c.locked)]]
        booked == [i \in DOMAIN t.brief.booked |->
            IF t.brief.booked[i].id = c.id
            THEN [t.brief.booked[i] EXCEPT !.locked = c.locked]
            ELSE t.brief.booked[i]]
    IN  [t EXCEPT !.brief.booked = booked,
            !.days = IF c.entity = "booking" THEN t.days ELSE days,
            !.bookings = IF c.entity = "booking"
                         THEN SetLock(t.bookings, c.id, c.locked)
                         ELSE t.bookings]

EditedActivity(a, c) ==
    [a EXCEPT !.start = IF c.window = <<>> THEN a.start ELSE c.window[1].start,
              !.end = IF c.window = <<>> THEN a.end ELSE c.window[1].end,
              !.flex = IF c.window = <<>> THEN a.flex ELSE c.window[1].flex,
              !.importance = IF c.type = "move" \/ c.importance = <<>>
                             THEN a.importance ELSE c.importance[1]]

EditedDays(t, c) ==
    LET from == FirstDayWith(t, c.id)
        a == Find(t.days[from].activities, c.id)[1]
        taken == IF c.type = "activity" THEN t.days
                 ELSE [t.days EXCEPT ![from].activities =
                    Only(t.days[from].activities,
                         {b \in ToSet(t.days[from].activities) : b.id # c.id})]
        to == IF c.type = "activity" THEN from
              ELSE CHOOSE i \in DayOf(t, c.date) : TRUE
    IN  [taken EXCEPT ![to].activities =
            IF c.type = "activity"
            THEN [j \in DOMAIN taken[to].activities |->
                    IF taken[to].activities[j] = a THEN EditedActivity(a, c)
                    ELSE taken[to].activities[j]]
            ELSE Append(taken[to].activities, EditedActivity(a, c))]

Candidate(t, c) ==
    CASE c.type = "note" ->
            [t EXCEPT !.days = [i \in DOMAIN t.days |->
                IF i \in DayOf(t, c.date)
                THEN [t.days[i] EXCEPT !.notes = c.text] ELSE t.days[i]]]
      [] c.type = "replan" -> t
      [] c.type = "budget" -> [t EXCEPT !.brief.limit = c.limit]
      [] c.type = "lock" -> Locked(t, c)
      [] OTHER -> [t EXCEPT !.days = EditedDays(t, c)]

AffectedDates(t, c) ==
    CASE c.type \in {"note", "replan"} -> {c.date}
      [] c.type = "budget" -> {t.days[i].date : i \in DOMAIN t.days}
      [] c.type = "lock" -> {}
      [] c.type = "activity" -> {t.days[FirstDayWith(t, c.id)].date}
      [] c.type = "move" -> {t.days[FirstDayWith(t, c.id)].date, c.date}

\* Fault: a locked activity is edited like any other.
NoConflicts(t, c) == {}

\* What the user has to unlock first.
LockConflicts(t, c) ==
    IF c.type \notin {"activity", "move"} THEN {}
    ELSE {a.id : a \in {b \in ToSet(First(Find(
                            t.days[FirstDayWith(t, c.id)].activities, c.id))) :
                        b.locked}}

PreviewIssues(t, c) ==
    validateTrip(Candidate(t, c),
                 IF c.type \in {"lock", "budget"} THEN Candidate(t, c) ELSE t)

\* The window moves by more than the activity's own flexibility.
MovesFar(t, c) ==
    LET a == Find(t.days[FirstDayWith(t, c.id)].activities, c.id)[1]
    IN  /\ c.window # <<>>
        /\ \/ c.window[1].start - a.start > a.flex
           \/ a.start - c.window[1].start > a.flex

IssueId(i) == <<i.code, i.ids>>

Major(t, c) ==
    \/ c.type \in {"replan", "budget", "move"}
    \/ c.type = "activity" /\ (MovesFar(t, c) \/ c.importance # <<>>)
    \/ LockConflicts(t, c) # {}
    \/ LET prior == {IssueId(i) : i \in validateTrip(t, t)}
       IN  \E i \in PreviewIssues(t, c) :
             i.severity = "blocking" /\ IssueId(i) \notin prior

-----------------------------------------------------------------------------
(* Minor edits are committed at once *)

\* commitChange
Commit(c) ==
    /\ replan = <<>> /\ trip.version < MaxVersion
    /\ Applicable(trip, c) /\ Parses(Candidate(trip, c))
    /\ ~Major(trip, c) /\ LockConflicts(trip, c) = {}
    /\ trip' = [Candidate(trip, c) EXCEPT
                    !.version = trip.version + 1,
                    !.status = Status(PreviewIssues(trip, c))]
    /\ UNCHANGED replan

-----------------------------------------------------------------------------
(* Major ones are confirmed and handed to a model *)

StartReplan(c) ==
    /\ replan = <<>> /\ trip.version < MaxVersion
    /\ Applicable(trip, c) /\ Parses(Candidate(trip, c))
    /\ Major(trip, c) /\ LockConflicts(trip, c) = {}
    /\ replan' = <<[change |-> c, round |-> 1]>>
    /\ UNCHANGED trip

\* Only the window, the importance and the rationale differ.
SameFacts(old, a) ==
    /\ DOMAIN a = DOMAIN old
    /\ \A f \in DOMAIN old \ {"start", "end", "flex", "importance"} :
          a[f] = old[f]

\* An activity of the answer against the one of its id.
AllowedActivity(a, original) ==
    LET old == Find(original.activities, a.id)
    IN  /\ old # <<>>
        /\ old[1].locked => a = old[1]
        /\ SameFacts(old[1], a)

\* A leg: only its departure window.
AllowedLeg(l, original) ==
    LET old == Find(original.legs, l.id)
    IN  /\ old # <<>>
        /\ old[1].locked => l = old[1]
        /\ [old[1] EXCEPT !.start = l.start, !.end = l.end] = l

\* Neither REPLAN_SCOPE, LOCK_CHANGED nor FACT_CHANGED.
AllowedDays(proposed, dates, days) ==
    /\ Len(days) = Cardinality(dates)
    /\ {days[i].date : i \in DOMAIN days} = dates
    /\ \A i \in DOMAIN days :
        LET original == proposed.days[CHOOSE k \in DOMAIN proposed.days :
                                          proposed.days[k].date = days[i].date]
        IN  /\ days[i].id = original.id
            /\ Len(days[i].activities) = Len(original.activities)
            /\ Len(days[i].legs) = Len(original.legs)
            /\ \A a \in ToSet(days[i].activities) : AllowedActivity(a, original)
            /\ \A l \in ToSet(days[i].legs) : AllowedLeg(l, original)

\* Those days in the place of the trip's own.
WithDays(t, days) ==
    [t EXCEPT !.days = [k \in DOMAIN t.days |->
        LET new == Only(days, {d \in ToSet(days) : d.date = t.days[k].date})
        IN  IF new = <<>> THEN t.days[k] ELSE new[1]]]

\* One round of localReplan: the answer becomes the trip, or the next round asks
\* again, or the trip stays as it is.
ReplanRound(days) ==
    LET c == replan[1].change
        proposed == Candidate(trip, c)
        candidate == WithDays(proposed, days)
        issues == validateTrip(candidate, proposed)
        unchanged == candidate.days = trip.days /\ candidate.brief = trip.brief
        accepted == /\ AllowedDays(proposed, AffectedDates(trip, c), days)
                    /\ Parses(candidate)
                    /\ ~unchanged /\ ~Blocking(issues)
    IN  /\ replan # <<>>
        /\ IF accepted
           THEN /\ trip' = [candidate EXCEPT !.version = trip.version + 1,
                                             !.status = Status(issues)]
                /\ replan' = <<>>
           ELSE /\ trip' = trip
                /\ replan' = IF replan[1].round = 2 THEN <<>>
                             ELSE <<[replan[1] EXCEPT !.round = 2]>>

\* Answers of the model: the days as asked for, one of them with an activity or
\* a leg changed, doubled or gone, or those of another day; <<>> stands for a
\* call that fails and for an answer that does not parse.
ActivityAnswers(a, day) ==
    {[a EXCEPT !.start = w.start, !.end = w.end, !.flex = w.flex,
               !.importance = importance] :
        w \in Windows, importance \in {a.importance, "fallback"}} \cup
    {[a EXCEPT !.duration = 1]} \cup ToSet(day.activities)

LegAnswers(l, day) ==
    {[l EXCEPT !.start = w.start, !.end = w.end] : w \in Windows} \cup
    {[l EXCEPT !.duration = 1]} \cup ToSet(day.legs)

DayAnswers(day) ==
    {day, [day EXCEPT !.activities = <<>>]} \cup
    (UNION {{[day EXCEPT !.activities[i] = a] :
                 a \in ActivityAnswers(day.activities[i], day)} :
            i \in DOMAIN day.activities}) \cup
    UNION {{[day EXCEPT !.legs[i] = l] : l \in LegAnswers(day.legs[i], day)} :
           i \in DOMAIN day.legs}

AnsweredDays(t, dates) ==
    LET on == {d \in ToSet(t.days) : d.date \in dates}
        asked == Only(t.days, on)
    IN  {<<>>, Only(t.days, ToSet(t.days) \ on)} \cup
        UNION {{[asked EXCEPT ![i] = day] : day \in DayAnswers(asked[i])} :
               i \in DOMAIN asked}

Replan ==
    /\ replan # <<>>
    /\ \E days \in AnsweredDays(Candidate(trip, replan[1].change),
                           AffectedDates(trip, replan[1].change)) :
         ReplanRound(days)

EditsNext ==
    \/ \E c \in Changes : Commit(c)
    \/ \E c \in Changes : StartReplan(c)
    \/ Replan

EditsSpec == EditsInit /\ [][EditsNext]_editVars

-----------------------------------------------------------------------------
(* Properties *)

EditsTypeOK ==
    /\ Parses(trip) /\ trip.version \in 1 .. MaxVersion
    /\ trip.status \in {"executable", "checked", "blocked"}
    /\ Len(replan) \in 0 .. 1

\* A trip that is not called blocked is one that can be gone on: each day can be
\* walked, its bookings are reached, but in the two cases that Feasible names,
\* and their spans are free.  (validateTrip, commitChange, localReplan)
UsableIsFeasible == trip.status # "blocked" => Feasible(trip)

\* TICKETS.md:1013: damage to a locked item is found, direct or indirect.  From
\* the last activity that really takes place a leg leads to each booking in time,
\* if it still runs.
BookingsAreReached ==
    trip.status # "blocked" =>
        \A i \in DOMAIN trip.days : \A b \in Timed(trip) :
            localDate(b.start) = trip.days[i].date
            => Connected(trip, trip.days[i], b)

\* The ids that stand in two places of a trip.
Doubled(t) ==
    LET lists == ActivitiesByDay(t)
        id(p) == EntityAt(lists, p).id
    IN  {id(p) : p \in {q \in Places(lists) :
                           \E o \in Places(lists) \ {q} : id(o) = id(q)}}

\* Of t, u keeps what is locked, the bookings, what is known of each activity
\* wherever it goes, and every day but those of the dates.
InScope(t, u, dates) ==
    /\ {a \in Activities(t) : a.locked} \subseteq Activities(u)
    /\ {l \in Legs(t) : l.locked} \subseteq Legs(u)
    /\ u.bookings = t.bookings
    /\ \A a \in Activities(t) : \E b \in Activities(u) : SameFacts(a, b)
    /\ DOMAIN u.days = DOMAIN t.days
    /\ \A i \in DOMAIN t.days : /\ u.days[i].date = t.days[i].date
                                /\ u.days[i] = t.days[i] \/ t.days[i].date \in dates

\* A step that changes the trip locks or unlocks what a change names, or keeps to
\* the dates that a change is about, a replan to those it was started for; of a
\* trip, that is, in which no id stands twice: an edit is of the first of that
\* id.  (previewChange, commitChange, localReplan)
EditsStayInScope ==
    [][ trip' # trip /\ Doubled(trip) = {} =>
          \E c \in Changes :
            /\ Applicable(trip, c) /\ (replan # <<>> => c = replan[1].change)
            /\ \/ InScope(trip, trip', AffectedDates(trip, c))
               \/ /\ c.type = "lock"
                  /\ trip' = [Locked(trip, c) EXCEPT !.version = trip'.version,
                                                     !.status = trip'.status]
      ]_editVars

\* For the proofs: a trip parses, and while a model is asked the change it is
\* asked about still applies to the trip, touches nothing locked, and leaves a
\* trip that parses.
Accepted(t, c) ==
    /\ c \in Changes /\ Applicable(t, c)
    /\ LockConflicts(t, c) = {} /\ Parses(Candidate(t, c))

AskedInv ==
    replan # <<>> => /\ "change" \in DOMAIN replan[1]
                     /\ Accepted(trip, replan[1].change)

EditsInv == Parses(trip) /\ UsableIsFeasible /\ AskedInv
=============================================================================
