------------------------------ MODULE Skeleton ------------------------------
(***************************************************************************)
(* The stage skeleton_planning: agent/skeleton.ts checks what the model    *)
(* answers against the brief and puts the user's bookings on its days.     *)
(*                                                                         *)
(*   booking [id, type, start, end], minutes or NoTime                     *)
(*   answer  [unsafe, json, days, requests]: a claim that needs evidence,  *)
(*           whether it is JSON; days are [date, morning, afternoon], the  *)
(*           requests [id, field]; texts and transport windows are left out *)
(***************************************************************************)
EXTENDS Basics

CONSTANTS
    PlannedBriefs, \* [first, last, booked]
    PlannerAnswers \* what the model may answer

\* A brief as the form builds it: a booking has a key of its own
\* (planning-form.tsx), and a time is an instant.
PlannerBrief(b) ==
    /\ b.first \in Int /\ b.last \in Int
    /\ b.booked \in Seq(ToSet(b.booked))
    /\ \A k \in ToSet(b.booked) : k.start \in Int /\ k.end \in Int
    /\ \A i, j \in DOMAIN b.booked :
         b.booked[i].id = b.booked[j].id => i = j

ASSUME PlannerAssumption == \A b \in PlannedBriefs : PlannerBrief(b)

VARIABLES
    planned, \* the job's brief
    skeleton \* [error, days, unplaced]; its error is "asked" before the answer

plannerVars == <<planned, skeleton>>

dateRange(b) == [i \in 1 .. b.last - b.first + 1 |-> b.first + i - 1]

\* Fault: a stay ends on the day before one leaves.
NightsOnly(booking, dates) ==
    {d \in ToSet(dates) :
        /\ booking.start # NoTime
        /\ IF booking.type # "hotel" \/ booking.end = NoTime
           THEN d = localDate(booking.start)
           ELSE localDate(booking.start) <= d /\ d < localDate(booking.end)}

\* A stay is on each of its days, anything else on the day it begins.
bookingDates(booking, dates) ==
    {d \in ToSet(dates) :
        /\ booking.start # NoTime
        /\ IF booking.type # "hotel" \/ booking.end = NoTime
           THEN d = localDate(booking.start)
           ELSE localDate(booking.start) <= d /\ d <= localDate(booking.end)}

\* ModelSkeletonSchema: 3 to 5 days, some requests, each under its own id.
SchemaHolds(answer) ==
    /\ Len(answer.days) \in 3 .. 5
    /\ Len(answer.requests) \in 1 .. 100
    /\ \A i, j \in DOMAIN answer.requests :
         answer.requests[i].id = answer.requests[j].id => i = j

\* What has to be looked up: places, rules of some kind, ways, weather, costs.
CoversEvidence(answer) ==
    LET fields == {r.field : r \in ToSet(answer.requests)}
    IN  /\ {"place_details", "route", "weather", "cost"} \subseteq fields
        /\ fields \cap {"opening_hours", "reservation_rules"} # {}

\* The bookings of a day, in the brief's order, and those on no day.
OnDay(b, date) ==
    Only(b.booked, {k \in ToSet(b.booked) :
                        date \in bookingDates(k, dateRange(b))})

Unplaced(b) ==
    LET placed == {k.id : k \in UNION {ToSet(OnDay(b, d)) :
                                        d \in ToSet(dateRange(b))}}
    IN  Only(b.booked, {k \in ToSet(b.booked) : k.id \notin placed})

Unplanned(code) == [error |-> code, days |-> <<>>, unplaced |-> <<>>]

\* SkeletonPlanner.plan, in the order of its checks.
plan(b, answer) ==
    IF Len(dateRange(b)) \notin 3 .. 5 THEN Unplanned("INVALID_SKELETON")
    ELSE IF answer.unsafe THEN Unplanned("UNSAFE_FACT_CLAIM")
    ELSE IF ~answer.json THEN Unplanned("INVALID_MODEL_JSON")
    ELSE IF \/ ~SchemaHolds(answer)
            \/ [i \in DOMAIN answer.days |-> answer.days[i].date] # dateRange(b)
            \/ ~CoversEvidence(answer)
            \/ \E d \in ToSet(answer.days) :
                 ~d.morning /\ ~d.afternoon /\ OnDay(b, d.date) = <<>>
    THEN Unplanned("INVALID_SKELETON")
    ELSE [error |-> "none",
          days |-> [i \in DOMAIN answer.days |->
                      [plan |-> answer.days[i],
                       bookings |-> OnDay(b, answer.days[i].date)]],
          unplaced |-> Unplaced(b)]

PlannerInit == planned \in PlannedBriefs /\ skeleton = Unplanned("asked")

PlanSkeleton ==
    /\ skeleton = Unplanned("asked")
    /\ \E answer \in PlannerAnswers : skeleton' = plan(planned, answer)
    /\ UNCHANGED planned

PlannerNext == PlanSkeleton

PlannerSpec == PlannerInit /\ [][PlannerNext]_plannerVars

-----------------------------------------------------------------------------
(* Properties *)

\* A time span touches a day.
Touches(booking, date) ==
    /\ booking.start # NoTime
    /\ booking.start < (date + 1) * Minutes
    /\ IF booking.type = "hotel" /\ booking.end # NoTime
       THEN booking.end >= date * Minutes
       ELSE booking.start >= date * Minutes

\* A skeleton that is accepted covers the brief's days one by one, each with a
\* theme or a booking; every booking is on each day that it touches and on no
\* other, or among those that could not be placed; none is lost or doubled.
\* (SkeletonPlanner.plan)
BookingsAreKept ==
    skeleton.error = "none" =>
        /\ Len(skeleton.days) = planned.last - planned.first + 1
        /\ \A i \in DOMAIN skeleton.days :
             LET day == skeleton.days[i]
             IN  /\ day.plan.date = planned.first + i - 1
                 /\ day.plan.morning \/ day.plan.afternoon \/ day.bookings # <<>>
                 /\ ToSet(day.bookings) =
                      {b \in ToSet(planned.booked) : Touches(b, day.plan.date)}
                 /\ Len(day.bookings) = Cardinality(ToSet(day.bookings))
        /\ ToSet(skeleton.unplaced) =
             {b \in ToSet(planned.booked) :
                \A date \in planned.first .. planned.last : ~Touches(b, date)}
=============================================================================
