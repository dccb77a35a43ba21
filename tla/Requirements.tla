---------------------------- MODULE Requirements ----------------------------
(***************************************************************************)
(* From a form to a planning job that may begin: requirements/service.ts   *)
(* (checkRequirements), asked again by the stage requirements_check of     *)
(* agent/pipeline.ts when the job runs, which may be on a later day.       *)
(*                                                                         *)
(* A date is a number of days, a year has Year of them.  Of the input the  *)
(* fields that decide are kept: an optional one is <<>> or <<value>>, of    *)
(* those that only have to be answered it is known whether they were.      *)
(*                                                                         *)
(*   input [sensitive, origin, cities, candidates, start, end, days,       *)
(*          party, budget, answered, dayTrips]                             *)
(***************************************************************************)
EXTENDS Integers, FiniteSets, SequencesExt

CONSTANTS
    Year,
    SupportedCities, \* a sequence: FULL_SUPPORT_CITIES
    Inputs,          \* the first input
    FieldAnswers,    \* [field -> what may be answered]
    LastDay          \* bound

VARIABLES
    today,
    input,   \* what the form holds
    result,  \* the last answer of checkRequirements
    brief,   \* <<>>, or <<the brief of the job>>
    job,     \* "none", "waiting", "running" or "refused"
    asked    \* how often the form was sent back

requirementVars == <<today, input, result, brief, job, asked>>

-----------------------------------------------------------------------------
(* checkRequirements *)

\* Of those with neither a start nor an end, or an end that does not follow.
endDate(v) ==
    IF v.start # <<>> /\ v.end = <<>> /\ v.days # <<>>
    THEN <<v.start[1] + v.days[1] - 1>> ELSE v.end

\* DraftPartySchema and the other limits of RequirementInputSchema.
ValidInput(v) ==
    /\ \A p \in ToSet(v.party) : /\ p.adults \in 0 .. 20
                                 /\ p.children \in 0 .. 20
                                 /\ p.seniors \in 0 .. 20
    /\ \A d \in ToSet(v.days) : d \in 1 .. 30
    /\ Len(v.dayTrips) <= 5

\* The fields in the order in which they are asked for.
Turn == [origin |-> 1, dates |-> 2, party |-> 3, budget |-> 4,
          bookedItems |-> 5, hardConstraints |-> 6, preferences |-> 7]

\* The fields that are not answered.
Questions(v) ==
    {f \in {"origin"} : v.origin = <<>>} \cup
    {f \in {"dates"} : v.start = <<>> \/ endDate(v) = <<>>} \cup
    {f \in {"party"} : v.party = <<>>} \cup
    {f \in {"budget"} : v.budget = <<>>} \cup
    ({"bookedItems", "hardConstraints", "preferences"} \ v.answered)

Earlier(f, questions) == {g \in questions : Turn[g] < Turn[f]}

\* The first five of them are asked at once.
FirstFive(questions) ==
    {f \in questions : Cardinality(Earlier(f, questions)) < 5}

\* The cities to choose from: those the user weighs, then the usual ones.
Options(v) ==
    LET usual == SelectSeq(SupportedCities, LAMBDA c : <<c>> # v.origin)
        first3(s) == SubSeq(s, 1, IF Len(s) < 3 THEN Len(s) ELSE 3)
        all == v.candidates \o first3(usual)
        distinct == FoldLeft(LAMBDA s, c : IF Contains(s, c) THEN s
                                           ELSE Append(s, c), <<>>, all)
    IN  first3(SelectSeq(distinct, LAMBDA c : Contains(SupportedCities, c)))

\* Fault: six people are counted without the children.
FormIssuesOfAdults(v, day) ==
    LET from == v.start[1]
        to == endDate(v)[1]
        p == v.party[1]
    IN  (IF to - from + 1 \notin 3 .. 5 THEN {"DURATION"} ELSE {}) \cup
        (IF from < day \/ to > day + Year THEN {"DATE"} ELSE {}) \cup
        (IF p.adults < 1 \/ p.adults + p.seniors > 6 THEN {"PARTY"} ELSE {})

\* What a complete input may be out of scope for.
FormIssues(v, day) ==
    LET from == v.start[1]
        to == endDate(v)[1]
        p == v.party[1]
    IN  (IF to - from + 1 \notin 3 .. 5 THEN {"DURATION"} ELSE {}) \cup
        (IF from < day \/ to > day + Year THEN {"DATE"} ELSE {}) \cup
        (IF p.adults < 1 \/ p.adults + p.children + p.seniors > 6
         THEN {"PARTY"} ELSE {})

\* The brief of an input without issues.
BriefOf(v) ==
    [origin |-> v.origin, city |-> v.cities[1], first |-> v.start[1],
     last |-> endDate(v)[1], party |-> v.party[1], budget |-> v.budget,
     dayTrips |-> v.dayTrips]

Stops(state, issues) ==
    [state |-> state, issues |-> issues, questions |-> {}]

checkRequirements(v, day) ==
    IF v.sensitive THEN Stops("rejected", {"SENSITIVE_INPUT"})
    ELSE IF ~ValidInput(v) THEN Stops("needs_clarification", {"INVALID_INPUT"})
    ELSE IF Len(v.cities) > 1 THEN Stops("out_of_scope", {"MULTI_CITY"})
    ELSE IF v.cities = <<>>
    THEN [state |-> "destination_options", issues |-> {"UNDECIDED"},
          questions |-> {"destination"}]
    ELSE IF ~Contains(SupportedCities, v.cities[1])
    THEN Stops("out_of_scope", {"EXPERIMENTAL_CITY"})
    ELSE IF Len(v.dayTrips) > 1 \/ \E m \in ToSet(v.dayTrips) : m > 120
    THEN Stops("out_of_scope", {"DAY_TRIP_SCOPE"})
    ELSE IF Questions(v) # {}
    THEN [state |-> "needs_clarification", issues |-> Questions(v),
          questions |-> FirstFive(Questions(v))]
    ELSE IF FormIssues(v, day) # {}
    THEN Stops("out_of_scope", FormIssues(v, day))
    ELSE Stops("ready", {})

\* What PartySchema demands.
PartyParses(p) ==
    /\ p.adults \in 1 .. 6
    /\ p.children \in 0 .. 5 /\ p.seniors \in 0 .. 5
    /\ p.adults + p.children + p.seniors <= 6

\* What TripBriefSchema demands of a brief; a brief that does not parse makes the
\* request fail.
BriefParses(b) ==
    /\ PartyParses(b.party)
    /\ b.last >= b.first
    /\ Len(b.dayTrips) <= 1

\* The brief as the input it is checked as again.
AsInput(b) ==
    [sensitive |-> FALSE, origin |-> b.origin, cities |-> <<b.city>>,
     candidates |-> <<>>, start |-> <<b.first>>, end |-> <<b.last>>,
     days |-> <<>>, party |-> <<b.party>>, budget |-> b.budget,
     answered |-> {"bookedItems", "hardConstraints", "preferences"},
     dayTrips |-> b.dayTrips]

-----------------------------------------------------------------------------
NotAsked == [state |-> "none", issues |-> {}, questions |-> {}]

FormInit ==
    /\ today = 1
    /\ input \in Inputs
    /\ result = NotAsked
    /\ brief = <<>>
    /\ job = "none"
    /\ asked = 0

\* The form is sent; when it is ready a job is made with the brief.
Submit ==
    /\ job = "none" /\ result = NotAsked
    /\ result' = checkRequirements(input, today)
    /\ asked' = IF result'.questions # {} THEN asked + 1 ELSE asked
    /\ IF result'.state = "ready"
       THEN brief' = <<BriefOf(input)>> /\ job' = "waiting"
       ELSE UNCHANGED <<brief, job>>
    /\ UNCHANGED <<today, input>>

Given(v, field, value) ==
    CASE field = "destination" -> [v EXCEPT !.cities = <<value>>]
      [] field = "origin" -> [v EXCEPT !.origin = <<value>>]
      [] field = "dates" -> [v EXCEPT !.start = <<value.start>>,
                                      !.end = value.end, !.days = value.days]
      [] field = "party" -> [v EXCEPT !.party = <<value>>]
      [] field = "budget" -> [v EXCEPT !.budget = <<value>>]
      [] OTHER -> [v EXCEPT !.answered = @ \cup {field}]

\* The user answers what was asked, one question after the other, and may take
\* one of the cities that are offered.
AnswerOne ==
    /\ \E f \in result.questions :
         /\ \E value \in FieldAnswers[f] \cup
                (IF f = "destination" THEN ToSet(Options(input)) ELSE {}) :
              input' = Given(input, f, value)
         /\ result' = IF result.questions = {f} THEN NotAsked
                      ELSE [result EXCEPT !.questions = @ \ {f}]
    /\ UNCHANGED <<today, brief, job, asked>>

\* Midnight in Shanghai.
NextDay ==
    /\ today < LastDay
    /\ today' = today + 1
    /\ UNCHANGED <<input, result, brief, job, asked>>

\* The stage requirements_check: REQUIREMENTS_INVALID unless ready.
RequirementsCheck ==
    /\ job = "waiting"
    /\ job' = IF checkRequirements(AsInput(brief[1]), today).state = "ready"
              THEN "running" ELSE "refused"
    /\ UNCHANGED <<today, input, result, brief, asked>>

FormNext == Submit \/ AnswerOne \/ NextDay \/ RequirementsCheck

FormSpec == FormInit /\ [][FormNext]_requirementVars

-----------------------------------------------------------------------------
(* Properties *)

FormTypeOK ==
    /\ today \in 1 .. LastDay
    /\ job \in {"none", "waiting", "running", "refused"}
    /\ (job = "none") <=> (brief = <<>>)

\* A brief that was found ready parses, and until the day its trip starts it is
\* found ready again with the same brief: the job is refused for being late and
\* for nothing else.  Whoever answers what is asked is asked three times at most.
\* (checkRequirements, requirements_check)
ReadyUntilItStarts ==
    /\ \A b \in ToSet(brief) :
         /\ BriefParses(b)
         /\ job = "refused" => today > b.first
         /\ today <= b.first =>
              /\ checkRequirements(AsInput(b), today).state = "ready"
              /\ BriefOf(AsInput(b)) = b
    /\ asked <= 3

-----------------------------------------------------------------------------
(* For the proofs *)

OneOrNone(m, S) == m = <<>> \/ (m = <<m[1]>> /\ m[1] \in S)

Parties == [adults : Int, children : Int, seniors : Int]

\* A form of the shape that RequirementInputSchema demands.
WellFormedInput(v) ==
    /\ DOMAIN v = {"sensitive", "origin", "cities", "candidates", "start",
                   "end", "days", "party", "budget", "answered", "dayTrips"}
    /\ OneOrNone(v.start, Int) /\ OneOrNone(v.end, Int)
    /\ OneOrNone(v.days, Int) /\ OneOrNone(v.party, Parties)
    /\ v.dayTrips \in Seq(Int)

\* Whoever is asked for the dates gives a start and an end or a duration.
ASSUME FormAssumption ==
    /\ Year \in Nat
    /\ \A v \in Inputs : WellFormedInput(v)
    /\ \A d \in FieldAnswers["dates"] :
        /\ d.start \in Int /\ OneOrNone(d.end, Int) /\ OneOrNone(d.days, Int)
        /\ d.end # <<>> \/ d.days # <<>>
    /\ FieldAnswers["party"] \subseteq Parties

\* What will still be asked once the pending questions are answered, and in how
\* many rounds.
Unasked == Questions(input) \ result.questions

Rounds == IF Unasked = {} THEN 0
          ELSE IF Unasked \subseteq {"hardConstraints", "preferences"} THEN 1
          ELSE 2

DestinationLeft ==
    IF input.cities = <<>> /\ "destination" \notin result.questions
    THEN 1 ELSE 0

\* For the proof of ReadyUntilItStarts: the day's answer holds for every day
\* until the trip starts, and the rounds left are what the three allow.
FormInv ==
    /\ today \in Int
    /\ WellFormedInput(input)
    /\ "questions" \in DOMAIN result
    /\ brief = <<>> \/ brief = <<brief[1]>>
    /\ \A b \in ToSet(brief) :
         /\ BriefParses(b) /\ BriefOf(AsInput(b)) = b
         /\ b.first \in Int
         /\ job = "refused" => today > b.first
         /\ \A day \in today .. b.first :
              checkRequirements(AsInput(b), day).state = "ready"
    /\ asked \in Nat /\ asked + DestinationLeft + Rounds <= 3
=============================================================================
