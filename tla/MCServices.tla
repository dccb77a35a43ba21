----------------------------- MODULE MCServices -----------------------------
(***************************************************************************)
(* Components that share no state, checked side by side: in a behaviour    *)
(* one of them moves and the others stay as they began, so that the states *)
(* explored are the sum and not the product of theirs.                     *)
(***************************************************************************)
EXTENDS RateLimits, MonthlyStop, ModelGate, ToolRegistry, KeySession,
        TripEdits, TripAssembly, Claims, OfficialPages, Requirements, Skeleton,
        ResponseStream, PartInstances

VARIABLE part \* the component that moves

CONSTANTS Good, Bad, Call1, Call2

\* One hourly request per visitor, two product calls a day; a day of two hours
\* whose local midnight falls between the epoch's.
MCVisitorScopes == {"planning_job"}
MCProductScopes == {"search"}
MCLimit == [s \in MCVisitorScopes \cup MCProductScopes |->
                IF s = "search" THEN 2 ELSE 1]

Sample == INSTANCE TripInstance
MCTrip == Sample!MCTrip
MCChanges == Sample!MCChanges
MCWindows == Sample!MCWindows

\* This plan and these facts are of the kind that the theorems are about.
ASSUME AssemblyPlanIsSound == PlanAssumption
ASSUME FactsAreObservable == ObservableAssumption
ASSUME StreamsAreLists == StreamAssumption

MCExpected == {Palace}
MCCarriers == {Railway}
MCPlatforms == {Booking}

-----------------------------------------------------------------------------
Parts == {"limits", "monthly", "regression", "tools", "facts", "edits",
          "assembly", "form", "planner", "stream", "official", "visitor"}

servicesVars ==
    <<vars, monthlyVars, gateVars, toolVars, observations, editVars,
      assemblyVars, requirementVars, plannerVars, streamVars, pageVars,
      keyVars, part>>

\* A part that does not move begins in one way only.
Begin(p, S) == IF part = p THEN S ELSE {CHOOSE x \in S : TRUE}

ServicesInit ==
    /\ part \in Parts
    /\ input \in Begin("form", Forms)
    /\ planned \in Begin("planner", PlannedBriefs)
    /\ body \in Begin("stream", Bodies)
    /\ bodiless \in Begin("stream", BOOLEAN)
    /\ aborted \in Begin("stream", BOOLEAN)
    /\ Init /\ MonthlyInit /\ GateInit /\ ToolInit /\ KeyInit /\ EditsInit
    /\ AssemblyInit /\ FormInit /\ PlannerInit /\ StreamInit
    /\ PagesInit /\ ClaimsInit

\* The parts that do not move.
Idle(p) ==
    /\ part = p /\ part' = part
    /\ p # "limits" => UNCHANGED vars
    /\ p # "monthly" => UNCHANGED monthlyVars
    /\ p # "regression" => UNCHANGED gateVars
    /\ p # "tools" => UNCHANGED toolVars
    /\ p # "facts" => UNCHANGED observations
    /\ p # "edits" => UNCHANGED editVars
    /\ p # "assembly" => UNCHANGED assemblyVars
    /\ p # "form" => UNCHANGED requirementVars
    /\ p # "planner" => UNCHANGED plannerVars
    /\ p # "stream" => UNCHANGED streamVars
    /\ p # "official" => UNCHANGED pageVars
    /\ p # "visitor" => UNCHANGED keyVars

ServicesNext ==
    \/ Idle("limits") /\ Next
    \/ Idle("monthly") /\ MonthlyNext
    \/ Idle("regression") /\ GateNext
    \/ Idle("tools") /\ ToolNext
    \/ Idle("facts") /\ ClaimsNext
    \/ Idle("edits") /\ EditsNext
    \/ Idle("assembly") /\ AssemblyNext
    \/ Idle("form") /\ FormNext
    \/ Idle("planner") /\ PlannerNext
    \/ Idle("stream") /\ StreamNext
    \/ Idle("official") /\ PagesNext
    \/ Idle("visitor") /\ KeyNext

ServicesSpec ==
    ServicesInit /\ [][ServicesNext]_servicesVars /\ ToolFairness

=============================================================================
