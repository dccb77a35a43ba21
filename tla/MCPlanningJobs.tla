--------------------------- MODULE MCPlanningJobs ---------------------------
(***************************************************************************)
(* A planning job small enough for TLC.  The seven stages are the real     *)
(* ones; each makes the shortest list of calls that still has its          *)
(* interesting cases: three searches of which the third can meet the limit,*)
(* a search whose input depends on the deployment, a tool call in a stage  *)
(* that needs no key, and two repair rounds.                               *)
(***************************************************************************)
EXTENDS PlanningJobs

MCCallKind ==
  [skeleton |-> "model", plan |-> "model", place |-> "tool",
   search1 |-> "search", search2 |-> "search", search3 |-> "search",
   leg |-> "tool",
   repair1 |-> "repair", repair2 |-> "repair",
   local1 |-> "repair", local2 |-> "repair"]

MCCalls == DOMAIN MCCallKind

MCScript ==
  [plan |->
     [stage \in Stages |->
        CASE stage = "skeleton_planning"   -> <<"skeleton">>
          [] stage = "evidence_collection" -> <<"plan", "place", "search1",
                                                "search2", "search3">>
          [] stage = "route_and_budget"    -> <<"leg">>
          [] stage = "repair"              -> <<"repair1", "repair2">>
          [] OTHER                         -> <<>>],
   replan |->
     [stage \in Stages |->
        IF stage = "repair" THEN <<"local1", "local2">> ELSE <<>>]]

\* Model calls cost more than searches.
MCPrice == [c \in MCCalls |-> IF MCCallKind[c] = "search" THEN 1 ELSE 2]

\* Only the input of the first search names the deployment's trusted hosts.
MCSignature ==
  [c \in MCCalls |->
     [config \in Configs |-> IF c = "search1" THEN config ELSE "fixed"]]
MCSignatures == Configs \cup {"fixed"}
=============================================================================
