------------------------------ MODULE Lifecycle ------------------------------
(***************************************************************************)
(* The vocabulary of src/jobs/lifecycle.ts: the seven planning stages in   *)
(* their fixed order, the statuses of a PlanningJob, the table of allowed  *)
(* status changes, and the choice of the next stage from the results a job *)
(* has already recorded.  No state of its own: the modules that have jobs  *)
(* extend this one.                                                        *)
(***************************************************************************)
EXTENDS Integers, Sequences

\* Stands for `undefined` (no current stage, no next stage).
None == "none"

\* A job that has not been created yet has no row; every other status is one
\* of JobStatus in the source.
Absent == "absent"

PLANNING_STAGES ==
  << "requirements_check", "skeleton_planning", "evidence_collection",
     "route_and_budget", "hard_validation", "repair", "finalization" >>

Stages == {PLANNING_STAGES[i] : i \in 1..Len(PLANNING_STAGES)}

Terminal == {"completed", "failed", "cancelled"}
Open     == {"queued", "running", "waiting_for_credentials"}
Statuses == Open \cup Terminal

\* assertJobTransition(from, to) accepts exactly these pairs.
transitions ==
  [queued    |-> {"running", "waiting_for_credentials", "failed", "cancelled"},
   running   |-> {"waiting_for_credentials", "completed", "failed",
                  "cancelled"},
   waiting_for_credentials |-> {"queued", "running", "failed", "cancelled"},
   completed |-> {},
   failed    |-> {},
   cancelled |-> {}]

\* The stages a job's results cover.
Recorded(results) == {results[i] : i \in 1..Len(results)}

\* nextPlanningStage(job): nothing for a finished job, the stage under way if
\* there is one, else the first stage of the list without a result.
nextPlanningStage(status, current, results) ==
  LET missing == {i \in 1..Len(PLANNING_STAGES) :
                    PLANNING_STAGES[i] \notin Recorded(results)}
  IN  IF status \in Terminal \/ (current = None /\ missing = {})
        THEN None
        ELSE IF current # None
               THEN current
               ELSE PLANNING_STAGES[CHOOSE i \in missing :
                                      \A j \in missing : i <= j]
=============================================================================
