---------------------------- MODULE JobLifecycle ----------------------------
(***************************************************************************)
(* What a planning job promises to whoever watches it, without processes,  *)
(* calls, keys or crashes: its status moves along the documented table     *)
(* (src/jobs/lifecycle.ts), except that it goes back to the queue when a   *)
(* process is restarted and may complete from there; its stage results     *)
(* grow one stage at a time in the documented order and never shrink; it   *)
(* completes only when every stage has a result, and a finished job never  *)
(* changes again.                                                          *)
(*                                                                         *)
(* PlanningJobs implements this specification under the mapping            *)
(* status <- job.status, stageResults <- job.stageResults.                 *)
(***************************************************************************)
EXTENDS Lifecycle

VARIABLES
  status,        \* the job's status, Absent before it is created
  stageResults   \* the stages that have a recorded result, in order

vars == <<status, stageResults>>

TypeOK ==
  /\ status \in Statuses \cup {Absent}
  /\ stageResults \in Seq(Stages)

Init ==
  /\ status = Absent
  /\ stageResults = <<>>

Create ==
  /\ status = Absent
  /\ status' = "queued"
  /\ UNCHANGED stageResults

\* A documented status change other than completing.
Move ==
  \E to \in transitions[status] \ {"completed"} :
    /\ status' = to
    /\ UNCHANGED stageResults

\* The job completes once every stage has a result.  A job that was recovered
\* after its last stage completes straight from the queue.
Complete ==
  /\ status \in {"queued", "running"}
  /\ Recorded(stageResults) = Stages
  /\ status' = "completed"
  /\ UNCHANGED stageResults

\* One more stage is recorded: the first one that has no result.
FinishStage ==
  /\ status = "running"
  /\ nextPlanningStage(status, None, stageResults) # None
  /\ stageResults' = Append(stageResults,
                            nextPlanningStage(status, None, stageResults))
  /\ UNCHANGED status

\* A restarted process puts every unfinished job back into the queue; the
\* results stay.
Recover ==
  /\ status \in Open
  /\ status' = "queued"
  /\ UNCHANGED stageResults

Next ==
  \/ Create
  \/ status # Absent /\ Move
  \/ FinishStage
  \/ Complete
  \/ Recover

Spec == Init /\ [][Next]_vars
=============================================================================
