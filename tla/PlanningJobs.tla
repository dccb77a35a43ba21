---------------------------- MODULE PlanningJobs ----------------------------
(***************************************************************************)
(* One planning job from its creation to its end: the HTTP handlers that   *)
(* create, cancel and resume it (src/jobs/http.ts, src/trips/http.ts), the *)
(* executor that runs its stages (src/jobs/executor.ts), the durable row   *)
(* and call journal (src/jobs/execution-store.ts), the stage handlers of   *)
(* the two pipelines reduced to the external calls they make, and a        *)
(* process that may die at any point and be started again.                 *)
(*                                                                         *)
(* The server is one JavaScript thread.  Code between two `await`s is not  *)
(* interleaved with anything but the death of the process; ThreadFree is   *)
(* the condition under which another callback may run.  Where the code     *)
(* makes two database transactions or a transaction and a request without  *)
(* awaiting in between, the model has two steps with the thread held.      *)
(*                                                                         *)
(* A job touches no state of another job, so one job is modelled.  What is *)
(* abstracted: the contents of trips and model answers (a call's answer is *)
(* `good` or not), progress events and analytics, and the several token    *)
(* and cost counters of UsageSnapshot, kept as one cost.                   *)
(***************************************************************************)
EXTENDS Lifecycle, FiniteSets, Functions

CONSTANTS
  Calls,          \* journal keys "stage:callKey" of every external call
  CallKind,       \* [Calls -> {"model", "repair", "search", "tool"}]
  Script,         \* [Kinds -> [Stages -> Seq(Calls)]]: calls a stage makes
  Price,          \* [Calls -> Nat]: what a confirmed call adds to the cost
  Configs,        \* deployments a restart may bring (code and environment)
  Signature,      \* [Calls -> [Configs -> Signatures]]: hash of the input
  Signatures,
  MaxSteps,       \* DEFAULT_BUDGET_POLICY.maxSteps
  MaxSearchCalls, \* DEFAULT_BUDGET_POLICY.maxSearchCalls
  MaxRepairRounds,\* DEFAULT_BUDGET_POLICY.maxRepairRounds
  CostHardLimit,  \* visitorModelCostHardCny and maxOutputTokens, as one cost
  MaxCrashes      \* bound of the model: how often the process dies

Kinds     == {"plan", "replan"}
CallKinds == {"model", "repair", "search", "tool"}

\* StageHandler.requiresKey after runtime.ts merged the two pipelines.
KeyStages == {"skeleton_planning", "evidence_collection", "repair"}

ScriptCalls(kind, stage) ==
  {Script[kind][stage][i] : i \in 1..Len(Script[kind][stage])}

ASSUME CallsAssumption ==
  /\ None \notin Calls
  /\ IsFiniteSet(Calls)
  /\ CallKind \in [Calls -> CallKinds]
  /\ Price \in [Calls -> Nat]
  /\ None \notin Signatures
  /\ Configs # {}
  /\ Signature \in [Calls -> [Configs -> Signatures]]

ASSUME ScriptAssumption ==
  /\ Script \in [Kinds -> [Stages -> Seq(Calls)]]
  \* Only the stages that need a key call the model.
  /\ \A kind \in Kinds, stage \in Stages \ KeyStages :
       \A c \in ScriptCalls(kind, stage) : CallKind[c] = "tool"
  \* A journal key starts with its stage, and the repair stage has its own
  \* kind of call.
  /\ \A kind \in Kinds, s \in Stages, t \in Stages :
       s # t => ScriptCalls(kind, s) \cap ScriptCalls(kind, t) = {}
  /\ \A kind \in Kinds, stage \in Stages :
       \A c \in ScriptCalls(kind, stage) :
         CallKind[c] = "repair" <=> stage = "repair"
  \* The last stage writes the job's trip and calls nobody.
  /\ \A kind \in Kinds : ScriptCalls(kind, "finalization") = {}
  \* Within a stage every call has a key of its own.
  /\ \A kind \in Kinds, stage \in Stages :
       \A i, j \in 1..Len(Script[kind][stage]) :
         i # j => Script[kind][stage][i] # Script[kind][stage][j]

ASSUME LimitsAssumption ==
  /\ {MaxSteps, MaxSearchCalls, MaxRepairRounds, CostHardLimit} \subseteq Nat
  /\ CostHardLimit # 0
  /\ MaxCrashes \in Nat

VARIABLES
  job,      \* the durable PlanningJob: status, currentStage, stageResults,
            \* errorCode
  state,    \* the durable ExecutionState: kind (plan or replan), blocking
            \* (an issue of severity "blocking" is recorded), calls, usage
  expired,  \* expiresAt has passed: jobs.get(id) answers null
  run,      \* the executor's entry in `active`: pc, the stage under way,
            \* whether it holds the user's key, the abort reason, the error
            \* that rejected the stage, the issues the stage wants recorded
  work,     \* the stage handler: pc, the call it is making, its position in
            \* the script, whether the trip in its hands is still blocking
  server,   \* up, the deployment that runs, how often it died
  sent,     \* history: requests that left for an external service, per call
  orphans,  \* history: calls without an answer when a process died
  refused   \* history: the row was stored and its request was refused, so
            \* that nobody was given the job's token

vars == <<job, state, expired, run, work, server, sent, orphans, refused>>

Codes == {None, "TASK_TIMEOUT", "TASK_CANCELLED", "CALL_CONFLICT",
          "CALL_INTERRUPTED", "LIMIT", "STAGE_FAILED", "UPSTREAM_FAILED",
          "SENSITIVE_PERSISTENCE_BLOCKED", "JOB_UNAVAILABLE"}

RunPcs  == {"none", "creating", "scheduled", "loop", "staged", "resolved",
            "rejected", "returning"}
WorkPcs == {"idle", "entering", "thinking", "journaled", "awaiting"}

NoEntry  == [status |-> "none", good |-> FALSE, signature |-> None]
NoUsage  == [steps |-> 0, searchCalls |-> 0, repairRounds |-> 0, cost |-> 0]
NoRun    == [pc |-> "none", stage |-> None, key |-> FALSE, aborted |-> None,
             error |-> None, blocking |-> FALSE]
IdleWork == [pc |-> "idle", call |-> None, at |-> 1, blocking |-> FALSE]

Entries == [status : {"none", "pending", "completed"}, good : BOOLEAN,
            signature : Signatures \cup {None}]
Usages  == [steps : Nat, searchCalls : Nat, repairRounds : Nat, cost : Nat]
Jobs    == [status : Statuses \cup {Absent}, currentStage : Stages \cup {None},
            stageResults : Seq(Stages), errorCode : Codes]
States  == [kind : Kinds, blocking : BOOLEAN, calls : [Calls -> Entries],
            usage : Usages]
Runs    == [pc : RunPcs, stage : Stages \cup {None}, key : BOOLEAN,
            aborted : {None, "timeout", "cancel"}, error : Codes,
            blocking : BOOLEAN]
Works   == [pc : WorkPcs, call : Calls \cup {None}, at : Nat \ {0},
            blocking : BOOLEAN]
Servers == [up : BOOLEAN, config : Configs, crashes : Nat]

TypeOK ==
  /\ job \in Jobs
  /\ state \in States
  /\ expired \in BOOLEAN
  /\ run \in Runs
  /\ work \in Works
  /\ server \in Servers
  /\ sent \in [Calls -> Nat]
  /\ orphans \subseteq Calls
  /\ refused \in BOOLEAN

Init ==
  /\ job = [status |-> Absent, currentStage |-> None, stageResults |-> <<>>,
            errorCode |-> None]
  /\ state = [kind |-> "plan", blocking |-> FALSE,
              calls |-> [c \in Calls |-> NoEntry], usage |-> NoUsage]
  /\ expired = FALSE
  /\ run = NoRun
  /\ work = IdleWork
  /\ \E config \in Configs :
       server = [up |-> TRUE, config |-> config, crashes |-> 0]
  /\ sent = [c \in Calls |-> 0]
  /\ orphans = {}
  /\ refused = FALSE

\* No callback is in the middle of a synchronous stretch of code.
ThreadFree ==
  /\ server.up
  /\ run.pc \notin {"creating", "loop"}
  /\ work.pc \notin {"entering", "journaled"}

Finished == job.status \in Terminal

-----------------------------------------------------------------------------
(* The HTTP handlers. *)

\* PlanningExecutor.run(id, key) when `active` has no entry for the job: a
\* fresh AbortController, and execute() in a microtask.
Scheduled(key) == [NoRun EXCEPT !.pc = "scheduled", !.key = key]

\* POST /api/planning-jobs: the row and its state in one transaction, then
\* run with the key of the request.
Create ==
  /\ ThreadFree
  /\ job.status = Absent
  /\ job' = [job EXCEPT !.status = "queued"]
  /\ run' = Scheduled(TRUE)
  /\ UNCHANGED <<state, expired, work, server, sent, orphans, refused>>

\* POST /api/trips/:id/replan creates the same row first ...
CreateReplan ==
  /\ ThreadFree
  /\ job.status = Absent
  /\ job' = [job EXCEPT !.status = "queued"]
  /\ run' = [NoRun EXCEPT !.pc = "creating"]
  /\ UNCHANGED <<state, expired, work, server, sent, orphans, refused>>

\* ... and turns it into a local replan in a second transaction, ...
AttachReplan ==
  /\ run.pc = "creating"
  /\ state' = [state EXCEPT !.kind = "replan", !.blocking = TRUE]
  /\ \E key \in BOOLEAN : run' = Scheduled(key)
  /\ UNCHANGED <<job, expired, work, server, sent, orphans, refused>>

\* ... which may throw: the trip in the request holds something that must not
\* be stored, or the database fails.  The transaction is rolled back, the
\* request is answered 400 and executor.run is not reached; the row stays.
AttachRefused ==
  /\ run.pc = "creating"
  /\ run' = NoRun
  /\ refused' = TRUE
  /\ UNCHANGED <<job, state, expired, work, server, sent, orphans>>

\* POST .../resume, by the holder of the token.  While an entry of `active`
\* remains, executor.run clears the new key and nothing is started: no step of
\* the model.
Resume ==
  /\ ThreadFree
  /\ ~expired
  /\ ~refused
  /\ job.status = "waiting_for_credentials"
  /\ run.pc = "none"
  /\ run' = Scheduled(TRUE)
  /\ UNCHANGED <<job, state, expired, work, server, sent, orphans, refused>>

\* Seeded faults, written like this one, precede the definition they replace;
\* none is part of the specification.  Fault: the race around the stage's work
\* does not listen to the abort signal.
AbortedWithoutRace(reason, code) ==
  IF run.aborted # None THEN run ELSE [run EXCEPT !.aborted = reason]

\* The abort of the active controller: the race around the stage's work is
\* rejected if it is still open, later aborts change nothing.
Aborted(reason, code) ==
  IF run.aborted # None
    THEN run
    ELSE [run EXCEPT !.aborted = reason,
                     !.pc    = IF @ = "staged" THEN "rejected" ELSE @,
                     !.error = IF run.pc = "staged" THEN code ELSE @]

\* Fault: the row is cancelled and the controller is left alone.
CancelWithoutAbort ==
  /\ ThreadFree
  /\ ~expired
  /\ ~refused
  /\ job.status \in Open
  /\ job' = [job EXCEPT !.status = "cancelled", !.currentStage = None]
  /\ UNCHANGED <<state, expired, run, work, server, sent, orphans, refused>>

\* Fault: the cancel handler does not look at the status first.
CancelAnyStatus ==
  /\ ThreadFree
  /\ ~expired
  /\ ~refused
  /\ job.status # Absent
  /\ job' = [job EXCEPT !.status = "cancelled", !.currentStage = None]
  /\ run' = IF run.pc = "none" THEN run ELSE Aborted("cancel",
                                                     "TASK_CANCELLED")
  /\ UNCHANGED <<state, expired, work, server, sent, orphans, refused>>

\* POST .../cancel on an unfinished job.  (On a finished one it only appends
\* a progress event.)
Cancel ==
  /\ ThreadFree
  /\ ~expired
  /\ ~refused
  /\ job.status \in Open
  /\ job' = [job EXCEPT !.status = "cancelled", !.currentStage = None]
  /\ run' = IF run.pc = "none" THEN run ELSE Aborted("cancel",
                                                     "TASK_CANCELLED")
  /\ UNCHANGED <<state, expired, work, server, sent, orphans, refused>>

-----------------------------------------------------------------------------
(* The executor: execute(id, key, controller).                             *)

\* The microtask of run() enters execute and starts its timer.
Start ==
  /\ ThreadFree
  /\ run.pc = "scheduled"
  /\ run' = [run EXCEPT !.pc = "loop"]
  /\ UNCHANGED <<job, state, expired, work, server, sent, orphans, refused>>

\* The job is gone or finished: execute returns.
LoopEnds ==
  /\ run.pc = "loop"
  /\ expired \/ Finished
  /\ run' = [run EXCEPT !.pc = "returning"]
  /\ UNCHANGED <<job, state, expired, work, server, sent, orphans, refused>>

\* What every other pass through the loop starts with.  cancelRequested is
\* only ever stored together with the status "cancelled", and an aborted run
\* does not come back to the loop, so those two checks never decide.
Looping ==
  /\ run.pc = "loop"
  /\ ~expired
  /\ ~Finished

NextStage ==
  nextPlanningStage(job.status, job.currentStage, job.stageResults)

\* Fault: only the skeleton and the repair are marked as needing a key.
NeedsKeyTooSeldom(stage) ==
  /\ stage \in {"skeleton_planning", "repair"}
  /\ stage = "repair" => state.blocking

\* A stage needs the user's key, except a repair with nothing to repair.
NeedsKey(stage) ==
  /\ stage \in KeyStages
  /\ stage = "repair" => state.blocking

Complete ==
  /\ Looping
  /\ NextStage = None
  /\ job' = [job EXCEPT !.status = "completed"]
  /\ run' = [run EXCEPT !.pc = "returning"]
  /\ UNCHANGED <<state, expired, work, server, sent, orphans, refused>>

WaitForKey ==
  /\ Looping
  /\ NextStage # None
  /\ NeedsKey(NextStage)
  /\ ~run.key
  /\ job' = [job EXCEPT !.status = "waiting_for_credentials",
                        !.currentStage = None]
  /\ run' = [run EXCEPT !.pc = "returning"]
  /\ UNCHANGED <<state, expired, work, server, sent, orphans, refused>>

\* The stage is recorded as under way and its handler is entered.
BeginStage ==
  /\ Looping
  /\ NextStage # None
  /\ NeedsKey(NextStage) => run.key
  /\ job' = [job EXCEPT !.status = "running", !.currentStage = NextStage]
  /\ run' = [run EXCEPT !.pc = "staged", !.stage = NextStage,
                        !.error = None]
  /\ work' = [IdleWork EXCEPT !.pc = "entering", !.blocking = state.blocking]
  /\ UNCHANGED <<state, expired, server, sent, orphans, refused>>

Timeout ==
  /\ ThreadFree
  /\ run.pc \in {"staged", "resolved", "rejected"}
  /\ run.aborted = None
  /\ run' = Aborted("timeout", "TASK_TIMEOUT")
  /\ UNCHANGED <<job, state, expired, work, server, sent, orphans, refused>>

\* The catch block: an unfinished job fails with the error's code, a
\* finished or expired one is left alone.
FailsWith(code) ==
  /\ job' = IF expired \/ Finished
              THEN job
              ELSE [job EXCEPT !.status = "failed", !.errorCode = code,
                               !.currentStage = None]
  /\ run' = [run EXCEPT !.pc = "returning"]
  /\ UNCHANGED <<state, expired, work, server, sent, orphans, refused>>

StageRejected ==
  /\ ThreadFree
  /\ run.pc = "rejected"
  /\ FailsWith(run.error)

\* The handler resolved, but before the executor went on the job expired or
\* was cancelled ...
ResultDropped ==
  /\ ThreadFree
  /\ run.pc = "resolved"
  /\ expired \/ job.status = "cancelled"
  /\ run' = [run EXCEPT !.pc = "returning"]
  /\ UNCHANGED <<job, state, expired, work, server, sent, orphans, refused>>

Committable ==
  /\ ThreadFree
  /\ run.pc = "resolved"
  /\ ~expired
  /\ job.status # "cancelled"

\* ... or the timer fired ...
ResultTooLate ==
  /\ Committable
  /\ run.aborted # None
  /\ FailsWith("TASK_TIMEOUT")

\* ... or the schema, the sensitive-data check or the database refuses the
\* write, and the transaction is rolled back.
ResultInvalid ==
  /\ Committable
  /\ run.aborted = None
  /\ FailsWith("STAGE_FAILED")

\* The stage's patch, its step of usage and its result in one transaction;
\* the calls and usage of the state are the current ones, not the patch's.
CommitStage ==
  /\ Committable
  /\ run.aborted = None
  /\ state' = [state EXCEPT !.blocking = run.blocking,
                            !.usage.steps = @ + 1]
  /\ job' = [job EXCEPT !.currentStage = None,
                        !.stageResults = Append(@, run.stage)]
  /\ run' = [run EXCEPT !.pc = "loop"]
  /\ UNCHANGED <<expired, work, server, sent, orphans, refused>>

\* The finally of run(): the key is cleared and the entry leaves `active`.
Settle ==
  /\ ThreadFree
  /\ run.pc = "returning"
  /\ run' = [run EXCEPT !.pc = "none", !.key = FALSE]
  /\ UNCHANGED <<job, state, expired, work, server, sent, orphans, refused>>

-----------------------------------------------------------------------------
(* The stage handler.  It makes the calls of its script one after another   *)
(* through `once`; a handler whose run was aborted goes on until its next   *)
(* check.                                                                   *)

script == Script[state.kind][run.stage]

\* Repair rounds (repairTrip, localReplan) go on only while the trip is
\* blocked.
WantsCall ==
  /\ work.pc \in {"entering", "thinking"}
  /\ work.at <= Len(script)
  /\ run.stage = "repair" => work.blocking

NextCall == script[work.at]

\* Fault: the limits are compared with > instead of >=.
OverBudgetOffByOne(usage) ==
  \/ usage.steps > MaxSteps
  \/ usage.searchCalls > MaxSearchCalls
  \/ usage.repairRounds > MaxRepairRounds
  \/ usage.cost > CostHardLimit

\* evaluateUsage: the counters are compared before a call, never after it.
OverBudget(usage) ==
  \/ usage.steps >= MaxSteps
  \/ usage.searchCalls >= MaxSearchCalls
  \/ usage.repairRounds >= MaxRepairRounds
  \/ usage.cost >= CostHardLimit

\* Fault: only the row is looked at, not the abort signal.
RefusalIgnoresAbort(c) ==
  LET prior == state.calls[c] IN
  IF expired THEN "JOB_UNAVAILABLE"
  ELSE IF prior.status # "none"
    THEN IF prior.signature # Signature[c][server.config]
           THEN "CALL_CONFLICT"
           ELSE IF prior.status = "pending" THEN "CALL_INTERRUPTED" ELSE None
    ELSE IF OverBudget(state.usage) THEN "LIMIT" ELSE None

\* What keeps `once` from making call c, checked in this order.
Refusal(c) ==
  LET prior == state.calls[c] IN
  IF run.aborted # None \/ job.status = "cancelled" THEN "TASK_CANCELLED"
  ELSE IF expired THEN "JOB_UNAVAILABLE"
  ELSE IF prior.status # "none"
    THEN IF prior.signature # Signature[c][server.config]
           THEN "CALL_CONFLICT"
           ELSE IF prior.status = "pending" THEN "CALL_INTERRUPTED" ELSE None
    ELSE IF OverBudget(state.usage) THEN "LIMIT" ELSE None

\* The handler's promise is settled; a run that no longer waits for it takes
\* no notice.
HandlerRejects(code) ==
  /\ work' = IdleWork
  /\ run' = IF run.pc = "staged"
              THEN [run EXCEPT !.pc = "rejected", !.error = code]
              ELSE run

HandlerResolves(blocking) ==
  /\ work' = IdleWork
  /\ run' = IF run.pc = "staged"
              THEN [run EXCEPT !.pc = "resolved", !.blocking = blocking]
              ELSE run

\* Fault: every stage swallows errors the way the repair loops do.
ThrowsNowhere(code) ==
  /\ code # None
  /\ work' = [work EXCEPT !.pc = "thinking", !.call = None, !.at = @ + 1,
                          !.blocking = TRUE]
  /\ run' = run

\* An error in the handler's hands.  The repair loops catch every error of a
\* round and go on to the next one; the other handlers pass it on.
Throws(code) ==
  \/ /\ run.stage = "repair"
     /\ work' = [work EXCEPT !.pc = "thinking", !.call = None, !.at = @ + 1,
                             !.blocking = TRUE]
     /\ run' = run
  \/ /\ run.stage # "repair"
     /\ HandlerRejects(code)

\* The value of a call in the handler's hands: a model answer must parse, a
\* repair round must leave no blocking issue to end the loop, and a tool's
\* failure is a value like any other.
Consumes(c, good) ==
  \/ /\ CallKind[c] = "model" /\ ~good
     /\ Throws("STAGE_FAILED")
  \/ /\ CallKind[c] # "model" \/ good
     /\ work' = [work EXCEPT !.pc = "thinking", !.call = None, !.at = @ + 1,
                             !.blocking = IF CallKind[c] = "repair"
                                            THEN ~good ELSE @]
     /\ run' = run

\* The usage events of an answer: a search that failed emits none.
Billed(usage, c, good) ==
  LET free   == CallKind[c] = "tool" \/ (CallKind[c] = "search" /\ ~good)
      search == CallKind[c] = "search" /\ good
      repair == CallKind[c] = "repair"
  IN  [usage EXCEPT !.searchCalls  = @ + (IF search THEN 1 ELSE 0),
                    !.repairRounds = @ + (IF repair THEN 1 ELSE 0),
                    !.cost         = @ + (IF free THEN 0 ELSE Price[c])]

CallRefused ==
  /\ WantsCall
  /\ Refusal(NextCall) # None
  /\ Throws(Refusal(NextCall))
  /\ UNCHANGED <<job, state, expired, server, sent, orphans, refused>>

\* Fault: an answer from the journal is billed like a new one.
CallReplayedBilled ==
  /\ WantsCall
  /\ Refusal(NextCall) = None
  /\ state.calls[NextCall].status = "completed"
  /\ state' = [state EXCEPT
                 !.usage = Billed(@, NextCall, state.calls[NextCall].good)]
  /\ Consumes(NextCall, state.calls[NextCall].good)
  /\ UNCHANGED <<job, expired, server, sent, orphans, refused>>

\* A confirmed call is answered from the journal.
CallReplayed ==
  /\ WantsCall
  /\ Refusal(NextCall) = None
  /\ state.calls[NextCall].status = "completed"
  /\ Consumes(NextCall, state.calls[NextCall].good)
  /\ UNCHANGED <<job, state, expired, server, sent, orphans, refused>>

\* Fault: the journal is written only when the answer is there.
CallMadeUnjournaled ==
  /\ WantsCall
  /\ Refusal(NextCall) = None
  /\ state.calls[NextCall].status = "none"
  /\ work' = [work EXCEPT !.pc = "journaled", !.call = NextCall]
  /\ UNCHANGED <<job, state, expired, run, server, sent, orphans, refused>>

\* A new call is entered in the journal before it is made ...
CallJournaled ==
  /\ WantsCall
  /\ Refusal(NextCall) = None
  /\ state.calls[NextCall].status = "none"
  /\ state' = [state EXCEPT
                 !.calls[NextCall] =
                    [status |-> "pending", good |-> FALSE,
                     signature |-> Signature[NextCall][server.config]]]
  /\ work' = [work EXCEPT !.pc = "journaled", !.call = NextCall]
  /\ UNCHANGED <<job, expired, run, server, sent, orphans, refused>>

\* ... and the request leaves.
CallSent ==
  /\ server.up
  /\ work.pc = "journaled"
  /\ sent' = [sent EXCEPT ![work.call] = @ + 1]
  /\ work' = [work EXCEPT !.pc = "awaiting"]
  /\ UNCHANGED <<job, state, expired, run, server, orphans, refused>>

Answering == ThreadFree /\ work.pc = "awaiting"

\* Fault: an answer is confirmed without a second look at the abort signal.
CallConfirmedAfterAbort ==
  /\ Answering
  /\ ~expired
  /\ \E good \in BOOLEAN :
       /\ state' = [state EXCEPT
                      !.calls[work.call].status = "completed",
                      !.calls[work.call].good = good,
                      !.usage = Billed(@, work.call, good)]
       /\ Consumes(work.call, good)
  /\ UNCHANGED <<job, expired, server, sent, orphans, refused>>

\* The answer is confirmed and billed in one transaction.
CallConfirmed ==
  /\ Answering
  /\ run.aborted = None
  /\ ~expired
  /\ \E good \in BOOLEAN :
       /\ state' = [state EXCEPT
                      !.calls[work.call].status = "completed",
                      !.calls[work.call].good = good,
                      !.usage = Billed(@, work.call, good)]
       /\ Consumes(work.call, good)
  /\ UNCHANGED <<job, expired, server, sent, orphans, refused>>

\* The answer cannot be confirmed: the run was aborted while it was under
\* way, the job expired, or the answer holds data that must not be stored.
CallUnconfirmed ==
  /\ Answering
  /\ Throws(IF run.aborted # None THEN "TASK_CANCELLED"
            ELSE IF expired THEN "JOB_UNAVAILABLE"
            ELSE "SENSITIVE_PERSISTENCE_BLOCKED")
  /\ UNCHANGED <<job, state, expired, server, sent, orphans, refused>>

\* The model client reports an error instead of an answer.  (The tool
\* registry turns every error and timeout of a tool into a value.)
CallFailed ==
  /\ Answering
  /\ CallKind[work.call] \in {"model", "repair"}
  /\ Throws("UPSTREAM_FAILED")
  /\ UNCHANGED <<job, state, expired, server, sent, orphans, refused>>

\* The script is through.  A plan's two validations find whatever they find, a
\* repair reports what its last round left, the other stages record no issues.
HandlerDone ==
  /\ work.pc \in {"entering", "thinking"}
  /\ ~WantsCall
  /\ \E blocking \in
         IF run.stage = "repair" THEN {work.blocking}
         ELSE IF /\ run.stage \in {"hard_validation", "finalization"}
                 /\ state.kind = "plan"
                THEN BOOLEAN
                ELSE {state.blocking} :
       HandlerResolves(blocking)
  /\ UNCHANGED <<job, state, expired, server, sent, orphans, refused>>

\* The requirements are checked against today's date on every attempt.
RequirementsInvalid ==
  /\ work.pc = "entering"
  /\ run.stage = "requirements_check"
  /\ state.kind = "plan"
  /\ HandlerRejects("STAGE_FAILED")
  /\ UNCHANGED <<job, state, expired, server, sent, orphans, refused>>

-----------------------------------------------------------------------------
(* Time, and the life of the process.                                      *)

\* The row outlives its 24 hours: every read of it answers null from now on.
Expire ==
  /\ job.status # Absent
  /\ ~expired
  /\ run.pc \notin {"creating", "loop"}
  /\ work.pc \notin {"entering", "journaled"}
  /\ expired' = TRUE
  /\ UNCHANGED <<job, state, run, work, server, sent, orphans, refused>>

\* The process dies: the run, its key, its handler and the answers on their
\* way are gone, the database stays.
Crash ==
  /\ server.up
  /\ server.crashes < MaxCrashes
  /\ server' = [server EXCEPT !.up = FALSE, !.crashes = @ + 1]
  /\ run' = NoRun
  /\ work' = IdleWork
  /\ orphans' = {c \in Calls : state.calls[c].status = "pending"}
  /\ UNCHANGED <<job, state, expired, sent, refused>>

\* recover(): an unfinished job goes back to the queue.
Recovered(j) == [j EXCEPT !.status = "queued", !.currentStage = None]

\* Fault: the job goes back to the queue and nobody runs it.
RestartWithoutRun ==
  /\ ~server.up
  /\ \E config \in Configs :
       server' = [server EXCEPT !.up = TRUE, !.config = config]
  /\ job' = IF job.status \in Open /\ ~expired THEN Recovered(job) ELSE job
  /\ UNCHANGED <<state, expired, run, work, sent, orphans, refused>>

\* A new process, perhaps of another deployment, initialises the job
\* runtime: it recovers the unfinished job and runs it without a key.
Restart ==
  /\ ~server.up
  /\ \E config \in Configs :
       server' = [server EXCEPT !.up = TRUE, !.config = config]
  /\ \/ /\ job.status \in Open /\ ~expired
        /\ job' = Recovered(job)
        /\ run' = Scheduled(FALSE)
     \/ /\ job.status \notin Open \/ expired
        /\ UNCHANGED <<job, run>>
  /\ UNCHANGED <<state, expired, work, sent, orphans, refused>>

-----------------------------------------------------------------------------
Http == Create \/ CreateReplan \/ Resume \/ Cancel

Executor ==
  \/ AttachReplan \/ AttachRefused \/ Start
  \/ LoopEnds \/ Complete \/ WaitForKey \/ BeginStage
  \/ StageRejected \/ ResultDropped \/ ResultTooLate \/ ResultInvalid
  \/ CommitStage \/ Settle

\* ThreadFree or in its first synchronous stretch: a handler that waits for
\* nothing goes on.
Handler ==
  /\ server.up
  /\ \/ CallRefused \/ CallReplayed \/ CallJournaled \/ CallSent
     \/ HandlerDone \/ RequirementsInvalid

Upstream == CallConfirmed \/ CallUnconfirmed \/ CallFailed

Next == Http \/ Executor \/ Handler \/ Upstream \/ Timeout \/ Expire
          \/ Crash \/ Restart

\* The event loop goes on with whatever is ready, and timers fire.  Nobody
\* has to answer a request, resume, cancel or restart anything.
Fairness ==
  /\ WF_vars(Executor)
  /\ WF_vars(Handler)
  /\ WF_vars(Timeout)

Spec == Init /\ [][Next]_vars /\ Fairness

-----------------------------------------------------------------------------
(* Safety.                                                                 *)

\* No external call is ever made twice, whatever crashes, restarts, resumes
\* and replays happen between its journal entry and its answer (`once` in
\* executor.ts; README.md: an unconfirmed call is not sent again, so that
\* nothing is charged twice).
SentAtMostOnce == \A c \in Calls : sent[c] <= 1

\* A request leaves only for a job that is running and that nobody has
\* cancelled or timed out (the checks of `once`
\* against the abort signal and the cancelled status).
NoCallAfterStop ==
  [][sent' # sent => /\ job.status = "running"
                     /\ run.pc = "staged"
                     /\ run.aborted = None
                     /\ ~expired]_vars

\* A finished job is final: no late answer, timer, handler that outlived its
\* run, repeated cancel or restart changes its row, its journal or its bill.
FinishedIsFinal == [][Finished => UNCHANGED <<job, state>>]_vars

\* Whatever the order of commits, crashes and replays, the bill is exactly
\* the committed stages and the confirmed calls, each counted once.
Confirmed == {c \in Calls : state.calls[c].status = "completed"}
Bill(c)   == Billed(NoUsage, c, state.calls[c].good)
UsageIsConfirmed ==
  state.usage =
    [steps        |-> Len(job.stageResults),
     searchCalls  |-> SumFunctionOnSet([c \in Calls |-> Bill(c).searchCalls],
                                       Confirmed),
     repairRounds |-> SumFunctionOnSet([c \in Calls |-> Bill(c).repairRounds],
                                       Confirmed),
     cost         |-> SumFunctionOnSet([c \in Calls |-> Bill(c).cost],
                                       Confirmed)]

\* The budget is checked before each call, so what is confirmed passes a
\* limit by at most the one call that was admitted below it.
WithinPolicy ==
  /\ state.usage.searchCalls <= MaxSearchCalls
  /\ state.usage.repairRounds <= MaxRepairRounds
  /\ \/ state.usage.cost < CostHardLimit
     \/ \E c \in Confirmed : state.usage.cost < CostHardLimit + Price[c]

\* At most one call of a job is ever left without a confirmed answer, except
\* that the repair loops, which swallow errors, may leave one per round.
Unconfirmed == {c \in Calls : state.calls[c].status = "pending"}
UnconfirmedOnlyInRepair ==
  \A c, d \in Unconfirmed :
    c # d => CallKind[c] = "repair" /\ CallKind[d] = "repair"

\* The row of a refused replan, on which nobody has done any work: the code
\* leaves it queued, with no run and no owner, until the process is started
\* again (then it is run as a plan of the trip's brief) or it expires.
AbandonedReplan ==
  refused /\ job.status = "queued" /\ job.stageResults = <<>>

\* An unfinished job of a running server is being executed or can be
\* resumed by its owner: it is never left queued or running by nobody, except
\* for the one case the code gets wrong, an AbandonedReplan.
NeverStranded ==
  (server.up /\ job.status \in Open /\ ~expired /\ run.pc = "none")
    => job.status = "waiting_for_credentials" \/ AbandonedReplan

\* The user's key lives no longer than a run, and no handler gets as far as
\* journalling a model call it has no key to make.
KeyDiscipline ==
  /\ run.key => run.pc # "none"
  /\ (/\ work.pc \in {"journaled", "awaiting"}
      /\ run.aborted = None
      /\ CallKind[work.call] # "tool") => run.key

\* Recorded results are never lost, repeated or reordered, a job completes
\* only with all of them, and crashes and races add no status change to those
\* of the abstract specification: the job implements it.
Abstract == INSTANCE JobLifecycle
              WITH status <- job.status, stageResults <- job.stageResults
ImplementsLifecycle == Abstract!Spec

-----------------------------------------------------------------------------
(* The inductive invariant behind the safety properties (proved in         *)
(* PlanningJobs_proofs).                                                   *)

RunIn(pcs) == run.pc \in pcs
Calling      == work.pc \in {"journaled", "awaiting"}

\* Who may be active when: nobody in a dead process or for a job that does not
\* exist; a handler works for the stage under way, or outlived an aborted run.
OwnershipInv ==
  /\ ~server.up \/ job.status = Absent => run.pc = "none" /\ work.pc = "idle"
  /\ job.status = Absent => job.stageResults = <<>>
  /\ run.pc = "creating" => job.status = "queued" /\ job.stageResults = <<>>
  /\ work.pc # "idle" => /\ run.stage \in Stages
                         /\ \/ run.pc = "staged"
                            \/ run.pc = "rejected" /\ run.aborted # None
                            \/ /\ RunIn({"returning", "none"})
                               /\ run.aborted # None
                               /\ Finished \/ expired
  /\ work.pc = "journaled" => run.pc = "staged" /\ ~expired

\* How the row and the run agree.
RowInv ==
  /\ RunIn({"creating", "scheduled", "loop"}) => job.currentStage = None
  /\ job.status \in {Absent, "queued", "waiting_for_credentials"}
       => job.currentStage = None
  /\ RunIn({"creating", "scheduled", "loop"}) /\ run.aborted # None => Finished
  /\ run.pc = "staged" => run.aborted = None
  /\ (RunIn({"staged", "resolved"}) /\ run.aborted = None)
       => /\ job.status = "running"
          /\ run.stage \in Stages
          /\ run.stage = nextPlanningStage(job.status, None, job.stageResults)
  /\ (RunIn({"staged", "resolved", "rejected"}) /\ ~Finished)
       => job.status = "running"
  /\ run.pc = "returning"
       => Finished \/ expired \/ job.status = "waiting_for_credentials"
  /\ job.status = "waiting_for_credentials"
       => nextPlanningStage(job.status, None, job.stageResults) # None

\* What the journal says of the requests that left.
JournalInv ==
  /\ \A c \in Calls : state.calls[c].status = "none" => sent[c] = 0
  /\ Calling => /\ work.call \in ScriptCalls(state.kind, run.stage)
                /\ state.calls[work.call].status = "pending"
  /\ work.pc = "journaled" => sent[work.call] = 0

\* A call under way was admitted below every limit.
BudgetInv ==
  (Calling /\ run.aborted = None)
    => /\ state.usage.searchCalls < MaxSearchCalls
       /\ state.usage.repairRounds < MaxRepairRounds
       /\ state.usage.cost < CostHardLimit

\* A stage that may call the model was begun with a key.
KeyInv ==
  run.pc = "staged"
    => /\ run.stage \in KeyStages \ {"repair"} => run.key
       /\ (run.stage = "repair" /\ (Calling \/ work.blocking)) => run.key

\* The first stage without a result, whatever became of the job.
Ahead == nextPlanningStage("queued", None, job.stageResults)

\* How far the journal has come: nothing is called before the job is created, a
\* stage other than the repair waits for each answer before its next call, what
\* is unconfirmed is a repair or a call of the stage ahead, and nothing is
\* repaired before the repair stage.
ProgressInv ==
  /\ (job.status = Absent \/ run.pc = "creating")
       => \A c \in Calls : state.calls[c].status = "none"
  /\ \A stage \in Stages \ {"repair"} :
       LET calls == Script[state.kind][stage] IN
       \A i, j \in 1..Len(calls) :
         (i < j /\ calls[i] \notin Confirmed)
           => state.calls[calls[j]].status = "none"
  /\ \A c \in Unconfirmed :
       CallKind[c] # "repair" => /\ Ahead # None
                                 /\ c \in ScriptCalls(state.kind, Ahead)
  /\ (\E c \in Calls : CallKind[c] = "repair"
                        /\ state.calls[c].status # "none")
       => Ahead \in {"repair", "finalization", None}

\* Where the handler stands in its script: the calls before its position are
\* confirmed, and it resolves only when all of them are.
PositionInv ==
  /\ Calling => work.at \in 1..Len(script) /\ work.call = script[work.at]
  /\ (work.pc # "idle" /\ run.aborted = None /\ run.stage # "repair")
       => \A i \in 1..Len(script) : i < work.at => script[i] \in Confirmed
  /\ (run.pc = "resolved" /\ run.aborted = None /\ run.stage # "repair")
       => ScriptCalls(state.kind, run.stage) \subseteq Confirmed

\* Every part of the invariant at once: a process, its row, its journal, its
\* budget and its bill agree at every step.
IInv ==
  /\ TypeOK /\ OwnershipInv /\ RowInv /\ JournalInv /\ BudgetInv /\ KeyInv
  /\ SentAtMostOnce /\ WithinPolicy /\ NeverStranded /\ KeyDiscipline
  /\ ProgressInv /\ PositionInv /\ UnconfirmedOnlyInRepair /\ UsageIsConfirmed

-----------------------------------------------------------------------------
(* Liveness.                                                               *)

\* Every run ends, even if no external service ever answers: the timer
\* aborts it, and the abort releases the executor from a stage that does
\* not cooperate.
RunsEnd == (run.pc # "none") ~> (run.pc = "none")

\* A queued or running job comes to rest: it finishes, waits for a key, or
\* expires, unless the server goes down or the job is an AbandonedReplan.
JobsComeToRest ==
  (job.status \in {"queued", "running"})
    ~> (\/ Finished
        \/ job.status = "waiting_for_credentials"
        \/ AbandonedReplan
        \/ expired
        \/ ~server.up)

-----------------------------------------------------------------------------
(* What the documents say and the code does not do.                        *)

\* docs/RUNBOOK.md and README.md: after a restart an unconfirmed call stops
\* the job, so that nothing more is charged.
UnconfirmedCallStops == [][orphans # {} => sent' = sent]_vars

\* src/jobs/lifecycle.ts and tests/unit/job-lifecycle.test.ts ("transition
\* matrix accepts only documented lifecycle edges"): while a process runs, a
\* job's status changes along the table.  The executor writes statuses without
\* asking assertJobTransition, and a job recovered after its last stage goes
\* from "queued" to "completed".
StatusFollowsTable ==
  [][(/\ server.up /\ server'.up
      /\ job.status \in Statuses
      /\ job'.status # job.status)
       => job'.status \in transitions[job.status]]_vars
=============================================================================
