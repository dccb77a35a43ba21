------------------------- MODULE PlanningJobs_proofs -------------------------
(***************************************************************************)
(* Machine-checked proofs about PlanningJobs, for every set of calls, every *)
(* script, all limits and any number of crashes.  TypeOK is inductive by    *)
(* itself; the other safety properties follow from IInv, the conjunction of *)
(* what a process, its row, its journal and its budget know of each other.  *)
(***************************************************************************)
EXTENDS PlanningJobs, FoldFacts, TLAPS

-----------------------------------------------------------------------------
(* Facts about the operators.                                              *)

USE DEF None, Absent, Terminal, Open, Statuses

\* Only whether the job is finished matters of its status.
LEMMA NextStageSame ==
  ASSUME NEW s, NEW t, NEW r, s \notin Terminal, t \notin Terminal
  PROVE  nextPlanningStage(s, None, r) = nextPlanningStage(t, None, r)
  BY DEF nextPlanningStage

\* The model names no stage, call or status "none" or "absent".
LEMMA NoneIsNoStage == None \notin Stages /\ Len(PLANNING_STAGES) = 7
  BY DEF Stages, PLANNING_STAGES

\* A set of positions in the list of stages that is not empty has a first one.
LEMMA LeastStage ==
  ASSUME NEW missing, missing \subseteq 1..Len(PLANNING_STAGES), missing # {}
  PROVE  LET first == CHOOSE i \in missing : \A j \in missing : i <= j
         IN  first \in missing /\ \A j \in missing : first <= j
<1>1. missing \subseteq 1..7
  BY NoneIsNoStage
<1>2. \E i \in missing : \A j \in missing : i <= j
  <2>1. CASE 1 \in missing
    BY <1>1, <2>1
  <2>2. CASE 1 \notin missing /\ 2 \in missing
    BY <1>1, <2>2
  <2>3. CASE {1, 2} \cap missing = {} /\ 3 \in missing
    BY <1>1, <2>3
  <2>4. CASE {1, 2, 3} \cap missing = {} /\ 4 \in missing
    BY <1>1, <2>4
  <2>5. CASE {1, 2, 3, 4} \cap missing = {}
    <3> missing \subseteq 5..7
      BY <1>1, <2>5
    <3>1. CASE 5 \in missing
      BY <3>1
    <3>2. CASE 5 \notin missing /\ 6 \in missing
      BY <3>2
    <3>3. CASE 5 \notin missing /\ 6 \notin missing
      <4>1. \A i \in missing : i = 7
        BY <3>3
      <4>2. 7 \in missing
        BY <4>1
      <4> QED
        BY <4>1, <4>2
    <3> QED
      BY <3>1, <3>2, <3>3
  <2> QED
    BY <2>1, <2>2, <2>3, <2>4, <2>5
<1> QED
  BY <1>2

\* nextPlanningStage answers with a stage or with None, and with None only for
\* a finished job or when every stage has a result.
LEMMA NextStageType ==
  ASSUME NEW s \in Statuses \cup {Absent}, NEW c \in Stages \cup {None},
         NEW r \in Seq(Stages)
  PROVE  /\ nextPlanningStage(s, c, r) \in Stages \cup {None}
         /\ (nextPlanningStage(s, None, r) = None /\ s \notin Terminal)
              => Recorded(r) = Stages
<1> DEFINE missing == {i \in 1..Len(PLANNING_STAGES) :
                         PLANNING_STAGES[i] \notin Recorded(r)}
           first   == CHOOSE i \in missing : \A j \in missing : i <= j
<1>1. missing # {} => first \in missing
  BY LeastStage
<1>2. missing # {} => PLANNING_STAGES[first] \in Stages
  BY <1>1 DEF Stages
<1>3. nextPlanningStage(s, c, r) \in Stages \cup {None}
  BY <1>2 DEF nextPlanningStage
<1>4. ASSUME nextPlanningStage(s, None, r) = None, s \notin Terminal
      PROVE  Recorded(r) = Stages
  <2>1. missing = {}
    BY <1>2, <1>4, NoneIsNoStage DEF nextPlanningStage
  <2>2. Stages \subseteq Recorded(r)
    BY <2>1 DEF Stages
  <2>3. Recorded(r) \subseteq Stages
    BY DEF Recorded
  <2> QED
    BY <2>2, <2>3
<1> QED
  BY <1>3, <1>4

\* What a handler is about to call is a call of its script.
LEMMA NextCallType ==
  ASSUME TypeOK, WantsCall, run.stage \in Stages
  PROVE  /\ NextCall \in Calls
         /\ NextCall \in ScriptCalls(state.kind, run.stage)
<1>1. script \in Seq(Calls)
  BY ScriptAssumption DEF TypeOK, States, script
<1>2. work.at \in 1..Len(script)
  BY <1>1 DEF TypeOK, Works, WantsCall
<1> QED
  BY <1>1, <1>2 DEF NextCall, ScriptCalls, script

-----------------------------------------------------------------------------
(* Type correctness.                                                       *)

LEMMA IdleWorkType == IdleWork \in Works
  BY DEF IdleWork, Works, WorkPcs

LEMMA InitType == Init => TypeOK
<1> SUFFICES ASSUME Init PROVE TypeOK
  OBVIOUS
<1>1. job \in Jobs
  BY DEF Init, Jobs, Codes
<1>2. state \in States
  BY DEF Init, States, NoEntry, NoUsage, Entries, Usages, Kinds
<1>3. run \in Runs /\ work \in Works
  BY IdleWorkType DEF Init, Runs, NoRun, Codes, RunPcs
<1>4. server \in Servers /\ expired \in BOOLEAN
  <2>1. PICK config \in Configs :
          server = [up |-> TRUE, config |-> config, crashes |-> 0]
    BY DEF Init
  <2> QED
    BY <2>1 DEF Init, Servers
<1>5. sent \in [Calls -> Nat] /\ orphans \subseteq Calls /\ refused \in BOOLEAN
  BY DEF Init
<1> QED
  BY <1>1, <1>2, <1>3, <1>4, <1>5 DEF TypeOK

\* The value that Aborted builds is a run.
LEMMA AbortedType ==
  ASSUME TypeOK, NEW reason \in {"timeout", "cancel"}, NEW code \in Codes
  PROVE  Aborted(reason, code) \in Runs
  BY DEF TypeOK, Aborted, Runs, RunPcs

LEMMA ScheduledType ==
  ASSUME NEW key \in BOOLEAN
  PROVE  Scheduled(key) \in Runs
  BY DEF Scheduled, NoRun, Runs, RunPcs, Codes

LEMMA HttpType == TypeOK /\ Http => TypeOK'
<1> SUFFICES ASSUME TypeOK, Http PROVE TypeOK'
  OBVIOUS
<1>1. CASE Create
  <2>1. job' \in Jobs
    BY <1>1 DEF TypeOK, Create, Jobs
  <2> QED
    BY <1>1, <2>1, ScheduledType DEF TypeOK, Create
<1>2. CASE CreateReplan
  <2>1. job' \in Jobs
    BY <1>2 DEF TypeOK, CreateReplan, Jobs
  <2>2. run' \in Runs
    BY <1>2 DEF CreateReplan, NoRun, Runs, RunPcs, Codes
  <2> QED
    BY <1>2, <2>1, <2>2 DEF TypeOK, CreateReplan
<1>3. CASE Resume
  BY <1>3, ScheduledType DEF TypeOK, Resume
<1>4. CASE Cancel
  <2>1. job' \in Jobs
    BY <1>4 DEF TypeOK, Cancel, Jobs
  <2>2. run' \in Runs
    BY <1>4, AbortedType DEF TypeOK, Cancel, Codes
  <2> QED
    BY <1>4, <2>1, <2>2 DEF TypeOK, Cancel
<1> QED
  BY <1>1, <1>2, <1>3, <1>4 DEF Http

LEMMA FailsWithType ==
  ASSUME TypeOK, NEW code \in Codes, FailsWith(code)
  PROVE  TypeOK'
<1>1. job' \in Jobs
  BY DEF TypeOK, FailsWith, Jobs
<1>2. run' \in Runs
  BY DEF TypeOK, FailsWith, Runs, RunPcs
<1> QED
  BY <1>1, <1>2 DEF TypeOK, FailsWith

LEMMA CurrentStageType ==
  ASSUME TypeOK
  PROVE  NextStage \in Stages \cup {None}
  BY NextStageType DEF TypeOK, Jobs, NextStage

LEMMA ExecutorType ==
  ASSUME TypeOK, RowInv, Executor
  PROVE  TypeOK'
<1>1. CASE AttachReplan
  <2>1. state' \in States
    BY <1>1 DEF TypeOK, AttachReplan, States, Kinds
  <2>2. run' \in Runs
    BY <1>1, ScheduledType DEF AttachReplan
  <2> QED
    BY <1>1, <2>1, <2>2 DEF TypeOK, AttachReplan
<1>2. CASE Start
  <2>1. run' \in Runs
    BY <1>2 DEF TypeOK, Start, Runs, RunPcs
  <2> QED
    BY <1>2, <2>1 DEF TypeOK, Start
<1>3. CASE LoopEnds
  <2>1. run' \in Runs
    BY <1>3 DEF TypeOK, LoopEnds, Runs, RunPcs
  <2> QED
    BY <1>3, <2>1 DEF TypeOK, LoopEnds
<1>4. CASE Complete
  <2>1. job' \in Jobs
    BY <1>4 DEF TypeOK, Complete, Jobs
  <2>2. run' \in Runs
    BY <1>4 DEF TypeOK, Complete, Runs, RunPcs
  <2> QED
    BY <1>4, <2>1, <2>2 DEF TypeOK, Complete
<1>5. CASE WaitForKey
  <2>1. job' \in Jobs
    BY <1>5 DEF TypeOK, WaitForKey, Jobs
  <2>2. run' \in Runs
    BY <1>5 DEF TypeOK, WaitForKey, Runs, RunPcs
  <2> QED
    BY <1>5, <2>1, <2>2 DEF TypeOK, WaitForKey
<1>6. CASE BeginStage
  <2>1. NextStage \in Stages
    BY <1>6, CurrentStageType DEF BeginStage
  <2>2. job' \in Jobs
    BY <1>6, <2>1 DEF TypeOK, BeginStage, Jobs
  <2>3. run' \in Runs
    BY <1>6, <2>1 DEF TypeOK, BeginStage, Runs, RunPcs, Codes
  <2>4. work' \in Works
    <3>1. state.blocking \in BOOLEAN
      BY DEF TypeOK, States
    <3> QED
      BY <1>6, <3>1, IdleWorkType DEF BeginStage, Works, WorkPcs
  <2> QED
    BY <1>6, <2>2, <2>3, <2>4 DEF TypeOK, BeginStage
<1>7. CASE StageRejected
  <2>1. run.error \in Codes
    BY DEF TypeOK, Runs
  <2> QED
    BY <1>7, <2>1, FailsWithType DEF StageRejected
<1>8. CASE ResultDropped
  <2>1. run' \in Runs
    BY <1>8 DEF TypeOK, ResultDropped, Runs, RunPcs
  <2> QED
    BY <1>8, <2>1 DEF TypeOK, ResultDropped
<1>9. CASE ResultTooLate
  BY <1>9, FailsWithType DEF ResultTooLate, Codes
<1>10. CASE ResultInvalid
  BY <1>10, FailsWithType DEF ResultInvalid, Codes
<1>11. CASE CommitStage
  <2>1. run.stage \in Stages
    BY <1>11 DEF RowInv, RunIn, CommitStage, Committable
  <2>2. job' \in Jobs
    <3>1. Append(job.stageResults, run.stage) \in Seq(Stages)
      BY <2>1 DEF TypeOK, Jobs
    <3> QED
      BY <1>11, <3>1 DEF TypeOK, CommitStage, Jobs
  <2>3. state' \in States
    <3>1. /\ state.usage \in Usages
          /\ run.blocking \in BOOLEAN
      BY DEF TypeOK, States, Runs
    <3>2. [state.usage EXCEPT !.steps = @ + 1] \in Usages
      BY <3>1 DEF Usages
    <3>3. state' = [state EXCEPT
                      !.blocking = run.blocking,
                      !.usage = [state.usage EXCEPT !.steps = @ + 1]]
      BY <1>11 DEF TypeOK, States, CommitStage
    <3> QED
      BY <3>1, <3>2, <3>3 DEF TypeOK, States
  <2>4. run' \in Runs
    BY <1>11 DEF TypeOK, CommitStage, Runs, RunPcs
  <2> QED
    BY <1>11, <2>2, <2>3, <2>4 DEF TypeOK, CommitStage
<1>12. CASE Settle
  <2>1. run' \in Runs
    BY <1>12 DEF TypeOK, Settle, Runs, RunPcs
  <2> QED
    BY <1>12, <2>1 DEF TypeOK, Settle
<1>13. CASE AttachRefused
  <2>1. run' \in Runs
    BY <1>13 DEF AttachRefused, NoRun, Runs, RunPcs, Codes
  <2> QED
    BY <1>13, <2>1 DEF TypeOK, AttachRefused
<1> QED
  BY <1>1, <1>2, <1>3, <1>4, <1>5, <1>6, <1>7, <1>8, <1>9, <1>10, <1>11,
     <1>12, <1>13 DEF Executor

LEMMA ThrowsType ==
  ASSUME TypeOK, NEW code \in Codes, Throws(code)
  PROVE  run' \in Runs /\ work' \in Works
<1>1. IdleWork \in Works
  BY IdleWorkType
<1>2. CASE run.stage = "repair"
  <2>1. work.at + 1 \in Nat \ {0}
    BY DEF TypeOK, Works
  <2> QED
    BY <1>2, <2>1 DEF TypeOK, Throws, Works, WorkPcs
<1>3. CASE run.stage # "repair"
  BY <1>1, <1>3 DEF TypeOK, Throws, HandlerRejects, Runs, RunPcs
<1> QED
  BY <1>2, <1>3

LEMMA ConsumesType ==
  ASSUME TypeOK, NEW c \in Calls, NEW good \in BOOLEAN, Consumes(c, good)
  PROVE  run' \in Runs /\ work' \in Works
<1>1. CASE Throws("STAGE_FAILED")
  BY <1>1, ThrowsType DEF Codes
<1>2. CASE ~Throws("STAGE_FAILED")
  <2>1. work.at + 1 \in Nat \ {0}
    BY DEF TypeOK, Works
  <2>2. (IF CallKind[c] = "repair" THEN ~good ELSE work.blocking) \in BOOLEAN
    BY DEF TypeOK, Works
  <2> QED
    BY <1>2, <2>1, <2>2 DEF TypeOK, Consumes, Works, WorkPcs
<1> QED
  BY <1>1, <1>2

LEMMA RefusalType ==
  ASSUME NEW c \in Calls
  PROVE  Refusal(c) \in Codes
  BY DEF Refusal, Codes

LEMMA BilledType ==
  ASSUME NEW usage \in Usages, NEW c \in Calls, NEW good \in BOOLEAN
  PROVE  Billed(usage, c, good) \in Usages
<1> DEFINE free   == CallKind[c] = "tool" \/ (CallKind[c] = "search" /\ ~good)
           search == CallKind[c] = "search" /\ good
           repair == CallKind[c] = "repair"
<1>1. Price[c] \in Nat
  BY CallsAssumption
<1>2. /\ usage.searchCalls + (IF search THEN 1 ELSE 0) \in Nat
      /\ usage.repairRounds + (IF repair THEN 1 ELSE 0) \in Nat
      /\ usage.cost + (IF free THEN 0 ELSE Price[c]) \in Nat
  BY <1>1 DEF Usages
<1> HIDE DEF free, search, repair
<1>3. Billed(usage, c, good)
        = [usage EXCEPT
             !.searchCalls  = usage.searchCalls + (IF search THEN 1 ELSE 0),
             !.repairRounds = usage.repairRounds + (IF repair THEN 1 ELSE 0),
             !.cost         = usage.cost + (IF free THEN 0 ELSE Price[c])]
  BY DEF Billed, Usages, free, search, repair
<1> QED
  BY <1>2, <1>3 DEF Usages

\* A call under way is a call of the stage's script.
LEMMA CallingType ==
  ASSUME TypeOK, OwnershipInv, JournalInv, Calling
  PROVE  work.call \in Calls
<1>1. run.stage \in Stages
  BY DEF OwnershipInv, Calling
<1>2. state.kind \in Kinds
  BY DEF TypeOK, States
<1>3. Script[state.kind][run.stage] \in Seq(Calls)
  BY <1>1, <1>2, ScriptAssumption
<1>4. ScriptCalls(state.kind, run.stage) \subseteq Calls
  BY <1>3 DEF ScriptCalls
<1> QED
  BY <1>4 DEF JournalInv

LEMMA HandlerType ==
  ASSUME TypeOK, OwnershipInv, JournalInv, Handler
  PROVE  TypeOK'
<1>1. WantsCall => NextCall \in Calls
  BY NextCallType DEF OwnershipInv, WantsCall
<1>2. CASE CallRefused
  <2>1. Refusal(NextCall) \in Codes
    BY <1>1, <1>2, RefusalType DEF CallRefused
  <2> QED
    BY <1>2, <2>1, ThrowsType DEF TypeOK, CallRefused
<1>3. CASE CallReplayed
  <2>1. state.calls[NextCall].good \in BOOLEAN
    BY <1>1, <1>3 DEF CallReplayed, TypeOK, States, Entries
  <2> QED
    BY <1>1, <1>3, <2>1, ConsumesType DEF TypeOK, CallReplayed
<1>4. CASE CallJournaled
  <2>1. NextCall \in Calls
    BY <1>1, <1>4 DEF CallJournaled
  <2>2. Signature[NextCall][server.config] \in Signatures
    BY <2>1, CallsAssumption DEF TypeOK, Servers
  <2>3. state' \in States
    BY <1>4, <2>1, <2>2 DEF TypeOK, CallJournaled, States, Entries
  <2>4. work' \in Works
    BY <1>4, <2>1 DEF TypeOK, CallJournaled, Works, WorkPcs
  <2> QED
    BY <1>4, <2>3, <2>4 DEF TypeOK, CallJournaled
<1>5. CASE CallSent
  <2>1. work' \in Works
    BY <1>5 DEF TypeOK, CallSent, Works, WorkPcs
  <2>2. sent' \in [Calls -> Nat]
    <3>1. work.call \in Calls
      BY <1>5, CallingType DEF CallSent, Calling
    <3> QED
      BY <1>5, <3>1 DEF TypeOK, CallSent
  <2> QED
    BY <1>5, <2>1, <2>2 DEF TypeOK, CallSent
<1>6. CASE HandlerDone
  <2>1. PICK blocking \in BOOLEAN : HandlerResolves(blocking)
    BY <1>6 DEF HandlerDone, TypeOK, Works, States
  <2>2. run' \in Runs /\ work' \in Works
    BY <2>1, IdleWorkType DEF HandlerResolves, TypeOK, Runs, RunPcs
  <2> QED
    BY <1>6, <2>2 DEF TypeOK, HandlerDone
<1>7. CASE RequirementsInvalid
  <2>1. run' \in Runs /\ work' \in Works
    BY <1>7, IdleWorkType
       DEF RequirementsInvalid, HandlerRejects, TypeOK, Runs, RunPcs, Codes
  <2> QED
    BY <1>7, <2>1 DEF TypeOK, RequirementsInvalid
<1> QED
  BY <1>2, <1>3, <1>4, <1>5, <1>6, <1>7 DEF Handler

LEMMA UpstreamType ==
  ASSUME TypeOK, OwnershipInv, JournalInv, Upstream
  PROVE  TypeOK'
<1>1. work.call \in Calls
  BY CallingType
     DEF Upstream, CallConfirmed, CallUnconfirmed, CallFailed, Answering, Calling
<1>2. CASE CallConfirmed
  <2>1. PICK good \in BOOLEAN :
          /\ state' = [state EXCEPT
                         !.calls[work.call].status = "completed",
                         !.calls[work.call].good = good,
                         !.usage = Billed(@, work.call, good)]
          /\ Consumes(work.call, good)
    BY <1>2 DEF CallConfirmed
  <2>2. run' \in Runs /\ work' \in Works
    BY <1>1, <2>1, ConsumesType
  <2>3. Billed(state.usage, work.call, good) \in Usages
    BY <1>1, BilledType DEF TypeOK, States
  <2>4. state' \in States
    <3>1. /\ state.calls \in [Calls -> Entries]
          /\ state.calls[work.call] \in Entries
      BY <1>1 DEF TypeOK, States
    <3>2. [state.calls EXCEPT ![work.call].status = "completed",
                              ![work.call].good = good] \in [Calls -> Entries]
      BY <1>1, <3>1 DEF Entries
    <3> QED
      BY <2>1, <2>3, <3>2 DEF TypeOK, States
  <2> QED
    BY <1>2, <2>2, <2>4 DEF TypeOK, CallConfirmed
<1>3. CASE CallUnconfirmed
  BY <1>3, ThrowsType DEF TypeOK, CallUnconfirmed, Codes
<1>4. CASE CallFailed
  BY <1>4, ThrowsType DEF TypeOK, CallFailed, Codes
<1> QED
  BY <1>2, <1>3, <1>4 DEF Upstream

LEMMA WorldType ==
  ASSUME TypeOK, Timeout \/ Expire \/ Crash \/ Restart
  PROVE  TypeOK'
<1>1. CASE Timeout
  BY <1>1, AbortedType DEF TypeOK, Timeout, Codes
<1>2. CASE Expire
  BY <1>2 DEF TypeOK, Expire
<1>3. CASE Crash
  <2>1. server' \in Servers
    <3>1. server.crashes + 1 \in Nat
      BY DEF TypeOK, Servers
    <3> QED
      BY <1>3, <3>1 DEF TypeOK, Crash, Servers
  <2>2. run' \in Runs
    BY <1>3 DEF Crash, NoRun, Runs, RunPcs, Codes
  <2> QED
    BY <1>3, <2>1, <2>2, IdleWorkType DEF TypeOK, Crash
<1>4. CASE Restart
  <2>1. server' \in Servers
    <3>1. PICK config \in Configs :
            server' = [server EXCEPT !.up = TRUE, !.config = config]
      BY <1>4 DEF Restart
    <3> QED
      BY <3>1 DEF TypeOK, Servers
  <2>2. job' \in Jobs
    BY <1>4 DEF TypeOK, Restart, Recovered, Jobs
  <2>3. run' \in Runs
    BY <1>4, ScheduledType DEF TypeOK, Restart
  <2> QED
    BY <1>4, <2>1, <2>2, <2>3 DEF TypeOK, Restart
<1> QED
  BY <1>1, <1>2, <1>3, <1>4

LEMMA TypeStep == IInv /\ [Next]_vars => TypeOK'
<1> SUFFICES ASSUME IInv, [Next]_vars PROVE TypeOK'
  OBVIOUS
<1>1. CASE Next
  BY <1>1, HttpType, ExecutorType, HandlerType, UpstreamType, WorldType
     DEF Next, IInv
<1>2. CASE UNCHANGED vars
  BY <1>2 DEF TypeOK, vars, IInv
<1> QED
  BY <1>1, <1>2

-----------------------------------------------------------------------------
(* What a handler can do to its run when a call returns or throws.         *)

HandlerMoves ==
  /\ work'.pc \in {"idle", "thinking"}
  /\ \/ run' = run
     \/ /\ run.pc = "staged"
        /\ run'.pc \in {"rejected", "resolved"}
        /\ work'.pc = "idle"
        /\ run'.stage = run.stage
        /\ run'.aborted = run.aborted
        /\ run'.key = run.key

LEMMA ThrowsMoves ==
  ASSUME TypeOK, NEW code, Throws(code)
  PROVE  HandlerMoves
<1>1. CASE run.stage = "repair"
  BY <1>1 DEF Throws, HandlerMoves, TypeOK, Works
<1>2. CASE run.stage # "repair"
  <2>1. HandlerRejects(code)
    BY <1>2 DEF Throws
  <2>2. work'.pc = "idle"
    BY <2>1 DEF HandlerRejects, IdleWork
  <2>3. CASE run.pc = "staged"
    <3>1. run' = [run EXCEPT !.pc = "rejected", !.error = code]
      BY <2>1, <2>3 DEF HandlerRejects
    <3> QED
      BY <2>2, <2>3, <3>1 DEF HandlerMoves, TypeOK, Runs
  <2>4. CASE run.pc # "staged"
    BY <2>1, <2>2, <2>4 DEF HandlerRejects, HandlerMoves
  <2> QED
    BY <2>3, <2>4
<1> QED
  BY <1>1, <1>2

LEMMA ConsumesMoves ==
  ASSUME TypeOK, NEW c, NEW good, Consumes(c, good)
  PROVE  HandlerMoves
<1>1. CASE Throws("STAGE_FAILED")
  BY <1>1, ThrowsMoves
<1>2. CASE ~Throws("STAGE_FAILED")
  BY <1>2 DEF Consumes, HandlerMoves, TypeOK, Works
<1> QED
  BY <1>1, <1>2

\* Every step of a handler, or of an answer to it, other than those that enter
\* a call and send it.
LEMMA WorkMoves ==
  ASSUME TypeOK,
         \/ CallRefused \/ CallReplayed \/ HandlerDone \/ RequirementsInvalid
         \/ Upstream
  PROVE  /\ HandlerMoves
         /\ work.pc \in {"entering", "thinking", "awaiting"}
         /\ UNCHANGED <<job, expired, server, sent, orphans, refused>>
<1>1. CASE CallRefused
  BY <1>1, ThrowsMoves DEF CallRefused, WantsCall
<1>2. CASE CallReplayed
  BY <1>2, ConsumesMoves DEF CallReplayed, WantsCall
<1>3. CASE HandlerDone
  <2>1. PICK blocking : HandlerResolves(blocking)
    BY <1>3 DEF HandlerDone
  <2>2. HandlerMoves
    BY <2>1 DEF HandlerResolves, HandlerMoves, IdleWork, TypeOK, Runs
  <2> QED
    BY <1>3, <2>2 DEF HandlerDone
<1>4. CASE RequirementsInvalid
  BY <1>4 DEF RequirementsInvalid, HandlerRejects, HandlerMoves, IdleWork,
              TypeOK, Runs
<1>5. CASE Upstream
  <2>1. CASE CallConfirmed
    BY <2>1, ConsumesMoves DEF CallConfirmed, Answering
  <2>2. CASE CallUnconfirmed
    BY <2>2, ThrowsMoves DEF CallUnconfirmed, Answering
  <2>3. CASE CallFailed
    BY <2>3, ThrowsMoves DEF CallFailed, Answering
  <2> QED
    BY <1>5, <2>1, <2>2, <2>3 DEF Upstream
<1> QED
  BY <1>1, <1>2, <1>3, <1>4, <1>5

-----------------------------------------------------------------------------
(* Who is active, and how the row and the run agree.                       *)

LEMMA OwnershipStep == IInv /\ [Next]_vars => OwnershipInv'
<1> SUFFICES ASSUME IInv, [Next]_vars PROVE OwnershipInv'
  OBVIOUS
<1> USE DEF IInv, OwnershipInv, RunIn, Finished
<1>1. CASE Http
  <2>1. CASE Create
    BY <2>1 DEF Create, TypeOK, Jobs, Scheduled, NoRun, ThreadFree
  <2>2. CASE CreateReplan
    BY <2>2 DEF CreateReplan, TypeOK, Jobs, NoRun, ThreadFree
  <2>3. CASE Resume
    BY <2>3 DEF Resume, TypeOK, Jobs, Scheduled, NoRun, ThreadFree
  <2>4. CASE Cancel
    BY <2>4 DEF Cancel, Aborted, TypeOK, Jobs, Runs, RunPcs, ThreadFree
  <2> QED
    BY <1>1, <2>1, <2>2, <2>3, <2>4 DEF Http
<1>2. CASE Executor
  <2>0. CASE AttachRefused
    BY <2>0 DEF AttachRefused, NoRun, TypeOK, Runs, RunPcs
  <2>1. CASE AttachReplan
    BY <2>1 DEF AttachReplan, Scheduled, NoRun, TypeOK, Runs, RunPcs
  <2>2. CASE Start
    BY <2>2 DEF Start, TypeOK, Runs, RunPcs, ThreadFree
  <2>3. CASE LoopEnds
    BY <2>3 DEF LoopEnds, TypeOK, Runs, RunPcs
  <2>4. CASE Complete
    BY <2>4 DEF Complete, Looping, TypeOK, Jobs, Runs, RunPcs
  <2>5. CASE WaitForKey
    BY <2>5 DEF WaitForKey, Looping, TypeOK, Jobs, Runs, RunPcs
  <2>6. CASE BeginStage
    <3>1. NextStage \in Stages
      BY <2>6, CurrentStageType DEF BeginStage
    <3> QED
      BY <2>6, <3>1
         DEF BeginStage, Looping, TypeOK, Jobs, Runs, RunPcs, IdleWork
  <2>7. CASE StageRejected
    BY <2>7 DEF StageRejected, FailsWith, ThreadFree, TypeOK, Jobs, Runs, RunPcs
  <2>8. CASE ResultDropped
    BY <2>8 DEF ResultDropped, TypeOK, Runs, RunPcs
  <2>9. CASE ResultTooLate
    BY <2>9 DEF ResultTooLate, FailsWith, Committable, TypeOK, Jobs, Runs, RunPcs
  <2>10. CASE ResultInvalid
    BY <2>10 DEF ResultInvalid, FailsWith, Committable, TypeOK, Jobs, Runs, RunPcs
  <2>11. CASE CommitStage
    BY <2>11 DEF CommitStage, Committable, TypeOK, Jobs, Runs, RunPcs
  <2>12. CASE Settle
    BY <2>12 DEF Settle, TypeOK, Runs, RunPcs, ThreadFree
  <2> QED
    BY <1>2, <2>0, <2>1, <2>2, <2>3, <2>4, <2>5, <2>6, <2>7, <2>8, <2>9, <2>10,
       <2>11, <2>12 DEF Executor
<1>3. CASE Handler \/ Upstream
  <2>1. CASE CallJournaled
    BY <2>1 DEF CallJournaled, WantsCall, Refusal, TypeOK, Works, RowInv
  <2>2. CASE CallSent
    BY <2>2 DEF CallSent, TypeOK, Works
  <2>3. CASE HandlerMoves /\ work.pc \in {"entering", "thinking", "awaiting"}
             /\ UNCHANGED <<job, expired, server, sent, orphans, refused>>
    BY <2>3 DEF HandlerMoves, TypeOK, Runs, RunPcs
  <2> QED
    BY <1>3, <2>1, <2>2, <2>3, WorkMoves DEF Handler
<1>4. CASE Timeout
  BY <1>4 DEF Timeout, Aborted, ThreadFree, TypeOK, Runs, RunPcs
<1>5. CASE Expire
  BY <1>5 DEF Expire
<1>6. CASE Crash
  BY <1>6 DEF Crash, NoRun, IdleWork, TypeOK, Servers
<1>7. CASE Restart
  BY <1>7 DEF Restart, Recovered, Scheduled, NoRun, TypeOK, Servers, Jobs
<1>8. CASE UNCHANGED vars
  BY <1>8 DEF vars
<1> QED
  BY <1>1, <1>2, <1>3, <1>4, <1>5, <1>6, <1>7, <1>8 DEF Next

LEMMA RowStep == IInv /\ [Next]_vars => RowInv'
<1> SUFFICES ASSUME IInv, [Next]_vars PROVE RowInv'
  OBVIOUS
<1> USE DEF IInv, RowInv, RunIn, Finished
<1>1. CASE Http
  <2>1. CASE Create
    BY <2>1 DEF Create, TypeOK, Jobs, Scheduled, NoRun
  <2>2. CASE CreateReplan
    BY <2>2 DEF CreateReplan, TypeOK, Jobs, NoRun
  <2>3. CASE Resume
    BY <2>3 DEF Resume, Scheduled, NoRun
  <2>4. CASE Cancel
    BY <2>4 DEF Cancel, Aborted, TypeOK, Jobs, Runs, RunPcs, ThreadFree,
                nextPlanningStage
  <2> QED
    BY <1>1, <2>1, <2>2, <2>3, <2>4 DEF Http
<1>2. CASE Executor
  <2>0. CASE AttachRefused
    BY <2>0 DEF AttachRefused, NoRun, OwnershipInv
  <2>1. CASE AttachReplan
    BY <2>1 DEF AttachReplan, Scheduled, NoRun, OwnershipInv
  <2>2. CASE Start
    BY <2>2 DEF Start, TypeOK, Runs, RunPcs
  <2>3. CASE LoopEnds
    BY <2>3 DEF LoopEnds, TypeOK, Runs, RunPcs
  <2>4. CASE Complete
    BY <2>4 DEF Complete, Looping, TypeOK, Jobs, Runs, RunPcs
  <2>5. CASE WaitForKey
    <3>1. job.currentStage = None /\ job.status \notin Terminal
      BY <2>5 DEF WaitForKey, Looping
    <3>2. nextPlanningStage("waiting_for_credentials", None, job.stageResults)
            # None
      BY <2>5, <3>1, NextStageSame DEF WaitForKey, NextStage
    <3> QED
      BY <2>5, <3>2 DEF WaitForKey, TypeOK, Jobs, Runs, RunPcs
  <2>6. CASE BeginStage
    <3>1. job.currentStage = None /\ job.status \notin Terminal
      BY <2>6 DEF BeginStage, Looping
    <3>2. /\ NextStage \in Stages
          /\ NextStage = nextPlanningStage("running", None, job.stageResults)
      BY <2>6, <3>1, NextStageSame, CurrentStageType DEF BeginStage, NextStage
    <3>3. run.aborted = None
      BY <2>6 DEF BeginStage, Looping
    <3> QED
      BY <2>6, <3>2, <3>3 DEF BeginStage, TypeOK, Jobs, Runs, RunPcs
  <2>7. CASE StageRejected
    BY <2>7 DEF StageRejected, FailsWith, TypeOK, Jobs, Runs, RunPcs
  <2>8. CASE ResultDropped
    BY <2>8 DEF ResultDropped, TypeOK, Runs, RunPcs
  <2>9. CASE ResultTooLate
    BY <2>9 DEF ResultTooLate, FailsWith, Committable, TypeOK, Jobs, Runs, RunPcs
  <2>10. CASE ResultInvalid
    BY <2>10 DEF ResultInvalid, FailsWith, Committable, TypeOK, Jobs, Runs, RunPcs
  <2>11. CASE CommitStage
    BY <2>11 DEF CommitStage, Committable, TypeOK, Jobs, Runs, RunPcs
  <2>12. CASE Settle
    BY <2>12 DEF Settle, TypeOK, Runs, RunPcs
  <2> QED
    BY <1>2, <2>0, <2>1, <2>2, <2>3, <2>4, <2>5, <2>6, <2>7, <2>8, <2>9, <2>10,
       <2>11, <2>12 DEF Executor
<1>3. CASE Handler \/ Upstream
  <2>1. CASE CallJournaled
    BY <2>1 DEF CallJournaled
  <2>2. CASE CallSent
    BY <2>2 DEF CallSent
  <2>3. CASE /\ HandlerMoves
             /\ UNCHANGED <<job, expired, server, sent, orphans, refused>>
    BY <2>3 DEF HandlerMoves
  <2> QED
    BY <1>3, <2>1, <2>2, <2>3, WorkMoves DEF Handler
<1>4. CASE Timeout
  BY <1>4 DEF Timeout, Aborted, ThreadFree, TypeOK, Runs, RunPcs
<1>5. CASE Expire
  BY <1>5 DEF Expire
<1>6. CASE Crash
  BY <1>6 DEF Crash, NoRun
<1>7. CASE Restart
  BY <1>7 DEF Restart, Recovered, Scheduled, NoRun, TypeOK, Jobs, OwnershipInv
<1>8. CASE UNCHANGED vars
  BY <1>8 DEF vars
<1> QED
  BY <1>1, <1>2, <1>3, <1>4, <1>5, <1>6, <1>7, <1>8 DEF Next

\* An unfinished job of a running server is executed or waits for its owner.
LEMMA StrandedStep == IInv /\ [Next]_vars => NeverStranded'
<1> SUFFICES ASSUME IInv, [Next]_vars PROVE NeverStranded'
  OBVIOUS
<1> USE DEF IInv, NeverStranded, AbandonedReplan, RunIn, Finished
<1>1. CASE Http
  BY <1>1 DEF Http, Create, CreateReplan, Resume, Cancel, Aborted, Scheduled,
              NoRun, TypeOK, Jobs, Runs
<1>0. CASE AttachRefused
  BY <1>0 DEF AttachRefused, OwnershipInv
<1>2. CASE AttachReplan \/ Start
  BY <1>2 DEF AttachReplan, Start, Scheduled, NoRun, TypeOK, Runs
<1>3. CASE LoopEnds \/ Complete \/ WaitForKey \/ BeginStage
  BY <1>3 DEF LoopEnds, Complete, WaitForKey, BeginStage, TypeOK, Jobs, Runs
<1>4. CASE StageRejected \/ ResultTooLate \/ ResultInvalid
  BY <1>4 DEF StageRejected, ResultTooLate, ResultInvalid, FailsWith, TypeOK,
              Runs
<1>5. CASE ResultDropped \/ CommitStage
  BY <1>5 DEF ResultDropped, CommitStage, TypeOK, Runs
<1>6. CASE Settle
  BY <1>6 DEF Settle, RowInv, TypeOK, Runs
<1>7. CASE CallJournaled \/ CallSent
  BY <1>7 DEF CallJournaled, CallSent
<1>8. CASE /\ HandlerMoves
           /\ UNCHANGED <<job, expired, server, sent, orphans, refused>>
  BY <1>8 DEF HandlerMoves
<1>9. CASE Timeout \/ Expire
  BY <1>9 DEF Timeout, Expire, Aborted, TypeOK, Runs
<1>10. CASE Crash \/ Restart
  BY <1>10 DEF Crash, Restart, Recovered, Scheduled, NoRun, TypeOK, Servers,
               Jobs
<1>11. CASE UNCHANGED vars
  BY <1>11 DEF vars
<1> QED
  BY <1>0, <1>1, <1>2, <1>3, <1>4, <1>5, <1>6, <1>7, <1>8, <1>9, <1>10, <1>11,
     WorkMoves DEF Next, Executor, Handler

-----------------------------------------------------------------------------
(* The journal and the requests that left.                                 *)

\* Nothing but a handler touches the journal, and nothing but the executor the
\* stage and the kind of the job, while a call is under way.
LEMMA JournalStep == IInv /\ [Next]_vars => JournalInv' /\ SentAtMostOnce'
<1> SUFFICES ASSUME IInv, [Next]_vars PROVE JournalInv' /\ SentAtMostOnce'
  OBVIOUS
<1> USE DEF IInv, JournalInv, SentAtMostOnce, Calling
<1>1. CASE Http
  <2>1. UNCHANGED <<state, work, sent>>
    BY <1>1 DEF Http, Create, CreateReplan, Resume, Cancel
  <2>2. Calling => run'.stage = run.stage
    BY <1>1 DEF Http, Create, CreateReplan, Resume, Cancel, Aborted,
                OwnershipInv, RunIn, Finished, TypeOK, Runs
  <2> QED
    BY <2>1, <2>2
<1>0. CASE AttachRefused
  BY <1>0 DEF AttachRefused, OwnershipInv, RunIn
<1>2. CASE AttachReplan
  <2>1. work.pc = "idle"
    BY <1>2 DEF AttachReplan, OwnershipInv, RunIn
  <2>2. state'.calls = state.calls
    BY <1>2 DEF AttachReplan, TypeOK, States
  <2> QED
    BY <1>2, <2>1, <2>2 DEF AttachReplan
<1>3. CASE BeginStage
  BY <1>3 DEF BeginStage, IdleWork
<1>4. CASE CommitStage
  <2>1. state'.calls = state.calls /\ state'.kind = state.kind
    BY <1>4 DEF CommitStage, TypeOK, States, Usages
  <2>2. run'.stage = run.stage
    BY <1>4 DEF CommitStage, TypeOK, Runs
  <2> QED
    BY <1>4, <2>1, <2>2 DEF CommitStage
<1>5. CASE \/ Start \/ LoopEnds \/ Complete \/ WaitForKey \/ StageRejected
           \/ ResultDropped \/ ResultTooLate \/ ResultInvalid \/ Settle
           \/ Timeout \/ Expire
  <2>1. UNCHANGED <<state, work, sent>>
    BY <1>5 DEF Start, LoopEnds, Complete, WaitForKey, StageRejected,
                ResultDropped, ResultTooLate, ResultInvalid, FailsWith, Settle,
                Timeout, Expire
  <2>2. run'.stage = run.stage
    BY <1>5 DEF Start, LoopEnds, Complete, WaitForKey, StageRejected,
                ResultDropped, ResultTooLate, ResultInvalid, FailsWith, Settle,
                Timeout, Expire, Aborted, TypeOK, Runs
  <2> QED
    BY <2>1, <2>2
<1>6. CASE CallJournaled
  <2>1. NextCall \in Calls /\ NextCall \in ScriptCalls(state.kind, run.stage)
    BY <1>6, NextCallType DEF CallJournaled, WantsCall, OwnershipInv
  <2>2. work'.pc = "journaled" /\ work'.call = NextCall
    BY <1>6 DEF CallJournaled, TypeOK, Works
  <2>3. /\ state'.kind = state.kind
        /\ state'.calls =
             [state.calls EXCEPT
                ![NextCall] = [status |-> "pending", good |-> FALSE,
                               signature |-> Signature[NextCall][server.config]]]
    BY <1>6 DEF CallJournaled, TypeOK, States
  <2>4. state.calls \in [Calls -> Entries]
    BY DEF TypeOK, States
  <2>5. state.calls[NextCall].status = "none" /\ UNCHANGED <<sent, run>>
    BY <1>6 DEF CallJournaled
  <2> QED
    BY <2>1, <2>2, <2>3, <2>4, <2>5
<1>7. CASE CallSent
  <2>1. work.call \in Calls
    BY <1>7, CallingType DEF CallSent
  <2>2. work'.pc = "awaiting" /\ work'.call = work.call
    BY <1>7 DEF CallSent, TypeOK, Works
  <2>3. sent \in [Calls -> Nat] /\ sent[work.call] = 0
    BY <1>7 DEF TypeOK, CallSent
  <2>4. sent' = [sent EXCEPT ![work.call] = 1]
    BY <1>7, <2>1, <2>3 DEF CallSent
  <2> QED
    BY <1>7, <2>1, <2>2, <2>3, <2>4 DEF CallSent
<1>8. CASE CallConfirmed
  <2>1. work.call \in Calls /\ state.calls[work.call].status = "pending"
    BY <1>8, CallingType DEF CallConfirmed, Answering
  <2>2. PICK good \in BOOLEAN :
          state' = [state EXCEPT
                      !.calls[work.call].status = "completed",
                      !.calls[work.call].good = good,
                      !.usage = Billed(@, work.call, good)]
    BY <1>8 DEF CallConfirmed
  <2>3. \A c \in Calls : state'.calls[c].status = "none"
                           => state.calls[c].status = "none"
    BY <2>1, <2>2 DEF TypeOK, States, Entries
  <2>4. HandlerMoves /\ sent' = sent
    BY <1>8, WorkMoves DEF Upstream
  <2> QED
    BY <2>3, <2>4 DEF HandlerMoves
<1>9. CASE \/ CallRefused \/ CallReplayed \/ HandlerDone \/ RequirementsInvalid
           \/ CallUnconfirmed \/ CallFailed
  <2>1. HandlerMoves /\ sent' = sent
    BY <1>9, WorkMoves DEF Upstream
  <2>2. state' = state
    BY <1>9 DEF CallRefused, CallReplayed, HandlerDone, RequirementsInvalid,
                CallUnconfirmed, CallFailed
  <2> QED
    BY <2>1, <2>2 DEF HandlerMoves
<1>10. CASE Crash
  BY <1>10 DEF Crash, IdleWork
<1>11. CASE Restart
  <2>1. work.pc = "idle"
    BY <1>11 DEF Restart, OwnershipInv
  <2> QED
    BY <1>11, <2>1 DEF Restart
<1>12. CASE UNCHANGED vars
  BY <1>12 DEF vars
<1> QED
  BY <1>0, <1>1, <1>2, <1>3, <1>4, <1>5, <1>6, <1>7, <1>8, <1>9, <1>10, <1>11,
     <1>12 DEF Next, Executor, Handler, Upstream

-----------------------------------------------------------------------------
(* The budget.                                                             *)

\* A bill grows by at most one search, one repair round and one price.
LEMMA BilledBounds ==
  ASSUME NEW usage \in Usages, NEW c \in Calls, NEW good \in BOOLEAN
  PROVE  LET bill == Billed(usage, c, good) IN
           /\ bill.searchCalls <= usage.searchCalls + 1
           /\ bill.repairRounds <= usage.repairRounds + 1
           /\ bill.cost <= usage.cost + Price[c]
<1>1. Price[c] \in Nat
  BY CallsAssumption
<1> QED
  BY <1>1 DEF Billed, Usages

LEMMA BudgetStep == IInv /\ [Next]_vars => BudgetInv' /\ WithinPolicy'
<1> SUFFICES ASSUME IInv, [Next]_vars PROVE BudgetInv' /\ WithinPolicy'
  OBVIOUS
<1> USE DEF IInv, BudgetInv, WithinPolicy, Confirmed, Calling
<1>1. CASE Http
  <2>1. UNCHANGED <<state, work>>
    BY <1>1 DEF Http, Create, CreateReplan, Resume, Cancel
  <2>2. (Calling /\ run'.aborted = None) => run.aborted = None
    BY <1>1 DEF Http, Create, CreateReplan, Resume, Cancel, Aborted,
                OwnershipInv, RunIn, Finished, TypeOK, Runs
  <2> QED
    BY <2>1, <2>2
<1>0. CASE AttachRefused
  BY <1>0 DEF AttachRefused, OwnershipInv, RunIn
<1>2. CASE AttachReplan
  <2>1. work.pc = "idle"
    BY <1>2 DEF AttachReplan, OwnershipInv, RunIn
  <2>2. state'.calls = state.calls /\ state'.usage = state.usage
    BY <1>2 DEF AttachReplan, TypeOK, States
  <2> QED
    BY <1>2, <2>1, <2>2 DEF AttachReplan
<1>3. CASE BeginStage
  BY <1>3 DEF BeginStage, IdleWork
<1>4. CASE CommitStage
  <2>1. state'.calls = state.calls
    BY <1>4 DEF CommitStage, TypeOK, States, Usages
  <2>2. /\ state'.usage.searchCalls = state.usage.searchCalls
        /\ state'.usage.repairRounds = state.usage.repairRounds
        /\ state'.usage.cost = state.usage.cost
    BY <1>4 DEF CommitStage, TypeOK, States, Usages
  <2>3. run'.aborted = run.aborted /\ work' = work
    BY <1>4 DEF CommitStage, TypeOK, Runs
  <2> QED
    BY <2>1, <2>2, <2>3
<1>5. CASE \/ Start \/ LoopEnds \/ Complete \/ WaitForKey \/ StageRejected
           \/ ResultDropped \/ ResultTooLate \/ ResultInvalid \/ Settle
           \/ Timeout \/ Expire
  <2>1. UNCHANGED <<state, work>>
    BY <1>5 DEF Start, LoopEnds, Complete, WaitForKey, StageRejected,
                ResultDropped, ResultTooLate, ResultInvalid, FailsWith, Settle,
                Timeout, Expire
  <2>2. run'.aborted = None => run.aborted = None
    BY <1>5 DEF Start, LoopEnds, Complete, WaitForKey, StageRejected,
                ResultDropped, ResultTooLate, ResultInvalid, FailsWith, Settle,
                Timeout, Expire, Aborted, TypeOK, Runs
  <2> QED
    BY <2>1, <2>2
<1>6. CASE CallJournaled
  <2>1. NextCall \in Calls
    BY <1>6, NextCallType DEF CallJournaled, WantsCall, OwnershipInv
  <2>2. /\ state'.usage = state.usage
        /\ \A c \in Calls : state.calls[c].status = "completed"
                              => state'.calls[c].status = "completed"
    BY <1>6, <2>1 DEF CallJournaled, TypeOK, States
  <2>3. ~OverBudget(state.usage)
    BY <1>6 DEF CallJournaled, Refusal
  <2>4. state.usage \in Usages
    BY DEF TypeOK, States
  <2>5. /\ state.usage.searchCalls < MaxSearchCalls
        /\ state.usage.repairRounds < MaxRepairRounds
        /\ state.usage.cost < CostHardLimit
    BY <2>3, <2>4, LimitsAssumption DEF OverBudget, Usages
  <2> QED
    BY <2>2, <2>5
<1>7. CASE CallSent
  BY <1>7 DEF CallSent
<1>8. CASE CallConfirmed
  <2>1. work.call \in Calls /\ run.aborted = None /\ Calling
    BY <1>8, CallingType DEF CallConfirmed, Answering
  <2>2. PICK good \in BOOLEAN :
          state' = [state EXCEPT
                      !.calls[work.call].status = "completed",
                      !.calls[work.call].good = good,
                      !.usage = Billed(@, work.call, good)]
    BY <1>8 DEF CallConfirmed
  <2>3. /\ state'.calls[work.call].status = "completed"
        /\ state'.usage = Billed(state.usage, work.call, good)
    BY <2>1, <2>2 DEF TypeOK, States, Entries
  <2>4. state.usage \in Usages /\ state'.usage \in Usages
    BY <2>1, <2>3, BilledType DEF TypeOK, States
  <2>5. /\ state'.usage.searchCalls <= state.usage.searchCalls + 1
        /\ state'.usage.repairRounds <= state.usage.repairRounds + 1
        /\ state'.usage.cost <= state.usage.cost + Price[work.call]
    BY <2>1, <2>3, <2>4, BilledBounds
  <2>6. Price[work.call] \in Nat
    BY <2>1, CallsAssumption
  <2>7. WithinPolicy'
    BY <2>1, <2>3, <2>4, <2>5, <2>6, LimitsAssumption DEF Usages
  <2>8. ~Calling'
    BY <1>8, WorkMoves DEF Upstream, HandlerMoves
  <2> QED
    BY <2>7, <2>8
<1>9. CASE \/ CallRefused \/ CallReplayed \/ HandlerDone \/ RequirementsInvalid
           \/ CallUnconfirmed \/ CallFailed
  <2>1. HandlerMoves
    BY <1>9, WorkMoves DEF Upstream
  <2>2. state' = state
    BY <1>9 DEF CallRefused, CallReplayed, HandlerDone, RequirementsInvalid,
                CallUnconfirmed, CallFailed
  <2> QED
    BY <2>1, <2>2 DEF HandlerMoves
<1>10. CASE Crash
  BY <1>10 DEF Crash, IdleWork
<1>11. CASE Restart
  <2>1. work.pc = "idle"
    BY <1>11 DEF Restart, OwnershipInv
  <2> QED
    BY <1>11, <2>1 DEF Restart
<1>12. CASE UNCHANGED vars
  BY <1>12 DEF vars
<1> QED
  BY <1>0, <1>1, <1>2, <1>3, <1>4, <1>5, <1>6, <1>7, <1>8, <1>9, <1>10, <1>11,
     <1>12 DEF Next, Executor, Handler, Upstream

-----------------------------------------------------------------------------
(* The user's key.                                                         *)

LEMMA KeyStep == IInv /\ [Next]_vars => KeyInv'
<1> SUFFICES ASSUME IInv, [Next]_vars PROVE KeyInv'
  OBVIOUS
<1> USE DEF IInv, KeyInv
<1>1. CASE Http
  BY <1>1 DEF Http, Create, CreateReplan, Resume, Cancel, Aborted, Scheduled,
              NoRun, TypeOK, Runs, Calling
<1>0. CASE AttachRefused
  BY <1>0 DEF AttachRefused, NoRun
<1>2. CASE AttachReplan \/ Start
  BY <1>2 DEF AttachReplan, Start, Scheduled, NoRun, TypeOK, Runs
<1>3. CASE LoopEnds \/ Complete \/ WaitForKey
  BY <1>3 DEF LoopEnds, Complete, WaitForKey, TypeOK, Runs
<1>4. CASE BeginStage
  <2>1. /\ run'.stage = NextStage /\ run'.key = run.key
        /\ work'.pc = "entering" /\ work'.blocking = state.blocking
    BY <1>4 DEF BeginStage, TypeOK, Runs, IdleWork
  <2>2. NeedsKey(NextStage) => run.key
    BY <1>4 DEF BeginStage
  <2> QED
    BY <2>1, <2>2 DEF NeedsKey, Calling, KeyStages
<1>5. CASE StageRejected \/ ResultTooLate \/ ResultInvalid
  BY <1>5 DEF StageRejected, ResultTooLate, ResultInvalid, FailsWith, TypeOK,
              Runs
<1>6. CASE ResultDropped \/ CommitStage \/ Settle
  BY <1>6 DEF ResultDropped, CommitStage, Settle, TypeOK, Runs
<1>7. CASE CallJournaled
  BY <1>7 DEF CallJournaled, WantsCall, Calling, TypeOK, Works
<1>8. CASE CallSent
  BY <1>8 DEF CallSent, Calling, TypeOK, Works
<1>9. CASE \/ CallRefused \/ CallReplayed \/ HandlerDone \/ RequirementsInvalid
           \/ Upstream
  <2>1. HandlerMoves
    BY <1>9, WorkMoves
  <2>2. ASSUME run.pc = "staged", run'.pc = "staged", run.stage = "repair",
               work'.blocking
        PROVE  run.key
    <3>1. run' = run
      BY <2>1, <2>2 DEF HandlerMoves
    <3>2. CASE CallRefused \/ CallReplayed
      BY <2>2, <3>2 DEF CallRefused, CallReplayed, WantsCall
    <3>3. CASE HandlerDone
      BY <2>2, <3>3 DEF HandlerDone, HandlerResolves, TypeOK, Runs
    <3>4. CASE RequirementsInvalid
      BY <2>2, <3>4 DEF RequirementsInvalid
    <3>5. CASE Upstream
      BY <2>2, <3>5 DEF Upstream, CallConfirmed, CallUnconfirmed, CallFailed,
                        Answering, Calling
    <3> QED
      BY <1>9, <3>2, <3>3, <3>4, <3>5
  <2>3. ~Calling'
    BY <2>1 DEF HandlerMoves, Calling
  <2>4. CASE run' = run
    BY <2>2, <2>3, <2>4
  <2>5. CASE run'.pc # "staged"
    BY <2>5
  <2> QED
    BY <2>1, <2>4, <2>5 DEF HandlerMoves
<1>10. CASE Timeout \/ Expire
  BY <1>10 DEF Timeout, Expire, Aborted, TypeOK, Runs, Calling
<1>11. CASE Crash \/ Restart
  <2>1. CASE Crash
    BY <2>1 DEF Crash, NoRun
  <2>2. CASE Restart
    BY <2>2 DEF Restart, Scheduled, NoRun, OwnershipInv
  <2> QED
    BY <1>11, <2>1, <2>2
<1>12. CASE UNCHANGED vars
  BY <1>12 DEF vars, Calling
<1> QED
  BY <1>0, <1>1, <1>2, <1>3, <1>4, <1>5, <1>6, <1>7, <1>8, <1>9, <1>10, <1>11,
     <1>12 DEF Next, Executor, Handler

\* KeyDiscipline follows from the other parts, except that the key is given
\* back: that is a step of its own.
KeyReturned == run.key => run.pc # "none"

LEMMA KeyGivenBack == IInv /\ [Next]_vars => KeyReturned'
<1> SUFFICES ASSUME IInv, [Next]_vars PROVE KeyReturned'
  OBVIOUS
<1> USE DEF IInv, KeyDiscipline, KeyReturned
<1>1. CASE Http
  <2>1. CASE run'.pc \in {"scheduled", "creating"}
    BY <2>1
  <2>2. CASE Cancel
    BY <2>2 DEF Cancel, Aborted, TypeOK, Runs
  <2> QED
    BY <1>1, <2>1, <2>2 DEF Http, Create, CreateReplan, Resume, Scheduled, NoRun
<1>2. CASE Executor
  <2>0. CASE AttachRefused
    BY <2>0 DEF AttachRefused, NoRun
  <2>1. CASE Settle
    <3>1. run'.key = FALSE
      BY <2>1 DEF Settle, TypeOK, Runs
    <3> QED
      BY <3>1
  <2>2. CASE AttachReplan \/ Start \/ LoopEnds \/ Complete \/ WaitForKey
    <3>1. run'.pc \in {"scheduled", "loop", "returning"}
      BY <2>2 DEF AttachReplan, Start, LoopEnds, Complete, WaitForKey,
                  Scheduled, NoRun, TypeOK, Runs
    <3> QED
      BY <3>1
  <2>3. CASE \/ BeginStage \/ StageRejected \/ ResultDropped \/ ResultTooLate
             \/ ResultInvalid \/ CommitStage
    <3>1. run'.pc \in {"staged", "loop", "returning"}
      BY <2>3 DEF BeginStage, StageRejected, ResultDropped, ResultTooLate,
                  ResultInvalid, FailsWith, CommitStage, TypeOK, Runs
    <3> QED
      BY <3>1
  <2> QED
    BY <1>2, <2>0, <2>1, <2>2, <2>3 DEF Executor
<1>3. CASE Handler \/ Upstream
  <2>1. CASE HandlerMoves
    BY <2>1 DEF HandlerMoves
  <2>2. CASE CallJournaled \/ CallSent
    BY <2>2 DEF CallJournaled, CallSent
  <2> QED
    BY <1>3, <2>1, <2>2, WorkMoves DEF Handler
<1>4. CASE Timeout \/ Expire
  BY <1>4 DEF Timeout, Expire, Aborted, TypeOK, Runs
<1>5. CASE Crash \/ Restart
  <2>1. CASE Crash
    BY <2>1 DEF Crash, NoRun
  <2>2. CASE Restart
    BY <2>2 DEF Restart, Scheduled, NoRun
  <2> QED
    BY <1>5, <2>1, <2>2
<1>6. CASE UNCHANGED vars
  BY <1>6 DEF vars
<1> QED
  BY <1>1, <1>2, <1>3, <1>4, <1>5, <1>6 DEF Next

LEMMA KeyFollows ==
  TypeOK /\ OwnershipInv /\ RowInv /\ JournalInv /\ KeyInv /\ KeyReturned
    => KeyDiscipline
<1> SUFFICES ASSUME TypeOK, OwnershipInv, RowInv, JournalInv, KeyInv,
                    KeyReturned
             PROVE  KeyDiscipline
  OBVIOUS
<1> SUFFICES ASSUME work.pc \in {"journaled", "awaiting"}, run.aborted = None,
                    CallKind[work.call] # "tool"
             PROVE  run.key
  BY DEF KeyDiscipline, KeyReturned
<1>1. run.stage \in Stages /\ run.pc = "staged"
  BY DEF OwnershipInv
<1>2. work.call \in ScriptCalls(state.kind, run.stage) /\ state.kind \in Kinds
  BY DEF JournalInv, Calling, TypeOK, States
<1>3. run.stage \in KeyStages
  BY <1>1, <1>2, ScriptAssumption
<1> QED
  BY <1>1, <1>3 DEF KeyInv, Calling

-----------------------------------------------------------------------------
(* How far the journal has come.                                           *)

\* The stage that is under way is the first one without a result.
LEMMA StageIsAhead ==
  ASSUME IInv, run.pc \in {"staged", "resolved"}, run.aborted = None
  PROVE  run.stage \in Stages /\ run.stage = Ahead
<1>1. /\ run.stage \in Stages
      /\ job.status = "running"
      /\ run.stage = nextPlanningStage(job.status, None, job.stageResults)
  BY DEF IInv, RowInv, RunIn
<1> QED
  BY <1>1, NextStageSame DEF Ahead

\* After the result of the repair only the last stage is left, and after that
\* one none.
LEMMA AheadAfterRepair ==
  ASSUME NEW r \in Seq(Stages), NEW stage \in {"repair", "finalization"},
         stage = nextPlanningStage("queued", None, r)
  PROVE  nextPlanningStage("queued", None, Append(r, stage))
           \in {"finalization", None}
<1> DEFINE missing(results) == {i \in 1..Len(PLANNING_STAGES) :
                                  PLANNING_STAGES[i] \notin Recorded(results)}
           first(results)   == CHOOSE i \in missing(results) :
                                 \A j \in missing(results) : i <= j
           more             == Append(r, stage)
<1>1. stage \in Stages
  BY DEF Stages, PLANNING_STAGES
<1>2. more \in Seq(Stages)
  BY <1>1
<1>3. Recorded(more) = Recorded(r) \cup {stage}
  BY <1>1 DEF Recorded
<1>4. missing(r) # {} /\ stage = PLANNING_STAGES[first(r)]
  BY <1>1, NoneIsNoStage DEF nextPlanningStage
<1>5. \A results : missing(results) # {} =>
                     /\ first(results) \in missing(results)
                     /\ \A j \in missing(results) : first(results) <= j
  BY LeastStage
<1>6. first(r) \in {6, 7}
  <2>1. first(r) \in 1..7
    BY <1>4, <1>5, NoneIsNoStage
  <2> HIDE DEF first
  <2> QED
    BY <1>4, <2>1 DEF PLANNING_STAGES
<1>7. \A j \in missing(more) : j = 7
  <2> TAKE j \in missing(more)
  <2>1. j \in missing(r) /\ PLANNING_STAGES[j] # stage /\ j \in 1..7
    BY <1>3, NoneIsNoStage
  <2>2. first(r) <= j /\ j # first(r)
    BY <1>4, <1>5, <2>1
  <2> HIDE DEF first, missing
  <2> QED
    BY <1>6, <2>1, <2>2
<1>8. missing(more) # {} => PLANNING_STAGES[first(more)] = "finalization"
  <2> SUFFICES ASSUME missing(more) # {}
               PROVE  PLANNING_STAGES[first(more)] = "finalization"
    OBVIOUS
  <2>1. first(more) = 7
    BY <1>5, <1>7
  <2> HIDE DEF first
  <2> QED
    BY <2>1 DEF PLANNING_STAGES
<1> QED
  BY <1>8 DEF nextPlanningStage

\* A step that leaves the journal, the kind of the job and its results alone
\* leaves its progress alone.
LEMMA ProgressKept ==
  ASSUME ProgressInv, UnconfirmedOnlyInRepair,
         state'.calls = state.calls, state'.kind = state.kind,
         job'.stageResults = job.stageResults,
         (job'.status = Absent \/ run'.pc = "creating")
           => (job.status = Absent \/ run.pc = "creating")
  PROVE  ProgressInv' /\ UnconfirmedOnlyInRepair'
<1>1. Unconfirmed' = Unconfirmed /\ Confirmed' = Confirmed /\ Ahead' = Ahead
  BY DEF Unconfirmed, Confirmed, Ahead
<1>2. UnconfirmedOnlyInRepair'
  BY <1>1 DEF UnconfirmedOnlyInRepair
<1>3. ProgressInv'
  BY <1>1 DEF ProgressInv, ScriptCalls
<1> QED
  BY <1>2, <1>3

\* A new call: the stage ahead has nothing unconfirmed unless it is the repair.
LEMMA ProgressOfCall ==
  ASSUME IInv, CallJournaled
  PROVE  ProgressInv' /\ UnconfirmedOnlyInRepair'
<1> DEFINE c == NextCall
           stage == run.stage
           kind == state.kind
<1>1. /\ run.aborted = None /\ run.pc = "staged" /\ stage \in Stages
      /\ kind \in Kinds
  BY DEF CallJournaled, WantsCall, Refusal, IInv, OwnershipInv, TypeOK, States
<1>2. stage = Ahead
  BY <1>1, StageIsAhead
<1>3. c \in Calls /\ c \in ScriptCalls(kind, stage)
  BY <1>1, NextCallType DEF CallJournaled, IInv
<1>4. script \in Seq(Calls) /\ work.at \in 1..Len(script) /\ c = script[work.at]
  <2>1. script \in Seq(Calls)
    BY <1>1, ScriptAssumption DEF script
  <2>2. work \in Works /\ WantsCall
    BY DEF CallJournaled, IInv, TypeOK
  <2> QED
    BY <2>1, <2>2 DEF WantsCall, Works, NextCall
<1>5. /\ state'.kind = kind /\ job' = job /\ run' = run
      /\ state.calls[c].status = "none"
      /\ state'.calls[c].status = "pending"
      /\ \A d \in Calls : d # c => state'.calls[d] = state.calls[d]
  BY <1>3 DEF CallJournaled, IInv, TypeOK, States
<1>6. /\ Confirmed' = Confirmed /\ Unconfirmed' = Unconfirmed \cup {c}
      /\ Ahead' = Ahead /\ c \notin Confirmed
  BY <1>3, <1>5 DEF Confirmed, Unconfirmed, Ahead
<1> HIDE DEF c
<1>7. CallKind[c] = "repair" <=> stage = "repair"
  BY <1>1, <1>3, ScriptAssumption
<1>8. ASSUME NEW d \in Unconfirmed, d # c
      PROVE  CallKind[c] = "repair" /\ CallKind[d] = "repair"
  <2>1. d \in Calls /\ state.calls[d].status = "pending"
    BY DEF Unconfirmed
  <2>2. CASE CallKind[d] = "repair"
    <3>1. Ahead \in {"repair", "finalization", None}
      BY <2>1, <2>2 DEF IInv, ProgressInv
    <3>2. stage # "finalization"
      BY <1>1, <1>3, ScriptAssumption
    <3> QED
      BY <1>1, <1>2, <1>7, <2>2, <3>1, <3>2, NoneIsNoStage
  <2>3. CASE CallKind[d] # "repair"
    <3>1. d \in ScriptCalls(kind, stage)
      BY <1>2, <2>3 DEF IInv, ProgressInv
    <3>2. stage # "repair"
      BY <1>1, <2>3, <3>1, ScriptAssumption
    <3>3. PICK j \in 1..Len(script) : d = script[j]
      BY <3>1 DEF ScriptCalls, script
    <3>4. CASE j < work.at
      BY <1>1, <2>1, <3>2, <3>3, <3>4
         DEF IInv, PositionInv, Confirmed, CallJournaled, WantsCall
    <3>5. CASE work.at < j
      <4>1. state.calls[script[j]].status = "none"
        BY <1>1, <1>4, <1>6, <3>2, <3>3, <3>5 DEF IInv, ProgressInv, script
      <4> QED
        BY <2>1, <3>3, <4>1
    <3>6. j # work.at
      BY <1>4, <3>3, <1>8
    <3> QED
      BY <1>4, <3>3, <3>4, <3>5, <3>6
  <2> QED
    BY <2>2, <2>3
<1>9. UnconfirmedOnlyInRepair'
  BY <1>6, <1>8 DEF UnconfirmedOnlyInRepair, IInv
<1>10. ~(job'.status = Absent \/ run'.pc = "creating")
  BY <1>1, <1>5 DEF IInv, OwnershipInv
<1>11. ASSUME NEW s \in Stages \ {"repair"},
              NEW i \in 1..Len(Script[kind][s]), NEW j \in 1..Len(Script[kind][s]),
              i < j, Script[kind][s][i] \notin Confirmed
       PROVE  state'.calls[Script[kind][s][j]].status = "none"
  <2>1. Script[kind][s] \in Seq(Calls)
    BY <1>1, ScriptAssumption
  <2> DEFINE d == Script[kind][s][j]
  <2>2. d \in Calls /\ d \in ScriptCalls(kind, s)
    BY <2>1 DEF ScriptCalls
  <2>3. state.calls[d].status = "none"
    BY <1>11 DEF IInv, ProgressInv
  <2>4. d # c
    <3> SUFFICES ASSUME d = c PROVE FALSE
      OBVIOUS
    <3>1. s = stage
      BY <1>1, <1>3, <2>2, ScriptAssumption
    <3>2. j = work.at
      BY <1>1, <1>4, <3>1, ScriptAssumption DEF script
    <3>3. script[i] \in Confirmed
      BY <1>1, <1>11, <3>1, <3>2
         DEF IInv, PositionInv, CallJournaled, WantsCall, script
    <3> QED
      BY <1>11, <3>1, <3>3 DEF script
  <2> QED
    BY <1>5, <2>2, <2>3, <2>4
<1>12. \A d \in Unconfirmed' :
         CallKind[d] # "repair" => /\ Ahead' # None
                                   /\ d \in ScriptCalls(kind, Ahead')
  BY <1>1, <1>2, <1>3, <1>6, NoneIsNoStage DEF IInv, ProgressInv
<1>13. (\E d \in Calls : CallKind[d] = "repair"
                         /\ state'.calls[d].status # "none")
         => Ahead' \in {"repair", "finalization", None}
  BY <1>2, <1>5, <1>6, <1>7 DEF IInv, ProgressInv
<1>14. ProgressInv'
  BY <1>5, <1>6, <1>10, <1>11, <1>12, <1>13 DEF ProgressInv, ScriptCalls
<1> QED
  BY <1>9, <1>14

\* A stage is recorded when all its calls are confirmed, or when it is the
\* repair, which comes next to last.
LEMMA ProgressOfCommit ==
  ASSUME IInv, CommitStage
  PROVE  ProgressInv' /\ UnconfirmedOnlyInRepair'
<1> DEFINE stage == run.stage
<1>1. /\ run.pc = "resolved" /\ run.aborted = None /\ stage \in Stages
      /\ stage = Ahead /\ state.kind \in Kinds
  BY StageIsAhead DEF CommitStage, Committable, IInv, TypeOK, States
<1>2. /\ state'.calls = state.calls /\ state'.kind = state.kind
      /\ job'.status = job.status /\ run'.pc = "loop"
      /\ job'.stageResults = Append(job.stageResults, stage)
      /\ job.stageResults \in Seq(Stages)
  BY DEF CommitStage, IInv, TypeOK, States, Usages, Jobs, Runs
<1>3. Unconfirmed' = Unconfirmed /\ Confirmed' = Confirmed
  BY <1>2 DEF Unconfirmed, Confirmed
<1>4. UnconfirmedOnlyInRepair'
  BY <1>3 DEF IInv, UnconfirmedOnlyInRepair
<1>5. \A c \in Unconfirmed : CallKind[c] = "repair"
  <2> TAKE c \in Unconfirmed
  <2> SUFFICES ASSUME CallKind[c] # "repair" PROVE FALSE
    OBVIOUS
  <2>1. c \in ScriptCalls(state.kind, stage)
    BY <1>1 DEF IInv, ProgressInv
  <2>2. stage # "repair"
    BY <1>1, <2>1, ScriptAssumption
  <2>3. c \in Confirmed
    BY <1>1, <2>1, <2>2 DEF IInv, PositionInv
  <2> QED
    BY <2>3 DEF Confirmed, Unconfirmed
<1>6. (\E c \in Calls : CallKind[c] = "repair"
                        /\ state.calls[c].status # "none")
        => Ahead' \in {"repair", "finalization", None}
  <2> SUFFICES ASSUME Ahead \in {"repair", "finalization", None}
               PROVE  Ahead' \in {"repair", "finalization", None}
    BY DEF IInv, ProgressInv
  <2>1. stage \in {"repair", "finalization"}
    BY <1>1, NoneIsNoStage
  <2> QED
    BY <1>1, <1>2, <2>1, AheadAfterRepair DEF Ahead
<1>7. job.status # Absent
  BY <1>1 DEF IInv, OwnershipInv
<1> QED
  BY <1>2, <1>3, <1>4, <1>5, <1>6, <1>7 DEF IInv, ProgressInv, ScriptCalls

\* An answer makes an unconfirmed call a confirmed one.
LEMMA ProgressOfAnswer ==
  ASSUME IInv, CallConfirmed
  PROVE  ProgressInv' /\ UnconfirmedOnlyInRepair'
<1>1. work.call \in Calls /\ state.calls[work.call].status = "pending"
  BY CallingType DEF CallConfirmed, Answering, Calling, IInv, JournalInv
<1>2. PICK good \in BOOLEAN :
        state' = [state EXCEPT
                    !.calls[work.call].status = "completed",
                    !.calls[work.call].good = good,
                    !.usage = Billed(@, work.call, good)]
  BY DEF CallConfirmed
<1>3. /\ state'.kind = state.kind
      /\ state'.calls[work.call].status = "completed"
      /\ \A c \in Calls : c # work.call => state'.calls[c] = state.calls[c]
  BY <1>1, <1>2 DEF IInv, TypeOK, States, Entries
<1>4. /\ Unconfirmed' \subseteq Unconfirmed
      /\ Confirmed \subseteq Confirmed'
      /\ \A c \in Calls : state'.calls[c].status = "none"
                            <=> state.calls[c].status = "none"
  BY <1>1, <1>3 DEF Unconfirmed, Confirmed
<1>5. job' = job /\ Ahead' = Ahead /\ HandlerMoves
  BY WorkMoves DEF CallConfirmed, IInv, Ahead, Upstream
<1>6. (job'.status = Absent \/ run'.pc = "creating")
        => (job.status = Absent \/ run.pc = "creating")
  BY <1>5 DEF HandlerMoves
<1>7. UnconfirmedOnlyInRepair'
  BY <1>4 DEF IInv, UnconfirmedOnlyInRepair
<1>8. ASSUME NEW s \in Stages \ {"repair"},
             NEW i \in 1..Len(Script[state.kind][s]),
             NEW j \in 1..Len(Script[state.kind][s]),
             i < j, Script[state.kind][s][i] \notin Confirmed'
      PROVE  state'.calls[Script[state.kind][s][j]].status = "none"
  <2>1. Script[state.kind][s][j] \in Calls
    BY ScriptAssumption DEF IInv, TypeOK, States
  <2>2. state.calls[Script[state.kind][s][j]].status = "none"
    BY <1>4, <1>8 DEF IInv, ProgressInv
  <2> QED
    BY <1>4, <2>1, <2>2
<1> QED
  BY <1>3, <1>4, <1>5, <1>6, <1>7, <1>8 DEF IInv, ProgressInv, ScriptCalls

LEMMA ProgressStep ==
  IInv /\ [Next]_vars => ProgressInv' /\ UnconfirmedOnlyInRepair'
<1> SUFFICES ASSUME IInv, [Next]_vars
             PROVE  ProgressInv' /\ UnconfirmedOnlyInRepair'
  OBVIOUS
<1> USE DEF IInv
<1>1. CASE Create \/ CreateReplan
  <2>1. job.status = Absent /\ state' = state
        /\ job'.stageResults = job.stageResults
    BY <1>1 DEF Create, CreateReplan, TypeOK, Jobs
  <2> QED
    BY <2>1, ProgressKept
<1>2. CASE Resume
  <2>1. job' = job /\ state' = state /\ run'.pc = "scheduled"
    BY <1>2 DEF Resume, Scheduled, NoRun
  <2> QED
    BY <2>1, ProgressKept
<1>3. CASE Cancel
  <2>1. /\ state' = state /\ job'.stageResults = job.stageResults
        /\ job'.status = "cancelled"
    BY <1>3 DEF Cancel, TypeOK, Jobs
  <2>2. run'.pc = "creating" => run.pc = "creating"
    BY <1>3 DEF Cancel, Aborted, TypeOK, Runs
  <2> QED
    BY <2>1, <2>2, ProgressKept
<1>0. CASE AttachRefused
  <2>1. job' = job /\ state' = state /\ run'.pc = "none"
    BY <1>0 DEF AttachRefused, NoRun
  <2> QED
    BY <2>1, ProgressKept
<1>4. CASE AttachReplan
  <2>1. \A c \in Calls : state.calls[c].status = "none"
    BY <1>4 DEF AttachReplan, ProgressInv
  <2>2. state'.calls = state.calls /\ state'.kind = "replan"
    BY <1>4 DEF AttachReplan, TypeOK, States
  <2>3. Unconfirmed' = {}
    BY <2>1, <2>2 DEF Unconfirmed
  <2>4. \A stage \in Stages : Script["replan"][stage] \in Seq(Calls)
    BY ScriptAssumption DEF Kinds
  <2> QED
    BY <2>1, <2>2, <2>3, <2>4 DEF ProgressInv, UnconfirmedOnlyInRepair
<1>5. CASE \/ Start \/ LoopEnds \/ Complete \/ WaitForKey \/ BeginStage
           \/ StageRejected \/ ResultDropped \/ ResultTooLate \/ ResultInvalid
           \/ Settle \/ Timeout \/ Expire \/ Crash \/ Restart
  <2>1. state' = state
    BY <1>5 DEF Start, LoopEnds, Complete, WaitForKey, BeginStage,
                StageRejected, ResultDropped, ResultTooLate, ResultInvalid,
                FailsWith, Settle, Timeout, Expire, Crash, Restart
  <2>2. /\ job'.stageResults = job.stageResults
        /\ job'.status = Absent => job.status = Absent
    BY <1>5 DEF Start, LoopEnds, Complete, WaitForKey, BeginStage,
                StageRejected, ResultDropped, ResultTooLate, ResultInvalid,
                FailsWith, Settle, Timeout, Expire, Crash, Restart, Recovered,
                TypeOK, Jobs
  <2>3. run'.pc = "creating" => run.pc = "creating"
    <3>1. CASE \/ Start \/ LoopEnds \/ Complete \/ WaitForKey \/ BeginStage
               \/ StageRejected \/ ResultDropped \/ ResultTooLate
               \/ ResultInvalid \/ Settle
      BY <3>1 DEF Start, LoopEnds, Complete, WaitForKey, BeginStage,
                  StageRejected, ResultDropped, ResultTooLate, ResultInvalid,
                  FailsWith, Settle, TypeOK, Runs
    <3>2. CASE Timeout \/ Expire
      BY <3>2 DEF Timeout, Expire, Aborted, TypeOK, Runs
    <3>3. CASE Crash
      BY <3>3 DEF Crash, NoRun
    <3>4. CASE Restart
      BY <3>4 DEF Restart, Scheduled, NoRun
    <3> QED
      BY <1>5, <3>1, <3>2, <3>3, <3>4
  <2> QED
    BY <2>1, <2>2, <2>3, ProgressKept
<1>6. CASE CommitStage
  BY <1>6, ProgressOfCommit
<1>7. CASE CallJournaled
  BY <1>7, ProgressOfCall
<1>8. CASE CallConfirmed
  BY <1>8, ProgressOfAnswer
<1>9. CASE CallSent
  BY <1>9, ProgressKept DEF CallSent
<1>10. CASE \/ CallRefused \/ CallReplayed \/ HandlerDone \/ RequirementsInvalid
            \/ CallUnconfirmed \/ CallFailed
  <2>1. HandlerMoves /\ job' = job
    BY <1>10, WorkMoves DEF Upstream
  <2>2. state' = state
    BY <1>10 DEF CallRefused, CallReplayed, HandlerDone, RequirementsInvalid,
                 CallUnconfirmed, CallFailed
  <2> QED
    BY <2>1, <2>2, ProgressKept DEF HandlerMoves
<1>11. CASE UNCHANGED vars
  BY <1>11, ProgressKept DEF vars
<1> QED
  BY <1>0, <1>1, <1>2, <1>3, <1>4, <1>5, <1>6, <1>7, <1>8, <1>9, <1>10, <1>11
     DEF Next, Http, Executor, Handler, Upstream

-----------------------------------------------------------------------------
(* Where the handler stands.                                               *)

LEMMA PositionKept ==
  ASSUME PositionInv, state' = state, work' = work, run'.stage = run.stage,
         run'.aborted = None => run.aborted = None,
         run'.pc = "resolved" => run.pc = "resolved"
  PROVE  PositionInv'
  BY DEF PositionInv, Calling, Confirmed, ScriptCalls, script

\* Nobody is at work and nothing is resolved.
LEMMA PositionOfNobody ==
  ASSUME work'.pc = "idle", run'.pc # "resolved"
  PROVE  PositionInv'
  BY DEF PositionInv, Calling

\* An error sends the handler of a repair on and ends every other one.
LEMMA PositionOfThrow ==
  ASSUME IInv, NEW code, Throws(code), state' = state
  PROVE  PositionInv'
<1>1. CASE run.stage = "repair"
  <2>1. work'.pc = "thinking" /\ run' = run
    BY <1>1 DEF Throws, IInv, TypeOK, Works
  <2> QED
    BY <1>1, <2>1 DEF PositionInv, Calling
<1>2. CASE run.stage # "repair"
  <2>1. work'.pc = "idle"
    BY <1>2 DEF Throws, HandlerRejects, IdleWork
  <2>2. run' = run \/ run'.pc = "rejected"
    BY <1>2 DEF Throws, HandlerRejects, IInv, TypeOK, Runs
  <2>3. CASE run'.pc = "rejected"
    BY <2>1, <2>3, PositionOfNobody
  <2>4. CASE run' = run
    BY <2>1, <2>4
       DEF IInv, PositionInv, Calling, Confirmed, ScriptCalls, script
  <2> QED
    BY <2>2, <2>3, <2>4
<1> QED
  BY <1>1, <1>2

\* A value of the call at the handler's position sends it on to the next one.
LEMMA PositionOfValue ==
  ASSUME IInv, NEW c, NEW good, Consumes(c, good),
         state'.kind = state.kind, Confirmed \subseteq Confirmed',
         work.at \in 1..Len(script), c = script[work.at], c \in Confirmed',
         work.pc # "idle"
  PROVE  PositionInv'
<1>1. script' = Script[state.kind][run'.stage]
  BY DEF script
<1>2. CASE run' = run /\ work'.pc = "thinking" /\ work'.at = work.at + 1
  <2>1. script' = script
    BY <1>1, <1>2 DEF script
  <2>2. work.at \in Nat
    BY DEF IInv, TypeOK, Works
  <2>3. ASSUME run.aborted = None, run.stage # "repair",
               NEW i \in 1..Len(script), i < work.at + 1
        PROVE  script[i] \in Confirmed'
    <3>1. i = work.at \/ i < work.at
      BY <2>2, <2>3
    <3> QED
      BY <2>3, <3>1 DEF IInv, PositionInv
  <2>4. run.pc = "resolved" /\ run.aborted = None => FALSE
    BY DEF IInv, OwnershipInv
  <2> QED
    BY <1>2, <2>1, <2>3, <2>4 DEF PositionInv, Calling
<1>3. CASE Throws("STAGE_FAILED")
  <2>1. CASE run.stage = "repair"
    <3>1. work'.pc = "thinking" /\ run' = run
      BY <1>3, <2>1 DEF Throws, IInv, TypeOK, Works
    <3> QED
      BY <2>1, <3>1 DEF PositionInv, Calling
  <2>2. CASE run.stage # "repair"
    <3>1. work'.pc = "idle"
      BY <1>3, <2>2 DEF Throws, HandlerRejects, IdleWork
    <3>2. run'.pc # "resolved" \/ run' = run
      BY <1>3, <2>2 DEF Throws, HandlerRejects, IInv, TypeOK, Runs
    <3>3. run.pc # "resolved" \/ run.aborted # None
      BY DEF IInv, OwnershipInv
    <3> QED
      BY <3>1, <3>2, <3>3 DEF PositionInv, Calling
  <2> QED
    BY <2>1, <2>2
<1> QED
  BY <1>2, <1>3 DEF Consumes, IInv, TypeOK, Works

LEMMA PositionStep == IInv /\ [Next]_vars => PositionInv'
<1> SUFFICES ASSUME IInv, [Next]_vars PROVE PositionInv'
  OBVIOUS
<1> USE DEF IInv
<1>0. CASE AttachRefused
  <2>1. work.pc = "idle" /\ work' = work /\ run'.pc = "none"
    BY <1>0 DEF AttachRefused, NoRun, OwnershipInv, RunIn, Finished
  <2> QED
    BY <2>1, PositionOfNobody
<1>1. CASE Create \/ CreateReplan \/ Resume \/ AttachReplan
  <2>1. work.pc = "idle" /\ work' = work
    BY <1>1 DEF Create, CreateReplan, Resume, AttachReplan, OwnershipInv,
                RunIn, Finished
  <2>2. run'.pc \in {"scheduled", "creating"}
    BY <1>1 DEF Create, CreateReplan, Resume, AttachReplan, Scheduled, NoRun
  <2> QED
    BY <2>1, <2>2, PositionOfNobody
<1>2. CASE Cancel
  <2>1. /\ run'.stage = run.stage
        /\ run'.aborted = None => run.aborted = None
        /\ run'.pc = "resolved" => run.pc = "resolved"
    BY <1>2 DEF Cancel, Aborted, TypeOK, Runs
  <2> QED
    BY <1>2, <2>1, PositionKept DEF Cancel
<1>3. CASE \/ Start \/ LoopEnds \/ Complete \/ WaitForKey \/ StageRejected
           \/ ResultDropped \/ ResultTooLate \/ ResultInvalid \/ Settle
           \/ Timeout \/ Expire
  <2>1. UNCHANGED <<state, work>>
    BY <1>3 DEF Start, LoopEnds, Complete, WaitForKey, StageRejected,
                ResultDropped, ResultTooLate, ResultInvalid, FailsWith, Settle,
                Timeout, Expire
  <2>2. /\ run'.stage = run.stage
        /\ run'.aborted = None => run.aborted = None
        /\ run'.pc = "resolved" => run.pc = "resolved"
    BY <1>3 DEF Start, LoopEnds, Complete, WaitForKey, StageRejected,
                ResultDropped, ResultTooLate, ResultInvalid, FailsWith, Settle,
                Timeout, Expire, Aborted, TypeOK, Runs
  <2> QED
    BY <2>1, <2>2, PositionKept
<1>4. CASE BeginStage
  <2>1. work'.pc = "entering" /\ work'.at = 1 /\ run'.pc = "staged"
    BY <1>4 DEF BeginStage, IdleWork, TypeOK, Runs
  <2> QED
    BY <2>1 DEF PositionInv, Calling
<1>5. CASE CommitStage
  <2>1. work.pc = "idle" \/ run.aborted # None
    BY <1>5 DEF CommitStage, Committable, OwnershipInv, RunIn
  <2>2. work' = work /\ run'.pc = "loop" /\ run.aborted = None
    BY <1>5 DEF CommitStage, TypeOK, Runs
  <2> QED
    BY <2>1, <2>2, PositionOfNobody
<1>6. CASE CallJournaled
  <2>1. work.at \in 1..Len(script) /\ NextCall = script[work.at]
    <3>1. run.stage \in Stages
      BY <1>6 DEF CallJournaled, WantsCall, OwnershipInv
    <3>2. script \in Seq(Calls)
      BY <3>1, ScriptAssumption DEF TypeOK, States, script
    <3> QED
      BY <1>6, <3>2 DEF CallJournaled, WantsCall, TypeOK, Works, NextCall
  <2>2. NextCall \in Calls /\ state.calls[NextCall].status = "none"
    BY <1>6, NextCallType DEF CallJournaled, WantsCall, OwnershipInv
  <2>3. /\ state'.kind = state.kind /\ run' = run
        /\ work'.call = NextCall /\ work'.at = work.at
        /\ work.pc # "idle"
    BY <1>6 DEF CallJournaled, WantsCall, TypeOK, States, Works
  <2>4. Confirmed' = Confirmed
    BY <1>6, <2>2 DEF CallJournaled, Confirmed, TypeOK, States
  <2>5. script' = script
    BY <2>3 DEF script
  <2> QED
    BY <2>1, <2>3, <2>4, <2>5 DEF PositionInv, ScriptCalls
<1>7. CASE CallSent
  <2>1. /\ UNCHANGED <<state, run>> /\ Calling
        /\ work'.call = work.call /\ work'.at = work.at
    BY <1>7 DEF CallSent, TypeOK, Works, Calling
  <2>2. script' = script /\ Confirmed' = Confirmed
    BY <2>1 DEF script, Confirmed
  <2> QED
    BY <2>1, <2>2 DEF PositionInv, ScriptCalls, Calling
<1>8. CASE CallReplayed
  <2>1. run.stage \in Stages /\ work.pc # "idle" /\ NextCall \in Calls
    BY <1>8, NextCallType DEF CallReplayed, WantsCall, OwnershipInv
  <2>2. script \in Seq(Calls)
    BY <2>1, ScriptAssumption DEF TypeOK, States, script
  <2>3. work.at \in 1..Len(script) /\ NextCall = script[work.at]
    BY <1>8, <2>2 DEF CallReplayed, WantsCall, TypeOK, Works, NextCall
  <2>4. state' = state /\ NextCall \in Confirmed
    BY <1>8, <2>1 DEF CallReplayed, Confirmed
  <2>5. Confirmed' = Confirmed
    BY <2>4 DEF Confirmed
  <2>6. Consumes(NextCall, state.calls[NextCall].good)
    BY <1>8 DEF CallReplayed
  <2> HIDE DEF NextCall
  <2> QED
    BY <2>1, <2>3, <2>4, <2>5, <2>6, PositionOfValue
<1>9. CASE CallConfirmed
  <2>1. work.call \in Calls /\ Calling
    BY <1>9, CallingType DEF CallConfirmed, Answering, Calling
  <2>2. work.at \in 1..Len(script) /\ work.call = script[work.at]
    BY <2>1 DEF PositionInv
  <2>3. PICK good \in BOOLEAN :
          /\ state' = [state EXCEPT
                         !.calls[work.call].status = "completed",
                         !.calls[work.call].good = good,
                         !.usage = Billed(@, work.call, good)]
          /\ Consumes(work.call, good)
    BY <1>9 DEF CallConfirmed
  <2>4. /\ state'.kind = state.kind
        /\ state'.calls[work.call].status = "completed"
        /\ \A c \in Calls : c # work.call => state'.calls[c] = state.calls[c]
    BY <2>1, <2>3 DEF TypeOK, States, Entries
  <2>5. Confirmed \subseteq Confirmed' /\ work.call \in Confirmed'
    BY <2>1, <2>4 DEF Confirmed
  <2>6. work.pc # "idle"
    BY <2>1 DEF Calling
  <2> QED
    BY <2>2, <2>3, <2>4, <2>5, <2>6, PositionOfValue
<1>10. CASE CallRefused \/ CallUnconfirmed \/ CallFailed
  BY <1>10, PositionOfThrow DEF CallRefused, CallUnconfirmed, CallFailed
<1>11. CASE HandlerDone
  <2>1. PICK blocking : HandlerResolves(blocking)
    BY <1>11 DEF HandlerDone
  <2>2. work'.pc = "idle" /\ state' = state /\ run'.stage = run.stage
    BY <1>11, <2>1 DEF HandlerDone, HandlerResolves, IdleWork, TypeOK, Runs
  <2>3. ASSUME run'.pc = "resolved", run'.aborted = None, run.stage # "repair"
        PROVE  ScriptCalls(state.kind, run.stage) \subseteq Confirmed
    <3>1. run.pc = "staged" /\ run.aborted = None
      BY <1>11, <2>1, <2>3
         DEF HandlerDone, HandlerResolves, OwnershipInv, RunIn, TypeOK, Runs
    <3>2. run.stage \in Stages /\ work.pc # "idle" /\ work.at > Len(script)
      <4>1. run.stage \in Stages
        BY <3>1 DEF RowInv, RunIn
      <4>2. Len(script) \in Nat
        BY <4>1, ScriptAssumption DEF TypeOK, States, script
      <4> QED
        BY <1>11, <2>3, <4>1, <4>2 DEF HandlerDone, WantsCall, TypeOK, Works
    <3>3. Len(script) \in Nat /\ work.at \in Nat
      BY <3>2, ScriptAssumption DEF TypeOK, States, Works, script
    <3>4. \A i \in 1..Len(script) : script[i] \in Confirmed
      BY <2>3, <3>1, <3>2, <3>3 DEF PositionInv
    <3> QED
      BY <3>4 DEF ScriptCalls, script
  <2> QED
    BY <2>2, <2>3 DEF PositionInv, Calling, Confirmed, ScriptCalls, script
<1>12. CASE RequirementsInvalid
  <2>1. work'.pc = "idle"
    BY <1>12 DEF RequirementsInvalid, HandlerRejects, IdleWork
  <2>2. run'.pc # "resolved"
    <3>1. CASE run.pc = "staged"
      BY <1>12, <3>1 DEF RequirementsInvalid, HandlerRejects, TypeOK, Runs
    <3>2. CASE run.pc # "staged"
      BY <1>12, <3>2 DEF RequirementsInvalid, HandlerRejects, OwnershipInv, RunIn
    <3> QED
      BY <3>1, <3>2
  <2> QED
    BY <2>1, <2>2, PositionOfNobody
<1>13. CASE Crash
  BY <1>13, PositionOfNobody DEF Crash, NoRun, IdleWork
<1>14. CASE Restart
  <2>1. work.pc = "idle" /\ run.pc = "none" /\ work' = work
    BY <1>14 DEF Restart, OwnershipInv
  <2>2. run'.pc # "resolved"
    BY <1>14, <2>1 DEF Restart, Scheduled, NoRun
  <2> QED
    BY <2>1, <2>2, PositionOfNobody
<1>15. CASE UNCHANGED vars
  BY <1>15, PositionKept DEF vars
<1> QED
  BY <1>0, <1>1, <1>2, <1>3, <1>4, <1>5, <1>6, <1>7, <1>8, <1>9, <1>10, <1>11,
     <1>12, <1>13, <1>14, <1>15 DEF Next, Http, Executor, Handler, Upstream

-----------------------------------------------------------------------------
(* The bill.                                                               *)

\* What a call adds does not depend on what was billed before.
LEMMA BilledParts ==
  ASSUME NEW usage \in Usages, NEW c \in Calls, NEW good \in BOOLEAN
  PROVE  LET bill == Billed(usage, c, good)
             one  == Billed(NoUsage, c, good)
         IN  /\ one.searchCalls \in Nat /\ one.repairRounds \in Nat
             /\ one.cost \in Nat
             /\ bill.steps = usage.steps
             /\ bill.searchCalls = usage.searchCalls + one.searchCalls
             /\ bill.repairRounds = usage.repairRounds + one.repairRounds
             /\ bill.cost = usage.cost + one.cost
<1>1. Price[c] \in Nat
  BY CallsAssumption
<1> QED
  BY <1>1 DEF Billed, Usages, NoUsage

\* The three sums of UsageIsConfirmed.
Searches == [c \in Calls |-> Bill(c).searchCalls]
Rounds   == [c \in Calls |-> Bill(c).repairRounds]
Costs    == [c \in Calls |-> Bill(c).cost]

\* The record of UsageIsConfirmed, counter by counter.
UsageInParts ==
  /\ state.usage.steps = Len(job.stageResults)
  /\ state.usage.searchCalls = SumFunctionOnSet(Searches, Confirmed)
  /\ state.usage.repairRounds = SumFunctionOnSet(Rounds, Confirmed)
  /\ state.usage.cost = SumFunctionOnSet(Costs, Confirmed)

LEMMA UsageByParts == TypeOK => (UsageIsConfirmed <=> UsageInParts)
<1> SUFFICES ASSUME TypeOK PROVE UsageIsConfirmed <=> UsageInParts
  OBVIOUS
<1>1. state.usage = [steps        |-> state.usage.steps,
                     searchCalls  |-> state.usage.searchCalls,
                     repairRounds |-> state.usage.repairRounds,
                     cost         |-> state.usage.cost]
  BY DEF TypeOK, States, Usages
<1> QED
  BY <1>1 DEF UsageIsConfirmed, UsageInParts, Searches, Rounds, Costs

LEMMA ConfirmedFinite == IsFiniteSet(Confirmed)
  BY CallsAssumption, FS_Subset DEF Confirmed

\* What has been confirmed stays billed as it was.
LEMMA UsageKept ==
  ASSUME TypeOK, UsageIsConfirmed, TypeOK',
         state'.usage.searchCalls = state.usage.searchCalls,
         state'.usage.repairRounds = state.usage.repairRounds,
         state'.usage.cost = state.usage.cost,
         state'.usage.steps = Len(job'.stageResults),
         Confirmed' = Confirmed,
         \A c \in Confirmed : state'.calls[c] = state.calls[c]
  PROVE  UsageIsConfirmed'
<1>1. /\ \A c \in Confirmed : Searches'[c] = Searches[c]
      /\ \A c \in Confirmed : Rounds'[c] = Rounds[c]
      /\ \A c \in Confirmed : Costs'[c] = Costs[c]
  BY DEF Searches, Rounds, Costs, Bill, Confirmed
<1>2. /\ SumFunctionOnSet(Searches', Confirmed)
           = SumFunctionOnSet(Searches, Confirmed)
      /\ SumFunctionOnSet(Rounds', Confirmed)
           = SumFunctionOnSet(Rounds, Confirmed)
      /\ SumFunctionOnSet(Costs', Confirmed)
           = SumFunctionOnSet(Costs, Confirmed)
  BY <1>1, ConfirmedFinite, SumOfSame
<1>3. UsageInParts
  BY UsageByParts
<1>4. UsageInParts'
  BY <1>2, <1>3 DEF UsageInParts
<1> QED
  BY <1>4, UsageByParts, PTL

\* A confirmed answer adds its own bill and nothing else.
LEMMA UsageOfAnswer ==
  ASSUME IInv, CallConfirmed, TypeOK'
  PROVE  UsageIsConfirmed'
<1> DEFINE c == work.call
<1>1. c \in Calls /\ state.calls[c].status = "pending"
  BY CallingType DEF CallConfirmed, Answering, Calling, IInv, JournalInv
<1>2. PICK good \in BOOLEAN :
        state' = [state EXCEPT
                    !.calls[work.call].status = "completed",
                    !.calls[work.call].good = good,
                    !.usage = Billed(@, work.call, good)]
  BY DEF CallConfirmed
<1>3. /\ state'.calls[c].status = "completed" /\ state'.calls[c].good = good
      /\ \A d \in Calls : d # c => state'.calls[d] = state.calls[d]
      /\ state'.usage = Billed(state.usage, c, good)
      /\ job' = job
  <2>1. /\ state.calls \in [Calls -> Entries]
        /\ DOMAIN state = {"kind", "blocking", "calls", "usage"}
    BY DEF IInv, TypeOK, States
  <2>2. DOMAIN state.calls[c] = {"status", "good", "signature"}
    BY <1>1, <2>1 DEF Entries
  <2>3. state'.calls = [state.calls EXCEPT ![c].status = "completed",
                                           ![c].good = good]
    BY <1>2, <2>1
  <2>4. state'.usage = Billed(state.usage, c, good)
    BY <1>2, <2>1
  <2> QED
    BY <1>1, <2>1, <2>2, <2>3, <2>4 DEF CallConfirmed
<1> HIDE DEF c
<1>4. Confirmed' = Confirmed \cup {c} /\ c \notin Confirmed
  BY <1>1, <1>3 DEF Confirmed
<1>5. state.usage \in Usages /\ state'.usage \in Usages
  BY DEF IInv, TypeOK, States
<1> DEFINE one == Billed(NoUsage, c, good)
<1>6. /\ one.searchCalls \in Nat /\ one.repairRounds \in Nat /\ one.cost \in Nat
      /\ state'.usage.steps = state.usage.steps
      /\ state'.usage.searchCalls = state.usage.searchCalls + one.searchCalls
      /\ state'.usage.repairRounds = state.usage.repairRounds + one.repairRounds
      /\ state'.usage.cost = state.usage.cost + one.cost
  BY <1>1, <1>3, <1>5, BilledParts
<1>7. /\ Searches'[c] = one.searchCalls
      /\ Rounds'[c] = one.repairRounds
      /\ Costs'[c] = one.cost
  BY <1>1, <1>3 DEF Searches, Rounds, Costs, Bill
<1>8. \A d \in Confirmed : /\ Searches'[d] = Searches[d] /\ Searches[d] \in Nat
                           /\ Rounds'[d] = Rounds[d] /\ Rounds[d] \in Nat
                           /\ Costs'[d] = Costs[d] /\ Costs[d] \in Nat
  <2> TAKE d \in Confirmed
  <2>1. d \in Calls /\ d # c /\ state'.calls[d] = state.calls[d]
    BY <1>3, <1>4 DEF Confirmed
  <2>2. state.calls[d].good \in BOOLEAN
    BY <2>1 DEF IInv, TypeOK, States, Entries
  <2>3. Bill(d).searchCalls \in Nat /\ Bill(d).repairRounds \in Nat
        /\ Bill(d).cost \in Nat
    BY <1>5, <2>1, <2>2, BilledParts DEF Bill
  <2> QED
    BY <2>1, <2>3 DEF Searches, Rounds, Costs, Bill
<1> HIDE DEF one
<1>9. /\ SumFunctionOnSet(Searches', Confirmed \cup {c})
           = SumFunctionOnSet(Searches, Confirmed) + one.searchCalls
      /\ SumFunctionOnSet(Rounds', Confirmed \cup {c})
           = SumFunctionOnSet(Rounds, Confirmed) + one.repairRounds
      /\ SumFunctionOnSet(Costs', Confirmed \cup {c})
           = SumFunctionOnSet(Costs, Confirmed) + one.cost
  <2>1. ASSUME NEW f, NEW g, NEW n \in Nat, g[c] = n,
               \A d \in Confirmed : g[d] = f[d] /\ f[d] \in Nat
        PROVE  SumFunctionOnSet(g, Confirmed \cup {c})
                 = SumFunctionOnSet(f, Confirmed) + n
    <3>1. c \notin Confirmed /\ IsFiniteSet(Confirmed) /\ g[c] \in Nat
      BY <1>4, <2>1, ConfirmedFinite
    <3>2. SumFunctionOnSet(g, Confirmed \cup {c})
            = SumFunctionOnSet(f, Confirmed) + g[c]
      BY <2>1, <3>1, SumGrows
    <3> QED
      BY <2>1, <3>2
  <2>2. SumFunctionOnSet(Searches', Confirmed \cup {c})
          = SumFunctionOnSet(Searches, Confirmed) + one.searchCalls
    BY <1>6, <1>7, <1>8, <2>1
  <2>3. SumFunctionOnSet(Rounds', Confirmed \cup {c})
          = SumFunctionOnSet(Rounds, Confirmed) + one.repairRounds
    BY <1>6, <1>7, <1>8, <2>1
  <2>4. SumFunctionOnSet(Costs', Confirmed \cup {c})
          = SumFunctionOnSet(Costs, Confirmed) + one.cost
    BY <1>6, <1>7, <1>8, <2>1
  <2> QED
    BY <2>2, <2>3, <2>4
<1>10. UsageInParts
  BY UsageByParts DEF IInv
<1>11. UsageInParts'
  BY <1>3, <1>4, <1>6, <1>9, <1>10 DEF UsageInParts
<1> QED
  BY <1>11, UsageByParts, PTL

LEMMA UsageStep == IInv /\ [Next]_vars => UsageIsConfirmed'
<1> SUFFICES ASSUME IInv, [Next]_vars PROVE UsageIsConfirmed'
  OBVIOUS
<1>0. TypeOK /\ TypeOK' /\ UsageIsConfirmed /\ state.usage \in Usages
  BY TypeStep DEF IInv, TypeOK, States
<1>1. state.usage.steps = Len(job.stageResults)
  BY <1>0, UsageByParts DEF UsageInParts
<1>2. CASE /\ state'.usage = state.usage
           /\ state'.calls = state.calls
           /\ job'.stageResults = job.stageResults
  <2>1. Confirmed' = Confirmed
    BY <1>2 DEF Confirmed
  <2> QED
    BY <1>0, <1>1, <1>2, <2>1, UsageKept
<1>3. CASE CommitStage
  <2>1. /\ state'.calls = state.calls
        /\ state'.usage.searchCalls = state.usage.searchCalls
        /\ state'.usage.repairRounds = state.usage.repairRounds
        /\ state'.usage.cost = state.usage.cost
        /\ state'.usage.steps = state.usage.steps + 1
        /\ job'.stageResults = Append(job.stageResults, run.stage)
    BY <1>0, <1>3 DEF CommitStage, TypeOK, States, Usages, Jobs
  <2>2. Len(job'.stageResults) = Len(job.stageResults) + 1
    BY <1>0, <2>1 DEF TypeOK, Jobs
  <2>3. Confirmed' = Confirmed
    BY <2>1 DEF Confirmed
  <2> QED
    BY <1>0, <1>1, <2>1, <2>2, <2>3, UsageKept
<1>4. CASE CallJournaled
  <2>1. NextCall \in Calls /\ state.calls[NextCall].status = "none"
    BY <1>4, NextCallType DEF CallJournaled, WantsCall, IInv, OwnershipInv
  <2>2. /\ state'.usage = state.usage /\ job' = job
        /\ state'.calls[NextCall].status = "pending"
        /\ \A d \in Calls : d # NextCall => state'.calls[d] = state.calls[d]
    BY <1>0, <1>4, <2>1 DEF CallJournaled, TypeOK, States
  <2> HIDE DEF NextCall
  <2>3. /\ Confirmed' = Confirmed
        /\ \A d \in Confirmed : state'.calls[d] = state.calls[d]
    BY <2>1, <2>2 DEF Confirmed
  <2> QED
    BY <1>0, <1>1, <2>2, <2>3, UsageKept
<1>5. CASE CallConfirmed
  BY <1>0, <1>5, UsageOfAnswer
<1>6. CASE Http \/ Timeout \/ Expire \/ Crash \/ Restart
  BY <1>0, <1>2, <1>6
     DEF Http, Create, CreateReplan, Resume, Cancel, Timeout, Expire, Crash,
         Restart, Recovered, TypeOK, Jobs
<1>7. CASE AttachReplan
  BY <1>0, <1>2, <1>7 DEF AttachReplan, TypeOK, States
<1>8. CASE \/ AttachRefused \/ Start \/ LoopEnds \/ Complete \/ WaitForKey
           \/ BeginStage \/ StageRejected \/ ResultDropped \/ ResultTooLate \/ ResultInvalid
           \/ Settle
  BY <1>0, <1>2, <1>8
     DEF AttachRefused, Start, LoopEnds, Complete, WaitForKey, BeginStage,
         StageRejected, ResultDropped, ResultTooLate, ResultInvalid, FailsWith,
         Settle, TypeOK, Jobs
<1>9. CASE \/ CallRefused \/ CallReplayed \/ CallSent \/ HandlerDone
           \/ RequirementsInvalid \/ CallUnconfirmed \/ CallFailed
  BY <1>2, <1>9
     DEF CallRefused, CallReplayed, CallSent, HandlerDone, RequirementsInvalid,
         CallUnconfirmed, CallFailed
<1>10. CASE UNCHANGED vars
  BY <1>2, <1>10 DEF vars
<1> QED
  BY <1>3, <1>4, <1>5, <1>6, <1>7, <1>8, <1>9, <1>10
     DEF Next, Executor, Handler, Upstream

-----------------------------------------------------------------------------
(* The invariant, and what follows from it.                                *)

LEMMA InitInvariant == Init => IInv
<1> SUFFICES ASSUME Init PROVE IInv
  OBVIOUS
<1>1. TypeOK
  BY InitType
<1>2. OwnershipInv /\ RowInv /\ BudgetInv /\ KeyInv
  BY DEF Init, NoRun, IdleWork, OwnershipInv, RowInv, BudgetInv, KeyInv, RunIn,
         Calling
<1>3. JournalInv /\ SentAtMostOnce
  BY DEF Init, IdleWork, JournalInv, SentAtMostOnce, Calling
<1>4. WithinPolicy
  <2>1. state.usage = NoUsage
    BY DEF Init
  <2> QED
    BY <2>1, LimitsAssumption DEF NoUsage, WithinPolicy
<1>5. NeverStranded
  BY DEF Init, NeverStranded
<1>6. KeyDiscipline
  BY DEF Init, NoRun, IdleWork, KeyDiscipline
<1>7. \A c \in Calls : state.calls[c].status = "none"
  BY DEF Init, NoEntry
<1>8. Confirmed = {} /\ Unconfirmed = {}
  BY <1>7 DEF Confirmed, Unconfirmed
<1>9. ProgressInv /\ PositionInv /\ UnconfirmedOnlyInRepair
  <2>1. \A stage \in Stages : Script["plan"][stage] \in Seq(Calls)
    BY ScriptAssumption DEF Kinds
  <2>2. state.kind = "plan"
    BY DEF Init
  <2>3. ProgressInv
    BY <1>7, <1>8, <2>1, <2>2 DEF ProgressInv
  <2>4. PositionInv
    BY DEF Init, NoRun, IdleWork, PositionInv, Calling
  <2> QED
    BY <1>8, <2>3, <2>4 DEF UnconfirmedOnlyInRepair
<1>10. UsageIsConfirmed
  <2>1. state.usage = NoUsage /\ Len(job.stageResults) = 0
    BY DEF Init
  <2>2. \A f : SumFunctionOnSet(f, Confirmed) = 0
    BY <1>8, SumOfNothing
  <2>3. UsageInParts
    BY <2>1, <2>2 DEF UsageInParts, NoUsage
  <2> QED
    BY <1>1, <2>3, UsageByParts
<1> QED
  BY <1>1, <1>2, <1>3, <1>4, <1>5, <1>6, <1>9, <1>10 DEF IInv

LEMMA InvariantStep == IInv /\ [Next]_vars => IInv'
<1> SUFFICES ASSUME IInv, [Next]_vars PROVE IInv'
  OBVIOUS
<1>1. TypeOK' /\ OwnershipInv' /\ RowInv' /\ KeyInv'
  BY TypeStep, OwnershipStep, RowStep, KeyStep
<1>2. JournalInv' /\ SentAtMostOnce' /\ BudgetInv' /\ WithinPolicy'
  BY JournalStep, BudgetStep
<1>3. NeverStranded'
  BY StrandedStep
<1>4. KeyDiscipline'
  <2>1. KeyReturned'
    BY KeyGivenBack
  <2> QED
    BY <1>1, <1>2, <2>1, KeyFollows, PTL
<1>5. ProgressInv' /\ PositionInv' /\ UnconfirmedOnlyInRepair'
  BY ProgressStep, PositionStep
<1>6. UsageIsConfirmed'
  BY UsageStep
<1> QED
  BY <1>1, <1>2, <1>3, <1>4, <1>5, <1>6 DEF IInv

\* Process, row, journal and budget agree in every reachable state.
THEOREM InvariantHolds == Spec => []IInv
  BY InitInvariant, InvariantStep, PTL DEF Spec

\* Every variable always has its type.
THEOREM TypeCorrect == Spec => []TypeOK
<1>1. IInv => TypeOK
  BY DEF IInv
<1> QED
  BY <1>1, InvariantHolds, PTL

\* No external call is made twice, for any script of calls, any number of
\* crashes, restarts into other deployments, resumes and replays.
THEOREM NothingSentTwice == Spec => []SentAtMostOnce
<1>1. IInv => SentAtMostOnce
  BY DEF IInv
<1> QED
  BY <1>1, InvariantHolds, PTL

\* Confirmed usage never passes a limit by more than the call that was admitted
\* below it.
THEOREM BudgetHolds == Spec => []WithinPolicy
<1>1. IInv => WithinPolicy
  BY DEF IInv
<1> QED
  BY <1>1, InvariantHolds, PTL

\* Whatever crashes, resumes and replays happen, the bill is the committed
\* stages and the confirmed calls, each counted once.
THEOREM BillIsExact == Spec => []UsageIsConfirmed
<1>1. IInv => UsageIsConfirmed
  BY DEF IInv
<1> QED
  BY <1>1, InvariantHolds, PTL

\* At most one call of a job is left unconfirmed, but for the rounds of the
\* repair, however often the process dies and whatever it is resumed with.
THEOREM OneCallUnconfirmed == Spec => []UnconfirmedOnlyInRepair
<1>1. IInv => UnconfirmedOnlyInRepair
  BY DEF IInv
<1> QED
  BY <1>1, InvariantHolds, PTL

\* No unfinished job of a running process is left to nobody.
THEOREM NothingStranded == Spec => []NeverStranded
<1>1. IInv => NeverStranded
  BY DEF IInv
<1> QED
  BY <1>1, InvariantHolds, PTL

\* The key does not outlive the run, and every call that needs it has it.
THEOREM KeyIsHandled == Spec => []KeyDiscipline
<1>1. IInv => KeyDiscipline
  BY DEF IInv
<1> QED
  BY <1>1, InvariantHolds, PTL

\* A request leaves only for a stage under way that nobody stopped.
THEOREM StoppedJobsCallNothing == Spec => NoCallAfterStop
<1>1. ASSUME IInv, [Next]_vars, sent' # sent
      PROVE  /\ job.status = "running"
             /\ run.pc = "staged"
             /\ run.aborted = None
             /\ ~expired
  <2>1. CallSent
    <3>1. CASE Http \/ Executor
      BY <1>1, <3>1
         DEF Http, Create, CreateReplan, Resume, Cancel, Executor, AttachReplan,
             AttachRefused, Start, LoopEnds, Complete, WaitForKey, BeginStage,
             StageRejected, ResultDropped, ResultTooLate, ResultInvalid, FailsWith,
             CommitStage, Settle
    <3>2. CASE Handler \/ Upstream
      BY <1>1, <3>2
         DEF Handler, CallRefused, CallReplayed, CallJournaled, HandlerDone,
             RequirementsInvalid, Upstream, CallConfirmed, CallUnconfirmed,
             CallFailed
    <3>3. CASE Timeout \/ Expire \/ Crash \/ Restart
      BY <1>1, <3>3 DEF Timeout, Expire, Crash, Restart
    <3> QED
      BY <1>1, <3>1, <3>2, <3>3 DEF Next, vars
  <2>2. work.pc = "journaled"
    BY <2>1 DEF CallSent
  <2> QED
    BY <1>1, <2>2 DEF IInv, OwnershipInv, RowInv, RunIn
<1> QED
  BY <1>1, InvariantHolds, PTL DEF NoCallAfterStop, Spec

\* A finished job stays as it is: late answers, handlers that outlived their
\* run, timers, repeated cancels and restarts change nothing of it.
THEOREM FinishedStaysFinal == Spec => FinishedIsFinal
<1>1. ASSUME IInv, [Next]_vars, Finished
      PROVE  UNCHANGED <<job, state>>
  <2> USE DEF Finished
  <2>1. CASE Http
    <3>1. ~AttachReplan
      BY <1>1 DEF AttachReplan, IInv, OwnershipInv
    <3> QED
      BY <1>1, <2>1 DEF Http, Create, CreateReplan, Resume, Cancel
  <2>2. CASE Executor
    <3>1. ~AttachReplan
      BY <1>1 DEF AttachReplan, IInv, OwnershipInv
    <3>2. ~CommitStage
      BY <1>1 DEF CommitStage, Committable, IInv, RowInv, RunIn
    <3>3. CASE AttachRefused \/ Start \/ LoopEnds \/ ResultDropped \/ Settle
      BY <3>3 DEF AttachRefused, Start, LoopEnds, ResultDropped, Settle
    <3>4. CASE StageRejected \/ ResultTooLate \/ ResultInvalid
      BY <1>1, <3>4 DEF StageRejected, ResultTooLate, ResultInvalid, FailsWith
    <3>5. ~Looping
      BY <1>1 DEF Looping
    <3> QED
      BY <2>2, <3>1, <3>2, <3>3, <3>4, <3>5
         DEF Executor, Complete, WaitForKey, BeginStage
  <2>3. CASE Handler \/ Upstream
    <3>1. (work.pc # "idle" /\ run.aborted = None) => job.status = "running"
      BY <1>1 DEF IInv, OwnershipInv, RowInv, RunIn
    <3>2. ~CallJournaled
      BY <1>1, <3>1 DEF CallJournaled, WantsCall, Refusal
    <3>3. ~CallConfirmed
      BY <1>1, <3>1 DEF CallConfirmed, Answering
    <3> QED
      BY <2>3, <3>2, <3>3
         DEF Handler, CallRefused, CallReplayed, CallSent, HandlerDone,
             RequirementsInvalid, Upstream, CallUnconfirmed, CallFailed
  <2>4. CASE Timeout \/ Expire \/ Crash \/ Restart
    BY <1>1, <2>4 DEF Timeout, Expire, Crash, Restart
  <2>5. CASE UNCHANGED vars
    BY <2>5 DEF vars
  <2> QED
    BY <1>1, <2>1, <2>2, <2>3, <2>4, <2>5 DEF Next
<1> QED
  BY <1>1, InvariantHolds, PTL DEF FinishedIsFinal, Spec

-----------------------------------------------------------------------------
(* The job implements JobLifecycle.                                        *)

\* The instance has its own copy of the vocabulary of Lifecycle: it is the same.
LEMMA SameVocabulary ==
  /\ Abstract!None = None /\ Abstract!Absent = Absent
  /\ Abstract!Stages = Stages /\ Abstract!Open = Open
  /\ Abstract!transitions = transitions
  /\ \A r : Abstract!Recorded(r) = Recorded(r)
  /\ \A s, r : Abstract!nextPlanningStage(s, None, r)
                 = nextPlanningStage(s, None, r)
<1>1. Abstract!PLANNING_STAGES = PLANNING_STAGES
  BY DEF Abstract!PLANNING_STAGES, PLANNING_STAGES
<1>2. \A r : Abstract!Recorded(r) = Recorded(r)
  BY DEF Abstract!Recorded, Recorded
<1>3. \A s, r : Abstract!nextPlanningStage(s, None, r)
                 = nextPlanningStage(s, None, r)
  BY Zenon
     DEF Abstract!nextPlanningStage, nextPlanningStage, Abstract!None,
         Abstract!Terminal, Abstract!Recorded, Recorded,
         Abstract!PLANNING_STAGES, PLANNING_STAGES
<1>4. Abstract!Stages = Stages
  BY <1>1 DEF Abstract!Stages, Stages
<1>5. Abstract!transitions = transitions
  BY DEF Abstract!transitions, transitions
<1> QED
  BY <1>2, <1>3, <1>4, <1>5 DEF Abstract!None, Abstract!Absent, Abstract!Open

LEMMA InitImplements == Init => Abstract!Init
  BY SameVocabulary DEF Init, Abstract!Init

\* A stage is committed in the documented order.
LEMMA CommitImplements ==
  ASSUME IInv, CommitStage
  PROVE  Abstract!FinishStage
<1>1. /\ job.status = "running"
      /\ run.stage \in Stages
      /\ run.stage = nextPlanningStage(job.status, None, job.stageResults)
  BY DEF IInv, RowInv, RunIn, CommitStage, Committable
<1>2. /\ job'.status = job.status
      /\ job'.stageResults = Append(job.stageResults, run.stage)
  BY DEF CommitStage, IInv, TypeOK, Jobs
<1> QED
  BY <1>1, <1>2, NoneIsNoStage, SameVocabulary DEF Abstract!FinishStage

\* The executor completes only a job with all its results.
LEMMA CompleteImplements ==
  ASSUME IInv, Complete
  PROVE  Abstract!Complete
<1>1. job.currentStage = None /\ job.status \notin Terminal
  BY DEF Complete, Looping, IInv, RowInv, RunIn, Finished
<1>2. /\ job.status \in Statuses \cup {Absent}
      /\ job.stageResults \in Seq(Stages)
  BY DEF IInv, TypeOK, Jobs
<1>3. nextPlanningStage(job.status, None, job.stageResults) = None
  BY <1>1 DEF Complete, NextStage
<1>4. Recorded(job.stageResults) = Stages
  BY <1>1, <1>2, <1>3, NextStageType
<1>5. job.status \in {"queued", "running"}
  BY <1>1, <1>2, <1>3 DEF IInv, RowInv, OwnershipInv, Complete, Looping
<1>6. job'.status = "completed" /\ job'.stageResults = job.stageResults
  BY DEF Complete, IInv, TypeOK, Jobs
<1> QED
  BY <1>4, <1>5, <1>6, SameVocabulary DEF Abstract!Complete

\* A status change along the table is a step of the abstract job.
LEMMA MoveImplements ==
  ASSUME job.status \in Statuses,
         job'.status \in transitions[job.status] \ {"completed"},
         job'.stageResults = job.stageResults
  PROVE  Abstract!Next
  BY SameVocabulary DEF Abstract!Next, Abstract!Move

LEMMA StepImplements == IInv /\ [Next]_vars => [Abstract!Next]_(Abstract!vars)
<1> SUFFICES ASSUME IInv, [Next]_vars
             PROVE  Abstract!Next \/ UNCHANGED Abstract!vars
  OBVIOUS
<1>1. job \in Jobs
  BY DEF IInv, TypeOK
<1> USE DEF Abstract!vars, Finished
<1>2. CASE Create \/ CreateReplan
  BY <1>1, <1>2, SameVocabulary
     DEF Create, CreateReplan, Jobs, Abstract!Next, Abstract!Create
<1>3. CASE Cancel
  <2>1. job.status \in Open /\ job'.status = "cancelled"
    BY <1>1, <1>3 DEF Cancel, Jobs
  <2>2. "cancelled" \in transitions[job.status] \ {"completed"}
    BY <2>1 DEF transitions
  <2>3. job'.stageResults = job.stageResults
    BY <1>1, <1>3 DEF Cancel, Jobs
  <2> QED
    BY <2>1, <2>2, <2>3, MoveImplements
<1>4. CASE WaitForKey
  <2>1. /\ job'.status = "waiting_for_credentials"
        /\ job'.stageResults = job.stageResults
    BY <1>1, <1>4 DEF WaitForKey, Jobs
  <2>2. CASE job.status = "waiting_for_credentials"
    BY <2>1, <2>2
  <2>3. CASE job.status # "waiting_for_credentials"
    <3>1. job.status \in {"queued", "running"}
      BY <1>1, <1>4, <2>3 DEF WaitForKey, Looping, Jobs, IInv, OwnershipInv
    <3>2. "waiting_for_credentials" \in transitions[job.status] \ {"completed"}
      BY <3>1 DEF transitions
    <3> QED
      BY <2>1, <3>1, <3>2, MoveImplements
  <2> QED
    BY <2>2, <2>3
<1>5. CASE BeginStage
  <2>1. job'.status = "running" /\ job'.stageResults = job.stageResults
    BY <1>1, <1>5 DEF BeginStage, Jobs
  <2>2. CASE job.status = "running"
    BY <2>1, <2>2
  <2>3. CASE job.status # "running"
    <3>1. job.status \in {"queued", "waiting_for_credentials"}
      BY <1>1, <1>5, <2>3 DEF BeginStage, Looping, Jobs, IInv, OwnershipInv
    <3>2. "running" \in transitions[job.status] \ {"completed"}
      BY <3>1 DEF transitions
    <3> QED
      BY <2>1, <3>1, <3>2, MoveImplements
  <2> QED
    BY <2>2, <2>3
<1>6. CASE StageRejected \/ ResultTooLate \/ ResultInvalid
  <2>1. CASE expired \/ Finished
    BY <1>6, <2>1 DEF StageRejected, ResultTooLate, ResultInvalid, FailsWith
  <2>2. CASE ~expired /\ ~Finished
    <3>1. job.status = "running"
      BY <1>6, <2>2 DEF StageRejected, ResultTooLate, ResultInvalid,
                        Committable, IInv, RowInv, RunIn
    <3>2. job'.status = "failed" /\ job'.stageResults = job.stageResults
      BY <1>1, <1>6, <2>2
         DEF StageRejected, ResultTooLate, ResultInvalid, FailsWith, Jobs
    <3>3. "failed" \in transitions[job.status] \ {"completed"}
      BY <3>1 DEF transitions
    <3> QED
      BY <3>1, <3>2, <3>3, MoveImplements
  <2> QED
    BY <2>1, <2>2
<1>7. CASE CommitStage
  BY <1>7, CommitImplements DEF Abstract!Next
<1>8. CASE Complete
  BY <1>8, CompleteImplements DEF Abstract!Next
<1>9. CASE Restart
  BY <1>1, <1>9, SameVocabulary
     DEF Restart, Recovered, Jobs, Abstract!Next, Abstract!Recover
<1>10. CASE \/ Resume \/ AttachReplan \/ AttachRefused \/ Start \/ LoopEnds
            \/ ResultDropped \/ Settle \/ Timeout \/ Expire \/ Crash
  BY <1>10 DEF Resume, AttachReplan, AttachRefused, Start, LoopEnds,
               ResultDropped, Settle, Timeout, Expire, Crash
<1>11. CASE Handler \/ Upstream
  BY <1>11
     DEF Handler, CallRefused, CallReplayed, CallJournaled, CallSent,
         HandlerDone, RequirementsInvalid, Upstream, CallConfirmed,
         CallUnconfirmed, CallFailed
<1>12. CASE UNCHANGED vars
  BY <1>12 DEF vars
<1> QED
  BY <1>2, <1>3, <1>4, <1>5, <1>6, <1>7, <1>8, <1>9, <1>10, <1>11, <1>12
     DEF Next, Http, Executor

\* Under the mapping of ImplementsLifecycle every step of the detailed job is a
\* step of the abstract one, or leaves it alone.
THEOREM Refinement == Spec => ImplementsLifecycle
  BY InitImplements, StepImplements, InvariantHolds, PTL
     DEF Spec, ImplementsLifecycle, Abstract!Spec
=============================================================================
