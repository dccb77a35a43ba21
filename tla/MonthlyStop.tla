---------------------------- MODULE MonthlyStop ----------------------------
(***************************************************************************)
(* Until when the owner's money is spent: the monthly stop of              *)
(* domain/usage.ts as the feature gate of security/guard.ts asks it for    *)
(* creation and resumption of jobs, and the cost ledger that the           *)
(* executor's confirmed calls fill.  Admission by quota is left to         *)
(* RateLimits: a request the quota refuses changes nothing here.           *)
(***************************************************************************)
EXTENDS Integers, FiniteSets, Functions

CONSTANTS
    Jobs,        \* planning jobs
    CallsPerJob, \* charged calls a job makes at most, one unit each
    Stop,        \* ownerMonthlyStopCny, in units
    LastMonth,   \* bound: months explored are 0 .. LastMonth
    NoJob        \* no booking due

VARIABLES
    month,   \* localMonth
    open,    \* the flag and the regression file allow generation
    ledger,  \* product_cost_ledger, summed by month
    asking,  \* jobs with a request that passed the guard and is not handled
    run,     \* job -> "none", "running" or "waiting"
    spent,   \* job -> charged calls confirmed in its state
    booking, \* the job whose confirmed cost is not in the ledger yet
    lost,    \* history: costs confirmed and never booked
    grace    \* history: jobs at work without a break since this month's stop

monthlyVars ==
    <<month, open, ledger, asking, run, spent, booking, lost, grace>>

Running == {j \in Jobs : run[j] = "running"}

\* A job that runs, or may begin to without passing the guard again.
AtWork == Running \cup asking

MonthlyInit ==
    /\ month = 0
    /\ open = TRUE
    /\ ledger = [m \in 0 .. LastMonth |-> 0]
    /\ asking = {}
    /\ run = [j \in Jobs |-> "none"]
    /\ spent = [j \in Jobs |-> 0]
    /\ booking = NoJob
    /\ lost = 0
    /\ grace = {}

\* Fault: only creation is asked about the month's cost.
MayGenerateNew(j) ==
    open /\ (run[j] = "none" => ledger[month] < Stop)

\* featureGate, canStartNewGeneration, evaluateOwnerMonthlyCost: the regression
\* file and the flag, then the month's booked cost below the stop.
MayGenerate(j) == open /\ ledger[month] < Stop

\* protect: a request to create, resume or replan a job passes the guard, and
\* the handler waits for the request's body.
Admit(j) ==
    /\ booking = NoJob
    /\ MayGenerate(j)
    /\ asking' = asking \cup {j}
    /\ UNCHANGED <<month, open, ledger, run, spent, booking, lost, grace>>

\* The body is there: the job is created, or the waiting one resumed, whatever
\* the month has cost by then; a job at work answers that it does not wait.
\* Another request for the job may still be under way.
Handle(j) ==
    /\ booking = NoJob
    /\ j \in asking
    /\ run' = [run EXCEPT ![j] = "running"]
    /\ asking' \in {asking, asking \ {j}}
    /\ UNCHANGED <<month, open, ledger, spent, booking, lost, grace>>

\* The body is invalid, the job is gone or the process dies: nothing begins.
Drop(j) ==
    /\ booking = NoJob
    /\ j \in asking
    /\ asking' = asking \ {j}
    /\ UNCHANGED <<month, open, ledger, run, spent, booking, lost>>
    /\ grace' = grace \cap AtWork'

\* A running job stops at a checkpoint or fails; it may be resumed.
Wait(j) ==
    /\ booking = NoJob
    /\ run[j] = "running"
    /\ run' = [run EXCEPT ![j] = "waiting"]
    /\ UNCHANGED <<month, open, ledger, asking, spent, booking, lost>>
    /\ grace' = grace \cap AtWork'

\* once: a call's answer and its cost are saved in the job's state ...
Confirm(j) ==
    /\ booking = NoJob
    /\ run[j] = "running"
    /\ spent[j] < CallsPerJob
    /\ spent' = [spent EXCEPT ![j] = @ + 1]
    /\ booking' = j
    /\ UNCHANGED <<month, open, ledger, asking, run, lost, grace>>

\* Fault: a booking is retried although it was made.
BookRetried ==
    /\ booking # NoJob
    /\ ledger' = [ledger EXCEPT ![month] = @ + 1]
    /\ booking' \in {booking, NoJob}
    /\ UNCHANGED <<month, open, asking, run, spent, lost, grace>>

\* ... and then recordProductCost books the difference to the current month.
Book ==
    /\ booking # NoJob
    /\ ledger' = [ledger EXCEPT ![month] = @ + 1]
    /\ booking' = NoJob
    /\ grace' = IF ledger'[month] = Stop THEN AtWork ELSE grace
    /\ UNCHANGED <<month, open, asking, run, spent, lost>>

\* The process dies in between, or the ledger refuses the row: the call counts
\* as confirmed from then on and its cost is never booked.  Recovered jobs run
\* again without passing the guard, the requests under way are gone.
LoseBooking ==
    /\ booking # NoJob
    /\ booking' = NoJob
    /\ lost' = lost + 1
    /\ asking' \in {asking, {}}
    /\ UNCHANGED <<month, open, ledger, run, spent>>
    /\ grace' = grace \cap AtWork'

\* The owner turns the flag, or the regression file changes.
Switch ==
    /\ booking = NoJob
    /\ open' = ~open
    /\ UNCHANGED <<month, ledger, asking, run, spent, booking, lost, grace>>

\* A month ends; a call confirmed before may be booked after.
NextMonth ==
    /\ month < LastMonth
    /\ month' = month + 1
    /\ grace' = {}
    /\ UNCHANGED <<open, ledger, asking, run, spent, booking, lost>>

MonthlyNext ==
    \/ \E j \in Jobs :
          Admit(j) \/ Handle(j) \/ Drop(j) \/ Wait(j) \/ Confirm(j)
    \/ Book \/ LoseBooking \/ Switch \/ NextMonth

MonthlySpec == MonthlyInit /\ [][MonthlyNext]_monthlyVars

-----------------------------------------------------------------------------
(* Properties *)

\* Costs confirmed that the ledger does not hold yet, and those it never will.
Unbooked == lost + (IF booking = NoJob THEN 0 ELSE 1)

\* The monthly stop: once a month has cost what it may, a job is at work only if
\* it was at that moment, running or with a request the guard had let in, and
\* has been ever since; one that waits with no such request does not come back
\* before the month is over.  (featureGate asks before the handler reads the
\* body, so a request let in before the stop still begins a job after it.)
StopHolds ==
    ledger[month] >= Stop => AtWork \subseteq grace

\* The ledger lags the jobs by what is being booked and by what crashes lost,
\* and never holds a cost twice.  (executor once, recordProductCost)
LedgerIsSpent ==
    SumFunctionOnSet(ledger, 0 .. LastMonth) + Unbooked
        = SumFunctionOnSet(spent, Jobs)

\* For the proof: nothing is booked in a month to come.
StopInv ==
    /\ month \in 0 .. LastMonth
    /\ ledger \in [0 .. LastMonth -> Nat]
    /\ \A m \in 0 .. LastMonth : m > month => ledger[m] = 0
    /\ asking \subseteq Jobs
    /\ run \in [Jobs -> {"none", "running", "waiting"}]
    /\ StopHolds

\* For the proof: what is confirmed is counted in each job, and a booking that is
\* due belongs to one of them.
LedgerInv ==
    /\ month \in 0 .. LastMonth
    /\ ledger \in [0 .. LastMonth -> Nat]
    /\ spent \in [Jobs -> Nat]
    /\ booking \in Jobs \cup {NoJob}
    /\ lost \in Nat
    /\ LedgerIsSpent
=============================================================================
