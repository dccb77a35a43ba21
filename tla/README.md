# A verified model of the travelling agent

The travelling agent is a Next.js application that plans city trips. A visitor
fills in a form, brings a DeepSeek key of their own, and a *planning job* on the
server turns the brief into a trip: it calls the model, searches, map tools and
a repair loop in seven fixed stages, reports numbered progress events, and the
finished trip is kept in the visitor's browser, where it is edited, replanned
in part, undone and exported. The server keeps a job for 24 hours in SQLite and
never stores the key.

This directory holds TLA+ models of the parts of that program in which the
order of things matters, the TLC configurations that check them on small
instances, and TLAPS proofs of what holds for every instance. `PROJECT.json`
lists components, runs, seeded faults, the lines each definition models, hazards,
findings and theorems. Paths below are relative to the repository's `src/`.

Run from this directory:

    tlasany PlanningJobs.tla
    tlc -workers 2 -config MCPlanningJobs.cfg MCPlanningJobs
    tlapm PlanningJobs_proofs.tla

## 1. The system

| Part | State it keeps | Operations | Talks to |
|---|---|---|---|
| Job lifecycle (`jobs/lifecycle.ts`) | none (a table and a list) | allowed status changes, next stage | executor, service, pages |
| Executor (`jobs/executor.ts`, `jobs/runtime.ts`) | `active`: job id -> controller and promise; the key of each run | run, execute, `once`, cancel, recover | HTTP handlers call it; it calls stage handlers and the execution store |
| Execution store (`jobs/execution-store.ts`) | SQLite: the job row, its execution state (results, issues, call journal, usage), numbered events | create, save, update, recover, events | executor, HTTP |
| HTTP handlers (`jobs/http.ts`, `trips/http.ts`) | none | create, create a replan, get, stream events, resume, cancel | pages; executor |
| Job service (`jobs/service.ts`) | the row's version number | create; transition, begin/complete stage, cancel, recover (used by tests only) | store |
| Pipelines (`agent/pipeline.ts`, `agent/skeleton.ts`, `agent/enrichment.ts`, `trips/replan-pipeline.ts`) | the trip under construction | one handler per stage | `once`, tools, model |
| Repair (`agent/repair.ts`, `trips/replan.ts`) | the best candidate | at most two rounds, swallowing errors | model, validation |
| Usage and policy (`domain/usage.ts`) | counters per job | record, evaluate, monthly stop | executor, guard |
| Tools and search (`agent/tools/registry.ts`, `search/source-evidence.ts`) | results by idempotency key, quotas, deadlines | invoke, replay | pipelines, Amap |
| DeepSeek client (`providers/deepseek/*`) | a stream parser's buffers | call, validate a key | pipelines |
| Persistence (`persistence/database.ts`, `repositories.ts`) | rows with expiry | put, get, cleanup, migrate | everything on the server |
| Browser trip store (`persistence/browser-store.ts`) | one envelope per trip: trip, previous, history | saveTrip, commitEdit, undoLast, loadTrip, clear | workspace, progress pages |
| Workspace and changes (`components/trip-workspace.tsx`, `trips/changes.ts`) | the trip a tab shows | minor change, major change -> replan, undo | browser store, HTTP |
| Progress page (`components/job-progress.tsx`) | cursor, latest view, shown view | read the stream, poll, resume, cancel, store the result | event stream, browser store |
| Request guard (`security/guard*.ts`, `rate-limit.ts`) | windows and counts per identity, monthly cost | admit, record | HTTP |
| Validation, evidence, requirements (`validation/trip.ts`, `evidence/*`, `requirements/service.ts`) | none (pure) | checks, claim resolution | pipelines, workspace |
| Sharing, feedback, analytics | token-addressed rows with expiry | publish, read, revoke, cleanup | HTTP |
| Maintenance (`maintenance/service.ts`) | database files | back up, rotate, restore | operator |
| Regression gate (`evaluation/regression.ts`) | a JSON file: model, status | observe, smoke, full | operator, key validator |
| Offline shell (`public/sw.js`, `offline/shell.ts`) | cache versions | install, activate, fetch | browser |

What is hard about it:

* **Concurrency.** The server is one JavaScript thread, but a stage is a long
  chain of awaits. A cancel, a timer, an expiry or another request runs between
  any two of them, and a stage handler that ignores the abort signal outlives
  the run it belonged to. In the browser, several tabs write one stored trip
  and several pages follow one job.
* **Failure.** The process may die between a journal entry and its answer,
  between the two transactions that create a replan, or between the last
  stage's commit and the completion of the row. Streams break, answers to
  commands are lost. The second transaction of a replan may throw when the first
  has stored its row.
* **Ordering.** Events are numbered and replayed from a cursor; a replayed
  history contains earlier waiting views of a job that has gone on.
* **Money.** Every external call may be charged: none may be made twice, none
  booked twice, and the policy is compared before a call and charged after it.

Properties that make each part correct, and their state in this project:

| Part | Correct when | Where |
|---|---|---|
| executor, journal | a call leaves at most once, is billed exactly when confirmed, never leaves after a stop | `PlanningJobs` |
| lifecycle | results grow in order and are never lost; finished is final; runs end; nobody is stranded, one refused replan apart (section 5) | `PlanningJobs`, `JobLifecycle` |
| key | lives no longer than its run; no model call without it | `PlanningJobs` |
| trip store | a version names one trip; no edit is lost to a stale tab or a slow replan; undo takes one change back | `BrowserTrips` |
| progress | events neither repeated nor missed; a page that stops is right; the final result arrives and is stored | `JobProgress` |
| guard | a window admits at most its limit, and a person who waits for the cookie three times that; once a month has cost what it may, only what the guard had let in before is at work | `RateLimits`, `MonthlyStop` |
| tools | a key names one answer and is billed once; a quota covers the calls made; whoever waits is answered | `ToolRegistry` |
| search | a verified fact was served by an official host, whatever redirects came before | `OfficialPages` |
| model client | an answer cut up anywhere means the same; an interruption is named for what interrupted | `ResponseStream` |
| regression gate | a model that was not tested never passes the gate | `ModelGate` |
| key in the browser | only a key that the server has accepted is called connected, used or remembered | `KeySession` |
| evidence | a claim resolves to what its own group's evidence says, and stays so | `Evidence`, `Claims` |
| validation, changes | a trip not called blocked can be walked, two kinds of booking apart (section 5); a change touches what it names and nothing locked | `TripValidation`, `TripEdits` |
| pipelines | a delivered trip rests on what was found; bookings are on their days and no other | `TripAssembly`, `Skeleton` |
| requirements | a brief found ready is found ready again until its trip starts | `Requirements` |
| sharing, maintenance, offline shell | section 6 | not modelled |

## 2. The modules

    Lifecycle          table, stages, nextPlanningStage (no state)
      JobLifecycle     abstract job: what its row promises
      PlanningJobs     detailed job; implements JobLifecycle
        MCPlanningJobs        instance for TLC
        PlanningJobs_proofs   theorems
      JobProgress      events, stream, pages
        MCJobProgress         instance for TLC
        JobProgress_proofs    theorems
    BrowserTrips       stored trip, tabs, replans
        MCBrowserTrips        instance for TLC
        BrowserTrips_proofs   theorems

    RateLimits         quotas            |
    MonthlyStop        the owner's money |  Guard_proofs
    ModelGate          regression file   |
    ToolRegistry       tools of a stage  |
    OfficialPages      search, fetch, verdict |  Tools_proofs
    ResponseStream     a streamed answer |
    KeySession         key in a tab      |  Form_proofs
    Requirements       form to brief     |
    Skeleton           plan and bookings |
    Evidence           claims
      Claims           observations that come in     |  Trip_proofs
      TripValidation   the hard validator
        TripAssembly   candidates to trip        |
        TripEdits      changes and replans       |  Trip_proofs
          MCTripEdits, MCTripAssembly   instances for TLC
        TripInstance   a trip for TLC
    PartInstances      the other instances for TLC
      MCServices       all of this block, side by side

    Basics             minutes, dates and filters, shared by the modules about trips
    FoldFacts          sums over finite sets, filters, folds and ends of lists, for the proofs

`JobProgress` and `PlanningJobs` share `Lifecycle`; `JobProgress` ends where
`BrowserTrips` begins (`CompletedIsStored` says that a trip is stored,
`BrowserTrips` what storing it does). The definitions whose comment begins with
"Fault:" are the forms plausible bugs would have. They stand before the
definition they would replace, are used in no specification, and serve to show
that each property can fail.

### PlanningJobs

One job, from its creation to its end. A job touches no state of another job
(the row, the state, the events and the entry in `active` are all keyed by its
id), so one job is enough; what jobs share, the monthly stop, is in
`MonthlyStop`.

| Variable | Code |
|---|---|
| `job` | the durable `PlanningJob` |
| `state` | the durable execution state: plan or replan, blocking issue, call journal, usage |
| `expired` | `expiresAt` has passed; every read answers null |
| `run` | the entry in `active` and the local variables of `execute` |
| `work` | the stage handler: waiting for what, where in its script |
| `server` | the process and which deployment it runs |
| `sent`, `orphans` | histories: requests that left, calls unanswered at a crash |
| `refused` | history: the request that stored the row was refused, and nobody has its token |

The actions follow the code: `Create`, `CreateReplan` + `AttachReplan` (two
transactions; `AttachRefused` when the second throws), `Resume`, `Cancel`; `Start`, `LoopEnds`, `Complete`,
`WaitForKey`, `BeginStage`, `StageRejected`, `ResultDropped`, `ResultTooLate`,
`ResultInvalid`, `CommitStage`, `Settle` are `execute`; `CallRefused`,
`CallReplayed`, `CallJournaled`, `CallSent`, `CallConfirmed`, `CallUnconfirmed`,
`CallFailed` are `once`; `HandlerDone` and `RequirementsInvalid` end a stage;
`Timeout`, `Expire`, `Crash`, `Restart` are time and the process.

`ThreadFree` is the condition under which another callback may run: no code is
in the middle of a synchronous stretch. Only `Crash` may come in between. Where
the code leaves a gap of microtasks only, the model lets a timer or request in
as well, which adds behaviours (`Timeout` with a stage already resolved or
rejected, `ResultTooLate`).

Simplifications a reader should know of:

* What a stage does is the list of external calls it makes (`Script`, by kind
  of job and stage) and what it makes of their errors. The list is fixed; the
  real one depends on earlier answers.
* The contents of trips, events and analytics are left out; an answer is good or
  not, and blocking issues remain or not. Token and cost limits are folded into
  one cost. Warnings at soft limits change nothing and are left out.
* The runtime is set up by the first request of a process; `Restart` is the new
  process together with that request. A restart may bring another deployment,
  and with it other inputs of the same call (`Signature`; the trusted hosts of
  `agent/enrichment.ts:192` are an example).
* A clock that runs backwards makes a result the schema refuses; that is
  `ResultInvalid`, together with the other reasons a commit is refused. The
  failure write of the catch block always succeeds in the model, and so does
  a tool call's own write. The writes of `create` fail before there is a row, or
  not at all.
* While an entry of `active` remains, a resume is answered but starts nothing:
  no step. A repeated cancel of a finished job only appends an event: no step.

### BrowserTrips

One trip in localStorage, the workspaces that show it, the page of the plan that
produced it and those of its replans. `stored` is the envelope (trip,
previous, history), `held` what each tab shows, `replans` the base and result of
each replan; `used` and `saves` are histories. Actions: `SavePlan`, `Open`,
`Edit`, `ConfirmReplan`, `EndReplan`, `AcceptReplan`, `Undo`, `Forget`.

A trip is its version and the set of changes it contains; that is what "an edit
is lost" needs and nothing more. A call into the store is one step with respect
to other tabs, as browsers provide in practice; the HTML standard does not
promise it, which is listed as a hazard without a property. A call that the
schema, the privacy filter or a full storage refuses writes nothing and is no
step.

The plan's own progress page stores the trip anew whenever it sees the finished
view (section 5), so the guarantees are stated with `saves`: they hold until it
does so a second time.

### JobProgress

One job as its pages learn of it. Every write of a job appends an event with the
view of that moment, so a view is the number of its event and `log` is the list
of statuses. `page` has the variables of the page's effect and component (phase,
`cursor`, the shown view, the answer to a poll, whether the trip is stored),
`conn` its stream (the server's cursor and what is under way), `asked` the
command whose answer is under way. Actions: `JobMoves`, `Restart`, `Expire`;
`Pump` and `Cut` for the stream; `Connect`, `ConnectFails`, `Deliver`,
`StreamEnds`, `StreamFails`, `Poll`, `PollFails`, `PollAnswered`, `Wait`,
`Cancel`, `Resume`, `Answered`, `AnswerLost`, `Reload` for a page.

`keyNeeded` keeps what the model needs of `PlanningJobs`: a job that waits for a
key goes on to nothing but waiting until it is resumed. A command that is
refused or lost on its way changes nothing and is no step; one whose answer is
lost is `AnswerLost`. An accepted resume reaches "running" in microtasks, before
any other request is served, so it is one step. `unaware` marks the pages that
had been told that the job rests when another page moved it on; they
have no way to learn it and are excepted where a property says so.

### RateLimits and MonthlyStop

`RateLimits` is the counters and salts of `security/rate-limit.ts` behind the
guard. `Request` is one request through `check` and `protect`: cookie, salt
of the local day, identity, counter, in the order and with the early ends of the
code; `ToolCall` is `consumeProduct`; `StartCleanup` and `Cleanup` are the
maintenance command, which reads the clock and gets the database later. The clock
moves by hours, never back. `admitted` and `names` are histories.

A new session goes out with the answer, after the handler, so `Request` only notes it
in `owed`: the browser has it with `TakeCookie`, or never (`AnswerLost`), and until
then asks without a cookie and is given another. The way of a request to the server is
part of its step; in which order requests with and without the cookie arrive, and in
which order answers do, is open. `trail` is a history that counts these requests and answers.

`MonthlyStop` is the ledger of all jobs. The guard asks for the month's cost (`Admit`),
then the handler awaits the request's body, so `Handle`, which creates, resumes or
replans the job, or `Drop`, when nothing comes of it, is a step of its own that asks
nothing; `asking` are the jobs with such a request. `Confirm` and `Book` are the two writes of
`once` (a crash in between is `LoseBooking`), `Switch` the flag and the file. `grace` is a
history: who was at work, running or asking, when this month's stop was
reached, and has been since.

### ModelGate

The file's state (`gate`), what the running command is going to write
(`pending`), and two histories: the models whose full regression passed since they
were observed, and those a missing or damaged file was begun with. `Command` is one
run of the script up to its write, `Write` the write or its loss.

### ToolRegistry

One registry, as a stage has it. A caller invokes once; `Refuse`,
`Disabled`, `BadArguments`, `Repeat` and `Execute` are the branches of `invoke` in
the order of its checks, `HandlerEnds`, `Deadline` and `Abort` what can settle
the race of a key, `Deliver` the answer to a caller. The map of executions and the
race's outcome are by key, as in the code; what a handler does is one of five ends.

### KeySession

The key of one tab: the form, the pages that resume and replan, the session
storage and the calls under way. `live` is `keyRevision === revision`, `here` that
the page which made the call is still mounted. `tried`, a history, has the keys
the server accepted a call with. The validator on the server is `Check`.

### Requirements, Skeleton

`Requirements` is `checkRequirements` and its two users, the form that asks and
the stage that asks again on the day the job runs. A date is a number of days; of
a field that only has to be answered it is kept whether it was. The bounds of
`TripBriefSchema` are `BriefParses`. `Skeleton` is what is accepted of a model's
plan and how bookings are put on its days.

### ResponseStream, OfficialPages

`ResponseStream` is one call of the model, `createResponse` with `ssePayloads`:
an answer without a body (`bodiless`) or a body of tokens (CR, LF, lines) that arrives in
pieces of any size, a buffer, whole blocks, and a settled outcome; deadline, abort and a broken connection at any step. How
a text is made Unix text (`Unix`) and split at its empty lines (`Split`) are folds of one
step (`UnixOne`, `SplitOne`). Bodies in which a CR directly follows a CR are left out
(`StreamAssumption`; section 4 says why).
`OfficialPages` is the candidate list of a search, the fetch with its redirects,
address checks, size limit and deadline, and the verdict on the page.

### Evidence, TripValidation, TripEdits, TripAssembly

`Evidence` is `normalizeEvidence` and `resolveClaim` as operators over lists of
observations; in `Claims` they come in one by one, as `collectEvidence` adds them, in
any order and any number. `TripValidation` is the validator as the set of issues it raises;
beside the translated checks stands the definition of a day that can be walked
(`Walkable`, `Reached`) that the properties use, written without looking at the
code's loops: `Reached` wants that one gets from the last main activity before a booking
to it in time to board, on a leg that still runs when that activity is over. `TripEdits` applies changes (`previewChange`, `commitChange`) and the
rounds of a replan to a stored trip. `TripAssembly` takes a plan of candidates
through `evidence_collection`, `route_and_budget`, `hard_validation`, the rounds of
repair and `finalization`. What the tools found is chosen from a set (`Findings`, one for
each id: a second call of an id is answered from the journal, or refused as
`CALL_CONFLICT` when it asks for something else, `src/jobs/executor.ts:241`): the places of
a search, the details of the one chosen, which replace what the search said of its place,
city and position, and a page with the names that stand in it, so that a page may name what
was asked for, what was found, or neither. Each way between two places has a route of its
own (`Routes`, with the buffer of its mode), to which seniors and children add, and notes on
mobility do not (`accompanied`; in the validator, `extra` has both). An issue has the date
its path names, because a repair may change the days of the issues by id and by date. What the
model answers is chosen from a set that includes answers that overstep.

These algorithms are states and actions only where the program keeps something
between two steps (the trip, the rounds, the claims gathered so far). Instants are
minutes, amounts hundredths of a yuan, texts members of small sets.

## 3. What is checked

| Run | Module, bounds | Question |
|---|---|---|
| `planning_job_safety` | 11 calls, 2 deployments, 2 crashes; 761 258 states | all safety properties of a job, the inductive invariant, that the job implements `JobLifecycle`, that runs end and jobs come to rest |
| `browser_trip_store` | 2 tabs, 3 edits, 2 replans, history of 2, versions to 5; 112 920 states | edits, versions, history, undo |
| `progress_pages` | 2 pages, 4 events; 2 190 209 states | numbering and stopping of two pages |
| `progress_page_liveness` | 1 page, 5 events, 1 reload; 164 845 states | the final result is shown and stored |
| `services` | twelve parts, below; 442 236 states | the properties of the parts that share no state with each other |
| seven violation runs | small versions of the above | section 5 |

`MCServices` checks the twelve parts in one run: in a behaviour one part moves
(`part`) and the others stay as they began, so that the states are the sum and not
the product of theirs. Nothing is lost by this: no part reads a variable
of another. Where parts of the program do share state, one module has them
all (jobs and their calls; tabs and replans; pages and streams; jobs and the ledger).

**Bounds, and why they are enough.**

* *PlanningJobs.* `MCScript` gives each stage the shortest list of calls that
  still has its cases: three searches against a limit of two, two repair rounds,
  a search whose input depends on the deployment, a tool in a stage without a
  key. `CostHardLimit` 7 is met in the middle of the job. Two crashes allow
  a crash during the replay that follows a crash. With two deployments the second
  run can differ from the first and the third return to it. `MaxSteps`
  12 is the code's value; seven stages never reach it, so its comparison in
  `evaluateUsage` is shown not to matter here rather than exercised.
* *BrowserTrips.* Two tabs and two replans have every pairwise race; three edits
  and a history of two (20 in the code) make the cut happen. `MaxVersion` stops
  changes, not the checks. Symmetry is over tabs, edits and replans, which the
  specification never tells apart; no liveness is checked with it.
* *JobProgress.* Four events are a job that waits, is resumed and ends, the
  shortest with two resting views; five add a restart or a second
  cancel. Two pages are what a resume behind the back of another needs.

* *RateLimits.* A day of two hours whose local midnight falls between two of the
  epoch's, one hourly request and two product calls a day, four hours: every window is
  filled, refused, left and cleaned up, on both sides of both midnights, with
  cookies that end. Four salts and two sessions are drawn at most, which is a browser with
  two requests under way, a second answer that replaces the first session, or a
  cookie that ends and is renewed; three identities and one more for a stray do occur.
* *MonthlyStop.* Two jobs of two calls against a stop of two, over two months: one
  job can reach the stop while the other waits, runs or has a request under way.
* *ModelGate.* Two models; the file appears, is lost and is written.
* *ToolRegistry.* Three callers under one key, two requests (one drawing on a quota
  of two): a repeat while the first is under way, one after it, and a conflict. Keys
  do not interact but by the quota, which the proof covers for any number.
* *KeySession.* A good and a bad key, two calls under way.
* *Evidence.* Lists of at most four observations out of ten: two groups, three kinds of
  source, two spellings and an absent value. A conflict needs two and a renamed
  id a third.
* *TripEdits.* A trip of three days with a train, a locked visit, a fallback, a leg to the
  train that a visit put later may miss; two
  changes, each of any kind of the page's, with a replan's two rounds in
  between (`MaxVersion` 3).
* *TripAssembly.* Three visits of a day and a transfer; places found once, twice, under
  another name, under one name in two cities or without a position, details that move a
  place, put it into another city or give it another name, pages that name what was asked
  for or what was found, with and without conditions, hours and price, a route found for one way and not for
  the other. Either the first visit varies or the other two do, so that there is always
  something right beside what is wrong. Trips that are executable, with details that replaced
  the search's place, are among the delivered ones.
* *Requirements.* A year of eight days, seven first forms, any order of answers, the job
  run on any of four days. *Skeleton.* Stays and trains that begin or end in the
  first and last minute of a day, on trips of two to four days.
* *ResponseStream.* Bodies of one to five events and lines in every cut, with LF, CR LF
  and both; a buffer of 12 tokens stands for two million characters. *OfficialPages.* Two
  redirects (three in the code), pages of two pieces, hosts that are official, below an
  official one, strangers and platforms.

`CHECK_DEADLOCK FALSE` is in the configurations of `PlanningJobs`, `MCServices` and
`MCTripEdits`: an expired or finished job with no run and no crash left really
stops, and so do a settled call, a delivered trip or a page that was read.

**Safety.** `SentAtMostOnce`, `UsageIsConfirmed` (the bill is exactly what is
confirmed and committed, each counted once), `WithinPolicy` (a limit is passed
by at most the call that was admitted below it), `UnconfirmedOnlyInRepair`,
`NeverStranded` (which leaves out an `AbandonedReplan`, section 5), `KeyDiscipline`, `NoCallAfterStop`, `FinishedIsFinal`;
`HistoryIsChain`, `VersionNamesTrip`, `EditsKept`, `UndoTakesOne`;
`StreamIsNext`, `StoppedIsCurrent`, `CompletedIsStored` (the last in
`progress_page_liveness`). In `services`: `WindowBound`, `VisitorBound` (a person with a
cookie has three identities an hour at most, so three times the limit, and once more
for each stray: a request sent, or a late answer taken, while the cookie was on its way),
`StopHolds` (once a month has cost what it may, who is at work was at work or let in before),
`LedgerIsSpent` (the ledger lags by what is being booked and what crashes
lost, and holds nothing twice), `OpenMeansTested`, `KeyNamesOneAnswer`, `BilledOnce`,
`QuotaCovers`, `KeysAreTried`, `ClaimsStayResolved`, `UsableIsFeasible`, `EditsStayInScope`,
`FinalIsBacked`, `ReadyUntilItStarts`, `BookingsAreKept`, `OutcomeIsTrue`,
`VerifiedIsOfficial`. Where a property leaves out a case in which the code is wrong
(`NeverStranded`, `JobsComeToRest`, `UsableIsFeasible`), a definition of its own says
which; section 5 has them all.

**Liveness and fairness.** `RunsEnd` and `JobsComeToRest` assume weak fairness
of the executor, of the handler's own steps and of the timer: an event loop
runs what is ready, and a timer fires. Nobody has to answer a request, resume,
cancel or restart. `FinalResultShown` assumes weak fairness of what a page has at
hand (reading, timers, the outcome of a connect) and strong fairness of polls:
a network that fails again and again but not for ever. Nothing is assumed of
streams staying up, of the job or of the visitor. The page has no timeout of
its own on a silent stream: that the browser notices a lost connection in the
end is assumed, as `Cut` leads to `StreamFails`. `CallsAreAnswered` of the tool
registry assumes that timers fire (`Deadline`) and that a settled promise is delivered
(`Deliver`); a handler owes nothing.

**Seeded faults.** `PROJECT.json` names, for each property of each passing run,
a plausible bug (a missing reset, a dropped guard, a swapped order, a race that
does not listen) under which TLC finds that property violated.

## 4. What is proved

`PlanningJobs_proofs`, for every script of calls, prices, policy and number of
crashes, from `CallsAssumption` (finitely many calls; `None` is no call),
`ScriptAssumption` (calls of different stages differ and only stages that need a
key call the model, as the pipelines are written) and `LimitsAssumption`
(limits are naturals, the cost limit not 0):

* `InvariantHolds`: `Spec => []IInv`. None of the safety properties is inductive.
  `IInv` adds who may be active when (`OwnershipInv`: a handler works for
  the stage under way or outlived an aborted run), how row and run
  agree (`RowInv`: the stage under way is the next stage of the row), what the
  journal says of the requests that left (`JournalInv`: no entry, no request; an
  entry about to be sent was not sent), that a call under way was admitted below
  every limit (`BudgetInv`) and that a stage which may call the model has a key
  (`KeyInv`). One step per action, and under it one per part of the invariant
  the action can disturb.
* `TypeCorrect`, `NothingSentTwice`, `BudgetHolds`, `NothingStranded`,
  `KeyIsHandled` follow from it, `NothingStranded` also of the process in which the second
  transaction of a replan threw; `StoppedJobsCallNothing` and `FinishedStaysFinal`
  are action properties proved with it.
* `BillIsExact`: the bill is a sum over the calls, so that a step owes how the
  sum changes when one call is confirmed (`FoldFacts`), and that the run's own
  uncommitted part is what its committed one lacks.
* `OneCallUnconfirmed`: `PositionInv` says that the calls before the handler's place in
  its script are confirmed, `ProgressInv` that outside the repair stage no call is
  journalled behind one that is not confirmed, and that whatever is unconfirmed belongs
  to the stage ahead. So only the repair stage goes on after a call without an answer.
* `Refinement`: `Spec => Abstract!Spec`, every step a step of `JobLifecycle` or a
  stutter. It rests on lemmas about `nextPlanningStage`.

`BrowserTrips_proofs`, for any sets of tabs, edits and replans and any length of
the history, from `StoreAssumption` (an edit is not a replan; at least one
revision is kept) and `NoTripAssumption`: `InvariantHolds`, `TypeCorrect`,
`HistoryStaysChain`, `VersionsNameTrips`, `NoEditLost`, `UndoTakesOneChange`.
`IInv` adds that nothing is in anybody's hands before the plan is stored, that a
replan's result is its base or the base and itself, that whatever a trip contains
was made by somebody, and that the trip an undo goes back to is the stored one
but for one change.

`JobProgress_proofs`, for any number of pages, events and reloads:
`InvariantHolds`, `TypeCorrect`, `NoEventTwiceOrMissed`, `StoppedPagesAreRight`,
`FinishedPlansAreStored`. `IInv` adds that an ended job stays as it ended and a
waiting one needs its key (`LogInv`), that a page has a stream exactly while it
reads one (`ConnInv`), that what a page shows is what it read last and that it
stopped on a resting view (`PageInv`), and that whoever was told, or is being
told, that the job waits was told the truth unless a command moved the job on
(`ToldInv`). The proof first restates the invariant page by page (`ByPage`):
a step of one page then owes the invariant of that page only, and a step of the
job owes that appending an event keeps what every page was told.

`Guard_proofs`:

* `RateLimits`, for any scopes, limits, visitors, day and number of hours, from
  `RateAssumption`: `RowsInvariant`, `WindowsAreBounded`. The limit is compared with a row
  of the database, so `RateInv` says that the row of an open window counts exactly what
  was admitted in it, that no row is of a window to come, and that a clean-up
  under way has read this hour or the last: what it deletes is then closed. The
  arithmetic of windows (`Quotient`, `ProductGrows`) comes first.
* `VisitorsAreBounded`: within an hour a browser's identity changes with the salt, at
  most once more if a day begins or the salt of yesterday was read, and with the
  cookie, at most once if it ends within the hour; every other change is a stray, a request sent or
  an answer taken while a cookie was on its way. `NamesInv` says that the identities used so far and
  the changes still to come (`ChangesLeft`) are three and the strays at most, and that a cookie held is
  the session last given out or taken, so that whoever holds it adds no identity.
* `MonthlyStop`, for any jobs, calls and months and a positive stop: `StopIsKept`.
  `StopInv` adds that nothing is booked in a month to come, which is what a new month
  needs. A request let in before the stop is among those it speaks of: what the theorem says of
  the month after its stop is that nobody joins them. `LedgerIsExact`, from `LedgerAssumption` (finitely many jobs): the sum of
  the ledger's months, of what is being booked and of what crashes lost is the sum of
  what the jobs confirmed, two sums over different sets that each step moves together.
* `ModelGate`, for any models: `OpenGatesAreTested`. `GateInv` says of
  what a command is going to write what `OpenMeansTested` says of the file.

`Tools_proofs`:

* `ToolRegistry`, for any callers, requests and quota and finitely many keys:
  `RegistryInvariant`, `KeysNameAnswers`, `KeysAreBilledOnce`, `QuotaIsEnough`. `ToolInv`
  says, caller by caller (`CallerOK`), that its key stands for its request and its answer
  is how the key's race ended, and that at most one of a key's callers has started
  it (`OneStarter`); the quota is a cardinality, for which a new execution is at
  most one more paid key (`OneMorePaid`).
* `OfficialPages`, for any hosts, pages, number of redirects and size:
  `VerifiedFactsAreOfficial`. `PagesInv` keeps that each candidate's rank is that of its
  own host and that the page under way belongs to one of them; what the verdict compares
  is then the host that answered last with the hosts that are official.
* `ResponseStream`, for bodies of any length and however they are cut: `StreamInvariant`,
  `OutcomesAreTrue`. To read piece by piece is to feed tokens one by one into a pair of
  whole blocks and open text (`Fed`, `FeedOne`). What is left open has no CR LF and no
  empty line in it (`OpenIsCalm`), so that the second normalisation which the next piece
  brings changes nothing (`CalmIsOpen`); reading therefore resumes where it stopped
  (`FeedingResumes`), and more text only adds blocks (`FeedingAdds`). `StreamInv` says
  that what has arrived and was looked at accounts for buffer, waiting blocks and what the
  caller was told; what was told is then a prefix of what the uncut body says, and a block
  that ends the call is the first of the uncut body that does.
  The proof is from `StreamAssumption` (bodies are lists, no CR directly follows a CR,
  the bound is a number), and the middle part is needed: when the body `delta` LF CR CR LF
  `call` LF LF arrives in two pieces, the second beginning with `call`, the buffer is
  normalised twice, CR CR LF becomes CR LF and then LF, and an empty line appears that the
  uncut body does not have. TLC finds the caller told of `delta` where the uncut body is
  one malformed block. A server that ends lines in LF or CR LF sends no such body.

`Form_proofs`:

* `KeySession`, for any keys and calls: `KeyInvariant`, `OnlyTriedKeys`. That an
  answer taken for the key in the field is about that key follows from what every edit
  does to the checks of the open form, which `KeyInv` records.
* `Requirements`, for any first forms, answers, cities and length of a year, from
  `FormAssumption` (who is asked for dates gives a start and an end or a duration, as
  the form's fields force): `ReadyStaysReady` says of the algorithm that what is ready
  on a day is, turned into a brief and read back, ready on every later day until the
  trip starts. `FormInvariant` carries this from the day of the answer to the day of the
  job, and counts: the rounds of questions still to come (`Rounds`, and one for a
  destination not yet asked for, `DestinationLeft`) and those asked are three at most.
  `BriefsStayReady` follows.
* `Skeleton`, for any briefs and answers of the model, from `PlannerAssumption` (the
  bookings of a brief have ids of their own; the form takes them from
  `crypto.randomUUID`): `BookingsStayOnTheirDays`. A booking is put on the days it
  covers, once, because a filter keeps elements, order and distinctness (`OnlySelects`).

`Trip_proofs` is about the validator and the two things that rest on it, the edits of a
trip and its making, and about the claims. `ValidatorIsSound` says that a trip in which `validateTrip` finds nothing blocking is
`Feasible`; the bookings that the validator passes although they are missed are
left out there by name (`HiddenByFallback`, `LegIsOver`; section 5). The
validator compares neighbours in a day's order, `Walkable` and `Reached` speak of all
pairs, so the proof goes along the day's order by induction (`HasLast`: a finite
strict total order has a last element); intervals that end before the next begins are
then apart.

`EditsInvariant` and what follows from it hold of every sequence of changes and
replans, from `DeliveredTrip` (the trip the workspace begins with parses, and passed the
validator or is called blocked) and `ChangesAssumption` (a change has one of the six
types of its schema). `EditsInv` keeps that the stored trip parses and is what it is
called, and that the change a model is asked about still applies to it, touches nothing
locked and leaves a trip that parses: the model's answer is put into that trip only when
the answer arrives. From it:

* `UsableTripsAreFeasible`: a stored trip that is not called blocked is `Feasible`.
* `ChangesStayInScope`: the action property `EditsStayInScope`. A change of the page is
  in scope by what `previewChange` writes (`CandidateInScope`, one lemma per type; a move
  takes nothing with it because no id stands twice). An answer of the model is in
  scope by what is refused (`AnswerInScope`): the validator asks for consecutive dates, so
  an answered day is compared with the day it replaces; it finds locked entities
  unchanged; and no activity is lost, because an answer has as many as were asked
  about, each with the facts of one of them and none with an id of another (`NoneIsLost`,
  an injection of a finite set into itself is onto). Scopes compose (`ScopeChain`).
  The condition that no id stands twice is what the code needs: a blocked trip may be
  stored with doubled ids, and a move then drops whatever else has the id that day.

`AssemblyTypeCorrect` (of any plan and any outcomes), `AssemblyInvariant` and
`DeliveredTripsAreBacked` are about the pipeline that makes a
trip, for any brief, any findings of the tools, details included, and any route for each way, from `PlanAssumption`:
lists are lists, the hours of a page are within a day (`TimeWindowSchema`), and two
visits of one id ask for the same place in the same city, because the journal refuses
the second one otherwise. It is a condition of the theorems, and TLC evaluates it for
the instance (`AssemblyPlanIsSound`).

`FinalIsBacked` speaks of the trip at the end only, and the validator, which runs
then, sees neither what the tools found nor whether a place was one of several. So `AssemblyInv` carries
two facts from the collection of evidence through both rounds of repair:

* every activity says of its place, its price and its hours what the tools found for a
  candidate of its id (`SaysWhatWasFound`): where the details could be had, what they say. A repaired trip that is not refused keeps this
  (`AuthorizedKeeps`), because `repairTrip` compares these facts with those of
  the first activity of that id. All the proof uses of an answer is that it has the fields of a
  trip and is not refused; which answers `Repaired` lists does not matter to it;
* a place that was not told apart has left a critical claim that is not verified
  (`UnresolvedClaims`), and no repair touches the claims. That it has left one is
  what the pipeline's own folds compute: the observation without a value is in a group
  (`GroupsCover`), merging and renaming keep that nothing in the group is verified,
  whatever other candidate of the same id and day was merged with it (`GroupItems`,
  `FailedGroup`), and the group has a claim in the end, whatever groups come before
  and after (`EveryGroupClaims`).

At the end the validator blocks a trip with such a claim (`NothingUnverified`), so the
place was told apart (`ToldApart`: the search's only result, or the only one that is exact); it has a
city of the brief, because the validator refuses another (`CityIsConfirmed`), which the details may
bring in; and it wants an activity within hours that can only
come from a believed page (`OpensByPage`), on the date of the day: hours are within a day,
so an activity within them is on the date for which they were read.

`ClaimsStay` is about `Claims`, for any set of observations and lists of any length,
from `ObservableAssumption`: evidence that failed has no value, as the three places that
make some write it; a value does not mean what none means; and no id that a source gives
is one that `stableId` makes of a group (those are of the word "evidence" and a hash). TLC
evaluates it for the instance (`FactsAreObservable`). That the claims are decided by the
evidence of their group and later by all of it is a statement about two folds over
different lists. `Settled` is what holds of the list gathered after each group: every id in
it is a source's or was made for one of the groups so far (`NamedBy`), and every claim
names only ids in it, resolves by it to itself and is backed. A further group brings no id
that is there already (`NewNamesAreNew`: an id that is taken is replaced by one made for this
group, no group comes twice, `GroupsOnce`, and a made id tells its group,
`NameTellsGroup`), so the claims so far do not see its evidence (`LaterDoesNotCount`) and
its own claim does not see theirs (`EarlierDoesNotCount`); and to decide a
claim again by the same evidence changes nothing (`DecidedOnce`). That a verified claim is
backed by what was observed (`VerifiedIsBacked`) needs that merging loses no source that
says something else (`MergeCovers`).

`FoldFacts` has what these proofs need of sums over finite sets
(`SumFunctionOnSet` of the community modules), of filters of lists (`Only`, a
`FoldLeft`), of folds over lists in general and of lists put one after the other
(`FlattenSeq`). It is induction over data done without a theorem that takes a predicate:
a nonempty set of subsets of a finite set has a least member (`LeastSubset`, from the
library's well-foundedness of strict inclusion), so a counterexample would have a
smaller one. The recursive function exists and is unique, so the sum is what one
expects of nothing (`SumOfNothing`), of one element more or less (`SumWithOneMore`,
`SumWithout`) and of one changed summand (`SumWithChange`), and a filter is the last of
a chain of lists, each the one before or that with one element more (`OnlySteps`). A fold over a
list is the last of a chain of results, each made of the one before and the next element
(`SeqFoldExists`, `StepsStay`), which is how `Trip_proofs` reasons about merging,
renaming and resolving evidence. For the streamed answer the module goes along a list from
its end: a set that holds the empty list and, with a list, every list longer by one has
them all (`OverLists`), where a set stands for the predicate no prover here can
instantiate; two runs of a fold over lists that begin alike agree as far as the lists do
(`FoldRunsExist`, `SameRuns`).

The theorems about `MonthlyStop`, `ModelGate`, `ToolRegistry`, `OfficialPages`,
`ResponseStream`, `Claims` and the trips of `TripEdits` and `TripAssembly` carry their assumptions on the
constants in their statements; the others' are named `ASSUME`s, which TLC evaluates.

Every safety property and every action property of a run is stated by a theorem. Only
model-checked is liveness (`RunsEnd`, `JobsComeToRest`, `FinalResultShown`,
`CallsAreAnswered`), because TLAPS reasons about neither fairness nor ENABLED.

## 5. Where the code and its documents disagree

Each is a run that TLC ends with a counterexample, and a finding in
`PROJECT.json` that quotes the line.

* `unconfirmed_call_goes_on`: the documents say that an unconfirmed call stops
  the job. The repair loop swallows every error of a round, so after a restart
  it makes the next, charged, call (`src/agent/repair.ts:44`).
* `recovered_job_leaves_table`: a job recovered after its last stage goes from
  "queued" to "completed", an edge the transition table does not have
  (`src/jobs/executor.ts:189`). `JobLifecycle` states what does hold.
* `plan_page_overwrites_edits`: looking at a plan's progress page again stores
  the unedited trip over the edited one (`src/components/job-progress.tsx:94`).
* `lost_resume_answer`: a resume whose answer is lost leaves the page on the
  waiting view although the job completes (`src/components/job-progress.tsx:200`).
* `cancelled_page_shows_progress`: after a cancel the events are read again from
  the first, and the page shows running views over the cancelled one
  (`src/components/job-progress.tsx:182`).
* `fallback_hides_booking`: the way to a booking is checked from the activity that
  starts last before it, a fallback included (`src/validation/trip.ts:279`), while the
  check from activity to activity skips fallbacks. In the run a replan leaves the last
  main activity of the day without its leg to the train, the next change makes the
  activity after it a fallback, and the trip is not blocked although nobody can get
  from where they are to the train.
* `single_result_is_taken`: the comment says that a place is resolved to a unique exact match
  of name and city, but a search's only result is taken whatever it is called
  (`src/agent/enrichment.ts:77`). In the run a park is delivered as the museum.

Four more cases came up that no document speaks of, so that no run could quote it; the
properties name them instead of passing over them.

* The second transaction of a replan throws, because the trip in the request holds something
  sensitive or the database fails (`src/trips/http.ts:65`). The visitor is answered 400, the row that the first
  transaction stored stays queued, and nobody runs it or has the token to cancel it until the
  process is started again, which makes it a plan of the trip's brief, or until it expires.
  `NeverStranded` and `JobsComeToRest` except this row and no other (`AbandonedReplan`).
* The way to a booking is checked without the end of the leg's departure window
  (`src/validation/trip.ts:287`), which is compared between two activities (`:170`). The last activity may end when
  the leg does not run any more. `Feasible` excepts it (`LegIsOver`), as well as the
  bookings hidden by a fallback (`HiddenByFallback`); in `services` a visit put later leads to such a trip.
* A job may begin after the monthly stop, if the guard let its request in before and the
  request's body came late (`src/security/guard.ts:213`). `StopHolds` counts such requests among
  those at work.
* A browser that sends several requests before it has its first cookie is a visitor of its
  own with each (`src/security/guard.ts:146`). `VisitorBound` counts them (`strays`).

## 6. Not modelled, and why

* *Sharing, feedback, analytics* (`sharing/*`, `analytics/*`): rows that
  are written, read and deleted whole by one transaction each, with an expiry
  checked on reading. What is hard there is the redaction of text.
* *Maintenance* (`maintenance/service.ts`): commands of an operator that run alone on
  files. The one gap, between the check and the write of a restore, is listed as a
  hazard.
* *Offline shell* (`public/sw.js`, `offline/shell.ts`): a cache of static files whose
  versions the browser's own install and activate rules order.
* *Amap adapters*: translation of an external service's requests and answers. What
  can come of them is any of the outcomes `TripAssembly` chooses from.
* *Parts of modelled components.* The versioned operations of `jobs/service.ts` and
  `saveRevision`, which the program never calls; `evaluation/runner.ts` and `operations/release-gate.ts`,
  which compute over fixtures; request bodies, token arithmetic and proxies of the
  model client; origin and body checks of the guard; weather and lodging searches.
* *Data.* Schemas beyond what the properties tell apart, prompts and wording, text
  filters, rendering, PDF and calendar files, the demo trip, and database migrations,
  which run once before anything else does.
* *Hazards without a property.* A resume that arrives before the waiting run has left
  `active` (the model's `Resume` needs the entry to be gone), a failure write that
  itself fails, and the restore above.
