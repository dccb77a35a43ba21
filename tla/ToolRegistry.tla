---------------------------- MODULE ToolRegistry ----------------------------
(***************************************************************************)
(* The tool registry of one stage (agent/tools/registry.ts): calls are     *)
(* checked, run at most once per idempotency key, bounded by a deadline,   *)
(* and answered again from the first answer.  The search tools             *)
(* (search/source-evidence.ts) and the product quota behind `isEnabled`    *)
(* (agent/pipeline.ts) give it its handlers.                               *)
(***************************************************************************)
EXTENDS Naturals, FiniteSets

CONSTANTS
    Callers,   \* pending invocations, each made once
    CallKeys,  \* idempotency keys, of one job and stage
    Requests,  \* what is asked: tool name and canonical arguments
    Paid,      \* the requests whose tool draws on the product quota
    DailyQuota,\* calls the quota has left
    NoCall     \* nothing yet

VARIABLES
    caller,    \* caller -> "new", "waiting" or "answered"
    asks,      \* caller -> what it invoked, once it has
    answer,    \* caller -> its answer
    stopped,   \* callers whose signal has fired
    executions,\* key -> the request first made under it, or NoCall
    outcome,   \* key -> the settled race, or NoCall
    working,   \* keys whose handler has not settled
    drawnQuota,\* calls the quota has been charged for
    cost       \* history: key -> "none", "due" (handler billed), "billed"

toolVars == <<caller, asks, answer, stopped, executions, outcome, working,
             drawnQuota, cost>>

(***************************************************************************)
(* What a handler comes to: an answer it bills, an error it does not, or   *)
(* an answer whose cost or events are not valid.                           *)
(***************************************************************************)
Handled == {"success", "retryable_error", "non_retryable_error",
            "invalid_cost", "thrown"}

\* executeOnce, result: what the caller is told.
Told(handled) ==
    CASE handled = "invalid_cost" -> "INVALID_TOOL_COST"
      [] handled = "thrown"       -> "TOOL_EXECUTION_FAILED"
      [] OTHER                    -> handled

\* Answers: a status or code, and whether usage events came with it.
Answered(what, billed) == [what |-> what, billed |-> billed]

ToolInit ==
    /\ caller = [c \in Callers |-> "new"]
    /\ asks = [c \in Callers |-> NoCall]
    /\ answer = [c \in Callers |-> NoCall]
    /\ stopped = {}
    /\ executions = [k \in CallKeys |-> NoCall]
    /\ outcome = [k \in CallKeys |-> NoCall]
    /\ working = {}
    /\ drawnQuota = 0
    /\ cost = [k \in CallKeys |-> "none"]

-----------------------------------------------------------------------------
(* invoke *)

Reply(c, what) ==
    /\ caller' = [caller EXCEPT ![c] = "answered"]
    /\ answer' = [answer EXCEPT ![c] = Answered(what, FALSE)]

\* A signal that has fired, missing identifiers, an unknown or misplaced tool:
\* refused before anything is charged.
Refuse(c) ==
    /\ caller[c] = "new"
    /\ \/ c \in stopped /\ Reply(c, "TOOL_CANCELLED")
       \/ c \notin stopped /\ \E code \in {"INVALID_INVOCATION",
                    "UNKNOWN_TOOL", "TOOL_NOT_ALLOWED"} : Reply(c, code)
    /\ UNCHANGED <<asks, stopped, executions, outcome, working, drawnQuota,
                   cost>>

\* isEnabled: a paid tool needs, and takes, a unit of the quota; it is asked
\* before the arguments are parsed and before the key is looked up.
Enabled(r) == r \in Paid => drawnQuota < DailyQuota
QuotaAfter(r) == IF r \in Paid THEN drawnQuota + 1 ELSE drawnQuota

Disabled(c, r) ==
    /\ caller[c] = "new" /\ c \notin stopped
    /\ ~Enabled(r)
    /\ Reply(c, "TOOL_DISABLED")
    /\ UNCHANGED <<asks, stopped, executions, outcome, working, drawnQuota,
                   cost>>

BadArguments(c, r) ==
    /\ caller[c] = "new" /\ c \notin stopped
    /\ Enabled(r)
    /\ drawnQuota' = QuotaAfter(r)
    /\ Reply(c, "INVALID_ARGUMENTS")
    /\ UNCHANGED <<asks, stopped, executions, outcome, working, cost>>

\* The same request under the same key has been made before.
Known(k, r) == executions[k] = r

\* A key names one request: another one is refused, the same one waits for the
\* first one's answer.
Repeat(c, k, r) ==
    /\ caller[c] = "new" /\ c \notin stopped
    /\ Enabled(r)
    /\ executions[k] # NoCall
    /\ drawnQuota' = QuotaAfter(r)
    /\ IF Known(k, r)
       THEN /\ caller' = [caller EXCEPT ![c] = "waiting"]
            /\ asks' = [asks EXCEPT ![c] = [key |-> k, request |-> r,
                                            replay |-> TRUE]]
            /\ UNCHANGED answer
       ELSE Reply(c, "IDEMPOTENCY_CONFLICT") /\ UNCHANGED asks
    /\ UNCHANGED <<stopped, executions, outcome, working, cost>>

\* Fault: the quota is asked and not charged.
ExecuteFree(c, k, r) ==
    /\ caller[c] = "new" /\ c \notin stopped
    /\ Enabled(r)
    /\ executions[k] = NoCall
    /\ drawnQuota' = drawnQuota
    /\ caller' = [caller EXCEPT ![c] = "waiting"]
    /\ asks' = [asks EXCEPT ![c] =
                    [key |-> k, request |-> r, replay |-> FALSE]]
    /\ executions' = [executions EXCEPT ![k] = r]
    /\ working' = working \cup {k}
    /\ UNCHANGED <<answer, stopped, outcome, cost>>

\* The first call under a key starts the handler and its deadline.
Execute(c, k, r) ==
    /\ caller[c] = "new" /\ c \notin stopped
    /\ Enabled(r)
    /\ executions[k] = NoCall
    /\ drawnQuota' = QuotaAfter(r)
    /\ caller' = [caller EXCEPT ![c] = "waiting"]
    /\ asks' = [asks EXCEPT ![c] =
                    [key |-> k, request |-> r, replay |-> FALSE]]
    /\ executions' = [executions EXCEPT ![k] = r]
    /\ working' = working \cup {k}
    /\ UNCHANGED <<answer, stopped, outcome, cost>>

-----------------------------------------------------------------------------
(* executeOnce *)

\* Fault: a late answer replaces the timeout.
SettledLast(k, what) == outcome' = [outcome EXCEPT ![k] = what]

\* The promise race: what settles it first stays.
Settled(k, what) ==
    outcome' = IF outcome[k] = NoCall
               THEN [outcome EXCEPT ![k] = what] ELSE outcome

\* The handler answers or throws, in time or after the race is over; a search
\* that succeeds has cost something whether or not anybody hears of it.
HandlerEnds(k) ==
    /\ k \in working
    /\ working' = working \ {k}
    /\ \E h \in Handled :
        /\ Settled(k, Told(h))
        /\ cost' = [cost EXCEPT ![k] = IF h = "success" THEN "due" ELSE @]
    /\ UNCHANGED <<caller, asks, answer, stopped, executions, drawnQuota>>

\* Fault: the deadline is cleared when a second caller joins.
DeadlineForOne(k) ==
    /\ executions[k] # NoCall
    /\ outcome[k] = NoCall
    /\ ~\E c \in Callers : asks[c] # NoCall /\ asks[c].replay
    /\ Settled(k, "TOOL_TIMEOUT")
    /\ UNCHANGED <<caller, asks, answer, stopped, executions, working,
                   drawnQuota, cost>>

\* The timer fires; the handler is told and may go on regardless.
Deadline(k) ==
    /\ executions[k] # NoCall
    /\ outcome[k] = NoCall
    /\ Settled(k, "TOOL_TIMEOUT")
    /\ UNCHANGED <<caller, asks, answer, stopped, executions, working,
                   drawnQuota, cost>>

\* A caller's signal fires.  It aborts the execution it started, for everybody
\* who waits for it; a caller that only waits goes on waiting.
Abort(c) ==
    LET own == {k \in CallKeys : /\ asks[c] # NoCall /\ asks[c].key = k
                                 /\ ~asks[c].replay}
    IN  /\ c \notin stopped /\ caller[c] # "answered"
        /\ stopped' = stopped \cup {c}
        /\ outcome' = [k \in CallKeys |->
                IF k \in own /\ outcome[k] = NoCall THEN "TOOL_TIMEOUT"
                ELSE outcome[k]]
        /\ UNCHANGED <<caller, asks, answer, executions, working, drawnQuota,
                       cost>>

\* Fault: a repeated call is billed again.
BillsAlways(c, k) == outcome[k] = "success"

\* result and the replay branch: the first caller gets the events, the others
\* the same answer without them.
Bills(c, k) == outcome[k] = "success" /\ ~asks[c].replay

Deliver(c) ==
    LET k == asks[c].key
    IN  /\ caller[c] = "waiting"
        /\ outcome[k] # NoCall
        /\ caller' = [caller EXCEPT ![c] = "answered"]
        /\ answer' = [answer EXCEPT ![c] = Answered(outcome[k], Bills(c, k))]
        /\ cost' = IF Bills(c, k) THEN [cost EXCEPT ![k] = "billed"] ELSE cost
        /\ UNCHANGED <<asks, stopped, executions, outcome, working, drawnQuota>>

Step(c) ==
    \/ Refuse(c) \/ Abort(c) \/ Deliver(c)
    \/ \E r \in Requests : Disabled(c, r) \/ BadArguments(c, r)
    \/ \E k \in CallKeys, r \in Requests : Repeat(c, k, r) \/ Execute(c, k, r)

ToolNext ==
    \/ \E c \in Callers : Step(c)
    \/ \E k \in CallKeys : HandlerEnds(k) \/ Deadline(k)

\* Timers fire and settled promises are delivered; handlers owe nothing.
ToolFairness ==
    /\ \A k \in CallKeys : WF_toolVars(Deadline(k))
    /\ \A c \in Callers : WF_toolVars(Deliver(c))

ToolSpec == ToolInit /\ [][ToolNext]_toolVars /\ ToolFairness

-----------------------------------------------------------------------------
(* Properties *)

Replied == {c \in Callers : asks[c] # NoCall /\ answer[c] # NoCall}

\* A key names one answer: whoever asks the same under it, at once or later, is
\* told the same, and is told it about the request it made.  (invoke)
KeyNamesOneAnswer ==
    /\ \A c, d \in Replied :
        asks[c].key = asks[d].key =>
            /\ answer[c].what = answer[d].what
            /\ asks[c].request = asks[d].request
    /\ \A c \in Replied : answer[c].what = outcome[asks[c].key]

\* A key is billed to one caller at most, and never for an answer that came too
\* late.  (result, the replay branch)
BilledOnce ==
    /\ \A c, d \in Replied :
        answer[c].billed /\ answer[d].billed /\ asks[c].key = asks[d].key
            => c = d
    /\ \A c \in Replied : answer[c].billed => answer[c].what = "success"

\* No paid handler runs without a unit of the quota; refused and repeated calls
\* may take units for nothing.  (isEnabled)
QuotaCovers ==
    /\ Cardinality({k \in CallKeys : executions[k] \in Paid}) <= drawnQuota
    /\ drawnQuota <= DailyQuota

\* Whoever waits is answered, whatever the handlers do: when somebody waits, a
\* time comes at which everybody who has called has an answer.  (the deadline)
CallsAreAnswered ==
    (\E c \in Callers : caller[c] = "waiting")
        ~> (\A c \in Callers : caller[c] \in {"new", "answered"})

-----------------------------------------------------------------------------
(* For the proofs *)

Outcomes == {Told(h) : h \in Handled} \cup {"TOOL_TIMEOUT"}

Codes == Outcomes \cup {"TOOL_CANCELLED", "INVALID_INVOCATION", "UNKNOWN_TOOL",
                        "TOOL_NOT_ALLOWED", "TOOL_DISABLED",
                        "INVALID_ARGUMENTS", "IDEMPOTENCY_CONFLICT"}

Asks == [key : CallKeys, request : Requests, replay : BOOLEAN]
Answers == [what : Codes, billed : BOOLEAN]

ToolTypes ==
    /\ caller \in [Callers -> {"new", "waiting", "answered"}]
    /\ asks \in [Callers -> Asks \cup {NoCall}]
    /\ answer \in [Callers -> Answers \cup {NoCall}]
    /\ executions \in [CallKeys -> Requests \cup {NoCall}]
    /\ outcome \in [CallKeys -> Outcomes \cup {NoCall}]
    /\ drawnQuota \in Nat

\* What a caller was promised: its key stands for its request; what it is told
\* is how the key's race ended, billed to the one that started it.
CallerOK(c) ==
    /\ caller[c] = "new" => asks[c] = NoCall /\ answer[c] = NoCall
    /\ caller[c] = "waiting" => asks[c] # NoCall /\ answer[c] = NoCall
    /\ asks[c] # NoCall =>
         /\ executions[asks[c].key] = asks[c].request
         /\ answer[c] # NoCall =>
              /\ answer[c].what = outcome[asks[c].key]
              /\ answer[c].what # NoCall
              /\ answer[c].billed =>
                   answer[c].what = "success" /\ ~asks[c].replay

\* One caller at most has started what runs under a key.
OneStarter ==
    \A c, d \in Callers :
        /\ asks[c] # NoCall /\ asks[d] # NoCall
        /\ asks[c].key = asks[d].key
        /\ ~asks[c].replay /\ ~asks[d].replay
        => c = d

ToolInv ==
    /\ ToolTypes
    /\ \A c \in Callers : CallerOK(c)
    /\ OneStarter
    /\ QuotaCovers
=============================================================================
