----------------------------- MODULE KeySession -----------------------------
(***************************************************************************)
(* The visitor's key in one tab: the form that validates it and starts a   *)
(* job (components/planning-form.tsx), the pages that resume a job or      *)
(* replan a trip with it (job-progress.tsx, trip-workspace.tsx), the       *)
(* session storage that carries it from page to page                       *)
(* (security/deepseek-session.ts) and the validation on the server         *)
(* (providers/deepseek/key-validator.ts).                                  *)
(*                                                                         *)
(* A call outlives the page that made it; what it does on return is its    *)
(* `here` (that page is still open) and its `live` (the form's keyRevision *)
(* is still the call's).  The requirements are taken to be ready.          *)
(***************************************************************************)
EXTENDS FiniteSets

CONSTANTS
    Keys, NoKey,
    Admitted,   \* those that DeepSeek admits
    WellFormed, \* those of the form sk-...
    Calls       \* bound on the calls under way

VARIABLES
    page,    \* "form", "job" or "trip"
    field,   \* the key in the page's field
    status,  \* of the form: "unconnected", "connected" or "failed"
    busy,    \* of the form
    session, \* what the session storage remembers
    call,    \* [Calls -> [kind, key, live, here, answer]]
    tried    \* history: keys that a call has been accepted with

keyVars == <<page, field, status, busy, session, call, tried>>

PageKinds == {"form", "job", "trip"}

CallRecords ==
    [kind : {"none", "check", "start", "job", "trip"},
     key : Keys \cup {NoKey},
     live : BOOLEAN, here : BOOLEAN, answer : {"none", "ok", "failed"}]

NoRequest == [kind |-> "none", key |-> NoKey, live |-> FALSE, here |-> FALSE,
              answer |-> "none"]

KeyInit ==
    /\ page = "form"
    /\ field = NoKey
    /\ status = "unconnected"
    /\ busy = FALSE
    /\ session = NoKey
    /\ call = [c \in Calls |-> NoRequest]
    /\ tried = {}

-----------------------------------------------------------------------------
(* Pages *)

\* The page is shown: it takes the remembered key, the form as a connected one.
Shown(p) ==
    /\ page' = p
    /\ field' = session
    /\ status' = IF p = "form" /\ session # NoKey THEN "connected"
                 ELSE "unconnected"
    /\ busy' = FALSE

\* The calls of a page that is left go on.
Left == [c \in Calls |-> [call[c] EXCEPT !.here = FALSE]]

Visit(p) ==
    /\ Shown(p)
    /\ call' = Left
    /\ UNCHANGED <<session, tried>>

\* A reload ends them.
Reload ==
    /\ Shown(page)
    /\ call' = [c \in Calls |-> NoRequest]
    /\ UNCHANGED <<session, tried>>

\* keyRevision is increased: the form's earlier checks are of an old key.
Revised ==
    [c \in Calls |-> IF call[c].here THEN [call[c] EXCEPT !.live = FALSE]
                     ELSE call[c]]

\* A key is typed, or the field is cleared.
Type(k) ==
    /\ session' = NoKey
    /\ field' = k
    /\ status' = "unconnected"
    /\ busy' = FALSE
    /\ call' = Revised
    /\ UNCHANGED <<page, tried>>

\* rememberDeepSeekSession: a key of another form is not stored, and the browser
\* may refuse.
Remember(k) ==
    session' \in IF k \in WellFormed THEN {k, session} ELSE {session}

-----------------------------------------------------------------------------
(* Validation *)

Called(c, kind, others) ==
    /\ call[c] = NoRequest
    /\ call' = [others EXCEPT ![c] =
            [kind |-> kind, key |-> field, live |-> TRUE, here |-> TRUE,
             answer |-> "none"]]

\* validateKey, up to its request.
Validate(c) ==
    /\ page = "form" /\ ~busy /\ field # NoKey
    /\ Called(c, "check", Revised)
    /\ busy' = TRUE
    /\ UNCHANGED <<page, field, status, session, tried>>

\* validateDeepSeekKey: the key is good once DeepSeek admits the call; a status
\* that refuses it, a timeout and a broken connection are all told as a failure.
Check(c) ==
    /\ call[c].kind = "check" /\ call[c].answer = "none"
    /\ \/ /\ call[c].key \in Admitted
          /\ call' = [call EXCEPT ![c].answer = "ok"]
          /\ tried' = tried \cup {call[c].key}
       \/ /\ call' = [call EXCEPT ![c].answer = "failed"]
          /\ UNCHANGED tried
    /\ UNCHANGED <<page, field, status, busy, session>>

\* Fault: an answer is taken for one about the key in the field.
TakenAlways(c) == TRUE

\* The answer is about the key that was sent last.
Taken(c) == call[c].live

\* validateKey, on the answer or on a lost connection.
Checked(c, ok) ==
    /\ call[c].kind = "check" /\ (ok => call[c].answer = "ok")
    /\ call' = [call EXCEPT ![c] = NoRequest]
    /\ IF Taken(c) /\ ok THEN Remember(call[c].key) ELSE UNCHANGED session
    /\ IF Taken(c) /\ call[c].here
       THEN status' = (IF ok THEN "connected" ELSE "failed") /\ busy' = FALSE
       ELSE UNCHANGED <<status, busy>>
    /\ UNCHANGED <<page, field, tried>>

-----------------------------------------------------------------------------
(* Jobs *)

Start(c) ==
    /\ page = "form" /\ ~busy /\ status = "connected"
    /\ Called(c, "start", call)
    /\ busy' = TRUE
    /\ UNCHANGED <<page, field, status, session, tried>>

\* The job is there and its page is shown, whatever page is shown now.
Started(c) ==
    /\ call[c].kind = "start"
    /\ Shown("job")
    /\ call' = [Left EXCEPT ![c] = NoRequest]
    /\ UNCHANGED <<session, tried>>

NotStarted(c) ==
    /\ call[c].kind = "start"
    /\ call' = [call EXCEPT ![c] = NoRequest]
    /\ busy' = IF call[c].here THEN FALSE ELSE busy
    /\ UNCHANGED <<page, field, status, session, tried>>

\* JobProgress.resume and TripEditor.confirm, with a key that nobody checks.
Hand(c) ==
    /\ page \in {"job", "trip"} /\ field # NoKey
    /\ Called(c, page, call)
    /\ UNCHANGED <<page, field, status, busy, session, tried>>

\* The server has taken the key, and it is remembered; a replan's job is shown.
Handed(c) ==
    /\ call[c].kind \in {"job", "trip"}
    /\ tried' = tried \cup {call[c].key}
    /\ Remember(call[c].key)
    /\ IF call[c].kind = "job"
       THEN /\ call' = [call EXCEPT ![c] = NoRequest]
            /\ UNCHANGED <<page, field, status, busy>>
       ELSE /\ call' = [Left EXCEPT ![c] = NoRequest]
            /\ page' = "job" /\ field' = session'
            /\ status' = "unconnected" /\ busy' = FALSE

NotHanded(c) ==
    /\ call[c].kind \in {"job", "trip"}
    /\ call' = [call EXCEPT ![c] = NoRequest]
    /\ UNCHANGED <<page, field, status, busy, session, tried>>

KeyNext ==
    \/ \E p \in PageKinds : Visit(p)
    \/ Reload
    \/ \E k \in Keys \cup {NoKey} : Type(k)
    \/ \E c \in Calls : \/ Validate(c) \/ Check(c)
                        \/ \E ok \in BOOLEAN : Checked(c, ok)
                        \/ Start(c) \/ Started(c) \/ NotStarted(c)
                        \/ Hand(c) \/ Handed(c) \/ NotHanded(c)

KeySpec == KeyInit /\ [][KeyNext]_keyVars

-----------------------------------------------------------------------------
(* Properties *)

KeyTypeOK ==
    /\ page \in PageKinds
    /\ field \in Keys \cup {NoKey}
    /\ status \in {"unconnected", "connected", "failed"}
    /\ busy \in BOOLEAN
    /\ session \in WellFormed \cup {NoKey}
    /\ call \in [Calls -> CallRecords]
    /\ tried \subseteq Keys

\* In whatever order the answers come and whatever is typed meanwhile, the form
\* says connected only of the key in its field and only when the server has
\* accepted that very key, no job is started and nothing remembered with another
\* one; and the form's buttons are held only by a call that will release them.
\* (validateKey, start, rememberDeepSeekSession)
KeysAreTried ==
    /\ status = "connected" => field \in tried
    /\ session # NoKey => session \in tried
    /\ \A c \in Calls : call[c].kind = "start" => call[c].key \in tried
    /\ busy => \E c \in Calls :
                 /\ call[c].here
                 /\ \/ call[c].kind = "start"
                    \/ call[c].kind = "check" /\ call[c].live

\* For the proof: a check of the open form that is still the latest is about the
\* key in the field, and a check is answered well only for an accepted key.
KeyInv ==
    /\ KeysAreTried
    /\ field \in Keys \cup {NoKey}
    /\ session \in Keys \cup {NoKey}
    /\ call \in [Calls -> CallRecords]
    /\ \A c \in Calls : call[c].kind = "check" =>
         /\ call[c].live /\ call[c].here => call[c].key = field
         /\ call[c].answer = "ok" => call[c].key \in tried
=============================================================================
