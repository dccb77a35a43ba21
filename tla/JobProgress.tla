------------------------------ MODULE JobProgress ------------------------------
(***************************************************************************)
(* How the progress pages of one job learn what became of it: the numbered *)
(* events of the job (src/jobs/execution-store.ts), the event stream and   *)
(* the other handlers of src/jobs/http.ts, and the page that reads the     *)
(* stream, polls when it breaks and restarts both after a command          *)
(* (src/components/job-progress.tsx).  Several tabs may show the job.      *)
(*                                                                         *)
(* Abstracted: of the job, its status (PlanningJobs has the rest); of a    *)
(* view, the number of the event it carries, since every write of a job    *)
(* appends an event with the view of that moment.  A command that is       *)
(* refused, or lost on its way to the server, changes nothing and is no    *)
(* step.  A page has one command under way at a time.                      *)
(***************************************************************************)
EXTENDS Lifecycle

CONSTANTS
  Pages,      \* tabs with the job's progress page
  MaxEvents,  \* bound of the model: events the job ever has
  MaxReloads  \* bound of the model: times a page is loaded anew

ASSUME ProgressAssumption == MaxEvents \in Nat /\ MaxReloads \in Nat

Waiting == "waiting_for_credentials"

VARIABLES
  log,        \* planning_events: the status in the view of each event
  keyNeeded,  \* the job waits, or waited before a restart, for its key
  expired,    \* the job's 24 hours are over: every handler answers 404
  page,       \* of each tab, the variables of the effect and of the component
  conn,       \* its event stream: the server's end and what is under way
  asked,      \* its command whose answer is under way
  unaware,    \* history: the job went on after the page was told it rests
  reloads     \* how often pages were loaded anew

vars == <<log, keyNeeded, expired, page, conn, asked, unaware, reloads>>

Numbers == 0..Len(log)
Phases  == {"connect", "stream", "poll", "polled", "wait", "stopped"}

\* cursor belongs to the effect and is also the number of `latest` (accept sets
\* both), shown is the component's view, reply the answer to a poll; stored:
\* the page stored the finished trip.
PageStates ==
  [phase : Phases, cursor : Numbers, shown : Numbers, reply : Numbers,
   stored : BOOLEAN]

\* A stream is read, closed by the server or cut; sent is the cursor of pump.
Streams == [state : {"none", "open", "closed", "cut"}, sent : Numbers,
            wire : Seq(Numbers)]

NoCommand == [kind |-> "none", view |-> 0]
Commands  == [kind : {"none", "cancel", "resume"}, view : Numbers]

TypeOK ==
  /\ log \in Seq(Statuses) /\ Len(log) > 0
  /\ keyNeeded \in BOOLEAN
  /\ expired \in BOOLEAN
  /\ page \in [Pages -> PageStates]
  /\ conn \in [Pages -> Streams]
  /\ asked \in [Pages -> Commands]
  /\ unaware \in [Pages -> BOOLEAN]
  /\ reloads \in 0..MaxReloads

Loaded == [phase |-> "connect", cursor |-> 0, shown |-> 0, reply |-> 0,
           stored |-> FALSE]
Unconnected == [state |-> "none", sent |-> 0, wire |-> <<>>]

Init ==
  /\ log = <<"queued">>
  /\ keyNeeded = FALSE
  /\ expired = FALSE
  /\ page = [p \in Pages |-> Loaded]
  /\ conn = [p \in Pages |-> Unconnected]
  /\ asked = [p \in Pages |-> NoCommand]
  /\ unaware = [p \in Pages |-> FALSE]
  /\ reloads = 0

-----------------------------------------------------------------------------
(* The job.                                                                *)

Status == log[Len(log)]

\* `terminal` of the page and the list in pump: a stream ends there.
Resting == Terminal \cup {Waiting}

Room == ~expired /\ Len(log) < MaxEvents

\* The next write of the job's run; without a key a job that was waiting goes
\* back to waiting.
JobMoves ==
  /\ Room
  /\ Status \in {"queued", "running"}
  /\ \E s \in {"running", Waiting, "completed", "failed"} :
       /\ keyNeeded => s = Waiting
       /\ log' = Append(log, s)
       /\ keyNeeded' = (s = Waiting)
  /\ UNCHANGED <<expired, page, conn, asked, unaware, reloads>>

\* Pages that have stopped, or will because the server has told them that the
\* job rests: nobody tells them that it goes on.
LeftBehind ==
  [p \in Pages |->
    \/ unaware[p]
    \/ page[p].phase = "stopped"
    \/ conn[p].state = "closed"
    \/ page[p].phase = "polled" /\ log[page[p].reply] \in Resting]

\* Seeded faults, written like this one, precede the definition they replace;
\* none is part of the specification.  Fault: recover puts finished jobs back
\* into the queue, too.
RestartRevives ==
  /\ Room
  /\ log' = Append(log, "queued")
  /\ conn' = [p \in Pages |->
               IF conn[p].state = "open" THEN [conn[p] EXCEPT !.state = "cut"]
               ELSE conn[p]]
  /\ UNCHANGED <<keyNeeded, expired, page, asked, unaware, reloads>>

\* The server dies, with all its streams, and is started again: recover.
Restart ==
  /\ ~expired
  /\ IF Status \in Terminal THEN log' = log
     ELSE Room /\ log' = Append(log, "queued")
  /\ conn' = [p \in Pages |->
               IF conn[p].state = "open" THEN [conn[p] EXCEPT !.state = "cut"]
               ELSE conn[p]]
  /\ UNCHANGED <<keyNeeded, expired, page, asked, unaware, reloads>>

Expire ==
  /\ expired' = TRUE
  /\ UNCHANGED <<log, keyNeeded, page, conn, asked, unaware, reloads>>

-----------------------------------------------------------------------------
(* The event stream.                                                       *)

\* Fault: pump starts with the event at its cursor.
PumpedAgain(c) ==
  [state |-> IF Status \in Resting THEN "closed" ELSE "open",
   sent  |-> Len(log),
   wire  |-> c.wire \o [i \in 1..(Len(log) - c.sent + 1) |-> c.sent + i - 1]]

\* pump: everything after its cursor is sent; the stream is closed if the job
\* rests or cannot be read any more.
Pumped(c) ==
  IF expired THEN [c EXCEPT !.state = "closed"]
  ELSE [state |-> IF Status \in Resting THEN "closed" ELSE "open",
        sent  |-> Len(log),
        wire  |-> c.wire \o [i \in 1..(Len(log) - c.sent) |-> c.sent + i]]

Pump(p) ==
  /\ conn[p].state = "open"
  /\ conn' = [conn EXCEPT ![p] = Pumped(@)]
  /\ UNCHANGED <<log, keyNeeded, expired, page, asked, unaware, reloads>>

\* The network cuts a stream; what is under way arrives in part.
Cut(p) ==
  /\ conn[p].state \in {"open", "closed"}
  /\ \E n \in 0..Len(conn[p].wire) :
       conn' = [conn EXCEPT ![p].state = "cut",
                            ![p].wire = SubSeq(conn[p].wire, 1, n)]
  /\ UNCHANGED <<log, keyNeeded, expired, page, asked, unaware, reloads>>

-----------------------------------------------------------------------------
(* The page.                                                               *)

\* accept(next): a view that is not older is shown, and its trip stored
\* (BrowserTrips has how).
Accepted(pg, n) ==
  IF n < pg.cursor THEN pg
  ELSE [pg EXCEPT !.cursor = n, !.shown = n,
                  !.stored = @ \/ log[n] = "completed"]

At(p, phase) == page[p].phase = phase

\* terminal(latest).
LatestRests(p) == page[p].cursor # 0 /\ log[page[p].cursor] \in Resting

\* GET .../events with the cursor, and the first pump; or no connection, a
\* job that is gone, a refusal: the page polls.
Connect(p) ==
  /\ At(p, "connect")
  /\ ~expired
  /\ page' = [page EXCEPT ![p].phase = "stream"]
  /\ conn' = [conn EXCEPT
               ![p] = Pumped([state |-> "open", sent |-> page[p].cursor,
                              wire |-> <<>>])]
  /\ unaware' = [unaware EXCEPT ![p] = FALSE]
  /\ UNCHANGED <<log, keyNeeded, expired, asked, reloads>>

ConnectFails(p) ==
  /\ At(p, "connect")
  /\ page' = [page EXCEPT ![p].phase = "poll"]
  /\ UNCHANGED <<log, keyNeeded, expired, conn, asked, unaware, reloads>>

\* One event of the stream.
Deliver(p) ==
  /\ At(p, "stream")
  /\ conn[p].wire # <<>>
  /\ page' = [page EXCEPT ![p] = Accepted(@, Head(conn[p].wire))]
  /\ conn' = [conn EXCEPT ![p].wire = Tail(@)]
  /\ UNCHANGED <<log, keyNeeded, expired, asked, unaware, reloads>>

\* Fault: the page stops as soon as it has read a view at which a stream ends.
StreamEndsEarly(p) ==
  /\ At(p, "stream")
  /\ \/ conn[p].state = "closed" /\ conn[p].wire = <<>>
     \/ LatestRests(p)
  /\ page' = [page EXCEPT
               ![p].phase = IF LatestRests(p) THEN "stopped" ELSE "poll"]
  /\ conn' = [conn EXCEPT ![p] = Unconnected]
  /\ UNCHANGED <<log, keyNeeded, expired, asked, unaware, reloads>>

\* The stream was closed and is read to its end: a resting view stops the
\* page.
StreamEnds(p) ==
  /\ At(p, "stream")
  /\ conn[p].state = "closed"
  /\ conn[p].wire = <<>>
  /\ page' = [page EXCEPT
               ![p].phase = IF LatestRests(p) THEN "stopped" ELSE "poll"]
  /\ conn' = [conn EXCEPT ![p] = Unconnected]
  /\ UNCHANGED <<log, keyNeeded, expired, asked, unaware, reloads>>

\* Fault: a broken stream stops the page.
StreamFailsStops(p) ==
  /\ At(p, "stream")
  /\ conn[p].state = "cut"
  /\ conn[p].wire = <<>>
  /\ page' = [page EXCEPT ![p].phase = "stopped"]
  /\ conn' = [conn EXCEPT ![p] = Unconnected]
  /\ UNCHANGED <<log, keyNeeded, expired, asked, unaware, reloads>>

\* The stream broke.
StreamFails(p) ==
  /\ At(p, "stream")
  /\ conn[p].state = "cut"
  /\ conn[p].wire = <<>>
  /\ page' = [page EXCEPT ![p].phase = "poll"]
  /\ conn' = [conn EXCEPT ![p] = Unconnected]
  /\ UNCHANGED <<log, keyNeeded, expired, asked, unaware, reloads>>

\* GET the job: its view is on the way, or 404 stops the page.
Poll(p) ==
  /\ At(p, "poll")
  /\ page' = [page EXCEPT ![p].phase = IF expired THEN "stopped" ELSE "polled",
                          ![p].reply = IF expired THEN 0 ELSE Len(log)]
  /\ unaware' = [unaware EXCEPT ![p] = FALSE]
  /\ UNCHANGED <<log, keyNeeded, expired, conn, asked, reloads>>

PollFails(p) ==
  /\ At(p, "poll") \/ At(p, "polled")
  /\ page' = [page EXCEPT ![p].phase = "wait", ![p].reply = 0]
  /\ UNCHANGED <<log, keyNeeded, expired, conn, asked, unaware, reloads>>

\* The answer to the poll: a resting view stops the page, any other is
\* followed by a second's wait.
PollAnswered(p) ==
  /\ At(p, "polled")
  /\ page' = [page EXCEPT
               ![p] = [Accepted(@, page[p].reply) EXCEPT
                        !.phase = IF log[page[p].reply] \in Resting
                                  THEN "stopped" ELSE "wait",
                        !.reply = 0]]
  /\ UNCHANGED <<log, keyNeeded, expired, conn, asked, unaware, reloads>>

Wait(p) ==
  /\ At(p, "wait")
  /\ page' = [page EXCEPT ![p].phase = "connect"]
  /\ UNCHANGED <<log, keyNeeded, expired, conn, asked, unaware, reloads>>

\* The visitor sees a status in a set.
Shows(p, statuses) == page[p].shown # 0 /\ log[page[p].shown] \in statuses

\* POST .../cancel, from a page that offers it: the job is cancelled; if it
\* has ended, an event repeats its status.
Cancel(p) ==
  /\ asked[p] = NoCommand
  /\ Shows(p, Open)
  /\ Room
  /\ log' = Append(log, IF Status \in Terminal THEN Status ELSE "cancelled")
  /\ keyNeeded' = (keyNeeded /\ Status \in Terminal)
  /\ asked' = [asked EXCEPT ![p] = [kind |-> "cancel", view |-> Len(log')]]
  /\ unaware' = IF Status \in Terminal THEN unaware ELSE LeftBehind
  /\ UNCHANGED <<expired, page, conn, reloads>>

\* POST .../resume, accepted: a run starts with the key, or the earlier run
\* has not left `active` yet, the key is dropped and nothing starts.
Resume(p) ==
  /\ asked[p] = NoCommand
  /\ Shows(p, {Waiting})
  /\ ~expired
  /\ Status = Waiting
  /\ \/ /\ Room
        /\ log' = Append(log, "running")
        /\ keyNeeded' = FALSE
        /\ unaware' = LeftBehind
     \/ UNCHANGED <<log, keyNeeded, unaware>>
  /\ asked' = [asked EXCEPT ![p] = [kind |-> "resume", view |-> 0]]
  /\ UNCHANGED <<expired, page, conn, reloads>>

\* Fault: the effect is not started anew after a command.
AnsweredInPlace(p) ==
  /\ asked[p] # NoCommand
  /\ page' = [page EXCEPT
               ![p].shown = IF asked[p].kind = "cancel" THEN asked[p].view
                            ELSE @]
  /\ asked' = [asked EXCEPT ![p] = NoCommand]
  /\ unaware' = [unaware EXCEPT ![p] = FALSE]
  /\ UNCHANGED <<log, keyNeeded, expired, conn, reloads>>

\* The answer to a command: a cancel's view is shown at once, and the effect
\* starts anew (setEpoch), from the first event.
Answered(p) ==
  /\ asked[p] # NoCommand
  /\ page' = [page EXCEPT
               ![p].phase = "connect", ![p].cursor = 0, ![p].reply = 0,
               ![p].shown = IF asked[p].kind = "cancel" THEN asked[p].view
                            ELSE @]
  /\ conn' = [conn EXCEPT ![p] = Unconnected]
  /\ asked' = [asked EXCEPT ![p] = NoCommand]
  /\ unaware' = [unaware EXCEPT ![p] = FALSE]
  /\ UNCHANGED <<log, keyNeeded, expired, reloads>>

\* The answer is lost: the page asks the visitor to try again.
AnswerLost(p) ==
  /\ asked[p] # NoCommand
  /\ asked' = [asked EXCEPT ![p] = NoCommand]
  /\ UNCHANGED <<log, keyNeeded, expired, page, conn, unaware, reloads>>

\* The page is visited anew.
Reload(p) ==
  /\ reloads < MaxReloads
  /\ reloads' = reloads + 1
  /\ page' = [page EXCEPT ![p] = Loaded]
  /\ conn' = [conn EXCEPT ![p] = Unconnected]
  /\ asked' = [asked EXCEPT ![p] = NoCommand]
  /\ unaware' = [unaware EXCEPT ![p] = FALSE]
  /\ UNCHANGED <<log, keyNeeded, expired>>

Next ==
  \/ JobMoves \/ Restart \/ Expire
  \/ \E p \in Pages :
       \/ Pump(p) \/ Cut(p)
       \/ Connect(p) \/ ConnectFails(p)
       \/ Deliver(p) \/ StreamEnds(p) \/ StreamFails(p)
       \/ Poll(p) \/ PollFails(p) \/ PollAnswered(p) \/ Wait(p)
       \/ Cancel(p) \/ Resume(p) \/ Answered(p) \/ AnswerLost(p)
       \/ Reload(p)

Spec == Init /\ [][Next]_vars

\* Timers fire, what is at hand is read, a request ends somehow; and the
\* network is not down for ever: a poll that is tried again and again is
\* answered in the end.  Nothing is assumed of the job, of the visitor, of
\* the answers to commands, or of the stream staying up.
Fairness ==
  \A p \in Pages :
    /\ WF_vars(Pump(p))
    /\ WF_vars(Connect(p) \/ ConnectFails(p))
    /\ WF_vars(Deliver(p))
    /\ WF_vars(StreamEnds(p) \/ StreamFails(p))
    /\ SF_vars(Poll(p))
    /\ SF_vars(PollAnswered(p))
    /\ WF_vars(Wait(p))

FairSpec == Spec /\ Fairness

-----------------------------------------------------------------------------
(* Safety.                                                                 *)

\* What is under way to a page are the very next numbered events after the
\* one it has, each once, however often it polled or reconnected in between
\* (TICKETS.md 026: a reconnect neither repeats nor misses numbered events).
StreamIsNext ==
  \A p \in Pages : LET c == conn[p] IN
    c.state # "none" =>
      /\ c.wire = [i \in 1..Len(c.wire) |-> page[p].cursor + i]
      /\ c.state # "cut" => c.sent = page[p].cursor + Len(c.wire)

\* A page that has stopped shows how the job stands, not a waiting or finished
\* view out of its history: unless somebody moved the job on behind its back,
\* a final view is the final one and a waiting one still waits for the key.
StoppedIsCurrent ==
  \A p \in Pages : (At(p, "stopped") /\ ~expired) =>
    /\ Shows(p, Resting)
    /\ Shows(p, Terminal) => Status = log[page[p].shown]
    /\ (Shows(p, {Waiting}) /\ ~unaware[p]) =>
         keyNeeded /\ Status \in {Waiting, "queued"}

\* A page at rest with a finished plan has stored its trip, although the view
\* that first says so may be the answer to a cancel, which stores nothing.
CompletedIsStored ==
  \A p \in Pages : (At(p, "stopped") /\ ~expired /\ Shows(p, {"completed"})) =>
    page[p].stored

-----------------------------------------------------------------------------
(* The inductive invariant (proved in JobProgress_proofs).                 *)

\* A job that ended stays as it ended, and one that waits needs its key.
LogInv ==
  /\ \A i, j \in 1..Len(log) :
       (log[i] \in Terminal /\ i <= j) => log[j] = log[i]
  /\ Status = Waiting => keyNeeded

\* A page has a stream exactly while it reads one.
ConnInv == \A p \in Pages : conn[p].state # "none" <=> At(p, "stream")

\* What a page shows once it has read something, what the answer to a poll can
\* be, and what a page has read when it stops.
PageInv ==
  \A p \in Pages :
    /\ page[p].cursor # 0 =>
         /\ page[p].shown = page[p].cursor
         /\ log[page[p].cursor] = "completed" => page[p].stored
    /\ At(p, "polled") => page[p].reply # 0 /\ page[p].reply >= page[p].cursor
    /\ (At(p, "stopped") /\ ~expired) => LatestRests(p)

\* A page that was told, or is being told, that the job waits was told the
\* truth, or the job was moved on behind its back.
StillWaits == keyNeeded /\ Status \in {Waiting, "queued"}

Told(p) ==
  (IF At(p, "stopped") THEN {page[p].cursor} ELSE {})
    \cup (IF At(p, "polled") THEN {page[p].reply} ELSE {})
    \cup (IF conn[p].state = "closed" THEN {conn[p].sent} ELSE {})

ToldInv ==
  \A p \in Pages : (~expired /\ ~unaware[p]) =>
    \A n \in Told(p) \ {0} : log[n] = Waiting => StillWaits

IInv ==
  /\ TypeOK /\ LogInv /\ ConnInv /\ PageInv /\ ToldInv
  /\ StreamIsNext

-----------------------------------------------------------------------------
(* Liveness.                                                               *)

Finished == Status \in Terminal

\* However streams and polls break, every page that was not left behind shows
\* the final result in the end, or the job's 24 hours are over.
FinalResultShown ==
  \A p \in Pages :
    (Finished /\ ~unaware[p]) ~> (Shows(p, Terminal) \/ expired)

-----------------------------------------------------------------------------
(* What the documents say and the code does not do.                        *)

\* TICKETS.md (029: "a broken connection does not lose the final result").
ResultNotLost ==
  \A p \in Pages :
    (Status = "completed") ~> (Shows(p, {"completed"}) \/ expired)

\* TICKETS.md (029: "after a cancel the page does not go on showing the job as
\* running"); the page's running display, progress line and cancel button, is
\* given to every view that does not rest.
CancelledStaysShown ==
  [][\A p \in Pages :
       Shows(p, {"cancelled"}) => ~Shows(p, Statuses \ Resting)']_vars
=============================================================================
