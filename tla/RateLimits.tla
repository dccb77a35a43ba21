----------------------------- MODULE RateLimits -----------------------------
(***************************************************************************)
(* How often a visitor and the product may ask: the counters and salts of  *)
(* security/rate-limit.ts behind the request guard of security/guard.ts,   *)
(* and the clean-up that deletes them.                                     *)
(*                                                                         *)
(* Time is counted in hours, the window of every visitor scope; the day of *)
(* a product scope starts with the epoch's, the day of a salt at local     *)
(* midnight, Offset hours earlier.  What happens within an hour may happen *)
(* in any order.  Whether the feature gate is open is decided elsewhere    *)
(* (module MonthlyStop).                                                   *)
(***************************************************************************)
EXTENDS Naturals, FiniteSets

CONSTANTS
    Visitors,      \* people with one browser and one address each
    VisitorScopes, \* quotas of a visitor
    ProductScopes, \* quotas of the product
    Limit,         \* scope -> requests admitted per window
    DayHours,      \* hours of a day
    Offset,        \* hours local time is ahead of the epoch's
    MaxHour,       \* bound: the last hour explored
    MaxSalts,      \* bound: salts ever drawn
    MaxSessions,   \* bound: sessions ever given out
    None           \* no cookie, no clean-up under way

ASSUME RateAssumption ==
    /\ Limit \in [VisitorScopes \cup ProductScopes -> Nat]
    /\ VisitorScopes \cap ProductScopes = {}
    /\ DayHours \in Nat \ {0}
    /\ {Offset, MaxHour, MaxSalts, MaxSessions} \subseteq Nat
    /\ None \notin Nat /\ None \notin [id : Nat, since : Nat]

VARIABLES
    hour,     \* the current hour
    salts,    \* rows of rate_limit_salts: the salt of a day
    drawn,    \* salts and sessions drawn so far
    cookie,   \* the session a visitor's browser holds and its first hour
    owed,     \* sessions whose answer, which sets the cookie, is under way
    counters, \* rows of rate_limit_counters: key -> count
    cleaning, \* the hour a clean-up read before it got the database
    admitted, \* history: key of an open window -> requests admitted
    names,    \* history: visitor -> identities charged in this hour
    trail     \* history: visitor -> the session last given out or taken,
              \* whether one was asked for in this hour (a request without the
              \* cookie), and the strays of this hour: further requests without
              \* it, and late answers that replace the session

browserVars == <<cookie, owed, trail>>
vars == <<hour, salts, drawn, browserVars, counters, cleaning, admitted, names>>

Scopes == VisitorScopes \cup ProductScopes

-----------------------------------------------------------------------------
(* Days, windows and keys *)

\* localDay: the calendar of Asia/Shanghai.
LocalDay(at) == (at + Offset) \div DayHours

\* The number of the window an hour lies in: windowStartMs / windowMs.
Window(scope, at) == IF scope \in VisitorScopes THEN at ELSE at \div DayHours

\* An identity is the hash of a session (and address) under the day's salt; two
\* salts or two sessions never give the same one.  The product has one of its
\* own that no day changes.
Product == [salt |-> 0, session |-> 0]
Identities ==
    [salt : 1 .. MaxSalts, session : 1 .. MaxSessions] \cup {Product}

\* The primary key of a counter.
CounterKeys == [scope : Scopes, who : Identities, window : Nat]

Key(scope, who, at) ==
    [scope |-> scope, who |-> who, window |-> Window(scope, at)]

\* peek: the count of a key, none if it has no row.
Counter(rows, key) == IF key \in DOMAIN rows THEN rows[key] ELSE 0

Charged(rows, key) ==
    [k \in DOMAIN rows \cup {key} |->
        IF k = key THEN Counter(rows, key) + 1 ELSE rows[k]]

Without(rows, gone) == [k \in DOMAIN rows \ gone |-> rows[k]]

-----------------------------------------------------------------------------
Init ==
    /\ hour = 0
    /\ salts = {}
    /\ drawn = [salt |-> 0, session |-> 0]
    /\ cookie = [v \in Visitors |-> None]
    /\ owed = [v \in Visitors |-> {}]
    /\ trail = [v \in Visitors |-> [last |-> 0, asked |-> FALSE, strays |-> 0]]
    /\ counters = [k \in {} |-> 0]
    /\ cleaning = None
    /\ admitted = [k \in {} |-> 0]
    /\ names = [v \in Visitors |-> {}]

\* Fault: every request draws a salt.
SaltOfRequest(day) == drawn.salt + 1

\* salt: the day's row, or a new one.
SaltOf(day) ==
    IF \E s \in salts : s.day = day
    THEN (CHOOSE s \in salts : s.day = day).id
    ELSE drawn.salt + 1

\* A request without the cookie is given a new session.
SessionOf(v) == IF cookie[v] = None THEN drawn.session + 1 ELSE cookie[v].id

Identity(v) == [salt |-> SaltOf(LocalDay(hour)), session |-> SessionOf(v)]

Larger(a, b) == IF a > b THEN a ELSE b

\* identity: what computing it writes.  A new salt replaces those of all other
\* days.  A new session goes out with the answer, also when that is a refusal;
\* the browser has no cookie before the answer is there.
Identified(v) ==
    LET day == LocalDay(hour)
        me == Identity(v)
    IN  /\ me.salt \in 1 .. MaxSalts /\ me.session \in 1 .. MaxSessions
        /\ salts' = IF me.salt > drawn.salt
                    THEN {[day |-> day, id |-> me.salt]} ELSE salts
        /\ drawn' = [salt |-> Larger(me.salt, drawn.salt),
                     session |-> Larger(me.session, drawn.session)]
        /\ \/ cookie[v] # None /\ UNCHANGED <<owed, trail>>
           \/ /\ cookie[v] = None
              /\ owed' = [owed EXCEPT ![v] = @ \cup {me.session}]
              /\ trail' = [trail EXCEPT ![v] =
                    [last |-> me.session, asked |-> TRUE,
                     strays |-> @.strays + IF @.asked THEN 1 ELSE 0]]

\* consume: a window below its limit.
HasRoom(key) == Counter(counters, key) < Limit[key.scope]

\* consume: an admitted request is counted, in the same transaction.
Consumed(key) ==
    /\ counters' = Charged(counters, key)
    /\ admitted' = Charged(admitted, key)

\* check, protect: who asks is settled first, then the gate, then the quota.
Request(v, scope, gate) ==
    LET key == Key(scope, Identity(v), hour)
    IN  /\ Identified(v)
        /\ IF gate /\ HasRoom(key)
           THEN /\ Consumed(key)
                /\ names' = [names EXCEPT ![v] = @ \cup {key.who}]
           ELSE UNCHANGED <<counters, admitted, names>>
        /\ UNCHANGED <<hour, cookie, cleaning>>

\* consumeProduct: a search or map call draws on the product's quota.
ToolCall(scope) ==
    LET key == Key(scope, Product, hour)
    IN  /\ HasRoom(key)
        /\ Consumed(key)
        /\ UNCHANGED <<hour, salts, drawn, browserVars, cleaning, names>>

-----------------------------------------------------------------------------
(* Time, browsers and the clean-up *)

\* The next hour; a clean-up waits for the database from one hour into the
\* next at most.  The histories forget what is over.
Tick ==
    /\ hour < MaxHour
    /\ cleaning \in {None, hour}
    /\ hour' = hour + 1
    /\ admitted' = Without(admitted, {k \in DOMAIN admitted :
                            k.window # Window(k.scope, hour + 1)})
    /\ names' = [v \in Visitors |-> {}]
    /\ trail' = [v \in Visitors |->
                    [last |-> trail[v].last, asked |-> FALSE, strays |-> 0]]
    /\ UNCHANGED <<salts, drawn, cookie, owed, counters, cleaning>>

\* decorate: an answer with a new session reaches the browser, at any time after
\* its request, and replaces the cookie the browser may hold by then.
TakeCookie(v) ==
    \E id \in owed[v] :
        /\ cookie' = [cookie EXCEPT ![v] = [id |-> id, since |-> hour]]
        /\ owed' = [owed EXCEPT ![v] = @ \ {id}]
        /\ trail' = [trail EXCEPT ![v] =
                        [last |-> id, asked |-> @.asked,
                         strays |-> @.strays + IF id = @.last THEN 0 ELSE 1]]
        /\ UNCHANGED <<hour, salts, drawn, counters, cleaning, admitted, names>>

\* The answer does not arrive.
AnswerLost(v) ==
    \E id \in owed[v] :
        /\ owed' = [owed EXCEPT ![v] = @ \ {id}]
        /\ UNCHANGED <<hour, salts, drawn, cookie, trail, counters, cleaning,
                       admitted, names>>

\* A browser drops the cookie a day after it was set, at any time of that hour;
\* later requests do not renew it.
SessionEnds(v) ==
    /\ cookie[v] # None
    /\ hour >= cookie[v].since + DayHours
    /\ cookie' = [cookie EXCEPT ![v] = None]
    /\ UNCHANGED <<hour, salts, drawn, owed, trail, counters, cleaning,
                   admitted, names>>

\* The maintenance command, a process of its own, reads the clock ...
StartCleanup ==
    /\ cleaning = None
    /\ cleaning' = hour
    /\ UNCHANGED <<hour, salts, drawn, browserVars, counters, admitted, names>>

\* Fault: the clean-up takes the counters of the open window too.
ExpiredNow(key, at) == key.window <= Window(key.scope, at)

\* expires_at <= now: the window is over.
Expired(key, at) == key.window < Window(key.scope, at)

\* ... and cleans up once it has the database: counters of closed windows and
\* the salts of other days than the one it read go.
Cleanup ==
    /\ cleaning # None
    /\ counters' =
        Without(counters, {k \in DOMAIN counters : Expired(k, cleaning)})
    /\ salts' = {s \in salts : s.day = LocalDay(cleaning)}
    /\ cleaning' = None
    /\ UNCHANGED <<hour, drawn, browserVars, admitted, names>>

Next ==
    \/ \E v \in Visitors, s \in VisitorScopes, gate \in BOOLEAN :
            Request(v, s, gate)
    \/ \E s \in ProductScopes : ToolCall(s)
    \/ Tick
    \/ \E v \in Visitors : TakeCookie(v) \/ AnswerLost(v) \/ SessionEnds(v)
    \/ StartCleanup
    \/ Cleanup

Spec == Init /\ [][Next]_vars

-----------------------------------------------------------------------------
(* Properties *)

TypeOK ==
    /\ hour \in 0 .. MaxHour
    /\ salts \subseteq [day : Nat, id : 1 .. MaxSalts]
    /\ drawn \in [salt : 0 .. MaxSalts, session : 0 .. MaxSessions]
    /\ cookie \in [Visitors -> [id : 1 .. MaxSessions, since : 0 .. MaxHour]
                                \cup {None}]
    /\ owed \in [Visitors -> SUBSET (1 .. MaxSessions)]
    /\ trail \in [Visitors -> [last : 0 .. MaxSessions, asked : BOOLEAN,
                               strays : Nat]]
    /\ DOMAIN counters \subseteq CounterKeys
    /\ counters \in [DOMAIN counters -> Nat]
    /\ cleaning \in 0 .. MaxHour \cup {None}
    /\ DOMAIN admitted \subseteq CounterKeys
    /\ admitted \in [DOMAIN admitted -> Nat]
    /\ names \in [Visitors -> SUBSET Identities]

\* The quota (consume, cleanupRateLimits): whatever is cleaned up and whenever,
\* a window admits at most its limit of requests of one identity.
WindowBound ==
    \A k \in DOMAIN admitted : admitted[k] <= Limit[k.scope]

\* What the quota means for a person who keeps the cookie: within an hour the
\* identity of a browser that waits for the answer to its first request changes
\* at most twice, when the cookie ends and when a clean-up that read the clock
\* before midnight takes the new day's salt.  So a person is admitted three
\* times the limit, and once more for each stray: each request the browser sends
\* without the cookie while the answer that sets it is under way or lost, and
\* each late answer that replaces the session.  (salt, identity, the cookie's
\* age and its way to the browser)
VisitorBound ==
    \A v \in Visitors : Cardinality(names[v]) <= 3 + trail[v].strays

\* For the proof of WindowBound: no row is of a window to come, a row of the
\* open window counts exactly what was admitted in it, and a clean-up that waits
\* has read this hour or the last.
RateInv ==
    /\ hour \in Nat
    /\ cleaning \in Nat \cup {None}
    /\ cleaning \in Nat => hour \in {cleaning, cleaning + 1}
    /\ \A k \in DOMAIN counters :
        /\ k.scope \in Scopes
        /\ k.window \in Nat
        /\ k.window <= Window(k.scope, hour)
        /\ k.window = Window(k.scope, hour) => k \in DOMAIN admitted
    /\ \A k \in DOMAIN admitted :
        /\ k.window = Window(k.scope, hour)
        /\ k \in DOMAIN counters
        /\ counters[k] = admitted[k]
        /\ admitted[k] \in 0 .. Limit[k.scope]

\* Today's salt is drawn, and a clean-up waits that read the clock yesterday.
HasSalt == \E s \in salts : s.day = LocalDay(hour)
ReadYesterday == cleaning # None /\ LocalDay(cleaning) # LocalDay(hour)

\* The browser is without the cookie, or may drop it within this hour, and has
\* not asked for a session in it.
SessionMayChange(v) ==
    /\ ~trail[v].asked
    /\ cookie[v] = None \/ hour >= cookie[v].since + DayHours

\* The identity of the session last given out or taken, and the identities v was
\* admitted under in this hour.
Present(v) == [salt |-> SaltOf(LocalDay(hour)), session |-> trail[v].last]
Seen(v) == names[v] \cup (IF HasSalt THEN {Present(v)} ELSE {})

\* How often the identity can still change within the hour, strays apart.
ChangesLeft(v) ==
    (IF HasSalt /\ ~ReadYesterday THEN 0 ELSE 1)
        + (IF SessionMayChange(v) THEN 1 ELSE 0)

\* For the proof of VisitorBound: each change of an identity uses up one of the
\* two there can be in an hour, or is a stray, and a cookie held is of the
\* session last given out or taken.
NamesInv ==
    /\ hour \in Nat
    /\ cleaning \in Nat \cup {None}
    /\ drawn.salt \in Nat /\ drawn.session \in Nat
    /\ cookie \in [Visitors -> [id : Nat, since : Nat] \cup {None}]
    /\ trail \in [Visitors -> [last : Nat, asked : BOOLEAN, strays : Nat]]
    /\ \A v \in Visitors : owed[v] \subseteq Nat
    /\ names \in [Visitors -> SUBSET Identities]
    /\ \A v \in Visitors : cookie[v] # None => cookie[v].id = trail[v].last
    /\ \A v \in Visitors : names[v] # {} =>
        /\ IsFiniteSet(names[v])
        /\ Cardinality(Seen(v)) + ChangesLeft(v) <= 3 + trail[v].strays
        /\ ReadYesterday => HasSalt
=============================================================================
