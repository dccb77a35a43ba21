----------------------------- MODULE Guard_proofs -----------------------------
(***************************************************************************)
(* Machine-checked proofs about what stands before a planning job:         *)
(*   - the quotas, for any scopes, limits, visitors, length of the day and *)
(*     number of hours, with the clean-up at any moment.  A limit is       *)
(*     compared with a row of the database, so the heart of that proof is  *)
(*     that the rows of open windows are never lost and never stale;       *)
(*   - the monthly stop and the ledger behind it, for any jobs, calls and  *)
(*     months;                                                             *)
(*   - the regression gate, which opens for no model that was never        *)
(*     tested, whatever a provider reports and wherever a command is       *)
(*     killed.  A command reads the file, decides and writes in steps of   *)
(*     their own, so the invariant speaks of what is going to be written   *)
(*     as well.                                                            *)
(***************************************************************************)
EXTENDS RateLimits, MonthlyStop, ModelGate, FoldFacts, TLAPS

-----------------------------------------------------------------------------
(* Quotas: windows *)

\* What the quotient of a division is.
LEMMA Quotient ==
  ASSUME NEW n \in Nat, NEW d \in Nat \ {0}
  PROVE  /\ n \div d \in Nat
         /\ d * (n \div d) <= n
         /\ n < d * (n \div d) + d
OBVIOUS

LEMMA ProductGrows ==
  ASSUME NEW d \in Nat, NEW a \in Nat, NEW b \in Nat, a + 1 <= b
  PROVE  d * a + d <= d * b
<1>1. PICK e \in Nat : b = a + 1 + e
  <2>1. b - a - 1 \in Nat /\ b = a + 1 + (b - a - 1)
    OBVIOUS
  <2> QED
    BY <2>1
<1>2. d * b = d * a + d + d * e
  BY <1>1
<1>3. d * e \in Nat
  BY <1>1
<1> QED
  BY <1>2, <1>3

\* The number of a window never goes back.
LEMMA WindowGrows ==
  ASSUME NEW scope, NEW n \in Nat
  PROVE  /\ Window(scope, n) \in Nat
         /\ Window(scope, n) <= Window(scope, n + 1)
<1>1. CASE scope \in VisitorScopes
  BY <1>1 DEF Window
<1>2. CASE scope \notin VisitorScopes
  <2> DEFINE a == (n + 1) \div DayHours
             b == n \div DayHours
  <2>1. DayHours \in Nat \ {0}
    BY RateAssumption
  <2>2. /\ a \in Nat /\ b \in Nat
        /\ n + 1 < DayHours * a + DayHours
        /\ DayHours * b <= n
    BY <2>1, Quotient
  <2> HIDE DEF a, b
  <2>3. b <= a
    <3> SUFFICES ASSUME a + 1 <= b PROVE FALSE
      BY <2>2
    <3>1. DayHours * a + DayHours <= DayHours * b
      BY <2>1, <2>2, ProductGrows
    <3>2. DayHours * a \in Nat /\ DayHours * b \in Nat
      BY <2>1, <2>2
    <3> QED
      BY <2>1, <2>2, <3>1, <3>2
  <2> QED
    BY <1>2, <2>2, <2>3 DEF Window, a, b
<1> QED
  BY <1>1, <1>2

-----------------------------------------------------------------------------
(* Quotas: the rows of open windows *)

LEMMA RowsBegin == Init => RateInv
BY RateAssumption DEF Init, RateInv

\* Charging a key whose row has room.
LEMMA ConsumedKeepsRows ==
  ASSUME RateInv, NEW scope \in Scopes, NEW who,
         HasRoom(Key(scope, who, hour)), Consumed(Key(scope, who, hour)),
         hour' = hour, cleaning' = cleaning
  PROVE  RateInv'
<1> DEFINE key == Key(scope, who, hour)
           limit == Limit[scope]
<1>1. /\ key.scope = scope /\ key.window = Window(scope, hour)
      /\ Window(scope, hour) \in Nat /\ hour \in Nat
  BY WindowGrows DEF Key, RateInv
<1>2. limit \in Nat
  BY RateAssumption DEF Scopes
<1>3. /\ Counter(counters, key) < limit
      /\ counters' = Charged(counters, key)
      /\ admitted' = Charged(admitted, key)
  BY <1>1 DEF HasRoom, Consumed
<1>4. /\ \A k \in DOMAIN counters :
            /\ k.scope \in Scopes /\ k.window \in Nat
            /\ k.window <= Window(k.scope, hour)
            /\ k.window = Window(k.scope, hour) => k \in DOMAIN admitted
      /\ \A k \in DOMAIN admitted :
            /\ k.window = Window(k.scope, hour)
            /\ k \in DOMAIN counters
            /\ counters[k] = admitted[k]
            /\ admitted[k] \in 0 .. Limit[k.scope]
  BY DEF RateInv
<1> HIDE DEF key, limit
<1>5. /\ Counter(counters, key) = Counter(admitted, key)
      /\ Counter(admitted, key) \in Nat
  <2>1. CASE key \in DOMAIN admitted
    BY <2>1, <1>1, <1>2, <1>4 DEF Counter, limit
  <2>2. CASE key \notin DOMAIN admitted
    BY <2>2, <1>1, <1>4 DEF Counter
  <2> QED
    BY <2>1, <2>2
<1>6. /\ DOMAIN counters' = DOMAIN counters \cup {key}
      /\ DOMAIN admitted' = DOMAIN admitted \cup {key}
      /\ counters'[key] = Counter(counters, key) + 1
      /\ admitted'[key] = Counter(admitted, key) + 1
      /\ \A k \in DOMAIN counters \ {key} : counters'[k] = counters[k]
      /\ \A k \in DOMAIN admitted \ {key} : admitted'[k] = admitted[k]
  BY <1>3 DEF Charged
<1>7. \A k \in DOMAIN counters' :
        /\ k.scope \in Scopes /\ k.window \in Nat
        /\ k.window <= Window(k.scope, hour)
        /\ k.window = Window(k.scope, hour) => k \in DOMAIN admitted'
  BY <1>1, <1>4, <1>6
<1>8. \A k \in DOMAIN admitted' :
        /\ k.window = Window(k.scope, hour)
        /\ k \in DOMAIN counters'
        /\ counters'[k] = admitted'[k]
        /\ admitted'[k] \in 0 .. Limit[k.scope]
  <2>1. admitted'[key] \in 0 .. Limit[key.scope]
    BY <1>1, <1>2, <1>3, <1>5, <1>6 DEF limit
  <2>2. counters'[key] = admitted'[key]
    BY <1>5, <1>6
  <2> QED
    BY <1>1, <1>4, <1>6, <2>1, <2>2
<1>9. \A scope_1, at : Window(scope_1, at)' = Window(scope_1, at)
  BY DEF Window
<1> QED
  BY <1>7, <1>8 DEF RateInv, Window

\* A step that changes neither rows nor time.
LEMMA RowsAreKept ==
  ASSUME RateInv, UNCHANGED <<hour, counters, admitted>>,
         cleaning' \in {cleaning, hour, None}
  PROVE  RateInv'
<1>1. /\ cleaning' \in Nat \cup {None}
      /\ cleaning' \in Nat => hour' \in {cleaning', cleaning' + 1}
  BY RateAssumption DEF RateInv
<1> QED
  BY <1>1 DEF RateInv, Window

LEMMA RequestKeepsRows ==
  ASSUME RateInv, NEW v \in Visitors, NEW s \in VisitorScopes,
         NEW allowed \in BOOLEAN, Request(v, s, allowed)
  PROVE  RateInv'
<1> DEFINE who == Identity(v)
<1>1. hour' = hour /\ cleaning' = cleaning
  BY DEF Request
<1>2. CASE allowed /\ HasRoom(Key(s, who, hour))
  <2>1. Consumed(Key(s, who, hour)) /\ s \in Scopes
    BY <1>2 DEF Request, Scopes
  <2> HIDE DEF who
  <2> QED
    BY <1>1, <1>2, <2>1, ConsumedKeepsRows
<1>3. CASE ~(allowed /\ HasRoom(Key(s, who, hour)))
  BY <1>1, <1>3, RowsAreKept DEF Request
<1> QED
  BY <1>2, <1>3

LEMMA ToolCallKeepsRows ==
  ASSUME RateInv, NEW s \in ProductScopes, ToolCall(s)
  PROVE  RateInv'
BY ConsumedKeepsRows DEF ToolCall, Scopes

\* The next hour opens windows that have no row yet; the windows that stay open
\* keep theirs.
LEMMA TickKeepsRows ==
  ASSUME RateInv, Tick
  PROVE  RateInv'
<1>1. /\ hour \in Nat /\ hour' = hour + 1 /\ hour' \in Nat
      /\ counters' = counters /\ cleaning' = cleaning
      /\ cleaning \in {None, hour}
  BY DEF Tick, RateInv
<1>2. \A k \in DOMAIN counters :
        /\ k.scope \in Scopes /\ k.window \in Nat
        /\ k.window <= Window(k.scope, hour)
        /\ k.window = Window(k.scope, hour) => k \in DOMAIN admitted
  BY DEF RateInv
<1>3. \A k \in DOMAIN admitted :
        /\ k.window = Window(k.scope, hour)
        /\ k \in DOMAIN counters
        /\ counters[k] = admitted[k]
        /\ admitted[k] \in 0 .. Limit[k.scope]
  BY DEF RateInv
<1>4. /\ DOMAIN admitted' = {k \in DOMAIN admitted :
                               k.window = Window(k.scope, hour')}
      /\ \A k \in DOMAIN admitted' : admitted'[k] = admitted[k]
  BY <1>1 DEF Tick, Without
<1>5. cleaning' \in Nat => hour' \in {cleaning', cleaning' + 1}
  BY <1>1, RateAssumption
<1>6. \A k \in DOMAIN counters :
        /\ Window(k.scope, hour) \in Nat /\ Window(k.scope, hour') \in Nat
        /\ Window(k.scope, hour) <= Window(k.scope, hour')
  BY <1>1, WindowGrows
<1>7. \A k \in DOMAIN counters' :
        /\ k.scope \in Scopes /\ k.window \in Nat
        /\ k.window <= Window(k.scope, hour')
        /\ k.window = Window(k.scope, hour') => k \in DOMAIN admitted'
  <2> SUFFICES ASSUME NEW k \in DOMAIN counters
               PROVE  /\ k.scope \in Scopes /\ k.window \in Nat
                      /\ k.window <= Window(k.scope, hour')
                      /\ k.window = Window(k.scope, hour')
                            => k \in DOMAIN admitted'
    BY <1>1
  <2> DEFINE old == Window(k.scope, hour)
             new == Window(k.scope, hour')
  <2>1. old \in Nat /\ new \in Nat /\ old <= new
    BY <1>6
  <2>2. /\ k.scope \in Scopes /\ k.window \in Nat /\ k.window <= old
        /\ k.window = old => k \in DOMAIN admitted
    BY <1>2
  <2>3. k \in DOMAIN admitted /\ k.window = new => k \in DOMAIN admitted'
    BY <1>4
  <2> HIDE DEF old, new
  <2>4. k.window <= new /\ (k.window = new => k \in DOMAIN admitted')
    BY <2>1, <2>2, <2>3
  <2> QED
    BY <2>2, <2>4 DEF new
<1>8. \A k \in DOMAIN admitted' :
        /\ k.window = Window(k.scope, hour')
        /\ k \in DOMAIN counters'
        /\ counters'[k] = admitted'[k]
        /\ admitted'[k] \in 0 .. Limit[k.scope]
  BY <1>1, <1>3, <1>4
<1> QED
  BY <1>1, <1>5, <1>7, <1>8 DEF RateInv, Window

\* A clean-up deletes rows of windows that were over when it read the clock, and
\* so are over still.
LEMMA CleanupKeepsRows ==
  ASSUME RateInv, Cleanup
  PROVE  RateInv'
<1>1. /\ cleaning' = None /\ hour' = hour /\ admitted' = admitted
      /\ hour \in Nat /\ cleaning' \notin Nat
  BY RateAssumption DEF Cleanup, RateInv
<1>2. \A k \in DOMAIN counters :
        /\ k.scope \in Scopes /\ k.window \in Nat
        /\ k.window <= Window(k.scope, hour)
        /\ k.window = Window(k.scope, hour) => k \in DOMAIN admitted
  BY DEF RateInv
<1>3. \A k \in DOMAIN admitted :
        /\ k.window = Window(k.scope, hour)
        /\ k \in DOMAIN counters
        /\ counters[k] = admitted[k]
        /\ admitted[k] \in 0 .. Limit[k.scope]
  BY DEF RateInv
<1>4. /\ DOMAIN counters' = {k \in DOMAIN counters : ~Expired(k, cleaning)}
      /\ \A k \in DOMAIN counters' : counters'[k] = counters[k]
  BY DEF Cleanup, Without
<1>5. \A k \in DOMAIN admitted : ~Expired(k, cleaning)
  <2> SUFFICES ASSUME NEW k \in DOMAIN admitted
               PROVE  ~(k.window < Window(k.scope, cleaning))
    BY DEF Expired
  <2>0. cleaning \in Nat
    BY DEF RateInv, Cleanup
  <2>1. hour \in {cleaning, cleaning + 1}
    BY <2>0 DEF RateInv
  <2>2. /\ Window(k.scope, cleaning) \in Nat /\ Window(k.scope, hour) \in Nat
        /\ Window(k.scope, cleaning) <= Window(k.scope, hour)
    BY <1>1, <2>0, <2>1, WindowGrows
  <2>3. k.window = Window(k.scope, hour)
    BY <1>3
  <2> HIDE DEF Window
  <2> QED
    BY <2>2, <2>3
<1>6. \A k \in DOMAIN admitted :
        k \in DOMAIN counters' /\ counters'[k] = admitted[k]
  BY <1>3, <1>4, <1>5
<1> QED
  BY <1>1, <1>2, <1>3, <1>4, <1>6 DEF RateInv, Window

LEMMA StepKeepsRows == RateInv /\ [Next]_vars => RateInv'
<1> SUFFICES ASSUME RateInv, [Next]_vars PROVE RateInv'
  OBVIOUS
<1>1. CASE \E v \in Visitors, s \in VisitorScopes, allowed \in BOOLEAN :
                Request(v, s, allowed)
  BY <1>1, RequestKeepsRows
<1>2. CASE \E s \in ProductScopes : ToolCall(s)
  BY <1>2, ToolCallKeepsRows
<1>3. CASE Tick
  BY <1>3, TickKeepsRows
<1>4. CASE \E v \in Visitors : TakeCookie(v) \/ AnswerLost(v) \/ SessionEnds(v)
  BY <1>4, RowsAreKept DEF TakeCookie, AnswerLost, SessionEnds
<1>5. CASE StartCleanup
  BY <1>5, RowsAreKept DEF StartCleanup
<1>6. CASE Cleanup
  BY <1>6, CleanupKeepsRows
<1>7. CASE UNCHANGED vars
  BY <1>7, RowsAreKept DEF vars
<1> QED
  BY <1>1, <1>2, <1>3, <1>4, <1>5, <1>6, <1>7 DEF Next

\* The rows of open windows count what was admitted in them, whatever happens.
THEOREM RowsInvariant == Spec => []RateInv
BY RowsBegin, StepKeepsRows, PTL DEF Spec

\* A window never admits more than its limit of requests of one identity
\* (consume, cleanupRateLimits).
THEOREM WindowsAreBounded == Spec => []WindowBound
<1>1. RateInv => WindowBound
  <2> SUFFICES ASSUME RateInv, NEW k \in DOMAIN admitted
               PROVE  admitted[k] <= Limit[k.scope]
    BY DEF WindowBound
  <2>1. k \in DOMAIN counters /\ admitted[k] \in 0 .. Limit[k.scope]
    BY DEF RateInv
  <2>2. Limit[k.scope] \in Nat
    BY <2>1, RateAssumption DEF RateInv, Scopes
  <2> QED
    BY <2>1, <2>2
<1> QED
  BY <1>1, RowsInvariant, PTL

-----------------------------------------------------------------------------
(* The identities of a person in one hour *)

\* One element more at most.
LEMMA OneMoreAtMost ==
  ASSUME NEW S, IsFiniteSet(S), NEW x, NEW T, T \subseteq S \cup {x}
  PROVE  /\ IsFiniteSet(T)
         /\ Cardinality(T) \in Nat /\ Cardinality(S) \in Nat
         /\ Cardinality(T) <= Cardinality(S) + 1
         /\ T \subseteq S => Cardinality(T) <= Cardinality(S)
<1>1. /\ IsFiniteSet(S \cup {x})
      /\ Cardinality(S \cup {x}) <= Cardinality(S) + 1
  <2>1. Cardinality(S) \in Nat
    BY FS_CardinalityType
  <2> QED
    BY <2>1, FS_AddElement
<1>2. IsFiniteSet(T) /\ Cardinality(T) <= Cardinality(S \cup {x})
  BY <1>1, FS_Subset
<1>3. /\ Cardinality(T) \in Nat /\ Cardinality(S) \in Nat
      /\ Cardinality(S \cup {x}) \in Nat
  BY <1>1, <1>2, FS_CardinalityType
<1>4. T \subseteq S => Cardinality(T) <= Cardinality(S)
  BY FS_Subset
<1> QED
  BY <1>1, <1>2, <1>3, <1>4

\* What NamesInv says of one person.
NamesOf(v) ==
    names[v] # {} =>
        /\ IsFiniteSet(names[v])
        /\ Cardinality(Seen(v)) + ChangesLeft(v) <= 3 + trail[v].strays
        /\ ReadYesterday => HasSalt

\* The session of a cookie that is held.
CookieOf(v) == cookie[v] # None => cookie[v].id = trail[v].last

\* The past of every person.
Trails == [Visitors -> [last : Nat, asked : BOOLEAN, strays : Nat]]

LEMMA ChangesLeftType ==
  ASSUME NEW v
  PROVE  ChangesLeft(v) \in 0 .. 2 /\ ChangesLeft(v)' \in 0 .. 2
BY DEF ChangesLeft

LEMMA SeenIsFinite ==
  ASSUME NEW v, IsFiniteSet(names[v])
  PROVE  IsFiniteSet(Seen(v))
BY FS_AddElement DEF Seen

\* A person who has been admitted already is left with as much as before, if no
\* identity is new, or a change is used up by the one that is, or it is a stray.
LEMMA NamesOfStep ==
  ASSUME NEW v \in Visitors, NamesOf(v), names[v] # {}, NEW x,
         trail \in Trails, trail' \in Trails,
         Seen(v)' \subseteq Seen(v) \cup {x}, names[v]' \subseteq Seen(v)',
         ReadYesterday' => HasSalt',
         ChangesLeft(v)' <= ChangesLeft(v),
         trail'[v].strays >= trail[v].strays,
         \/ Seen(v)' \subseteq Seen(v)
         \/ ChangesLeft(v)' + 1 <= ChangesLeft(v)
         \/ trail'[v].strays = trail[v].strays + 1
  PROVE  NamesOf(v)'
<1>1. IsFiniteSet(Seen(v))
  BY SeenIsFinite DEF NamesOf
<1> DEFINE before == Seen(v)
           after == Seen(v)'
           left == ChangesLeft(v)
           then == ChangesLeft(v)'
           strays == trail[v].strays
           more == trail'[v].strays
<1>2. /\ IsFiniteSet(before) /\ after \subseteq before \cup {x}
      /\ Cardinality(before) + left <= 3 + strays
      /\ then <= left /\ more >= strays
      /\ after \subseteq before \/ then + 1 <= left \/ more = strays + 1
  BY <1>1 DEF NamesOf
<1>3. left \in 0 .. 2 /\ then \in 0 .. 2 /\ strays \in Nat /\ more \in Nat
  BY ChangesLeftType DEF Trails
<1> HIDE DEF before, after, left, then, strays, more
<1>4. /\ IsFiniteSet(after)
      /\ Cardinality(after) \in Nat /\ Cardinality(before) \in Nat
      /\ Cardinality(after) <= Cardinality(before) + 1
      /\ after \subseteq before => Cardinality(after) <= Cardinality(before)
  BY <1>2, OneMoreAtMost
<1>5. Cardinality(after) + then <= 3 + more
  BY <1>2, <1>3, <1>4
<1>6. IsFiniteSet(names[v]')
  BY <1>4, FS_Subset DEF after
<1> QED
  BY <1>5, <1>6 DEF NamesOf, after, then, more

\* What a request leaves of the salts: today's, whoever asks.
LEMMA SaltIsKept ==
  ASSUME NEW v, drawn.salt \in Nat, hour' = hour, Identified(v)
  PROVE  /\ HasSalt' /\ SaltOf(LocalDay(hour))' = SaltOf(LocalDay(hour))
         /\ Identity(v).salt \in Nat
<1> DEFINE day == LocalDay(hour)
           me == Identity(v)
<1>1. /\ me.salt = SaltOf(day) /\ me.salt \in Nat
      /\ salts' = IF me.salt > drawn.salt
                  THEN {[day |-> day, id |-> me.salt]} ELSE salts
  BY DEF Identity, Identified
<1>2. LocalDay(hour)' = day
  BY DEF LocalDay
<1>3. CASE me.salt > drawn.salt
  <2>1. salts' = {[day |-> day, id |-> me.salt]}
    BY <1>1, <1>3
  <2>2. HasSalt'
    BY <1>2, <2>1 DEF HasSalt
  <2>3. (CHOOSE r \in salts' : r.day = day) = [day |-> day, id |-> me.salt]
    BY <2>1
  <2>4. SaltOf(day)' = me.salt
    BY <1>2, <2>1, <2>3 DEF SaltOf
  <2> QED
    BY <1>1, <2>2, <2>4
<1>4. CASE ~(me.salt > drawn.salt)
  <2>1. salts' = salts
    BY <1>1, <1>4
  <2>2. \E r \in salts : r.day = day
    <3> SUFFICES ASSUME ~\E r \in salts : r.day = day PROVE FALSE
      OBVIOUS
    <3>1. me.salt = drawn.salt + 1
      BY <1>1 DEF SaltOf
    <3> QED
      BY <1>4, <3>1
  <2>3. HasSalt'
    BY <1>2, <2>1, <2>2 DEF HasSalt
  <2>4. SaltOf(day)' = SaltOf(day)
    BY <1>2, <2>1, <2>2 DEF SaltOf
  <2> QED
    BY <1>1, <2>3, <2>4
<1> QED
  BY <1>3, <1>4

\* What a request leaves of the browsers: the visitor's session is given out,
\* and everybody else's stays.
LEMMA Recognised ==
  ASSUME NamesInv, NEW v \in Visitors, NEW s \in VisitorScopes,
         NEW allowed \in BOOLEAN, Request(v, s, allowed)
  PROVE  /\ hour' = hour /\ cleaning' = cleaning /\ cookie' = cookie
         /\ drawn'.salt \in Nat /\ drawn'.session \in Nat
         /\ HasSalt'
         /\ SaltOf(LocalDay(hour))' = SaltOf(LocalDay(hour))
         /\ \A w \in Visitors : owed'[w] \subseteq Nat
         /\ trail' \in Trails
         /\ trail'[v].last = SessionOf(v)
         /\ cookie[v] # None => trail'[v] = trail[v]
         /\ cookie[v] = None =>
              /\ trail'[v].asked
              /\ trail'[v].strays =
                    trail[v].strays + IF trail[v].asked THEN 1 ELSE 0
         /\ \A w \in Visitors \ {v} : trail'[w] = trail[w]
         /\ names' \in [Visitors -> SUBSET Identities]
         /\ names'[v] \subseteq names[v] \cup {Identity(v)}
         /\ \A w \in Visitors \ {v} : names'[w] = names[w]
<1> DEFINE me == Identity(v)
<1>1. /\ hour' = hour /\ cleaning' = cleaning /\ cookie' = cookie
      /\ hour \in Nat
      /\ drawn.salt \in Nat /\ drawn.session \in Nat
      /\ cookie \in [Visitors -> [id : Nat, since : Nat] \cup {None}]
      /\ trail \in Trails /\ \A w \in Visitors : owed[w] \subseteq Nat
      /\ cookie[v] # None => cookie[v].id = trail[v].last
      /\ names \in [Visitors -> SUBSET Identities]
  BY DEF Request, NamesInv, Trails
<1>2. Identified(v)
  BY DEF Request
<1>3. /\ me.session = SessionOf(v)
      /\ me = [salt |-> SaltOf(LocalDay(hour)), session |-> SessionOf(v)]
  BY DEF Identity
<1>4. /\ me.salt \in 1 .. MaxSalts /\ me.session \in 1 .. MaxSessions
      /\ me.salt \in Nat /\ me.session \in Nat
  BY <1>2 DEF Identified
<1>5. drawn' = [salt |-> Larger(me.salt, drawn.salt),
                session |-> Larger(me.session, drawn.session)]
  BY <1>2 DEF Identified
<1>6. drawn'.salt \in Nat /\ drawn'.session \in Nat
  BY <1>1, <1>4, <1>5 DEF Larger
<1>7. HasSalt' /\ SaltOf(LocalDay(hour))' = SaltOf(LocalDay(hour))
  BY <1>1, <1>2, SaltIsKept
<1>8. /\ trail' \in Trails /\ trail'[v].last = SessionOf(v)
      /\ \A w \in Visitors : owed'[w] \subseteq Nat
      /\ cookie[v] # None => trail'[v] = trail[v]
      /\ cookie[v] = None =>
           /\ trail'[v].asked
           /\ trail'[v].strays =
                 trail[v].strays + IF trail[v].asked THEN 1 ELSE 0
      /\ \A w \in Visitors \ {v} : trail'[w] = trail[w]
  <2>1. CASE cookie[v] # None
    <3>1. owed' = owed /\ trail' = trail
      BY <1>2, <2>1 DEF Identified
    <3>2. trail'[v].last = SessionOf(v)
      BY <1>1, <2>1, <3>1 DEF SessionOf
    <3> QED
      BY <1>1, <2>1, <3>1, <3>2
  <2>2. CASE cookie[v] = None
    <3> DEFINE new == [last |-> me.session, asked |-> TRUE,
                       strays |-> trail[v].strays
                                    + IF trail[v].asked THEN 1 ELSE 0]
    <3>1. /\ owed' = [owed EXCEPT ![v] = @ \cup {me.session}]
          /\ trail' = [trail EXCEPT ![v] = new]
      BY <1>2, <2>2 DEF Identified
    <3>2. new \in [last : Nat, asked : BOOLEAN, strays : Nat]
      <4>1. trail[v].strays \in Nat
        BY <1>1 DEF Trails
      <4> QED
        BY <1>4, <4>1
    <3>3. trail' \in Trails /\ trail'[v] = new
      BY <1>1, <3>1, <3>2 DEF Trails
    <3>4. \A w \in Visitors : owed'[w] \subseteq Nat
      BY <1>1, <1>4, <3>1
    <3>5. \A w \in Visitors \ {v} : trail'[w] = trail[w]
      BY <1>1, <3>1 DEF Trails
    <3> QED
      BY <1>3, <2>2, <3>3, <3>4, <3>5
  <2> QED
    BY <2>1, <2>2
<1>9. /\ names' \in [Visitors -> SUBSET Identities]
      /\ names'[v] \subseteq names[v] \cup {Identity(v)}
      /\ \A w \in Visitors \ {v} : names'[w] = names[w]
  <2>1. me \in Identities
    BY <1>3, <1>4 DEF Identities
  <2>2. names' = names \/ names' = [names EXCEPT ![v] = names[v] \cup {me}]
    BY DEF Request, Key
  <2>3. Identity(v) = me
    OBVIOUS
  <2> HIDE DEF me
  <2> QED
    BY <1>1, <2>1, <2>2, <2>3
<1> HIDE DEF me
<1> QED
  BY <1>1, <1>6, <1>7, <1>8, <1>9

LEMMA NamesOfRequest ==
  ASSUME NamesInv, NEW v \in Visitors, NEW s \in VisitorScopes,
         NEW allowed \in BOOLEAN, Request(v, s, allowed), NEW w \in Visitors
  PROVE  NamesOf(w)' /\ CookieOf(w)'
<1> DEFINE salt == SaltOf(LocalDay(hour))
           who == [salt |-> salt, session |-> trail'[w].last]
<1>1. /\ hour' = hour /\ cleaning' = cleaning /\ cookie' = cookie /\ HasSalt'
      /\ SaltOf(LocalDay(hour))' = salt
      /\ trail' \in Trails
      /\ trail'[v].last = SessionOf(v)
      /\ cookie[v] # None => trail'[v] = trail[v]
      /\ cookie[v] = None =>
           /\ trail'[v].asked
           /\ trail'[v].strays =
                 trail[v].strays + IF trail[v].asked THEN 1 ELSE 0
      /\ w # v => trail'[w] = trail[w] /\ names'[w] = names[w]
      /\ names'[v] \subseteq names[v] \cup {Identity(v)}
  BY Recognised
<1>2. /\ NamesOf(w) /\ CookieOf(w) /\ CookieOf(v)
      /\ hour \in Nat /\ trail \in Trails
  BY DEF NamesInv, NamesOf, CookieOf, Trails
<1>3. ReadYesterday' = ReadYesterday /\ LocalDay(hour)' = LocalDay(hour)
  BY <1>1 DEF ReadYesterday, LocalDay
<1>4. Present(w)' = who /\ (w = v => Identity(w) = who)
  BY <1>1, <1>3 DEF Present, Identity
<1>5. names'[w] \subseteq names[w] \cup {who}
  BY <1>1, <1>4
<1>6. /\ Seen(w)' \subseteq Seen(w) \cup {who}
      /\ Seen(w)' = names'[w] \cup {who}
      /\ names'[w] \subseteq Seen(w)'
  BY <1>1, <1>4, <1>5 DEF Seen
<1>7. CookieOf(w)'
  BY <1>1, <1>2 DEF CookieOf
<1>8. /\ SessionMayChange(w)' => SessionMayChange(w)
      /\ (w = v /\ cookie[v] = None) => ~SessionMayChange(w)'
  BY <1>1 DEF SessionMayChange
<1>9. ChangesLeft(w)' <= ChangesLeft(w)
  BY <1>1, <1>3, <1>8 DEF ChangesLeft
<1>10. trail'[w].strays >= trail[w].strays
  <2>1. trail[w].strays \in Nat
    BY <1>2 DEF Trails
  <2> QED
    BY <1>1, <2>1
<1>11. CASE names[w] = {}
  <2>1. SUFFICES ASSUME names'[w] # {} PROVE NamesOf(w)'
    BY <1>7 DEF NamesOf
  <2> DEFINE after == Seen(w)'
  <2>2. names'[w] \subseteq after /\ after \subseteq {} \cup {who}
    BY <1>5, <1>6, <1>11
  <2> HIDE DEF after, who
  <2>3. /\ IsFiniteSet(after) /\ Cardinality(after) \in Nat
        /\ Cardinality(after) <= Cardinality({}) + 1
    BY <2>2, OneMoreAtMost, FS_EmptySet
  <2>4. IsFiniteSet(names'[w]) /\ Cardinality(after) <= 1
    BY <2>2, <2>3, FS_Subset, FS_EmptySet
  <2>5. ChangesLeft(w)' \in 0 .. 2 /\ trail'[w].strays \in Nat
    BY <1>1, ChangesLeftType DEF Trails
  <2>6. Cardinality(after) + ChangesLeft(w)' <= 3 + trail'[w].strays
    BY <2>3, <2>4, <2>5
  <2> QED
    BY <1>1, <2>4, <2>6 DEF NamesOf, after
<1>12. CASE names[w] # {} /\ HasSalt /\ (w # v \/ cookie[v] # None)
  <2>1. trail'[w] = trail[w] /\ who = Present(w)
    BY <1>1, <1>12 DEF Present
  <2>2. Seen(w)' \subseteq Seen(w)
    BY <1>6, <1>12, <2>1 DEF Seen
  <2> QED
    BY <1>1, <1>2, <1>6, <1>7, <1>9, <1>10, <1>12, <2>2, NamesOfStep
<1>13. CASE names[w] # {} /\ ~HasSalt
  <2>1. ~ReadYesterday
    BY <1>2, <1>13 DEF NamesOf
  <2>2. ChangesLeft(w)' + 1 <= ChangesLeft(w)
    BY <1>1, <1>3, <1>8, <1>13, <2>1 DEF ChangesLeft
  <2> QED
    BY <1>1, <1>2, <1>6, <1>7, <1>9, <1>10, <1>13, <2>2, NamesOfStep
<1>14. CASE names[w] # {} /\ HasSalt /\ w = v /\ cookie[v] = None
  <2>1. CASE trail[v].asked
    <3>1. trail'[w].strays = trail[w].strays + 1
      BY <1>1, <1>14, <2>1
    <3> QED
      BY <1>1, <1>2, <1>6, <1>7, <1>9, <1>10, <1>14, <3>1, NamesOfStep
  <2>2. CASE ~trail[v].asked
    <3>1. SessionMayChange(w)
      BY <1>14, <2>2 DEF SessionMayChange
    <3>2. ChangesLeft(w)' + 1 <= ChangesLeft(w)
      BY <1>1, <1>3, <1>8, <1>14, <3>1 DEF ChangesLeft
    <3> QED
      BY <1>1, <1>2, <1>6, <1>7, <1>9, <1>10, <1>14, <3>2, NamesOfStep
  <2> QED
    BY <2>1, <2>2
<1> QED
  BY <1>7, <1>11, <1>12, <1>13, <1>14

\* A cookie that is dropped was one that could be, and one that arrives and
\* replaces the session is a stray.
LEMMA NamesOfBrowser ==
  ASSUME NamesInv, NEW v \in Visitors,
         TakeCookie(v) \/ AnswerLost(v) \/ SessionEnds(v), NEW w \in Visitors
  PROVE  /\ NamesOf(w)' /\ CookieOf(w)' /\ owed'[w] \subseteq Nat
         /\ trail' \in Trails
         /\ cookie' \in [Visitors -> [id : Nat, since : Nat] \cup {None}]
<1>1. /\ UNCHANGED <<hour, salts, drawn, cleaning, names>>
      /\ hour \in Nat
      /\ cookie \in [Visitors -> [id : Nat, since : Nat] \cup {None}]
      /\ trail \in Trails /\ \A u \in Visitors : owed[u] \subseteq Nat
  BY DEF TakeCookie, AnswerLost, SessionEnds, NamesInv, Trails
<1>2. NamesOf(w) /\ CookieOf(w)
  BY DEF NamesInv, NamesOf, CookieOf
<1>3. /\ HasSalt' = HasSalt /\ ReadYesterday' = ReadYesterday
      /\ SaltOf(LocalDay(hour))' = SaltOf(LocalDay(hour))
  BY <1>1 DEF HasSalt, ReadYesterday, SaltOf, LocalDay
<1>4. owed'[w] \subseteq Nat
  <2>1. CASE SessionEnds(v)
    BY <1>1, <2>1 DEF SessionEnds
  <2>2. CASE TakeCookie(v) \/ AnswerLost(v)
    <3>1. PICK id \in owed[v] : owed' = [owed EXCEPT ![v] = @ \ {id}]
      BY <2>2 DEF TakeCookie, AnswerLost
    <3>2. owed'[w] \subseteq owed[w]
      <4>1. CASE w = v /\ v \in DOMAIN owed
        BY <3>1, <4>1
      <4>2. CASE w # v \/ v \notin DOMAIN owed
        BY <3>1, <4>2
      <4> QED
        BY <4>1, <4>2
    <3> QED
      BY <1>1, <3>2
  <2> QED
    BY <2>1, <2>2
<1>5. /\ trail' \in Trails
      /\ cookie' \in [Visitors -> [id : Nat, since : Nat] \cup {None}]
      /\ CookieOf(w)'
      /\ SessionMayChange(w)' => SessionMayChange(w)
      /\ trail'[w].strays >= trail[w].strays
      /\ \/ trail'[w].last = trail[w].last
         \/ trail'[w].strays = trail[w].strays + 1
  <2>1. CASE AnswerLost(v)
    BY <1>1, <1>2, <2>1 DEF AnswerLost, CookieOf, SessionMayChange, Trails
  <2>2. CASE SessionEnds(v)
    BY <1>1, <1>2, <2>2 DEF SessionEnds, CookieOf, SessionMayChange, Trails
  <2>3. CASE TakeCookie(v)
    <3>1. PICK id \in owed[v] :
            /\ cookie' = [cookie EXCEPT ![v] = [id |-> id, since |-> hour]]
            /\ trail' = [trail EXCEPT ![v] =
                            [last |-> id, asked |-> @.asked,
                             strays |-> @.strays + IF id = @.last THEN 0 ELSE 1]]
      BY <2>3 DEF TakeCookie
    <3>2. id \in Nat /\ trail[v].strays \in Nat /\ trail[w].strays \in Nat
      BY <1>1 DEF Trails
    <3>3. /\ trail' \in Trails
          /\ trail'[v].last = id /\ trail'[v].asked = trail[v].asked
          /\ trail'[v].strays = trail[v].strays + IF id = trail[v].last
                                                  THEN 0 ELSE 1
      BY <1>1, <3>1, <3>2 DEF Trails
    <3>4. /\ cookie' \in [Visitors -> [id : Nat, since : Nat] \cup {None}]
          /\ cookie'[v] = [id |-> id, since |-> hour]
      BY <1>1, <3>1, <3>2
    <3>5. [id |-> id, since |-> hour] # None
      BY <1>1, <3>2, RateAssumption
    <3>6. w # v => cookie'[w] = cookie[w] /\ trail'[w] = trail[w]
      BY <1>1, <3>1 DEF Trails
    <3>7. CookieOf(w)'
      BY <1>2, <3>3, <3>4, <3>6 DEF CookieOf
    <3>8. DayHours \in Nat \ {0}
      BY RateAssumption
    <3>9. ~SessionMayChange(v)'
      BY <1>1, <3>4, <3>5, <3>8 DEF SessionMayChange
    <3>10. SessionMayChange(w)' => SessionMayChange(w)
      BY <1>1, <3>6, <3>9 DEF SessionMayChange
    <3>11. /\ trail'[w].strays >= trail[w].strays
           /\ \/ trail'[w].last = trail[w].last
              \/ trail'[w].strays = trail[w].strays + 1
      BY <3>2, <3>3, <3>6
    <3> QED
      BY <3>3, <3>4, <3>7, <3>10, <3>11
  <2> QED
    BY <2>1, <2>2, <2>3
<1>6. ChangesLeft(w)' <= ChangesLeft(w)
  BY <1>3, <1>5 DEF ChangesLeft
<1>7. /\ Seen(w)' \subseteq Seen(w) \cup {Present(w)'}
      /\ names'[w] \subseteq Seen(w)'
      /\ trail'[w].last = trail[w].last => Seen(w)' \subseteq Seen(w)
  BY <1>1, <1>3 DEF Seen, Present
<1>8. CASE names[w] = {}
  BY <1>1, <1>4, <1>5, <1>8 DEF NamesOf
<1>9. CASE names[w] # {}
  <2>1. ReadYesterday' => HasSalt'
    BY <1>2, <1>3, <1>9 DEF NamesOf
  <2> HIDE DEF Present
  <2> QED
    BY <1>1, <1>2, <1>4, <1>5, <1>6, <1>7, <1>9, <2>1, NamesOfStep
<1> QED
  BY <1>8, <1>9

\* A clean-up takes today's salt only if it read the clock yesterday, and then
\* the change it makes was counted; one that begins now will not take it.
LEMMA NamesOfCleaning ==
  ASSUME NamesInv, StartCleanup \/ Cleanup, NEW w \in Visitors
  PROVE  NamesOf(w)'
<1>1. UNCHANGED <<hour, drawn, browserVars, names>> /\ ~ReadYesterday'
  BY DEF StartCleanup, Cleanup, ReadYesterday, LocalDay
<1>2. NamesOf(w) /\ trail \in Trails /\ trail'[w].strays >= trail[w].strays
  <2>1. NamesOf(w) /\ trail \in Trails
    BY DEF NamesInv, NamesOf, Trails
  <2> QED
    BY <1>1, <2>1 DEF Trails, browserVars
<1>3. SessionMayChange(w)' = SessionMayChange(w)
  BY <1>1 DEF SessionMayChange, browserVars
<1>4. \/ HasSalt' = HasSalt /\ Present(w)' = Present(w)
      \/ ~HasSalt' /\ ReadYesterday
  <2>1. CASE StartCleanup
    BY <2>1 DEF StartCleanup, HasSalt, Present, SaltOf, LocalDay, browserVars
  <2>2. CASE Cleanup /\ ReadYesterday
    BY <1>1, <2>2 DEF Cleanup, ReadYesterday, HasSalt, LocalDay
  <2>3. CASE Cleanup /\ ~ReadYesterday
    <3> DEFINE day == LocalDay(hour)
    <3>1. day' = day /\ salts' = {r \in salts : r.day = day}
      BY <1>1, <2>3 DEF Cleanup, ReadYesterday, LocalDay
    <3> HIDE DEF day
    <3>2. (CHOOSE r \in salts' : r.day = day) = (CHOOSE r \in salts : r.day = day)
      BY <3>1
    <3>3. /\ (\E r \in salts' : r.day = day) <=> (\E r \in salts : r.day = day)
          /\ SaltOf(day)' = SaltOf(day)
      BY <1>1, <3>1, <3>2 DEF SaltOf
    <3> QED
      BY <1>1, <3>1, <3>3 DEF HasSalt, Present, day, browserVars
  <2> QED
    BY <2>1, <2>2, <2>3
<1>5. Seen(w)' \subseteq Seen(w) /\ names'[w] \subseteq Seen(w)'
  BY <1>1, <1>4 DEF Seen
<1>6. ChangesLeft(w)' <= ChangesLeft(w)
  BY <1>1, <1>3, <1>4 DEF ChangesLeft
<1>7. CASE names[w] = {}
  BY <1>1, <1>7 DEF NamesOf
<1>8. CASE names[w] # {}
  <2>1. trail' \in Trails
    BY <1>1, <1>2 DEF browserVars
  <2> QED
    BY <1>1, <1>2, <1>5, <1>6, <1>8, <2>1, NamesOfStep
<1> QED
  BY <1>7, <1>8

LEMMA StepKeepsNames ==
  ASSUME NamesInv, [Next]_vars
  PROVE  NamesInv'
<1> DEFINE Types ==
      /\ hour \in Nat
      /\ cleaning \in Nat \cup {None}
      /\ drawn.salt \in Nat /\ drawn.session \in Nat
      /\ cookie \in [Visitors -> [id : Nat, since : Nat] \cup {None}]
      /\ trail \in Trails
      /\ names \in [Visitors -> SUBSET Identities]
           Each(w) == owed[w] \subseteq Nat /\ CookieOf(w) /\ NamesOf(w)
<1>0. Types /\ \A w \in Visitors : Each(w)
  BY DEF NamesInv, NamesOf, CookieOf, Trails
<1>1. SUFFICES Types' /\ \A w \in Visitors : Each(w)'
  BY DEF NamesInv, NamesOf, CookieOf, Trails
<1>2. CASE \E v \in Visitors, s \in VisitorScopes, allowed \in BOOLEAN :
                Request(v, s, allowed)
  BY <1>0, <1>2, Recognised, NamesOfRequest
<1>3. CASE Tick
  <2>1. /\ names' = [w \in Visitors |-> {}] /\ hour' = hour + 1
        /\ UNCHANGED <<drawn, cookie, owed, cleaning>>
        /\ trail' = [w \in Visitors |->
                        [last |-> trail[w].last, asked |-> FALSE, strays |-> 0]]
    BY <1>3 DEF Tick
  <2>2. /\ trail' \in Trails
        /\ \A w \in Visitors : trail'[w].last = trail[w].last
    BY <1>0, <2>1 DEF Trails
  <2>3. \A w \in Visitors : names'[w] = {} /\ CookieOf(w)'
    BY <1>0, <2>1, <2>2 DEF CookieOf
  <2>4. Types'
    BY <1>0, <2>1, <2>2
  <2> QED
    BY <1>0, <2>1, <2>3, <2>4 DEF NamesOf
<1>4. CASE \E v \in Visitors : TakeCookie(v) \/ AnswerLost(v) \/ SessionEnds(v)
  <2>1. PICK v \in Visitors : TakeCookie(v) \/ AnswerLost(v) \/ SessionEnds(v)
    BY <1>4
  <2>2. UNCHANGED <<hour, drawn, cleaning, names>>
    BY <2>1 DEF TakeCookie, AnswerLost, SessionEnds
  <2>3. \A w \in Visitors : Each(w)'
    BY <2>1, NamesOfBrowser
  <2>4. /\ trail' \in Trails
        /\ cookie' \in [Visitors -> [id : Nat, since : Nat] \cup {None}]
    BY <2>1, NamesOfBrowser
  <2> QED
    BY <1>0, <2>2, <2>3, <2>4
<1>5. CASE StartCleanup \/ Cleanup
  <2>1. Types' /\ UNCHANGED browserVars
    BY <1>0, <1>5 DEF StartCleanup, Cleanup, browserVars
  <2>2. \A w \in Visitors : NamesOf(w)'
    BY <1>5, NamesOfCleaning
  <2> QED
    BY <1>0, <2>1, <2>2 DEF CookieOf, browserVars
<1>6. CASE UNCHANGED <<hour, salts, drawn, browserVars, cleaning, names>>
  <2>1. Types'
    BY <1>0, <1>6 DEF browserVars
  <2>2. \A w \in Visitors : Each(w)' = Each(w)
    BY <1>6 DEF NamesOf, CookieOf, Seen, ChangesLeft, SessionMayChange, HasSalt,
                ReadYesterday, Present, SaltOf, LocalDay, browserVars
  <2> QED
    BY <1>0, <2>1, <2>2
<1>7. CASE (\E s \in ProductScopes : ToolCall(s)) \/ UNCHANGED vars
  BY <1>6, <1>7 DEF ToolCall, vars
<1> QED
  BY <1>2, <1>3, <1>4, <1>5, <1>7 DEF Next

THEOREM NamesInvariant == Spec => []NamesInv
<1>1. Init => NamesInv
  BY RateAssumption DEF Init, NamesInv
<1>2. NamesInv /\ [Next]_vars => NamesInv'
  BY StepKeepsNames
<1> QED
  BY <1>1, <1>2, PTL DEF Spec

\* Within an hour nobody is counted under more than three identities and one
\* more for each stray, however cookies end, answers are late or lost and
\* clean-ups delayed (salt, identity, protect, cleanupRateLimits).
THEOREM VisitorsAreBounded == Spec => []VisitorBound
<1>1. NamesInv => VisitorBound
  <2> SUFFICES ASSUME NamesInv, NEW v \in Visitors
               PROVE  Cardinality(names[v]) <= 3 + trail[v].strays
    BY DEF VisitorBound
  <2>0. trail[v].strays \in Nat
    BY DEF NamesInv
  <2>1. CASE names[v] = {}
    BY <2>0, <2>1, FS_EmptySet
  <2>2. CASE names[v] # {}
    <3>1. /\ IsFiniteSet(names[v])
          /\ Cardinality(Seen(v)) + ChangesLeft(v) <= 3 + trail[v].strays
      BY <2>2 DEF NamesInv
    <3>2. IsFiniteSet(Seen(v)) /\ names[v] \subseteq Seen(v)
      BY <3>1, SeenIsFinite DEF Seen
    <3>3. /\ Cardinality(names[v]) \in Nat /\ Cardinality(Seen(v)) \in Nat
          /\ Cardinality(names[v]) <= Cardinality(Seen(v))
      BY <3>1, <3>2, FS_CardinalityType, FS_Subset
    <3> QED
      BY <2>0, <3>1, <3>3, ChangesLeftType
  <2> QED
    BY <2>1, <2>2
<1> QED
  BY <1>1, NamesInvariant, PTL

-----------------------------------------------------------------------------
(* The monthly stop *)

\* What the theorem assumes: money may be spent at all.
StopAssumption == Stop \in Nat \ {0} /\ LastMonth \in Nat

LEMMA StopBegins ==
  ASSUME StopAssumption, MonthlyInit
  PROVE  StopInv
BY DEF StopAssumption, MonthlyInit, StopInv, StopHolds

\* Only a request that may generate is let in, and only a job with such a
\* request begins to run.
LEMMA JobKeepsStop ==
  ASSUME StopAssumption, StopInv, NEW j \in Jobs,
         Admit(j) \/ Handle(j) \/ Drop(j) \/ Wait(j) \/ Confirm(j)
  PROVE  StopInv'
<1>1. month' = month /\ ledger' = ledger /\ ledger[month] \in Nat
  BY DEF StopInv, Admit, Handle, Drop, Wait, Confirm
<1>2. asking' \subseteq Jobs /\ run' \in [Jobs -> {"none", "running", "waiting"}]
  BY DEF StopInv, Admit, Handle, Drop, Wait, Confirm
<1>3. ledger[month] >= Stop => AtWork' \subseteq grace'
  <2>1. CASE Admit(j)
    BY <1>1, <2>1 DEF Admit, MayGenerate, StopAssumption
  <2>2. CASE Handle(j)
    <3>1. AtWork' \subseteq AtWork
      BY <2>2 DEF Handle, AtWork, Running, StopInv
    <3> QED
      BY <2>2, <3>1 DEF Handle, StopInv, StopHolds
  <2>3. CASE Drop(j)
    <3>1. AtWork' \subseteq AtWork
      BY <2>3 DEF Drop, AtWork, Running
    <3> QED
      BY <2>3, <3>1 DEF Drop, StopInv, StopHolds
  <2>4. CASE Wait(j)
    <3>1. AtWork' \subseteq AtWork
      BY <2>4 DEF Wait, AtWork, Running, StopInv
    <3> QED
      BY <2>4, <3>1 DEF Wait, StopInv, StopHolds
  <2>5. CASE Confirm(j)
    <3>1. AtWork' = AtWork
      BY <2>5 DEF Confirm, AtWork, Running
    <3> QED
      BY <2>5, <3>1 DEF Confirm, StopInv, StopHolds
  <2> QED
    BY <2>1, <2>2, <2>3, <2>4, <2>5
<1> QED
  BY <1>1, <1>2, <1>3 DEF StopInv, StopHolds

\* The call that reaches the stop fixes the jobs that may still go on.
LEMMA BookKeepsStop ==
  ASSUME StopAssumption, StopInv, Book
  PROVE  StopInv'
<1> DEFINE cost == ledger[month]
<1>1. /\ month' = month /\ run' = run /\ asking' = asking /\ AtWork' = AtWork
      /\ month \in 0 .. LastMonth /\ cost \in Nat /\ month \in Nat
      /\ ledger' = [ledger EXCEPT ![month] = cost + 1]
      /\ ledger'[month] = cost + 1
  BY DEF StopInv, Book, AtWork, Running, StopAssumption
<1>2. ledger' \in [0 .. LastMonth -> Nat]
  BY <1>1 DEF StopInv
<1>3. \A m \in 0 .. LastMonth : m > month => ledger'[m] = 0
  <2> SUFFICES ASSUME NEW m \in 0 .. LastMonth, m > month
               PROVE  ledger'[m] = 0
    OBVIOUS
  <2>1. m # month
    BY <1>1
  <2> QED
    BY <1>1, <2>1 DEF StopInv
<1>4. StopHolds'
  <2>1. CASE cost + 1 = Stop
    BY <1>1, <2>1 DEF Book, StopHolds
  <2>2. CASE cost + 1 # Stop
    <3>1. grace' = grace
      BY <1>1, <2>2 DEF Book
    <3>2. cost + 1 >= Stop => cost >= Stop
      BY <1>1, <2>2 DEF StopAssumption
    <3> QED
      BY <1>1, <3>1, <3>2 DEF StopInv, StopHolds
  <2> QED
    BY <2>1, <2>2
<1> QED
  BY <1>1, <1>2, <1>3, <1>4 DEF StopInv

LEMMA NextMonthKeepsStop ==
  ASSUME StopAssumption, StopInv, NextMonth
  PROVE  StopInv'
<1>1. /\ month' = month + 1 /\ month' \in 0 .. LastMonth /\ month' > month
      /\ ledger' = ledger /\ run' = run /\ asking' = asking
  BY DEF StopAssumption, StopInv, NextMonth
<1>2. ledger'[month'] = 0
  BY <1>1 DEF StopInv
<1>3. \A m \in 0 .. LastMonth : m > month' => m > month
  BY <1>1 DEF StopInv
<1> QED
  BY <1>1, <1>2, <1>3 DEF StopAssumption, StopInv, StopHolds

LEMMA StepKeepsStop ==
  ASSUME StopAssumption, StopInv, [MonthlyNext]_monthlyVars
  PROVE  StopInv'
<1>1. CASE \E j \in Jobs :
             Admit(j) \/ Handle(j) \/ Drop(j) \/ Wait(j) \/ Confirm(j)
  BY <1>1, JobKeepsStop
<1>2. CASE Book
  BY <1>2, BookKeepsStop
<1>3. CASE LoseBooking \/ Switch
  <2>1. /\ month' = month /\ ledger' = ledger /\ run' = run
        /\ asking' \subseteq asking /\ AtWork' \subseteq AtWork
        /\ grace' = grace \/ grace' = grace \cap AtWork'
    BY <1>3 DEF LoseBooking, Switch, AtWork, Running
  <2> QED
    BY <2>1 DEF StopInv, StopHolds
<1>4. CASE NextMonth
  BY <1>4, NextMonthKeepsStop
<1>5. CASE UNCHANGED monthlyVars
  BY <1>5 DEF monthlyVars, StopInv, StopHolds, AtWork, Running
<1> QED
  BY <1>1, <1>2, <1>3, <1>4, <1>5 DEF MonthlyNext

\* The months that are still to come are empty, and the month that is full lets
\* nothing begin.
THEOREM StopInvariant ==
  ASSUME StopAssumption
  PROVE  MonthlySpec => []StopInv
<1>1. MonthlyInit => StopInv
  BY StopBegins
<1>2. StopInv /\ [MonthlyNext]_monthlyVars => StopInv'
  BY StepKeepsStop
<1> QED
  BY <1>1, <1>2, PTL DEF MonthlySpec

\* In a month that has reached its stop only jobs run that were at work when it
\* did or had been let in by the guard before (featureGate, protect,
\* canStartNewGeneration).
THEOREM StopIsKept ==
  ASSUME StopAssumption
  PROVE  MonthlySpec => []StopHolds
<1>1. StopInv => StopHolds
  BY DEF StopInv
<1>2. MonthlySpec => []StopInv
  BY StopInvariant
<1> QED
  BY <1>1, <1>2, PTL

-----------------------------------------------------------------------------
(* The ledger *)

\* What the ledger's theorem assumes: the jobs of a behaviour can be counted,
\* and none of them stands for "no booking".
LedgerAssumption ==
    IsFiniteSet(Jobs) /\ NoJob \notin Jobs /\ LastMonth \in Nat

LEMMA MonthsAreFinite ==
  ASSUME LedgerAssumption
  PROVE  IsFiniteSet(0 .. LastMonth)
<1>1. 0 \in Int /\ LastMonth \in Int
  BY DEF LedgerAssumption
<1> QED
  BY <1>1, FS_Interval

LEMMA LedgerBegins ==
  ASSUME LedgerAssumption, MonthlyInit
  PROVE  LedgerInv
<1>1. IsFiniteSet(0 .. LastMonth) /\ IsFiniteSet(Jobs)
  BY MonthsAreFinite DEF LedgerAssumption
<1>2. SumFunctionOnSet(ledger, 0 .. LastMonth) = 0
  BY <1>1, SumOfZeros DEF MonthlyInit
<1>3. SumFunctionOnSet(spent, Jobs) = 0
  BY <1>1, SumOfZeros DEF MonthlyInit
<1>4. LedgerIsSpent
  BY <1>2, <1>3 DEF LedgerIsSpent, Unbooked, MonthlyInit
<1> QED
  BY <1>4 DEF LedgerInv, MonthlyInit, LedgerAssumption

\* A confirmed call is due to be booked.
LEMMA ConfirmKeepsLedger ==
  ASSUME LedgerAssumption, LedgerInv, NEW j \in Jobs, Confirm(j)
  PROVE  LedgerInv'
<1> DEFINE booked == SumFunctionOnSet(ledger, 0 .. LastMonth)
           made == SumFunctionOnSet(spent, Jobs)
<1>1. /\ IsFiniteSet(0 .. LastMonth) /\ IsFiniteSet(Jobs)
      /\ ledger \in [0 .. LastMonth -> Nat] /\ spent \in [Jobs -> Nat]
  BY MonthsAreFinite DEF LedgerAssumption, LedgerInv
<1>2. booked \in Nat /\ made \in Nat
  BY <1>1, SumIsNatural
<1>3. SumFunctionOnSet([spent EXCEPT ![j] = @ + 1], Jobs) = made + 1
  BY <1>1, SumWithChange
<1>4. /\ ledger' = ledger /\ lost' = lost /\ month' = month
      /\ booking = NoJob /\ booking' = j /\ j # NoJob
      /\ spent' = [spent EXCEPT ![j] = @ + 1]
  BY DEF Confirm, LedgerAssumption
<1>5. booked + lost = made /\ lost \in Nat
  BY <1>4, <1>2 DEF LedgerInv, LedgerIsSpent, Unbooked
<1>6. booked' = booked /\ made' = made + 1
  BY <1>3, <1>4
<1> HIDE DEF booked, made
<1>7. booked' + (lost + 1) = made'
  BY <1>2, <1>5, <1>6
<1>8. Unbooked' = lost + 1
  BY <1>4 DEF Unbooked
<1> QED
  BY <1>1, <1>4, <1>7, <1>8 DEF LedgerInv, LedgerIsSpent, booked, made

\* A booking is made once ...
LEMMA BookKeepsLedger ==
  ASSUME LedgerAssumption, LedgerInv, Book
  PROVE  LedgerInv'
<1> DEFINE booked == SumFunctionOnSet(ledger, 0 .. LastMonth)
           made == SumFunctionOnSet(spent, Jobs)
<1>1. /\ IsFiniteSet(0 .. LastMonth) /\ month \in 0 .. LastMonth
      /\ ledger \in [0 .. LastMonth -> Nat] /\ lost \in Nat
  BY MonthsAreFinite DEF LedgerAssumption, LedgerInv
<1>2. booked \in Nat
  BY <1>1, SumIsNatural
<1>3. SumFunctionOnSet([ledger EXCEPT ![month] = @ + 1], 0 .. LastMonth)
        = booked + 1
  BY <1>1, SumWithChange
<1>4. /\ spent' = spent /\ lost' = lost /\ month' = month
      /\ booking # NoJob /\ booking' = NoJob
      /\ ledger' = [ledger EXCEPT ![month] = @ + 1]
  BY DEF Book
<1>5. booked + (lost + 1) = made
  BY <1>4 DEF LedgerInv, LedgerIsSpent, Unbooked
<1>6. booked' = booked + 1 /\ made' = made
  BY <1>3, <1>4
<1> HIDE DEF booked, made
<1>7. booked' + lost = made'
  BY <1>1, <1>2, <1>5, <1>6
<1>8. Unbooked' = lost
  BY <1>1, <1>4 DEF Unbooked
<1> QED
  BY <1>1, <1>4, <1>7, <1>8 DEF LedgerInv, LedgerIsSpent, booked, made

\* ... or never.
LEMMA StepKeepsLedger ==
  ASSUME LedgerAssumption, LedgerInv, [MonthlyNext]_monthlyVars
  PROVE  LedgerInv'
<1>1. CASE \E j \in Jobs : Confirm(j)
  BY <1>1, ConfirmKeepsLedger
<1>2. CASE Book
  BY <1>2, BookKeepsLedger
<1>3. CASE LoseBooking
  <2>1. /\ booking # NoJob /\ booking' = NoJob /\ lost' = lost + 1
        /\ UNCHANGED <<month, ledger, spent>>
    BY <1>3 DEF LoseBooking
  <2>2. lost' \in Nat /\ Unbooked' = Unbooked
    BY <2>1 DEF LedgerInv, Unbooked
  <2> QED
    BY <2>1, <2>2 DEF LedgerInv, LedgerIsSpent
<1>4. ASSUME UNCHANGED <<ledger, spent, booking, lost>>,
             month' \in 0 .. LastMonth
      PROVE  LedgerInv'
  BY <1>4 DEF LedgerInv, LedgerIsSpent, Unbooked
<1>5. CASE \E j \in Jobs : Admit(j) \/ Handle(j) \/ Drop(j) \/ Wait(j)
  BY <1>4, <1>5 DEF Admit, Handle, Drop, Wait, LedgerInv
<1>6. CASE Switch \/ UNCHANGED monthlyVars
  BY <1>4, <1>6 DEF Switch, monthlyVars, LedgerInv
<1>7. CASE NextMonth
  BY <1>4, <1>7 DEF NextMonth, LedgerInv, LedgerAssumption
<1> QED
  BY <1>1, <1>2, <1>3, <1>5, <1>6, <1>7 DEF MonthlyNext

THEOREM LedgerInvariant ==
  ASSUME LedgerAssumption
  PROVE  MonthlySpec => []LedgerInv
<1>1. MonthlyInit => LedgerInv
  BY LedgerBegins
<1>2. LedgerInv /\ [MonthlyNext]_monthlyVars => LedgerInv'
  BY StepKeepsLedger
<1> QED
  BY <1>1, <1>2, PTL DEF MonthlySpec

\* No cost is booked twice, and only a crash or a refused row loses one: what
\* all months hold, with what is due and what was lost, is what all jobs were
\* confirmed (executor once, recordProductCost).
THEOREM LedgerIsExact ==
  ASSUME LedgerAssumption
  PROVE  MonthlySpec => []LedgerIsSpent
<1>1. LedgerInv => LedgerIsSpent
  BY DEF LedgerInv
<1>2. MonthlySpec => []LedgerInv
  BY LedgerInvariant
<1> QED
  BY <1>1, <1>2, PTL

-----------------------------------------------------------------------------
(* The regression gate *)

\* What the theorem assumes: a file can be told from none.
GateAssumption == Missing \notin States

\* A state of the file that may open the gate.
Backed(s) ==
    s # Missing /\ s.status = "passed" => s.observed \in passes \cup trusted

LEMMA GateInvParts ==
  GateInv <=> /\ gate \in States \cup {Missing}
              /\ pending \in States \cup {Missing}
              /\ Backed(gate) /\ Backed(pending)
BY DEF GateInv, Backed

\* The state a command goes on with: it is about the model that is reported, and
\* has passed only if the file has, or if there was none.
LEMMA ObservedIsBacked ==
  ASSUME GateAssumption, GateInv, NEW m \in Models,
         trusted' = IF gate = Missing THEN trusted \cup {m} ELSE trusted
  PROVE  LET s == Observed(Begun(m), m)
         IN  /\ s \in States
             /\ s.observed = m
             /\ s.status = "passed" => m \in passes \cup trusted'
<1> DEFINE b == Begun(m)
           s == Observed(b, m)
<1>1. b \in States /\ (b.status = "passed" => b.observed \in passes \cup trusted')
  <2>1. CASE gate = Missing
    BY <2>1 DEF Begun, States
  <2>2. CASE gate # Missing
    BY <2>2, GateInvParts DEF Begun, Backed
  <2> QED
    BY <2>1, <2>2
<1> HIDE DEF b
<1>2. s \in States /\ s.observed = m
  <2>1. CASE m = b.observed
    BY <1>1, <2>1 DEF Observed
  <2>2. CASE m # b.observed
    <3>1. s = [b EXCEPT !.observed = m, !.status = "regression_required",
                        !.smoke = 0, !.critical = 0, !.full = 0]
      BY <2>2 DEF Observed
    <3>2. 0 \in 0 .. 1
      OBVIOUS
    <3> QED
      BY <1>1, <3>1, <3>2, ZenonT(30) DEF States
  <2> QED
    BY <2>1, <2>2
<1>3. s.status = "passed" => b.observed = m /\ b.status = "passed"
  BY <1>1 DEF Observed, States
<1> QED
  BY <1>1, <1>2, <1>3 DEF b

LEMMA CommandKeepsGate ==
  ASSUME GateAssumption, GateInv, NEW m \in Models, Command(m)
  PROVE  GateInv'
<1> DEFINE s == Observed(Begun(m), m)
<1>1. /\ s \in States /\ s.observed = m
      /\ s.status = "passed" => m \in passes \cup trusted'
  BY ObservedIsBacked DEF Command
<1>2. gate' = gate /\ trusted \subseteq trusted' /\ passes \subseteq passes'
  BY DEF Command
<1> HIDE DEF s
<1>3. gate' \in States \cup {Missing} /\ Backed(gate)'
  BY <1>2, GateInvParts DEF Backed
<1>4. CASE pending' = s
  BY <1>1, <1>2, <1>3, <1>4, GateInvParts DEF GateInv, Backed
<1>5. CASE \E critical \in 0 .. 1 : pending' = Smoked(s, critical)
  <2>1. pending' \in States /\ pending'.status # "passed"
    BY <1>1, <1>5 DEF Smoked, States
  <2> QED
    BY <1>3, <2>1 DEF GateInv, Backed
<1>6. CASE \E samples \in {12, 36}, passed \in BOOLEAN :
             /\ pending' = FullyTested(s, samples, passed)
             /\ passes' = IF samples = 36 /\ passed
                          THEN passes \cup {m} ELSE passes
  <2>1. PICK samples \in {12, 36}, passed \in BOOLEAN :
          /\ pending' = FullyTested(s, samples, passed)
          /\ passes' = IF samples = 36 /\ passed
                       THEN passes \cup {m} ELSE passes
    BY <1>6
  <2>2. pending' \in States /\ pending'.observed = m
    <3>1. CASE samples # 36 \/ ~passed
      <4>1. pending' = [s EXCEPT !.status = "regression_required",
                                 !.full = samples]
        BY <2>1, <3>1 DEF FullyTested
      <4> QED
        BY <1>1, <4>1 DEF States
    <3>2. CASE samples = 36 /\ passed
      <4>1. pending' = [s EXCEPT !.lastPassed = s.observed,
                                 !.status = "passed", !.full = 36,
                                 !.critical = 0]
        BY <2>1, <3>2 DEF FullyTested
      <4>2. s.observed \in Models /\ 0 \in 0 .. 1
        BY <1>1 DEF States
      <4> QED
        BY <1>1, <4>1, <4>2 DEF States
    <3> QED
      BY <3>1, <3>2
  <2>3. pending'.status = "passed" => m \in passes'
    BY <1>1, <2>1 DEF FullyTested, States
  <2> QED
    BY <1>3, <2>2, <2>3 DEF GateInv, Backed
<1> QED
  BY <1>4, <1>5, <1>6 DEF Command, s

\* Whatever is written, and if the file is lost, the gate shows what was decided.
LEMMA WriteKeepsGate ==
  ASSUME GateAssumption, GateInv, Write
  PROVE  GateInv'
<1>1. pending' = Missing /\ gate' \in {pending, Missing} /\ trusted' = trusted
  BY DEF Write
<1>2. CASE gate' = Missing
  BY <1>1, <1>2 DEF GateInv
<1>3. CASE gate' # Missing
  <2>1. gate' = pending /\ passes' = passes \cap {gate'.observed}
    BY <1>1, <1>3 DEF Write
  <2>2. gate' \in States /\ Backed(gate)'
    BY <1>1, <1>3, <2>1, GateInvParts DEF Backed
  <2> QED
    BY <1>1, <2>2 DEF GateInv, Backed
<1> QED
  BY <1>2, <1>3

\* The file and what is about to replace it open the gate only for a model that
\* was tested or that the file was begun with.
THEOREM GateInvariant ==
  ASSUME GateAssumption
  PROVE  GateSpec => []GateInv
<1>1. GateInit => GateInv
  BY DEF GateInit, GateInv
<1>2. GateInv /\ [GateNext]_gateVars => GateInv'
  <2> SUFFICES ASSUME GateInv, [GateNext]_gateVars PROVE GateInv'
    OBVIOUS
  <2>1. CASE \E m \in Models : Command(m)
    BY <2>1, CommandKeepsGate
  <2>2. CASE Write
    BY <2>2, WriteKeepsGate
  <2>3. CASE UNCHANGED gateVars
    BY <2>3 DEF gateVars, GateInv
  <2> QED
    BY <2>1, <2>2, <2>3 DEF GateNext
<1> QED
  BY <1>1, <1>2, PTL DEF GateSpec

\* An open gate means a tested model (observeModel, recordFullRegression,
\* regressionAllowsCustomGeneration).
THEOREM OpenGatesAreTested ==
  ASSUME GateAssumption
  PROVE  GateSpec => []OpenMeansTested
<1>1. GateInv => OpenMeansTested
  BY DEF GateInv, OpenMeansTested, Allows
<1>2. GateSpec => []GateInv
  BY GateInvariant
<1> QED
  BY <1>1, <1>2, PTL
==============================================================================
