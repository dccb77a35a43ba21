-------------------------- MODULE JobProgress_proofs --------------------------
(***************************************************************************)
(* Machine-checked proofs about JobProgress, for any number of pages,      *)
(* events and reloads.  What is under way on a stream is always a run of   *)
(* consecutive event numbers that begins after the page's cursor; from     *)
(* that, and from what a page has been told when it stops, the safety      *)
(* properties follow.                                                      *)
(***************************************************************************)
EXTENDS JobProgress, SequenceTheorems, TLAPS

-----------------------------------------------------------------------------
(* Runs of event numbers.                                                  *)

\* The k numbers after n.
After(n, k) == [i \in 1..k |-> n + i]

\* A run that ends at or before b is a sequence of numbers up to b.
LEMMA AfterType ==
  ASSUME NEW n \in Nat, NEW k \in Nat, NEW b \in Nat, n + k <= b
  PROVE  /\ After(n, k) \in Seq(0..b)
         /\ Len(After(n, k)) = k
         /\ \A i \in 1..k : After(n, k)[i] = n + i
<1>1. After(n, k) \in [1..k -> 0..b]
  BY DEF After
<1>2. After(n, k) \in Seq(0..b)
  BY <1>1, SeqDef
<1>3. \A i \in 1..k : After(n, k)[i] = n + i
  BY DEF After
<1>4. Len(After(n, k)) = k
  <2>1. DOMAIN After(n, k) = 1..k
    BY DEF After
  <2>2. Len(After(n, k)) \in Nat /\ DOMAIN After(n, k) = 1..Len(After(n, k))
    BY <1>2, LenProperties
  <2> HIDE DEF After
  <2> QED
    BY <2>1, <2>2
<1> QED
  BY <1>2, <1>3, <1>4

\* A run and the run after it are one run.
LEMMA AfterConcat ==
  ASSUME NEW n \in Nat, NEW k \in Nat, NEW m \in Nat
  PROVE  After(n, k) \o After(n + k, m) = After(n, k + m)
<1> DEFINE b == n + k + m
           left  == After(n, k)
           right == After(n + k, m)
           whole == After(n, k + m)
<1>1. /\ b \in Nat /\ n + k \in Nat /\ k + m \in Nat
      /\ n + k <= b /\ (n + k) + m <= b /\ n + (k + m) <= b
  OBVIOUS
<1> HIDE DEF b
<1>2. /\ left \in Seq(0..b) /\ Len(left) = k
      /\ \A i \in 1..k : left[i] = n + i
  BY <1>1, AfterType
<1>3. /\ right \in Seq(0..b) /\ Len(right) = m
      /\ \A i \in 1..m : right[i] = n + k + i
  BY <1>1, AfterType
<1>4. /\ whole \in Seq(0..b) /\ Len(whole) = k + m
      /\ \A i \in 1..(k + m) : whole[i] = n + i
  BY <1>1, AfterType
<1> HIDE DEF left, right, whole
<1>5. /\ left \o right \in Seq(0..b)
      /\ Len(left \o right) = k + m
      /\ \A i \in 1..(k + m) :
           (left \o right)[i] = IF i <= k THEN left[i] ELSE right[i - k]
  BY <1>2, <1>3, ConcatProperties
<1>6. ASSUME NEW i \in 1..(k + m)
      PROVE  (left \o right)[i] = whole[i]
  <2>1. CASE i <= k
    BY <2>1, <1>2, <1>4, <1>5
  <2>2. CASE ~(i <= k)
    <3>1. i - k \in 1..m
      BY <2>2
    <3>2. (left \o right)[i] = right[i - k]
      BY <1>5, <2>2
    <3>3. right[i - k] = n + k + (i - k)
      BY <1>3, <3>1
    <3>4. whole[i] = n + i /\ n + k + (i - k) = n + i
      BY <1>4
    <3> QED
      BY <3>2, <3>3, <3>4
  <2> QED
    BY <2>1, <2>2
<1>7. left \o right = whole
  BY <1>4, <1>5, <1>6, SeqEqual
<1> QED
  BY <1>7 DEF left, right, whole

\* The first number of a run is the next one, the rest is the run after it.
LEMMA AfterTail ==
  ASSUME NEW n \in Nat, NEW k \in Nat, k # 0
  PROVE  Head(After(n, k)) = n + 1 /\ Tail(After(n, k)) = After(n + 1, k - 1)
<1> DEFINE b == n + k
           run  == After(n, k)
           rest == After(n + 1, k - 1)
<1>1. /\ b \in Nat /\ k - 1 \in Nat /\ n + 1 \in Nat
      /\ n + k <= b /\ (n + 1) + (k - 1) <= b
  OBVIOUS
<1> HIDE DEF b
<1>2. /\ run \in Seq(0..b) /\ Len(run) = k
      /\ \A i \in 1..k : run[i] = n + i
  BY <1>1, AfterType
<1>3. /\ rest \in Seq(0..b) /\ Len(rest) = k - 1
      /\ \A i \in 1..(k - 1) : rest[i] = (n + 1) + i
  BY <1>1, AfterType
<1> HIDE DEF run, rest
<1>4. run # <<>>
  BY <1>2, EmptySeq
<1>5. Head(run) = n + 1
  BY <1>2, <1>4
<1>6. /\ Tail(run) \in Seq(0..b)
      /\ Len(Tail(run)) = k - 1
      /\ \A i \in 1..(k - 1) : Tail(run)[i] = run[i + 1]
  BY <1>2, <1>4, HeadTailProperties
<1>7. \A i \in 1..(k - 1) : Tail(run)[i] = rest[i]
  BY <1>2, <1>3, <1>6
<1>8. Tail(run) = rest
  BY <1>3, <1>6, <1>7, SeqEqual
<1> QED
  BY <1>5, <1>8 DEF run, rest

\* A run cut short is a run.
LEMMA AfterCut ==
  ASSUME NEW n \in Nat, NEW k \in Nat, NEW m \in 0..k
  PROVE  SubSeq(After(n, k), 1, m) = After(n, m)
<1> DEFINE b == n + k
           run == After(n, k)
           cut == After(n, m)
<1>1. b \in Nat /\ m \in Nat /\ n + k <= b /\ n + m <= b
  OBVIOUS
<1> HIDE DEF b
<1>2. /\ run \in Seq(0..b) /\ Len(run) = k
      /\ \A i \in 1..k : run[i] = n + i
  BY <1>1, AfterType
<1>3. /\ cut \in Seq(0..b) /\ Len(cut) = m
      /\ \A i \in 1..m : cut[i] = n + i
  BY <1>1, AfterType
<1> HIDE DEF run, cut
<1>4. ASSUME NEW i \in 1..m
      PROVE  run[i] \in 0..b
  <2>1. i \in 1..k
    OBVIOUS
  <2> QED
    BY <2>1, <1>2, ElementOfSeq
<1>5. /\ SubSeq(run, 1, m) \in Seq(0..b)
      /\ Len(SubSeq(run, 1, m)) = IF 1 <= m THEN m - 1 + 1 ELSE 0
      /\ \A i \in 1..(m - 1 + 1) : SubSeq(run, 1, m)[i] = run[1 + i - 1]
  BY <1>1, <1>4, SubSeqProperties
<1>6. Len(SubSeq(run, 1, m)) = m
  BY <1>5
<1>7. \A i \in 1..m : SubSeq(run, 1, m)[i] = cut[i]
  BY <1>2, <1>3, <1>5
<1>8. SubSeq(run, 1, m) = cut
  BY <1>3, <1>5, <1>6, <1>7, SeqEqual
<1> QED
  BY <1>8 DEF run, cut

\* Nothing is the run of no numbers.
LEMMA AfterNone ==
  ASSUME NEW n \in Nat
  PROVE  <<>> = After(n, 0)
<1>1. After(n, 0) \in Seq(0..n) /\ Len(After(n, 0)) = 0
  BY AfterType
<1> QED
  BY <1>1, EmptySeq

-----------------------------------------------------------------------------
(* The invariant, page by page.                                            *)

\* The job, and nothing of the pages.
JobOK ==
  /\ log \in Seq(Statuses) /\ Len(log) \in Nat \ {0}
  /\ keyNeeded \in BOOLEAN
  /\ expired \in BOOLEAN
  /\ LogInv

\* Whoever was told this event and takes the job to wait is right.
Honest(n) == (n # 0 /\ log[n] = Waiting) => StillWaits

\* What a stream in a state c has on the wire for a page with that cursor.
WireOK(cursor, c) ==
  c.state # "none" =>
    /\ c.wire = After(cursor, Len(c.wire))
    /\ c.state # "cut" => c.sent = cursor + Len(c.wire)

\* A page pg, its stream c and whether it is unaware.
PageOK(pg, c, u) ==
  /\ pg \in PageStates /\ c \in Streams /\ u \in BOOLEAN
  /\ c.state # "none" <=> pg.phase = "stream"
  /\ pg.cursor # 0 => /\ pg.shown = pg.cursor
                      /\ log[pg.cursor] = "completed" => pg.stored
  /\ pg.phase = "polled" => pg.reply # 0 /\ pg.reply >= pg.cursor
  /\ (pg.phase = "stopped" /\ ~expired)
       => pg.cursor # 0 /\ log[pg.cursor] \in Resting
  /\ (~expired /\ ~u) => /\ pg.phase = "stopped" => Honest(pg.cursor)
                         /\ pg.phase = "polled" => Honest(pg.reply)
                         /\ c.state = "closed" => Honest(c.sent)
  /\ WireOK(pg.cursor, c)

Of(p) == PageOK(page[p], conn[p], unaware[p]) /\ asked[p] \in Commands

Tables ==
  /\ page = [p \in Pages |-> page[p]]
  /\ conn = [p \in Pages |-> conn[p]]
  /\ asked = [p \in Pages |-> asked[p]]
  /\ unaware = [p \in Pages |-> unaware[p]]
  /\ reloads \in 0..MaxReloads

ByPage == JobOK /\ Tables /\ \A p \in Pages : Of(p)

\* The invariant is what the job owes and what each page owes.
LEMMA InvByPage == IInv <=> ByPage
<1>1. ASSUME IInv
      PROVE  ByPage
  <2>1. JobOK
    BY <1>1 DEF IInv, TypeOK, JobOK
  <2>2. Tables
    BY <1>1 DEF IInv, TypeOK, Tables
  <2>3. ASSUME NEW p \in Pages
        PROVE  Of(p)
    <3>1. /\ page[p] \in PageStates /\ conn[p] \in Streams
          /\ asked[p] \in Commands /\ unaware[p] \in BOOLEAN
      BY <1>1 DEF IInv, TypeOK
    <3>2. conn[p].state # "none" <=> page[p].phase = "stream"
      BY <1>1 DEF IInv, ConnInv, At
    <3>3. /\ page[p].cursor # 0 =>
               /\ page[p].shown = page[p].cursor
               /\ log[page[p].cursor] = "completed" => page[p].stored
          /\ page[p].phase = "polled" =>
               page[p].reply # 0 /\ page[p].reply >= page[p].cursor
          /\ (page[p].phase = "stopped" /\ ~expired)
               => page[p].cursor # 0 /\ log[page[p].cursor] \in Resting
      BY <1>1 DEF IInv, PageInv, At, LatestRests
    <3>4. (~expired /\ ~unaware[p]) =>
            /\ page[p].phase = "stopped" => Honest(page[p].cursor)
            /\ page[p].phase = "polled" => Honest(page[p].reply)
            /\ conn[p].state = "closed" => Honest(conn[p].sent)
      BY <1>1 DEF IInv, ToldInv, Told, At, Honest
    <3>5. WireOK(page[p].cursor, conn[p])
      BY <1>1 DEF IInv, StreamIsNext, WireOK, After
    <3> QED
      BY <3>1, <3>2, <3>3, <3>4, <3>5 DEF Of, PageOK
  <2> QED
    BY <2>1, <2>2, <2>3 DEF ByPage
<1>2. ASSUME ByPage
      PROVE  IInv
  <2>0. JobOK /\ Tables /\ \A p \in Pages : Of(p)
    BY <1>2 DEF ByPage
  <2>1. \A p \in Pages : PageOK(page[p], conn[p], unaware[p])
    BY <2>0 DEF Of
  <2>2. TypeOK
    <3>1. \A p \in Pages : /\ page[p] \in PageStates /\ conn[p] \in Streams
                           /\ asked[p] \in Commands /\ unaware[p] \in BOOLEAN
      BY <2>0 DEF Of, PageOK
    <3>2. /\ page \in [Pages -> PageStates] /\ conn \in [Pages -> Streams]
          /\ asked \in [Pages -> Commands] /\ unaware \in [Pages -> BOOLEAN]
      BY <3>1, <2>0 DEF Tables
    <3> QED
      BY <3>2, <2>0 DEF TypeOK, JobOK, Tables
  <2>3. LogInv
    BY <2>0 DEF JobOK
  <2>4. ConnInv
    BY <2>1 DEF ConnInv, At, PageOK
  <2>5. PageInv
    BY <2>1 DEF PageInv, At, LatestRests, PageOK
  <2>6. ToldInv
    BY <2>1 DEF ToldInv, Told, At, PageOK, Honest
  <2>7. StreamIsNext
    BY <2>1 DEF StreamIsNext, PageOK, WireOK, After
  <2> QED
    BY <2>2, <2>3, <2>4, <2>5, <2>6, <2>7 DEF IInv
<1> QED
  BY <1>1, <1>2

\* While the job is left alone, what was owed before a step and after it is the
\* same.
LEMMA SameJob ==
  ASSUME UNCHANGED <<log, keyNeeded, expired>>, NEW q \in Pages,
         PageOK(page'[q], conn'[q], unaware'[q]), asked'[q] \in Commands
  PROVE  Of(q)'
<1>1. /\ PageStates' = PageStates /\ Streams' = Streams
      /\ Commands' = Commands
  BY DEF PageStates, Streams, Commands, Numbers
<1>2. Status' = Status /\ StillWaits' = StillWaits
  BY DEF Status, StillWaits
<1>3. PageOK(page[q], conn[q], unaware[q])'
  BY <1>1, <1>2 DEF PageOK, Honest, WireOK
<1> QED
  BY <1>1, <1>3 DEF Of

\* A step of one page that leaves the job alone owes the invariant of that page.
LEMMA OnePage ==
  ASSUME IInv, UNCHANGED <<log, keyNeeded, expired>>,
         NEW p \in Pages, NEW pg, NEW c, NEW a, NEW u,
         page' = [page EXCEPT ![p] = pg],
         conn' = [conn EXCEPT ![p] = c],
         asked' = [asked EXCEPT ![p] = a],
         unaware' = [unaware EXCEPT ![p] = u],
         reloads' \in 0..MaxReloads,
         PageOK(pg, c, u), a \in Commands
  PROVE  IInv'
<1>1. JobOK /\ Tables /\ \A q \in Pages : Of(q)
  BY InvByPage DEF ByPage
<1>2. JobOK'
  BY <1>1 DEF JobOK, LogInv, Status
<1>3. Tables'
  BY <1>1 DEF Tables
<1>4. ASSUME NEW q \in Pages
      PROVE  Of(q)'
  <2>1. CASE q = p
    <3>1. page'[q] = pg /\ conn'[q] = c /\ asked'[q] = a /\ unaware'[q] = u
      BY <2>1, <1>1 DEF Tables
    <3> QED
      BY <3>1, SameJob
  <2>2. CASE q # p
    <3>1. /\ page'[q] = page[q] /\ conn'[q] = conn[q]
          /\ asked'[q] = asked[q] /\ unaware'[q] = unaware[q]
      BY <2>2, <1>1 DEF Tables
    <3>2. PageOK(page[q], conn[q], unaware[q]) /\ asked[q] \in Commands
      BY <1>1 DEF Of
    <3> QED
      BY <3>1, <3>2, SameJob
  <2> QED
    BY <2>1, <2>2
<1>5. ByPage'
  BY <1>2, <1>3, <1>4 DEF ByPage
<1> QED
  BY <1>5, InvByPage, PTL

\* What pump leaves of an open stream: the run goes on, and a stream that is
\* closed has told everything there is to tell.
LEMMA PumpedOK ==
  ASSUME JobOK, NEW n \in Numbers, NEW c \in Streams,
         c.state = "open", WireOK(n, c)
  PROVE  /\ Pumped(c) \in Streams
         /\ Pumped(c).state \in {"open", "closed"}
         /\ WireOK(n, Pumped(c))
         /\ (Pumped(c).state = "closed" /\ ~expired)
              => Pumped(c).sent = Len(log)
<1>1. /\ c.sent \in 0..Len(log) /\ c.wire \in Seq(0..Len(log))
      /\ Len(log) \in Nat /\ n \in Nat /\ Len(c.wire) \in Nat
      /\ c.sent = n + Len(c.wire) /\ c.wire = After(n, Len(c.wire))
  BY DEF JobOK, Streams, Numbers, WireOK
<1>2. CASE expired
  BY <1>1, <1>2 DEF Pumped, Streams, Numbers, WireOK
<1>3. CASE ~expired
  <2> DEFINE m == Len(log) - c.sent
             w == c.wire \o After(c.sent, m)
  <2>1. Pumped(c) = [state |-> IF Status \in Resting THEN "closed" ELSE "open",
                     sent |-> Len(log), wire |-> w]
    BY <1>3 DEF Pumped, After
  <2>2. m \in Nat /\ Len(c.wire) + m \in Nat
        /\ n + (Len(c.wire) + m) = Len(log)
    BY <1>1
  <2> HIDE DEF m
  <2>3. w = After(n, Len(c.wire) + m)
    <3>1. w = After(n, Len(c.wire)) \o After(n + Len(c.wire), m)
      BY <1>1
    <3> QED
      BY <1>1, <2>2, <3>1, AfterConcat
  <2> HIDE DEF w
  <2>4. w \in Seq(0..Len(log)) /\ Len(w) = Len(c.wire) + m
    BY <1>1, <2>2, <2>3, AfterType
  <2>5. w = After(n, Len(w)) /\ Len(log) = n + Len(w)
    BY <2>2, <2>3, <2>4
  <2>6. Pumped(c) \in Streams
    BY <1>1, <2>1, <2>4 DEF Streams, Numbers
  <2> QED
    BY <2>1, <2>5, <2>6 DEF WireOK
<1> QED
  BY <1>2, <1>3

\* The number of the newest event is honest: a job that waits needs its key.
LEMMA NewestHonest == ASSUME JobOK PROVE Honest(Len(log))
  BY DEF JobOK, LogInv, Status, Honest, StillWaits

\* What a page is after it was handed event n.
LEMMA AcceptedOK ==
  ASSUME JobOK, NEW pg \in PageStates, NEW n \in Numbers, n # 0, n >= pg.cursor,
         (pg.cursor # 0 /\ log[pg.cursor] = "completed") => pg.stored
  PROVE  /\ Accepted(pg, n) \in PageStates
         /\ Accepted(pg, n).cursor = n
         /\ Accepted(pg, n).shown = n
         /\ log[n] = "completed" => Accepted(pg, n).stored
         /\ Accepted(pg, n).phase = pg.phase
         /\ Accepted(pg, n).reply = pg.reply
<1>1. n \in Nat /\ pg.cursor \in Nat
  BY DEF JobOK, PageStates, Numbers
<1>2. Accepted(pg, n) = [pg EXCEPT !.cursor = n, !.shown = n,
                                   !.stored = @ \/ log[n] = "completed"]
  BY <1>1 DEF Accepted
<1>3. /\ (pg.stored \/ log[n] = "completed") \in BOOLEAN
      /\ log[n] = "completed" => (pg.stored \/ log[n] = "completed")
  OBVIOUS
<1> QED
  BY <1>2, <1>3 DEF PageStates

-----------------------------------------------------------------------------
(* The job goes on.                                                        *)

\* Events are appended and never change.
Grown ==
  /\ Len(log) <= Len(log')
  /\ \A i \in 1..Len(log) : log'[i] = log[i]

\* An event that respects the job's end and its need of a key.
LEMMA Appending ==
  ASSUME JobOK, NEW s \in Statuses, log' = Append(log, s),
         Status \in Terminal => s = Status,
         s = Waiting => keyNeeded',
         keyNeeded' \in BOOLEAN, expired' \in BOOLEAN
  PROVE  JobOK' /\ Grown /\ Status' = s
<1> DEFINE n == Len(log)
<1>1. log \in Seq(Statuses) /\ n \in Nat \ {0}
  BY DEF JobOK
<1>2. /\ log' \in Seq(Statuses)
      /\ Len(log') = n + 1
      /\ \A i \in 1..n : log'[i] = log[i]
      /\ log'[n + 1] = s
  BY <1>1, AppendProperties
<1> HIDE DEF n
<1>3. Grown
  BY <1>1, <1>2 DEF Grown, n
<1>4. Status' = s
  BY <1>2 DEF Status
<1>5. ASSUME NEW i \in 1..Len(log'), NEW j \in 1..Len(log'),
             log'[i] \in Terminal, i <= j
      PROVE  log'[j] = log'[i]
  <2>1. \A k, m \in 1..n : (log[k] \in Terminal /\ k <= m) => log[m] = log[k]
    BY DEF JobOK, LogInv, n
  <2>2. CASE j <= n
    BY <2>1, <2>2, <1>1, <1>2, <1>5
  <2>3. CASE i <= n /\ j = n + 1
    <3>1. log[n] = log[i] /\ log[i] = log'[i]
      BY <2>1, <2>3, <1>1, <1>2, <1>5
    <3>2. s = log[n]
      BY <3>1, <1>5 DEF Status, n
    <3> QED
      BY <3>1, <3>2, <2>3, <1>2
  <2>4. CASE i = n + 1
    BY <2>4, <1>1, <1>2, <1>5
  <2> QED
    BY <2>2, <2>3, <2>4, <1>1, <1>2, <1>5
<1>6. LogInv'
  BY <1>4, <1>5 DEF LogInv
<1> QED
  BY <1>1, <1>2, <1>3, <1>4, <1>6 DEF JobOK

\* What a page was told stays honest unless a command moves the job on.
LEMMA HonestKept ==
  ASSUME JobOK, Grown, StillWaits => StillWaits'
  PROVE  \A n \in Numbers : Honest(n) => Honest(n)'
<1> TAKE n \in Numbers
<1>1. n # 0 => n \in 1..Len(log)
  BY DEF JobOK, Numbers
<1> QED
  BY <1>1 DEF Grown, Honest

\* A page that is neither stopped nor about to stop was told nothing yet.
LEMMA Later ==
  ASSUME IInv, JobOK', Grown, expired' = expired, page' = page,
         NEW p \in Pages,
         conn'[p] \in {conn[p], [conn[p] EXCEPT !.state = "cut"]},
         conn'[p] # conn[p] => conn[p].state = "open",
         asked'[p] \in Commands', unaware'[p] \in BOOLEAN,
         ~unaware'[p] =>
           \/ ~unaware[p] /\ \A n \in Numbers : Honest(n) => Honest(n)'
           \/ ~LeftBehind[p]
  PROVE  Of(p)'
<1> DEFINE pg == page[p]
           c  == conn[p]
           d  == conn'[p]
<1>1. JobOK /\ PageOK(pg, c, unaware[p])
  BY InvByPage DEF ByPage, Of
<1>2. /\ pg \in PageStates /\ c \in Streams
      /\ pg.cursor \in Numbers /\ pg.reply \in Numbers /\ c.sent \in Numbers
      /\ c.wire \in Seq(Numbers)
  BY <1>1 DEF PageOK, PageStates, Streams
<1>3. Numbers \subseteq Numbers' /\ Numbers \subseteq Nat
  BY <1>1 DEF JobOK, Numbers, Grown
<1>4. d \in Streams /\ d.sent = c.sent /\ d.wire = c.wire
      /\ d.state \in {c.state, "cut"} /\ (d.state = "none" <=> c.state = "none")
      /\ (d.state = "closed" <=> c.state = "closed")
  BY <1>2 DEF Streams
<1>5. pg \in PageStates' /\ d \in Streams'
  <2>1. d.wire \in Seq(Numbers')
    BY <1>2, <1>3, <1>4, SeqMonotonic
  <2> QED
    BY <2>1, <1>2, <1>3, <1>4 DEF PageStates, Streams
<1>6. \A n \in Numbers \ {0} : log'[n] = log[n]
  BY <1>1 DEF JobOK, Numbers, Grown
<1>7. /\ d.state # "none" <=> pg.phase = "stream"
      /\ pg.cursor # 0 => /\ pg.shown = pg.cursor
                          /\ log'[pg.cursor] = "completed" => pg.stored
      /\ pg.phase = "polled" => pg.reply # 0 /\ pg.reply >= pg.cursor
      /\ (pg.phase = "stopped" /\ ~expired)
           => pg.cursor # 0 /\ log'[pg.cursor] \in Resting
  BY <1>1, <1>2, <1>4, <1>6 DEF PageOK
<1>8. ASSUME ~expired, ~unaware'[p]
      PROVE  /\ pg.phase = "stopped" => Honest(pg.cursor)'
             /\ pg.phase = "polled" => Honest(pg.reply)'
             /\ d.state = "closed" => Honest(c.sent)'
  <2>0. DOMAIN LeftBehind = Pages
        /\ (~LeftBehind[p] => /\ ~unaware[p]
                              /\ pg.phase # "stopped" /\ c.state # "closed"
                              /\ pg.phase = "polled"
                                   => log[pg.reply] \notin Resting)
    BY DEF LeftBehind
  <2>1. CASE ~unaware[p] /\ \A n \in Numbers : Honest(n) => Honest(n)'
    <3>1. /\ pg.phase = "stopped" => Honest(pg.cursor)
          /\ pg.phase = "polled" => Honest(pg.reply)
          /\ c.state = "closed" => Honest(c.sent)
      BY <2>1, <1>1, <1>8 DEF PageOK
    <3>2. \A n \in Numbers : (n # 0 /\ log[n] = Waiting => StillWaits)
                               => (n # 0 /\ log'[n] = Waiting => StillWaits')
      BY <2>1 DEF Honest
    <3>3. \A n \in Numbers : Honest(n) => (n # 0 /\ log'[n] = Waiting
                                             => StillWaits')
      BY <3>2 DEF Honest
    <3> QED
      BY <3>1, <3>3, <1>2, <1>4 DEF Honest
  <2>2. CASE ~LeftBehind[p]
    <3>1. pg.phase = "polled" => log'[pg.reply] # Waiting
      BY <2>0, <2>2, <1>1, <1>2, <1>6 DEF PageOK, Resting
    <3> QED
      BY <3>1, <2>0, <2>2, <1>4 DEF Honest
  <2> QED
    BY <2>1, <2>2, <1>8
<1>9. /\ (d.state # "none" =>
            /\ d.wire = After(pg.cursor, Len(d.wire))
            /\ d.state # "cut" => d.sent = pg.cursor + Len(d.wire))
  BY <1>1, <1>4 DEF PageOK, WireOK
<1>10. PageOK(page[p], conn[p], unaware[p])'
  BY <1>5, <1>7, <1>8, <1>9, <1>4 DEF PageOK, WireOK, After, Resting, Honest
<1> QED
  BY <1>10 DEF Of

-----------------------------------------------------------------------------
(* The steps.                                                              *)

\* The types of what belongs to a page.
LEMMA PageTypes ==
  ASSUME IInv, NEW p \in Pages
  PROVE  /\ JobOK /\ Tables
         /\ PageOK(page[p], conn[p], unaware[p])
         /\ asked[p] \in Commands
         /\ page[p] \in PageStates /\ conn[p] \in Streams
         /\ unaware[p] \in BOOLEAN /\ reloads \in 0..MaxReloads
         /\ page[p].phase \in Phases /\ page[p].stored \in BOOLEAN
         /\ page[p].cursor \in Numbers /\ page[p].shown \in Numbers
         /\ page[p].reply \in Numbers
         /\ conn[p].sent \in Numbers /\ conn[p].wire \in Seq(Numbers)
         /\ Len(conn[p].wire) \in Nat
         /\ Len(log) \in Nat \ {0} /\ Len(log) \in Numbers /\ 0 \in Numbers
         /\ Numbers \subseteq Nat
<1>1. JobOK /\ Tables /\ Of(p)
  BY InvByPage DEF ByPage
<1>2. /\ PageOK(page[p], conn[p], unaware[p]) /\ asked[p] \in Commands
      /\ page[p] \in PageStates /\ conn[p] \in Streams
      /\ unaware[p] \in BOOLEAN
  BY <1>1 DEF Of, PageOK
<1>3. /\ page[p].phase \in Phases /\ page[p].stored \in BOOLEAN
      /\ page[p].cursor \in Numbers /\ page[p].shown \in Numbers
      /\ page[p].reply \in Numbers
  BY <1>2 DEF PageStates
<1>4. conn[p].sent \in Numbers /\ conn[p].wire \in Seq(Numbers)
  BY <1>2 DEF Streams
<1>5. /\ Len(log) \in Nat \ {0} /\ Len(log) \in Numbers /\ 0 \in Numbers
      /\ Numbers \subseteq Nat
  BY <1>1 DEF JobOK, Numbers
<1> QED
  BY <1>1, <1>2, <1>3, <1>4, <1>5, LenProperties DEF Tables

\* A page without a stream.
LEMMA NoStream ==
  ASSUME JobOK, NEW n
  PROVE  /\ Unconnected \in Streams /\ Unconnected.state = "none"
         /\ WireOK(n, Unconnected)
<1>1. 0 \in Numbers /\ <<>> \in Seq(Numbers)
  BY EmptySeq DEF JobOK, Numbers
<1> QED
  BY <1>1 DEF Unconnected, Streams, WireOK

\* A page in a phase that claims nothing owes nothing of its stream or of what
\* it was told.
LEMMA Fresh ==
  ASSUME JobOK, NEW pg \in PageStates, pg.phase \in {"connect", "poll", "wait"},
         pg.cursor # 0 => /\ pg.shown = pg.cursor
                          /\ log[pg.cursor] = "completed" => pg.stored,
         NEW u \in BOOLEAN
  PROVE  PageOK(pg, Unconnected, u)
<1>1. /\ Unconnected \in Streams /\ Unconnected.state = "none"
      /\ WireOK(pg.cursor, Unconnected)
  BY NoStream
<1> QED
  BY <1>1 DEF PageOK

LEMMA PumpStep == ASSUME IInv, NEW p \in Pages, Pump(p) PROVE IInv'
<1> DEFINE c == Pumped(conn[p])
<1>1. conn[p].state = "open" /\ page[p].phase = "stream"
      /\ WireOK(page[p].cursor, conn[p])
  BY PageTypes DEF Pump, PageOK
<1>2. /\ c \in Streams /\ c.state \in {"open", "closed"}
      /\ WireOK(page[p].cursor, c)
      /\ (c.state = "closed" /\ ~expired) => c.sent = Len(log)
  BY <1>1, PageTypes, PumpedOK
<1>3. /\ UNCHANGED <<log, keyNeeded, expired>>
      /\ page' = [page EXCEPT ![p] = page[p]]
      /\ conn' = [conn EXCEPT ![p] = c]
      /\ asked' = [asked EXCEPT ![p] = asked[p]]
      /\ unaware' = [unaware EXCEPT ![p] = unaware[p]]
      /\ reloads' \in 0..MaxReloads
  BY PageTypes DEF Pump, Tables
<1> HIDE DEF c
<1>4. (c.state = "closed" /\ ~expired) => Honest(c.sent)
  BY <1>2, PageTypes, NewestHonest
<1>5. PageOK(page[p], c, unaware[p])
  BY <1>1, <1>2, <1>4, PageTypes DEF PageOK
<1> QED
  BY <1>3, <1>5, PageTypes, OnePage

LEMMA CutStep == ASSUME IInv, NEW p \in Pages, Cut(p) PROVE IInv'
<1>1. PICK n \in 0..Len(conn[p].wire) :
        conn' = [conn EXCEPT ![p].state = "cut",
                             ![p].wire = SubSeq(conn[p].wire, 1, n)]
  BY DEF Cut
<1> DEFINE w == SubSeq(conn[p].wire, 1, n)
           c == [conn[p] EXCEPT !.state = "cut", !.wire = w]
<1>2. /\ conn[p].state # "none" /\ page[p].phase = "stream"
      /\ conn[p].wire = After(page[p].cursor, Len(conn[p].wire))
  BY PageTypes DEF Cut, PageOK, WireOK
<1>3. /\ UNCHANGED <<log, keyNeeded, expired>>
      /\ page' = [page EXCEPT ![p] = page[p]]
      /\ conn' = [conn EXCEPT ![p] = c]
      /\ asked' = [asked EXCEPT ![p] = asked[p]]
      /\ unaware' = [unaware EXCEPT ![p] = unaware[p]]
      /\ reloads' \in 0..MaxReloads
  BY <1>1, PageTypes DEF Cut, Tables
<1>4. n \in 0..Len(conn[p].wire) /\ n \in Nat /\ page[p].cursor \in Nat
      /\ Len(conn[p].wire) \in Nat
  BY PageTypes
<1>5. w = After(page[p].cursor, n)
  <2> DEFINE k   == Len(conn[p].wire)
             cur == page[p].cursor
  <2>1. conn[p].wire = After(cur, k) /\ k \in Nat /\ cur \in Nat /\ n \in 0..k
    BY <1>2, <1>4
  <2> HIDE DEF k, cur
  <2>2. SubSeq(After(cur, k), 1, n) = After(cur, n)
    BY <2>1, AfterCut
  <2> QED
    BY <2>1, <2>2 DEF cur
<1>6. w \in Seq(Numbers)
  <2>1. \A i \in 1..n : conn[p].wire[i] \in Numbers
    BY <1>4, PageTypes, ElementOfSeq
  <2> QED
    BY <2>1, <1>4, SubSeqProperties
<1> HIDE DEF w
<1>7. Len(w) = n
  <2> DEFINE cur == page[p].cursor
             b   == cur + n
  <2>0. cur \in Nat /\ b \in Nat /\ cur + n <= b
    BY <1>4
  <2> HIDE DEF b, cur
  <2>1. Len(After(cur, n)) = n
    BY <1>4, <2>0, AfterType
  <2> QED
    BY <2>1, <1>5 DEF cur
<1>8. c \in Streams /\ c.state = "cut" /\ c.wire = w
  BY <1>6, PageTypes DEF Streams
<1> HIDE DEF c
<1>9. PageOK(page[p], c, unaware[p])
  BY <1>2, <1>5, <1>7, <1>8, PageTypes DEF PageOK, WireOK
<1> QED
  BY <1>3, <1>9, PageTypes, OnePage

LEMMA ConnectStep == ASSUME IInv, NEW p \in Pages, Connect(p) PROVE IInv'
<1> DEFINE pg == [page[p] EXCEPT !.phase = "stream"]
           o  == [state |-> "open", sent |-> page[p].cursor, wire |-> <<>>]
           c  == Pumped(o)
<1>1. /\ UNCHANGED <<log, keyNeeded, expired>>
      /\ page' = [page EXCEPT ![p] = pg]
      /\ conn' = [conn EXCEPT ![p] = c]
      /\ asked' = [asked EXCEPT ![p] = asked[p]]
      /\ unaware' = [unaware EXCEPT ![p] = FALSE]
      /\ reloads' \in 0..MaxReloads
  BY PageTypes DEF Connect, Tables
<1>2. /\ pg \in PageStates /\ pg.phase = "stream"
      /\ pg.cursor = page[p].cursor /\ pg.shown = page[p].shown
      /\ pg.stored = page[p].stored
  BY PageTypes DEF PageStates, Phases
<1>3. o \in Streams /\ o.state = "open" /\ WireOK(page[p].cursor, o)
  <2>1. page[p].cursor \in Numbers /\ page[p].cursor \in Nat
    BY PageTypes
  <2>2. <<>> \in Seq(Numbers) /\ Len(<<>>) = 0
    BY EmptySeq
  <2>3. <<>> = After(page[p].cursor, 0)
    BY <2>1, AfterNone
  <2> QED
    BY <2>1, <2>2, <2>3 DEF Streams, WireOK
<1> HIDE DEF o
<1>4. /\ c \in Streams /\ c.state \in {"open", "closed"}
      /\ WireOK(page[p].cursor, c)
      /\ (c.state = "closed" /\ ~expired) => c.sent = Len(log)
  BY <1>3, PageTypes, PumpedOK
<1> HIDE DEF c
<1>5. (c.state = "closed" /\ ~expired) => Honest(c.sent)
  BY <1>4, PageTypes, NewestHonest
<1>6. page[p].cursor # 0 =>
        /\ page[p].shown = page[p].cursor
        /\ log[page[p].cursor] = "completed" => page[p].stored
  BY PageTypes DEF PageOK
<1> HIDE DEF pg
<1>7. PageOK(pg, c, FALSE)
  BY <1>2, <1>4, <1>5, <1>6 DEF PageOK
<1> QED
  BY <1>1, <1>7, PageTypes, OnePage

\* A page that polls, waits or connects has no stream, so its stream is the
\* one of a page without.
LEMMA Streamless ==
  ASSUME IInv, NEW p \in Pages, page[p].phase # "stream"
  PROVE  conn[p].state = "none"
BY PageTypes DEF PageOK

\* Only the phase and the answer to a poll change, to a phase that claims
\* nothing.
LEMMA PhaseOnly ==
  ASSUME IInv, NEW p \in Pages, page[p].phase # "stream",
         NEW phase \in {"connect", "poll", "wait"}, NEW r \in Numbers
  PROVE  PageOK([page[p] EXCEPT !.phase = phase, !.reply = r], conn[p],
                unaware[p])
<1> DEFINE pg == [page[p] EXCEPT !.phase = phase, !.reply = r]
<1>1. /\ pg \in PageStates /\ pg.phase = phase
      /\ pg.cursor = page[p].cursor /\ pg.shown = page[p].shown
      /\ pg.stored = page[p].stored
  BY PageTypes DEF PageStates, Phases
<1>2. conn[p].state = "none"
  BY Streamless
<1>3. page[p].cursor # 0 =>
        /\ page[p].shown = page[p].cursor
        /\ log[page[p].cursor] = "completed" => page[p].stored
  BY PageTypes DEF PageOK
<1> HIDE DEF pg
<1>4. PageOK(pg, conn[p], unaware[p])
  BY <1>1, <1>2, <1>3, PageTypes DEF PageOK, WireOK
<1> QED
  BY <1>4 DEF pg

LEMMA ConnectFailsStep ==
  ASSUME IInv, NEW p \in Pages, ConnectFails(p) PROVE IInv'
<1> DEFINE pg == [page[p] EXCEPT !.phase = "poll", !.reply = page[p].reply]
<1>1. /\ UNCHANGED <<log, keyNeeded, expired>>
      /\ page' = [page EXCEPT ![p] = pg]
      /\ conn' = [conn EXCEPT ![p] = conn[p]]
      /\ asked' = [asked EXCEPT ![p] = asked[p]]
      /\ unaware' = [unaware EXCEPT ![p] = unaware[p]]
      /\ reloads' \in 0..MaxReloads
      /\ page[p].phase # "stream"
  BY PageTypes DEF ConnectFails, Tables, At, PageStates
<1>2. PageOK(pg, conn[p], unaware[p])
  BY <1>1, PageTypes, PhaseOnly
<1> HIDE DEF pg
<1> QED
  BY <1>1, <1>2, PageTypes, OnePage

LEMMA WaitStep == ASSUME IInv, NEW p \in Pages, Wait(p) PROVE IInv'
<1> DEFINE pg == [page[p] EXCEPT !.phase = "connect", !.reply = page[p].reply]
<1>1. /\ UNCHANGED <<log, keyNeeded, expired>>
      /\ page' = [page EXCEPT ![p] = pg]
      /\ conn' = [conn EXCEPT ![p] = conn[p]]
      /\ asked' = [asked EXCEPT ![p] = asked[p]]
      /\ unaware' = [unaware EXCEPT ![p] = unaware[p]]
      /\ reloads' \in 0..MaxReloads
      /\ page[p].phase # "stream"
  BY PageTypes DEF Wait, Tables, At, PageStates
<1>2. PageOK(pg, conn[p], unaware[p])
  BY <1>1, PageTypes, PhaseOnly
<1> HIDE DEF pg
<1> QED
  BY <1>1, <1>2, PageTypes, OnePage

LEMMA PollFailsStep == ASSUME IInv, NEW p \in Pages, PollFails(p) PROVE IInv'
<1> DEFINE pg == [page[p] EXCEPT !.phase = "wait", !.reply = 0]
<1>1. /\ UNCHANGED <<log, keyNeeded, expired>>
      /\ page' = [page EXCEPT ![p] = pg]
      /\ conn' = [conn EXCEPT ![p] = conn[p]]
      /\ asked' = [asked EXCEPT ![p] = asked[p]]
      /\ unaware' = [unaware EXCEPT ![p] = unaware[p]]
      /\ reloads' \in 0..MaxReloads
      /\ page[p].phase # "stream"
  BY PageTypes DEF PollFails, Tables, At, PageStates
<1>2. PageOK(pg, conn[p], unaware[p])
  BY <1>1, PageTypes, PhaseOnly
<1> HIDE DEF pg
<1> QED
  BY <1>1, <1>2, PageTypes, OnePage

LEMMA DeliverStep == ASSUME IInv, NEW p \in Pages, Deliver(p) PROVE IInv'
<1> DEFINE n  == Head(conn[p].wire)
           pg == Accepted(page[p], n)
           c  == [conn[p] EXCEPT !.wire = Tail(@)]
<1>1. /\ UNCHANGED <<log, keyNeeded, expired>>
      /\ page' = [page EXCEPT ![p] = pg]
      /\ conn' = [conn EXCEPT ![p] = c]
      /\ asked' = [asked EXCEPT ![p] = asked[p]]
      /\ unaware' = [unaware EXCEPT ![p] = unaware[p]]
      /\ reloads' \in 0..MaxReloads
      /\ page[p].phase = "stream" /\ conn[p].wire # <<>>
  BY PageTypes DEF Deliver, Tables, At
<1> DEFINE k   == Len(conn[p].wire)
           cur == page[p].cursor
<1>2. /\ conn[p].state # "none" /\ conn[p].wire = After(cur, k)
      /\ conn[p].state # "cut" => conn[p].sent = cur + k
  BY <1>1, PageTypes DEF PageOK, WireOK
<1>3. cur \in Nat /\ k \in Nat /\ k # 0 /\ k - 1 \in Nat /\ cur + 1 \in Nat
  BY <1>1, PageTypes, EmptySeq
<1>4. n \in Numbers /\ Tail(conn[p].wire) \in Seq(Numbers)
      /\ Len(Tail(conn[p].wire)) = k - 1
  BY <1>1, PageTypes, HeadTailProperties
<1>5. n = cur + 1 /\ Tail(conn[p].wire) = After(cur + 1, k - 1)
  <2> HIDE DEF k, cur
  <2>1. /\ Head(After(cur, k)) = cur + 1
        /\ Tail(After(cur, k)) = After(cur + 1, k - 1)
    BY <1>3, AfterTail
  <2> QED
    BY <2>1, <1>2
<1>6. /\ c \in Streams /\ c.state = conn[p].state /\ c.sent = conn[p].sent
      /\ c.wire = Tail(conn[p].wire)
  BY <1>4, PageTypes DEF Streams
<1>7. WireOK(n, c)
  <2> HIDE DEF n, c, k, cur
  <2>1. c.wire = After(n, k - 1) /\ Len(c.wire) = k - 1
    BY <1>4, <1>5, <1>6
  <2>2. c.state # "cut" => c.sent = n + (k - 1)
    BY <1>2, <1>3, <1>5, <1>6
  <2> QED
    BY <2>1, <2>2 DEF WireOK
<1>8. (page[p].cursor # 0 /\ log[page[p].cursor] = "completed")
        => page[p].stored
  BY PageTypes DEF PageOK
<1>9. n \in Nat /\ n # 0 /\ n >= page[p].cursor
  BY <1>3, <1>5
<1> HIDE DEF n, c, k, cur
<1>10. /\ pg \in PageStates /\ pg.cursor = n /\ pg.shown = n
       /\ log[n] = "completed" => pg.stored
       /\ pg.phase = "stream"
  BY <1>1, <1>4, <1>8, <1>9, PageTypes, AcceptedOK
<1>11. (~expired /\ ~unaware[p] /\ conn[p].state = "closed")
         => Honest(conn[p].sent)
  BY PageTypes DEF PageOK
<1> HIDE DEF pg
<1>12. PageOK(pg, c, unaware[p])
  BY <1>2, <1>6, <1>7, <1>10, <1>11, PageTypes DEF PageOK
<1> QED
  BY <1>1, <1>12, PageTypes, OnePage

LEMMA StreamEndsStep ==
  ASSUME IInv, NEW p \in Pages, StreamEnds(p) PROVE IInv'
<1> DEFINE pg == [page[p] EXCEPT !.phase = IF LatestRests(p) THEN "stopped"
                                           ELSE "poll"]
<1>1. /\ UNCHANGED <<log, keyNeeded, expired>>
      /\ page' = [page EXCEPT ![p] = pg]
      /\ conn' = [conn EXCEPT ![p] = Unconnected]
      /\ asked' = [asked EXCEPT ![p] = asked[p]]
      /\ unaware' = [unaware EXCEPT ![p] = unaware[p]]
      /\ reloads' \in 0..MaxReloads
      /\ page[p].phase = "stream"
      /\ conn[p].state = "closed" /\ conn[p].wire = <<>>
  BY PageTypes DEF StreamEnds, Tables, At
<1>2. conn[p].sent = page[p].cursor
  <2>1. conn[p].sent = page[p].cursor + Len(conn[p].wire)
    BY <1>1, PageTypes DEF PageOK, WireOK
  <2>2. Len(conn[p].wire) = 0 /\ page[p].cursor \in Nat
    BY <1>1, PageTypes, EmptySeq
  <2> QED
    BY <2>1, <2>2
<1>3. (~expired /\ ~unaware[p]) => Honest(page[p].cursor)
  BY <1>1, <1>2, PageTypes DEF PageOK
<1>4. /\ pg \in PageStates
      /\ pg.cursor = page[p].cursor /\ pg.shown = page[p].shown
      /\ pg.stored = page[p].stored
      /\ pg.phase \in {"stopped", "poll"}
      /\ pg.phase = "stopped" => LatestRests(p)
  BY PageTypes DEF PageStates, Phases
<1>5. page[p].cursor # 0 =>
        /\ page[p].shown = page[p].cursor
        /\ log[page[p].cursor] = "completed" => page[p].stored
  BY PageTypes DEF PageOK
<1>6. /\ Unconnected \in Streams /\ Unconnected.state = "none"
      /\ WireOK(page[p].cursor, Unconnected)
  BY PageTypes, NoStream
<1> HIDE DEF pg
<1>7. PageOK(pg, Unconnected, unaware[p])
  BY <1>3, <1>4, <1>5, <1>6, PageTypes DEF PageOK, LatestRests
<1> QED
  BY <1>1, <1>7, PageTypes, OnePage

LEMMA StreamFailsStep ==
  ASSUME IInv, NEW p \in Pages, StreamFails(p) PROVE IInv'
<1> DEFINE pg == [page[p] EXCEPT !.phase = "poll"]
<1>1. /\ UNCHANGED <<log, keyNeeded, expired>>
      /\ page' = [page EXCEPT ![p] = pg]
      /\ conn' = [conn EXCEPT ![p] = Unconnected]
      /\ asked' = [asked EXCEPT ![p] = asked[p]]
      /\ unaware' = [unaware EXCEPT ![p] = unaware[p]]
      /\ reloads' \in 0..MaxReloads
  BY PageTypes DEF StreamFails, Tables
<1>2. /\ pg \in PageStates /\ pg.phase = "poll"
      /\ pg.cursor = page[p].cursor /\ pg.shown = page[p].shown
      /\ pg.stored = page[p].stored
  BY PageTypes DEF PageStates, Phases
<1>3. page[p].cursor # 0 =>
        /\ page[p].shown = page[p].cursor
        /\ log[page[p].cursor] = "completed" => page[p].stored
  BY PageTypes DEF PageOK
<1> HIDE DEF pg
<1>4. PageOK(pg, Unconnected, unaware[p])
  BY <1>2, <1>3, PageTypes, Fresh
<1> QED
  BY <1>1, <1>4, PageTypes, OnePage

LEMMA PollStep == ASSUME IInv, NEW p \in Pages, Poll(p) PROVE IInv'
<1> DEFINE pg == [page[p] EXCEPT !.phase = IF expired THEN "stopped"
                                           ELSE "polled",
                                 !.reply = IF expired THEN 0 ELSE Len(log)]
<1>1. /\ UNCHANGED <<log, keyNeeded, expired>>
      /\ page' = [page EXCEPT ![p] = pg]
      /\ conn' = [conn EXCEPT ![p] = conn[p]]
      /\ asked' = [asked EXCEPT ![p] = asked[p]]
      /\ unaware' = [unaware EXCEPT ![p] = FALSE]
      /\ reloads' \in 0..MaxReloads
      /\ page[p].phase # "stream"
  BY PageTypes DEF Poll, Tables, At
<1>2. /\ pg \in PageStates
      /\ pg.cursor = page[p].cursor /\ pg.shown = page[p].shown
      /\ pg.stored = page[p].stored
      /\ pg.phase = IF expired THEN "stopped" ELSE "polled"
      /\ pg.reply = IF expired THEN 0 ELSE Len(log)
  BY PageTypes DEF PageStates, Phases
<1>3. Len(log) # 0 /\ Len(log) >= page[p].cursor
  BY PageTypes DEF Numbers
<1>4. page[p].cursor # 0 =>
        /\ page[p].shown = page[p].cursor
        /\ log[page[p].cursor] = "completed" => page[p].stored
  BY PageTypes DEF PageOK
<1>5. Honest(Len(log)) /\ conn[p].state = "none"
  BY <1>1, PageTypes, NewestHonest, Streamless
<1> HIDE DEF pg
<1>6. PageOK(pg, conn[p], FALSE)
  BY <1>2, <1>3, <1>4, <1>5, PageTypes DEF PageOK, WireOK
<1> QED
  BY <1>1, <1>6, PageTypes, OnePage

LEMMA PollAnsweredStep ==
  ASSUME IInv, NEW p \in Pages, PollAnswered(p) PROVE IInv'
<1> DEFINE r  == page[p].reply
           a  == Accepted(page[p], r)
           ph == IF log[r] \in Resting THEN "stopped" ELSE "wait"
           pg == [a EXCEPT !.phase = ph, !.reply = 0]
<1>1. /\ UNCHANGED <<log, keyNeeded, expired>>
      /\ page' = [page EXCEPT ![p] = pg]
      /\ conn' = [conn EXCEPT ![p] = conn[p]]
      /\ asked' = [asked EXCEPT ![p] = asked[p]]
      /\ unaware' = [unaware EXCEPT ![p] = unaware[p]]
      /\ reloads' \in 0..MaxReloads
      /\ page[p].phase = "polled"
  BY PageTypes DEF PollAnswered, Tables, At
<1>2. r \in Numbers /\ r # 0 /\ r >= page[p].cursor
  BY <1>1, PageTypes DEF PageOK
<1>3. (~expired /\ ~unaware[p]) => Honest(r)
  BY <1>1, PageTypes DEF PageOK
<1>4. conn[p].state = "none"
  BY <1>1, Streamless
<1>5. (page[p].cursor # 0 /\ log[page[p].cursor] = "completed")
        => page[p].stored
  BY PageTypes DEF PageOK
<1> HIDE DEF r
<1>6. /\ a \in PageStates /\ a.cursor = r /\ a.shown = r
      /\ log[r] = "completed" => a.stored
  BY <1>2, <1>5, PageTypes, AcceptedOK
<1> HIDE DEF a
<1>7. /\ pg \in PageStates /\ pg.cursor = r /\ pg.shown = r
      /\ pg.stored = a.stored /\ pg.phase = ph
      /\ ph \in {"stopped", "wait"}
      /\ ph = "stopped" => log[r] \in Resting
  BY <1>6, PageTypes DEF PageStates, Phases
<1> HIDE DEF ph, pg
<1>8. PageOK(pg, conn[p], unaware[p])
  BY <1>2, <1>3, <1>4, <1>6, <1>7, PageTypes DEF PageOK, WireOK
<1> QED
  BY <1>1, <1>8, PageTypes, OnePage

LEMMA NoCommandOK == ASSUME JobOK PROVE NoCommand \in Commands
BY DEF JobOK, NoCommand, Commands, Numbers

LEMMA AnsweredStep == ASSUME IInv, NEW p \in Pages, Answered(p) PROVE IInv'
<1> DEFINE sh == IF asked[p].kind = "cancel" THEN asked[p].view
                 ELSE page[p].shown
           pg == [page[p] EXCEPT !.phase = "connect", !.cursor = 0,
                                 !.reply = 0, !.shown = sh]
<1>1. /\ UNCHANGED <<log, keyNeeded, expired>>
      /\ page' = [page EXCEPT ![p] = pg]
      /\ conn' = [conn EXCEPT ![p] = Unconnected]
      /\ asked' = [asked EXCEPT ![p] = NoCommand]
      /\ unaware' = [unaware EXCEPT ![p] = FALSE]
      /\ reloads' \in 0..MaxReloads
  BY PageTypes DEF Answered, Tables
<1>2. sh \in Numbers
  BY PageTypes DEF Commands
<1> HIDE DEF sh
<1>3. pg \in PageStates /\ pg.phase = "connect" /\ pg.cursor = 0
  BY <1>2, PageTypes DEF PageStates, Phases
<1> HIDE DEF pg
<1>4. PageOK(pg, Unconnected, FALSE)
  BY <1>3, PageTypes, Fresh
<1> QED
  BY <1>1, <1>4, PageTypes, NoCommandOK, OnePage

LEMMA AnswerLostStep == ASSUME IInv, NEW p \in Pages, AnswerLost(p) PROVE IInv'
<1>1. /\ UNCHANGED <<log, keyNeeded, expired>>
      /\ page' = [page EXCEPT ![p] = page[p]]
      /\ conn' = [conn EXCEPT ![p] = conn[p]]
      /\ asked' = [asked EXCEPT ![p] = NoCommand]
      /\ unaware' = [unaware EXCEPT ![p] = unaware[p]]
      /\ reloads' \in 0..MaxReloads
  BY PageTypes DEF AnswerLost, Tables
<1> QED
  BY <1>1, PageTypes, NoCommandOK, OnePage

LEMMA ReloadStep == ASSUME IInv, NEW p \in Pages, Reload(p) PROVE IInv'
<1>1. /\ UNCHANGED <<log, keyNeeded, expired>>
      /\ page' = [page EXCEPT ![p] = Loaded]
      /\ conn' = [conn EXCEPT ![p] = Unconnected]
      /\ asked' = [asked EXCEPT ![p] = NoCommand]
      /\ unaware' = [unaware EXCEPT ![p] = FALSE]
  BY PageTypes DEF Reload, Tables
<1>2. reloads' \in 0..MaxReloads
  BY PageTypes, ProgressAssumption DEF Reload
<1>3. Loaded \in PageStates /\ Loaded.phase = "connect" /\ Loaded.cursor = 0
  BY PageTypes DEF Loaded, PageStates, Phases
<1>4. PageOK(Loaded, Unconnected, FALSE)
  BY <1>3, PageTypes, Fresh
<1> QED
  BY <1>1, <1>2, <1>4, PageTypes, NoCommandOK, OnePage

\* After 24 hours less is owed.
LEMMA ExpireStep == ASSUME IInv, Expire PROVE IInv'
<1>1. JobOK /\ Tables /\ \A p \in Pages : Of(p)
  BY InvByPage DEF ByPage
<1>2. JobOK' /\ Tables'
  BY <1>1 DEF Expire, JobOK, LogInv, Status, Tables
<1>3. ASSUME NEW p \in Pages PROVE Of(p)'
  <2>1. PageStates' = PageStates /\ Streams' = Streams /\ Commands' = Commands
    BY DEF Expire, PageStates, Streams, Commands, Numbers
  <2>2. PageOK(page[p], conn[p], unaware[p])'
    BY <2>1, PageTypes DEF Expire, PageOK, WireOK, Honest
  <2> QED
    BY <2>1, <2>2, PageTypes DEF Expire, Of
<1>4. ByPage'
  BY <1>2, <1>3 DEF ByPage
<1> QED
  BY <1>4, InvByPage, PTL

\* A write of the job is told to every page or to none.
LEMMA JobStep ==
  ASSUME IInv, JobOK', Grown, Tables',
         \A p \in Pages : Of(p)'
  PROVE  IInv'
<1>1. ByPage'
  BY DEF ByPage
<1> QED
  BY <1>1, InvByPage, PTL

LEMMA CommandsGrow ==
  ASSUME JobOK, Grown, JobOK' PROVE Commands \subseteq Commands'
BY DEF JobOK, Grown, Commands, Numbers

LEMMA JobMovesStep == ASSUME IInv, JobMoves PROVE IInv'
<1>1. JobOK /\ Tables
  BY InvByPage DEF ByPage
<1>2. PICK s \in {"running", Waiting, "completed", "failed"} :
        /\ keyNeeded => s = Waiting
        /\ log' = Append(log, s)
        /\ keyNeeded' = (s = Waiting)
  BY DEF JobMoves
<1>3. /\ Status \in {"queued", "running"} /\ Status \notin Terminal
      /\ UNCHANGED <<expired, page, conn, asked, unaware, reloads>>
  BY DEF JobMoves, Terminal
<1>4. s \in Statuses /\ (s = Waiting => keyNeeded') /\ keyNeeded' \in BOOLEAN
      /\ expired' \in BOOLEAN
  BY <1>1, <1>2, <1>3 DEF Statuses, Open, Terminal, Waiting, JobOK
<1>5. JobOK' /\ Grown /\ Status' = s
  BY <1>1, <1>2, <1>3, <1>4, Appending
<1>6. \A n \in Numbers : Honest(n) => Honest(n)'
  <2>1. StillWaits => StillWaits'
    BY <1>2, <1>5 DEF StillWaits
  <2> QED
    BY <2>1, <1>1, <1>5, HonestKept
<1>7. Tables'
  BY <1>1, <1>3 DEF Tables
<1>8. ASSUME NEW p \in Pages PROVE Of(p)'
  <2>1. asked'[p] \in Commands' /\ unaware'[p] = unaware[p]
        /\ unaware'[p] \in BOOLEAN
    BY <1>1, <1>3, <1>5, PageTypes, CommandsGrow
  <2> QED
    BY <2>1, <1>3, <1>5, <1>6, Later
<1> QED
  BY <1>5, <1>7, <1>8, JobStep

LEMMA RestartStep == ASSUME IInv, Restart PROVE IInv'
<1>1. JobOK /\ Tables
  BY InvByPage DEF ByPage
<1>2. /\ UNCHANGED <<keyNeeded, expired, page, asked, unaware, reloads>>
      /\ conn' = [p \in Pages |->
                   IF conn[p].state = "open"
                   THEN [conn[p] EXCEPT !.state = "cut"] ELSE conn[p]]
  BY DEF Restart
<1>3. JobOK' /\ Grown /\ (StillWaits => StillWaits')
  <2>1. CASE Status \in Terminal
    BY <2>1, <1>1, <1>2 DEF Restart, JobOK, LogInv, Status, Grown, StillWaits
  <2>2. CASE Status \notin Terminal
    <3>1. log' = Append(log, "queued")
      BY <2>2 DEF Restart
    <3>2. "queued" \in Statuses /\ "queued" # Waiting
          /\ keyNeeded' \in BOOLEAN /\ expired' \in BOOLEAN
      BY <1>1, <1>2 DEF Statuses, Open, Waiting, JobOK
    <3>3. JobOK' /\ Grown /\ Status' = "queued"
      BY <3>1, <3>2, <2>2, <1>1, Appending
    <3> QED
      BY <3>3, <1>2 DEF StillWaits
  <2> QED
    BY <2>1, <2>2
<1>4. \A n \in Numbers : Honest(n) => Honest(n)'
  BY <1>1, <1>3, HonestKept
<1>5. Tables'
  BY <1>1, <1>2 DEF Tables
<1>6. ASSUME NEW p \in Pages PROVE Of(p)'
  <2>1. /\ asked'[p] \in Commands' /\ unaware'[p] = unaware[p]
        /\ unaware'[p] \in BOOLEAN
    BY <1>1, <1>2, <1>3, PageTypes, CommandsGrow
  <2>2. /\ conn'[p] \in {conn[p], [conn[p] EXCEPT !.state = "cut"]}
        /\ conn'[p] # conn[p] => conn[p].state = "open"
    BY <1>2
  <2> QED
    BY <2>1, <2>2, <1>2, <1>3, <1>4, Later
<1> QED
  BY <1>3, <1>5, <1>6, JobStep

\* A command that moves the job on leaves the pages behind that were told it
\* rests.
LEMMA CommandStep ==
  ASSUME IInv, NEW p \in Pages, JobOK', Grown,
         UNCHANGED <<expired, page, conn, reloads>>,
         NEW a, a \in Commands', asked' = [asked EXCEPT ![p] = a],
         \/ unaware' = LeftBehind
         \/ unaware' = unaware /\ (StillWaits => StillWaits')
  PROVE  IInv'
<1>1. JobOK /\ Tables
  BY InvByPage DEF ByPage
<1>2. Tables'
  BY <1>1 DEF Tables, LeftBehind
<1>3. ASSUME NEW q \in Pages PROVE Of(q)'
  <2>1. asked'[q] \in Commands'
    <3>1. asked[q] \in Commands' /\ asked'[q] \in {asked[q], a}
      BY <1>1, PageTypes, CommandsGrow DEF Tables
    <3> QED
      BY <3>1
  <2>2. unaware'[q] \in BOOLEAN
    BY PageTypes DEF LeftBehind
  <2>3. ~unaware'[q] =>
          \/ ~unaware[q] /\ \A n \in Numbers : Honest(n) => Honest(n)'
          \/ ~LeftBehind[q]
    <3>1. CASE unaware' = LeftBehind
      BY <3>1
    <3>2. CASE unaware' = unaware /\ (StillWaits => StillWaits')
      <4>1. \A n \in Numbers : Honest(n) => Honest(n)'
        BY <3>2, <1>1, HonestKept
      <4> QED
        BY <4>1, <3>2
    <3> QED
      BY <3>1, <3>2
  <2> QED
    BY <2>1, <2>2, <2>3, Later
<1> QED
  BY <1>2, <1>3, JobStep

LEMMA CancelStep == ASSUME IInv, NEW p \in Pages, Cancel(p) PROVE IInv'
<1> DEFINE s == IF Status \in Terminal THEN Status ELSE "cancelled"
           a == [kind |-> "cancel", view |-> Len(log')]
<1>1. JobOK
  BY InvByPage DEF ByPage
<1>2. /\ log' = Append(log, s)
      /\ keyNeeded' = (keyNeeded /\ Status \in Terminal)
      /\ UNCHANGED <<expired, page, conn, reloads>>
      /\ asked' = [asked EXCEPT ![p] = a]
      /\ unaware' = IF Status \in Terminal THEN unaware ELSE LeftBehind
  BY DEF Cancel
<1>3. /\ s \in Statuses /\ s # Waiting
      /\ Status \in Terminal => s = Status
      /\ keyNeeded' \in BOOLEAN /\ expired' \in BOOLEAN
  BY <1>1, <1>2 DEF Statuses, Terminal, Open, Waiting, JobOK
<1> HIDE DEF s
<1>4. JobOK' /\ Grown
  BY <1>1, <1>2, <1>3, Appending
<1>5. a \in Commands'
  BY <1>4 DEF JobOK, Commands, Numbers
<1>6. Status \in Terminal => ~StillWaits
  BY DEF StillWaits, Terminal, Waiting
<1> HIDE DEF a
<1> QED
  BY <1>2, <1>4, <1>5, <1>6, CommandStep

LEMMA ResumeStep == ASSUME IInv, NEW p \in Pages, Resume(p) PROVE IInv'
<1> DEFINE a == [kind |-> "resume", view |-> 0]
<1>1. JobOK
  BY InvByPage DEF ByPage
<1>2. /\ UNCHANGED <<expired, page, conn, reloads>>
      /\ asked' = [asked EXCEPT ![p] = a]
      /\ Status = Waiting
  BY DEF Resume
<1>3. CASE /\ log' = Append(log, "running")
           /\ keyNeeded' = FALSE
           /\ unaware' = LeftBehind
  <2>1. /\ "running" \in Statuses /\ "running" # Waiting
        /\ Status \notin Terminal
        /\ keyNeeded' \in BOOLEAN /\ expired' \in BOOLEAN
    BY <1>1, <1>2, <1>3 DEF Statuses, Terminal, Open, Waiting, JobOK
  <2>2. JobOK' /\ Grown
    BY <1>1, <1>3, <2>1, Appending
  <2>3. a \in Commands'
    BY <2>2 DEF JobOK, Commands, Numbers
  <2> HIDE DEF a
  <2> QED
    BY <1>2, <1>3, <2>2, <2>3, CommandStep
<1>4. CASE UNCHANGED <<log, keyNeeded, unaware>>
  <2>1. JobOK' /\ Grown /\ (StillWaits => StillWaits')
    BY <1>1, <1>2, <1>4 DEF JobOK, LogInv, Status, Grown, StillWaits
  <2>2. a \in Commands'
    BY <2>1 DEF JobOK, Commands, Numbers
  <2> HIDE DEF a
  <2> QED
    BY <1>2, <1>4, <2>1, <2>2, CommandStep
<1> QED
  BY <1>3, <1>4 DEF Resume

-----------------------------------------------------------------------------
(* The theorems.                                                           *)

LEMMA InitInv == Init => IInv
<1> SUFFICES ASSUME Init PROVE IInv
  OBVIOUS
<1>1. log \in Seq(Statuses) /\ Len(log) = 1 /\ log[1] = "queued"
  BY DEF Init, Statuses, Open
<1>2. JobOK
  <2>1. Status = "queued"
    BY <1>1 DEF Status
  <2>2. \A i \in 1..Len(log) : log[i] \notin Terminal
    BY <1>1 DEF Terminal
  <2>3. keyNeeded \in BOOLEAN /\ expired \in BOOLEAN
    BY DEF Init
  <2> QED
    BY <1>1, <2>1, <2>2, <2>3 DEF JobOK, LogInv, Waiting
<1>3. Tables
  BY ProgressAssumption DEF Init, Tables
<1>4. ASSUME NEW p \in Pages PROVE Of(p)
  <2>1. 0 \in Numbers
    BY <1>1 DEF Numbers
  <2>2. Loaded \in PageStates /\ Loaded.phase = "connect" /\ Loaded.cursor = 0
    BY <2>1 DEF Loaded, PageStates, Phases
  <2>3. PageOK(Loaded, Unconnected, FALSE)
    BY <2>2, <1>2, Fresh
  <2> QED
    BY <2>3, <1>2, NoCommandOK DEF Init, Of
<1> QED
  BY <1>2, <1>3, <1>4, InvByPage DEF ByPage

LEMMA StepInv == IInv /\ [Next]_vars => IInv'
<1> SUFFICES ASSUME IInv, [Next]_vars PROVE IInv'
  OBVIOUS
<1>1. CASE JobMoves
  BY <1>1, JobMovesStep
<1>2. CASE Restart
  BY <1>2, RestartStep
<1>3. CASE Expire
  BY <1>3, ExpireStep
<1>4. ASSUME NEW p \in Pages,
             \/ Pump(p) \/ Cut(p) \/ Connect(p) \/ ConnectFails(p)
             \/ Deliver(p) \/ StreamEnds(p) \/ StreamFails(p)
      PROVE  IInv'
  BY <1>4, PumpStep, CutStep, ConnectStep, ConnectFailsStep, DeliverStep,
     StreamEndsStep, StreamFailsStep
<1>5. ASSUME NEW p \in Pages,
             \/ Poll(p) \/ PollFails(p) \/ PollAnswered(p) \/ Wait(p)
             \/ Cancel(p) \/ Resume(p) \/ Answered(p) \/ AnswerLost(p)
             \/ Reload(p)
      PROVE  IInv'
  BY <1>5, PollStep, PollFailsStep, PollAnsweredStep, WaitStep, CancelStep,
     ResumeStep, AnsweredStep, AnswerLostStep, ReloadStep
<1>6. CASE UNCHANGED vars
  <2>1. UNCHANGED <<log, keyNeeded, expired, page, conn, asked, unaware,
                    reloads>>
    BY <1>6 DEF vars
  <2>2. JobOK /\ Tables /\ \A p \in Pages : Of(p)
    BY InvByPage DEF ByPage
  <2>3. JobOK' /\ Tables'
    BY <2>1, <2>2 DEF JobOK, LogInv, Status, Tables
  <2>4. ASSUME NEW p \in Pages PROVE Of(p)'
    BY <2>1, PageTypes, SameJob
  <2>5. ByPage'
    BY <2>3, <2>4 DEF ByPage
  <2> QED
    BY <2>5, InvByPage, PTL
<1> QED
  BY <1>1, <1>2, <1>3, <1>4, <1>5, <1>6 DEF Next

\* The inductive invariant: the job's events, what is under way on streams and
\* what pages have read agree in every reachable state.
THEOREM InvariantHolds == Spec => []IInv
BY InitInv, StepInv, PTL DEF Spec

\* Every variable always has its type.
THEOREM TypeCorrect == Spec => []TypeOK
<1>1. IInv => TypeOK
  BY DEF IInv
<1> QED
  BY <1>1, InvariantHolds, PTL

\* However often a page reconnects and polls, what its stream carries are the
\* next numbered events, each once (pump and accept).
THEOREM NoEventTwiceOrMissed == Spec => []StreamIsNext
<1>1. IInv => StreamIsNext
  BY DEF IInv
<1> QED
  BY <1>1, InvariantHolds, PTL

\* A page that has stopped shows how the job stands, unless a command moved
\* the job on after the page was told (the end of the effect in
\* job-progress.tsx).
THEOREM StoppedPagesAreRight == Spec => []StoppedIsCurrent
<1>1. IInv => StoppedIsCurrent
  <2> SUFFICES ASSUME IInv, NEW p \in Pages, At(p, "stopped"), ~expired
               PROVE  /\ Shows(p, Resting)
                      /\ Shows(p, Terminal) => Status = log[page[p].shown]
                      /\ (Shows(p, {Waiting}) /\ ~unaware[p]) =>
                           keyNeeded /\ Status \in {Waiting, "queued"}
    BY DEF StoppedIsCurrent
  <2> DEFINE n == page[p].cursor
  <2>1. /\ page[p].phase = "stopped" /\ page[p].shown = n /\ n # 0
        /\ log[n] \in Resting
        /\ ~unaware[p] => Honest(n)
    BY PageTypes DEF At, PageOK
  <2>2. n \in 1..Len(log) /\ Len(log) \in 1..Len(log) /\ n <= Len(log)
    BY <2>1, PageTypes DEF Numbers
  <2>3. \A i, j \in 1..Len(log) : (log[i] \in Terminal /\ i <= j)
                                    => log[j] = log[i]
    BY PageTypes DEF JobOK, LogInv
  <2> HIDE DEF n
  <2>4. Shows(p, Resting)
    BY <2>1 DEF Shows
  <2>5. Shows(p, Terminal) => Status = log[page[p].shown]
    BY <2>1, <2>2, <2>3 DEF Shows, Status
  <2>6. (Shows(p, {Waiting}) /\ ~unaware[p]) =>
          keyNeeded /\ Status \in {Waiting, "queued"}
    BY <2>1 DEF Shows, Honest, StillWaits
  <2> QED
    BY <2>4, <2>5, <2>6
<1> QED
  BY <1>1, InvariantHolds, PTL

\* A page at rest with a finished plan has stored its trip (accept).
THEOREM FinishedPlansAreStored == Spec => []CompletedIsStored
<1>1. IInv => CompletedIsStored
  BY PageTypes DEF CompletedIsStored, At, Shows, PageOK
<1> QED
  BY <1>1, InvariantHolds, PTL

=============================================================================
