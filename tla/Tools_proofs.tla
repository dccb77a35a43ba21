----------------------------- MODULE Tools_proofs -----------------------------
(***************************************************************************)
(* Machine-checked proofs about the tool registry and the pages its search *)
(* tools read: ToolRegistry, for any number of callers, keys, requests and *)
(* any quota, and OfficialPages, for any hosts, lists and pages.  What     *)
(* ties the answers of different callers together is the race of their     *)
(* key, which is settled once, and the execution that one of them started, *)
(* which is recorded once.  The second half is about ResponseStream, for   *)
(* any bodies and any cuts: reading a body piece by piece comes to reading *)
(* it at once, since a text fed in token by token leaves in the buffer     *)
(* nothing that a second pass would change.                                *)
(***************************************************************************)
EXTENDS ToolRegistry, OfficialPages, ResponseStream, FoldFacts,
        FiniteSetTheorems, TLAPS

\* What the theorems assume of the constants: "nothing yet" is no request, no
\* call and no answer.
ToolAssumption ==
    /\ IsFiniteSet(CallKeys)
    /\ DailyQuota \in Nat
    /\ Paid \subseteq Requests
    /\ NoCall \notin Requests \cup Outcomes \cup Asks \cup Answers

-----------------------------------------------------------------------------
(* The quota *)

\* The keys whose execution draws on the quota.
PaidKeys == {k \in CallKeys : executions[k] \in Paid}

\* A new execution under a key is at most one more paid one.
LEMMA OneMorePaid ==
  ASSUME ToolAssumption, ToolTypes, NEW k \in CallKeys, NEW r \in Requests,
         executions[k] = NoCall, executions' = [executions EXCEPT ![k] = r]
  PROVE  /\ Cardinality(PaidKeys) \in Nat /\ Cardinality(PaidKeys') \in Nat
         /\ Cardinality(PaidKeys') <=
              Cardinality(PaidKeys) + (IF r \in Paid THEN 1 ELSE 0)
<1>1. IsFiniteSet(PaidKeys) /\ Cardinality(PaidKeys) \in Nat
  <2>1. PaidKeys \subseteq CallKeys
    BY DEF PaidKeys
  <2> QED
    BY <2>1, FS_Subset, FS_CardinalityType DEF ToolAssumption
<1>2. k \notin PaidKeys
  BY DEF PaidKeys, ToolAssumption
<1>3. PaidKeys' = IF r \in Paid THEN PaidKeys \cup {k} ELSE PaidKeys
  BY <1>2 DEF PaidKeys, ToolTypes
<1>4. Cardinality(PaidKeys \cup {k}) = Cardinality(PaidKeys) + 1
  BY <1>1, <1>2, FS_AddElement
<1> QED
  BY <1>1, <1>3, <1>4

\* The quota is charged for every call that is let through, paid or not.
LEMMA QuotaCharged ==
  ASSUME ToolAssumption, ToolTypes, QuotaCovers, NEW r \in Requests,
         Enabled(r), drawnQuota' = QuotaAfter(r)
  PROVE  /\ drawnQuota' \in Nat /\ drawnQuota' <= DailyQuota
         /\ drawnQuota' = drawnQuota + (IF r \in Paid THEN 1 ELSE 0)
BY DEF ToolAssumption, ToolTypes, QuotaCovers, Enabled, QuotaAfter

LEMMA QuotaStays ==
  ASSUME ToolAssumption, ToolTypes, QuotaCovers, executions' = executions,
         drawnQuota' \in Nat, drawnQuota <= drawnQuota',
         drawnQuota' <= DailyQuota
  PROVE  QuotaCovers'
<1>1. Cardinality(PaidKeys) \in Nat
  <2>1. PaidKeys \subseteq CallKeys
    BY DEF PaidKeys
  <2> QED
    BY <2>1, FS_Subset, FS_CardinalityType DEF ToolAssumption
<1>2. PaidKeys' = PaidKeys
  BY DEF PaidKeys
<1>3. Cardinality(PaidKeys) <= drawnQuota
  BY DEF QuotaCovers, PaidKeys
<1>4. Cardinality(PaidKeys') <= drawnQuota'
  BY <1>1, <1>2, <1>3 DEF ToolTypes
<1> QED
  BY <1>4 DEF QuotaCovers, PaidKeys

-----------------------------------------------------------------------------
(* Steps *)

LEMMA InitOK ==
  ASSUME ToolAssumption, ToolInit
  PROVE  ToolInv
<1>1. ToolTypes
  BY DEF ToolInit, ToolTypes
<1>2. \A c \in Callers : CallerOK(c)
  BY DEF ToolInit, CallerOK
<1>3. OneStarter
  BY DEF ToolInit, OneStarter
<1>4. QuotaCovers
  <2>1. {k \in CallKeys : executions[k] \in Paid} = {}
    BY DEF ToolInit, ToolAssumption
  <2> QED
    BY <2>1, FS_EmptySet DEF ToolInit, QuotaCovers, ToolAssumption
<1> QED
  BY <1>1, <1>2, <1>3, <1>4 DEF ToolInv

\* A refusal that is told at once, whatever of the quota it took.
LEMMA ReplyOK ==
  ASSUME ToolAssumption, ToolInv, NEW c \in Callers, NEW code \in Codes,
         caller[c] = "new", Reply(c, code),
         UNCHANGED <<asks, executions, outcome>>,
         drawnQuota' \in Nat, drawnQuota <= drawnQuota',
         drawnQuota' <= DailyQuota
  PROVE  ToolInv'
<1>1. ToolTypes'
  BY DEF ToolInv, ToolTypes, Reply, Answered, Answers
<1>2. \A d \in Callers : CallerOK(d)'
  <2> SUFFICES ASSUME NEW d \in Callers PROVE CallerOK(d)'
    OBVIOUS
  <2>1. CASE d = c
    <3>1. asks[c] = NoCall
      BY DEF ToolInv, CallerOK
    <3> QED
      BY <2>1, <3>1 DEF ToolInv, ToolTypes, Reply, CallerOK
  <2>2. CASE d # c
    <3>1. caller'[d] = caller[d] /\ answer'[d] = answer[d]
      BY <2>2 DEF ToolInv, ToolTypes, Reply
    <3> QED
      BY <3>1 DEF ToolInv, CallerOK
  <2> QED
    BY <2>1, <2>2
<1>3. OneStarter'
  BY DEF ToolInv, OneStarter
<1>4. QuotaCovers'
  BY QuotaStays DEF ToolInv
<1> QED
  BY <1>1, <1>2, <1>3, <1>4 DEF ToolInv

LEMMA RefuseOK ==
  ASSUME ToolAssumption, ToolInv, NEW c \in Callers, Refuse(c)
  PROVE  ToolInv'
<1>1. PICK code \in Codes : Reply(c, code)
  BY DEF Refuse, Codes
<1> QED
  BY <1>1, ReplyOK DEF Refuse, ToolInv, ToolTypes, QuotaCovers

LEMMA DisabledOK ==
  ASSUME ToolAssumption, ToolInv, NEW c \in Callers, NEW r \in Requests,
         Disabled(c, r)
  PROVE  ToolInv'
BY ReplyOK DEF Disabled, Codes, ToolInv, ToolTypes, QuotaCovers

LEMMA BadArgumentsOK ==
  ASSUME ToolAssumption, ToolInv, NEW c \in Callers, NEW r \in Requests,
         BadArguments(c, r)
  PROVE  ToolInv'
<1>1. /\ drawnQuota' \in Nat /\ drawnQuota' <= DailyQuota
      /\ drawnQuota <= drawnQuota'
  BY QuotaCharged DEF BadArguments, ToolInv, ToolTypes
<1> QED
  BY <1>1, ReplyOK DEF BadArguments, Codes

\* A caller that goes on to wait, for a race of its own or of another's.
LEMMA WaitOK ==
  ASSUME ToolAssumption, ToolInv, NEW c \in Callers, NEW k \in CallKeys,
         NEW r \in Requests, NEW replay \in BOOLEAN, caller[c] = "new",
         caller' = [caller EXCEPT ![c] = "waiting"],
         asks' = [asks EXCEPT ![c] =
                    [key |-> k, request |-> r, replay |-> replay]],
         executions' = [executions EXCEPT ![k] = r],
         executions[k] \in {NoCall, r},
         replay \/ executions[k] = NoCall,
         UNCHANGED <<answer, outcome>>, drawnQuota' \in Nat
  PROVE  /\ ToolTypes'
         /\ \A d \in Callers : CallerOK(d)'
         /\ OneStarter'
<1> DEFINE ask == [key |-> k, request |-> r, replay |-> replay]
<1>1. ask \in Asks /\ ask # NoCall
  BY DEF Asks, ToolAssumption
<1>2. /\ ask.key = k /\ ask.request = r /\ ask.replay = replay
      /\ asks'[c] = ask /\ asks[c] = NoCall /\ answer[c] = NoCall
      /\ executions'[k] = r
      /\ \A d \in Callers \ {c} : asks'[d] = asks[d] /\ caller'[d] = caller[d]
  BY DEF ToolInv, ToolTypes, CallerOK
<1>3. r # NoCall
  BY DEF ToolAssumption
<1> HIDE DEF ask
<1>4. ToolTypes'
  <2>1. asks' \in [Callers -> Asks \cup {NoCall}]
    BY <1>1 DEF ToolInv, ToolTypes, ask
  <2> QED
    BY <2>1 DEF ToolInv, ToolTypes
\* Whoever asks under this key has asked the same.
<1>5. \A d \in Callers : asks[d] # NoCall =>
        /\ executions'[asks[d].key] = executions[asks[d].key]
        /\ asks[d].key = k => executions[k] # NoCall
  <2> SUFFICES ASSUME NEW d \in Callers, asks[d] # NoCall
               PROVE  /\ executions'[asks[d].key] = executions[asks[d].key]
                      /\ asks[d].key = k => executions[k] # NoCall
    OBVIOUS
  <2>1. /\ asks[d] \in Asks /\ executions[asks[d].key] = asks[d].request
    BY DEF ToolInv, ToolTypes, CallerOK
  <2>2. asks[d].key \in CallKeys /\ asks[d].request # NoCall
    BY <2>1 DEF Asks, ToolAssumption
  <2>3. CASE asks[d].key = k
    BY <1>2, <2>1, <2>2, <2>3
  <2>4. CASE asks[d].key # k
    BY <2>2, <2>4 DEF ToolInv, ToolTypes
  <2> QED
    BY <2>3, <2>4
<1>6. \A d \in Callers : CallerOK(d)'
  <2> SUFFICES ASSUME NEW d \in Callers PROVE CallerOK(d)'
    OBVIOUS
  <2>1. CASE d = c
    <3>1. caller'[c] = "waiting" /\ answer'[c] = NoCall
      BY <1>2 DEF ToolInv, ToolTypes
    <3> QED
      BY <1>1, <1>2, <2>1, <3>1 DEF CallerOK
  <2>2. CASE d # c
    BY <1>2, <1>5, <2>2 DEF ToolInv, CallerOK
  <2> QED
    BY <2>1, <2>2
<1>7. OneStarter'
  <2> SUFFICES ASSUME NEW d \in Callers, NEW e \in Callers,
                      asks'[d] # NoCall, asks'[e] # NoCall,
                      asks'[d].key = asks'[e].key,
                      ~asks'[d].replay, ~asks'[e].replay
               PROVE  d = e
    BY DEF OneStarter
  <2>1. CASE d # c /\ e # c
    BY <1>2, <2>1 DEF ToolInv, OneStarter
  <2>2. CASE d = c /\ e # c
    BY <1>2, <1>5, <2>2
  <2>3. CASE e = c /\ d # c
    BY <1>2, <1>5, <2>3
  <2> QED
    BY <2>1, <2>2, <2>3
<1> QED
  BY <1>4, <1>6, <1>7

LEMMA RepeatOK ==
  ASSUME ToolAssumption, ToolInv, NEW c \in Callers, NEW k \in CallKeys,
         NEW r \in Requests, Repeat(c, k, r)
  PROVE  ToolInv'
<1>1. /\ drawnQuota' \in Nat /\ drawnQuota' <= DailyQuota
      /\ drawnQuota <= drawnQuota'
  BY QuotaCharged DEF Repeat, ToolInv, ToolTypes
<1>2. CASE Known(k, r)
  <2>1. executions' = [executions EXCEPT ![k] = r] /\ executions[k] = r
    BY <1>2 DEF Repeat, Known, ToolInv, ToolTypes
  <2>2. /\ caller[c] = "new"
        /\ caller' = [caller EXCEPT ![c] = "waiting"]
        /\ asks' = [asks EXCEPT ![c] =
                        [key |-> k, request |-> r, replay |-> TRUE]]
        /\ UNCHANGED <<answer, outcome>>
    BY <1>2 DEF Repeat
  <2>3. /\ ToolTypes'
        /\ \A d \in Callers : CallerOK(d)'
        /\ OneStarter'
    BY <1>1, <2>1, <2>2, WaitOK
  <2>4. QuotaCovers'
    BY <1>1, QuotaStays DEF ToolInv, Repeat
  <2> QED
    BY <2>3, <2>4 DEF ToolInv
<1>3. CASE ~Known(k, r)
  <2>1. Reply(c, "IDEMPOTENCY_CONFLICT") /\ UNCHANGED asks
    BY <1>3 DEF Repeat
  <2> QED
    BY <1>1, <2>1, ReplyOK DEF Repeat, Codes
<1> QED
  BY <1>2, <1>3

LEMMA ExecuteOK ==
  ASSUME ToolAssumption, ToolInv, NEW c \in Callers, NEW k \in CallKeys,
         NEW r \in Requests, Execute(c, k, r)
  PROVE  ToolInv'
<1>1. /\ drawnQuota' \in Nat /\ drawnQuota' <= DailyQuota
      /\ drawnQuota' = drawnQuota + (IF r \in Paid THEN 1 ELSE 0)
  BY QuotaCharged DEF Execute, ToolInv
<1>2. /\ executions[k] = NoCall
      /\ executions' = [executions EXCEPT ![k] = r]
  BY DEF Execute
<1>3. /\ ToolTypes'
      /\ \A d \in Callers : CallerOK(d)'
      /\ OneStarter'
  BY <1>1, <1>2, WaitOK DEF Execute
<1>4. QuotaCovers'
  <2>1. /\ Cardinality(PaidKeys) \in Nat /\ Cardinality(PaidKeys') \in Nat
        /\ Cardinality(PaidKeys') <=
             Cardinality(PaidKeys) + (IF r \in Paid THEN 1 ELSE 0)
    BY <1>2, OneMorePaid DEF ToolInv
  <2>2. Cardinality(PaidKeys) <= drawnQuota /\ drawnQuota \in Nat
    BY DEF ToolInv, ToolTypes, QuotaCovers, PaidKeys
  <2>3. Cardinality(PaidKeys') <= drawnQuota'
    BY <1>1, <2>1, <2>2
  <2> QED
    BY <1>1, <2>3 DEF QuotaCovers, PaidKeys
<1> QED
  BY <1>3, <1>4 DEF ToolInv

\* The race of keys may be settled; one that was settled stays as it was.
LEMMA SettleOK ==
  ASSUME ToolAssumption, ToolInv,
         outcome' \in [CallKeys -> Outcomes \cup {NoCall}],
         \A k \in CallKeys : outcome[k] # NoCall => outcome'[k] = outcome[k],
         UNCHANGED <<caller, asks, answer, executions, drawnQuota>>
  PROVE  ToolInv'
<1>1. ToolTypes'
  BY DEF ToolInv, ToolTypes
<1>2. \A c \in Callers : CallerOK(c)'
  <2> SUFFICES ASSUME NEW c \in Callers PROVE CallerOK(c)'
    OBVIOUS
  <2>1. asks[c] # NoCall => asks[c].key \in CallKeys
    BY DEF ToolInv, ToolTypes, Asks
  <2> QED
    BY <2>1 DEF ToolInv, CallerOK
<1>3. OneStarter' /\ QuotaCovers'
  BY DEF ToolInv, OneStarter, QuotaCovers
<1> QED
  BY <1>1, <1>2, <1>3 DEF ToolInv

LEMMA SettledKeeps ==
  ASSUME ToolTypes, NEW k \in CallKeys, NEW what \in Outcomes, Settled(k, what)
  PROVE  /\ outcome' \in [CallKeys -> Outcomes \cup {NoCall}]
         /\ \A q \in CallKeys : outcome[q] # NoCall => outcome'[q] = outcome[q]
BY DEF ToolTypes, Settled

LEMMA HandlerEndsOK ==
  ASSUME ToolAssumption, ToolInv, NEW k \in CallKeys, HandlerEnds(k)
  PROVE  ToolInv'
<1>1. PICK h \in Handled : Settled(k, Told(h))
  BY DEF HandlerEnds
<1>2. Told(h) \in Outcomes
  BY DEF Outcomes
<1>3. /\ outcome' \in [CallKeys -> Outcomes \cup {NoCall}]
      /\ \A q \in CallKeys : outcome[q] # NoCall => outcome'[q] = outcome[q]
  BY <1>1, <1>2, SettledKeeps DEF ToolInv
<1> QED
  BY <1>3, SettleOK DEF HandlerEnds

LEMMA DeadlineOK ==
  ASSUME ToolAssumption, ToolInv, NEW k \in CallKeys, Deadline(k)
  PROVE  ToolInv'
<1>1. /\ outcome' \in [CallKeys -> Outcomes \cup {NoCall}]
      /\ \A q \in CallKeys : outcome[q] # NoCall => outcome'[q] = outcome[q]
  BY SettledKeeps DEF Deadline, Outcomes, ToolInv
<1> QED
  BY <1>1, SettleOK DEF Deadline

LEMMA AbortOK ==
  ASSUME ToolAssumption, ToolInv, NEW c \in Callers, Abort(c)
  PROVE  ToolInv'
<1>1. /\ outcome' \in [CallKeys -> Outcomes \cup {NoCall}]
      /\ \A k \in CallKeys : outcome[k] # NoCall => outcome'[k] = outcome[k]
  BY DEF Abort, Outcomes, ToolInv, ToolTypes
<1> QED
  BY <1>1, SettleOK DEF Abort

LEMMA DeliverOK ==
  ASSUME ToolAssumption, ToolInv, NEW c \in Callers, Deliver(c)
  PROVE  ToolInv'
<1> DEFINE k == asks[c].key
           told == Answered(outcome[k], Bills(c, k))
<1>1. /\ caller[c] = "waiting" /\ asks[c] # NoCall /\ answer[c] = NoCall
      /\ asks[c] \in Asks
  BY DEF Deliver, ToolInv, ToolTypes, CallerOK
<1>2. k \in CallKeys /\ outcome[k] # NoCall /\ outcome[k] \in Outcomes
  BY <1>1 DEF Deliver, Asks, ToolInv, ToolTypes
<1>3. /\ told.what = outcome[k]
      /\ told.billed => outcome[k] = "success" /\ ~asks[c].replay
      /\ told \in Answers
  BY <1>2 DEF Answered, Answers, Bills, Codes
<1>4. /\ caller' = [caller EXCEPT ![c] = "answered"]
      /\ answer' = [answer EXCEPT ![c] = told]
      /\ UNCHANGED <<asks, executions, outcome, drawnQuota>>
  BY DEF Deliver
<1> HIDE DEF told
<1>5. ToolTypes'
  BY <1>3, <1>4 DEF ToolInv, ToolTypes
<1>6. \A d \in Callers : CallerOK(d)'
  <2> SUFFICES ASSUME NEW d \in Callers PROVE CallerOK(d)'
    OBVIOUS
  <2>1. CASE d = c
    <3>1. caller'[c] = "answered" /\ answer'[c] = told
      BY <1>4 DEF ToolInv, ToolTypes
    <3> QED
      BY <1>1, <1>2, <1>3, <1>4, <2>1, <3>1 DEF ToolInv, CallerOK
  <2>2. CASE d # c
    <3>1. caller'[d] = caller[d] /\ answer'[d] = answer[d]
      BY <1>4, <2>2 DEF ToolInv, ToolTypes
    <3> QED
      BY <1>4, <3>1 DEF ToolInv, CallerOK
  <2> QED
    BY <2>1, <2>2
<1>7. OneStarter' /\ QuotaCovers'
  BY <1>4 DEF ToolInv, OneStarter, QuotaCovers
<1> QED
  BY <1>5, <1>6, <1>7 DEF ToolInv

-----------------------------------------------------------------------------
LEMMA StepOK ==
  ASSUME ToolAssumption, ToolInv, [ToolNext]_toolVars
  PROVE  ToolInv'
<1>1. CASE \E c \in Callers : Refuse(c) \/ Abort(c) \/ Deliver(c)
  BY <1>1, RefuseOK, AbortOK, DeliverOK
<1>2. CASE \E c \in Callers, r \in Requests :
                Disabled(c, r) \/ BadArguments(c, r)
  BY <1>2, DisabledOK, BadArgumentsOK
<1>3. CASE \E c \in Callers, k \in CallKeys, r \in Requests :
                Repeat(c, k, r) \/ Execute(c, k, r)
  BY <1>3, RepeatOK, ExecuteOK
<1>4. CASE \E k \in CallKeys : HandlerEnds(k) \/ Deadline(k)
  BY <1>4, HandlerEndsOK, DeadlineOK
<1>5. CASE UNCHANGED toolVars
  BY <1>5, SettleOK DEF toolVars, ToolInv, ToolTypes
<1> QED
  BY <1>1, <1>2, <1>3, <1>4, <1>5 DEF ToolNext, Step

\* The inductive invariant of the registry, with any handlers, deadlines and
\* aborts in any order.
THEOREM RegistryInvariant ==
  ASSUME ToolAssumption
  PROVE  ToolSpec => []ToolInv
<1>1. ToolInit => ToolInv
  BY InitOK
<1>2. ToolInv /\ [ToolNext]_toolVars => ToolInv'
  BY StepOK
<1> QED
  BY <1>1, <1>2, PTL DEF ToolSpec

\* Whoever asks under one key is told one answer, about the request it made
\* (invoke).
THEOREM KeysNameAnswers ==
  ASSUME ToolAssumption
  PROVE  ToolSpec => []KeyNamesOneAnswer
<1>1. ToolInv => KeyNamesOneAnswer
  BY DEF ToolInv, CallerOK, KeyNamesOneAnswer, Replied
<1>2. ToolSpec => []ToolInv
  BY RegistryInvariant
<1> QED
  BY <1>1, <1>2, PTL

\* No two callers are billed for one key, and none for a late answer (result).
THEOREM KeysAreBilledOnce ==
  ASSUME ToolAssumption
  PROVE  ToolSpec => []BilledOnce
<1>1. ToolInv => BilledOnce
  BY DEF ToolInv, CallerOK, OneStarter, BilledOnce, Replied
<1>2. ToolSpec => []ToolInv
  BY RegistryInvariant
<1> QED
  BY <1>1, <1>2, PTL

\* Every paid handler runs on a unit of the quota of its own (isEnabled).
THEOREM QuotaIsEnough ==
  ASSUME ToolAssumption
  PROVE  ToolSpec => []QuotaCovers
<1>1. ToolInv => QuotaCovers
  BY DEF ToolInv
<1>2. ToolSpec => []ToolInv
  BY RegistryInvariant
<1> QED
  BY <1>1, <1>2, PTL

-----------------------------------------------------------------------------
(* The pages behind the facts *)

\* What the theorem assumes of the constants.
PagesAssumption == MaxRedirects \in Nat /\ MaxSize \in Nat

LEMMA PagesInitOK ==
  ASSUME PagesAssumption, PagesInit
  PROVE  PagesInv
BY DEF PagesAssumption, PagesInit, PagesInv, PagesTypeOK, NoResponse,
       VerifiedIsOfficial, ToSet

\* The rank of a candidate speaks for its own host.
LEMMA OfficialHost ==
  ASSUME NEW c, Ranked(c), c.source = "official"
  PROVE  \E h \in Expected \cup Carriers : IsPrefix(Bare(h), Bare(c.host))
<1>1. Among(c.host, Expected) \/ Among(c.host, Carriers)
  BY DEF Ranked, classifySearchResult
<1> QED
  BY <1>1 DEF Among, hostMatches

LEMMA OnePiece ==
  ASSUME NEW e
  PROVE  ToSet(<<e>>) = {e} /\ <<e>> # <<>>
<1>1. DOMAIN <<e>> = {1} /\ <<e>>[1] = e /\ Len(<<e>>) = 1
  OBVIOUS
<1> QED
  BY <1>1 DEF ToSet

\* Evidence of a page that failed asserts nothing.
LEMMA FailedOK ==
  ASSUME PagesInv, phase \in {"resolving", "requesting", "reading"},
         NEW code, code # "none", Failed(code),
         UNCHANGED <<candidates, candidate, current, redirects, response, late>>
  PROVE  PagesInv'
<1>1. PICK e : /\ evidence' = <<e>> /\ phase' = "done"
               /\ e = [source |-> candidate[1].source,
                       host |-> candidate[1].host,
                       status |-> IF code = "fact_not_found"
                                  THEN "recheck_required" ELSE "failed",
                       asserted |-> FALSE, failure |-> code]
  BY DEF Failed, Evidence
<1>2. FactIsOfficial(e)'
  <2>1. e.status # "verified" /\ e.asserted = FALSE /\ e.failure # "none"
    BY <1>1
  <2> QED
    BY <2>1 DEF FactIsOfficial
<1>3. VerifiedIsOfficial' /\ evidence' # <<>>
  <2>1. ToSet(evidence') = {e} /\ evidence' # <<>>
    BY <1>1, OnePiece
  <2> QED
    BY <1>2, <2>1 DEF VerifiedIsOfficial, FactIsOfficial
<1> QED
  BY <1>1, <1>3 DEF PagesInv, PagesTypeOK

\* A page read to its end.
LEMMA JudgeOK ==
  ASSUME PagesInv, End
  PROVE  PagesInv'
<1>1. CASE \/ response.status \notin 200 .. 299
           \/ "captcha" \in response.words
           \/ "login" \in response.words
           \/ "fact" \notin response.words
  <2>1. \E code \in {"unavailable", "captcha", "login_required",
                    "fact_not_found"} : Failed(code)
    BY <1>1 DEF End, Judge
  <2> QED
    BY <2>1, FailedOK DEF End
<1>2. CASE /\ response.status \in 200 .. 299
           /\ "captcha" \notin response.words
           /\ "login" \notin response.words
           /\ "fact" \in response.words
  <2>1. PICK e : /\ evidence' = <<e>> /\ phase' = "done"
                 /\ e = [source |-> SourceOfPage, host |-> current,
                         status |-> IF SourceOfPage = "official"
                                    THEN "verified" ELSE "recheck_required",
                         asserted |-> TRUE, failure |-> "none"]
    BY <1>2 DEF End, Judge, Evidence
  <2>2. PICK c \in candidates : candidate = <<c>> /\ Ranked(c)
    BY DEF PagesInv, End
  <2>3. response.words = {"fact"} /\ ~late
    BY <1>2 DEF PagesInv, Words, End
  <2>4. SourceOfPage = "official" =>
          \E h \in Expected \cup Carriers :
             /\ IsPrefix(Bare(h), Bare(c.host))
             /\ \/ IsPrefix(Bare(c.host), Bare(current))
                \/ IsPrefix(Bare(current), Bare(c.host))
    <3>1. SUFFICES ASSUME SourceOfPage = "official"
                   PROVE  \E h \in Expected \cup Carriers :
                            /\ IsPrefix(Bare(h), Bare(c.host))
                            /\ \/ IsPrefix(Bare(c.host), Bare(current))
                               \/ IsPrefix(Bare(current), Bare(c.host))
      OBVIOUS
    <3>2. /\ hostMatches(current, c.host) \/ hostMatches(c.host, current)
          /\ c.source = "official"
      BY <2>2, <3>1 DEF SourceOfPage
    <3> QED
      BY <2>2, <3>2, OfficialHost DEF hostMatches
  <2>5. UNCHANGED <<candidates, candidate, current, redirects, response, late>>
    BY DEF End
  <2>6. FactIsOfficial(e)'
    <3>1. /\ candidate'[1] = c /\ current' = current
          /\ response' = response /\ late' = late
      BY <2>2, <2>5
    <3>2. /\ e.host = current /\ e.asserted = TRUE /\ e.failure = "none"
          /\ e.status = "verified" => SourceOfPage = "official"
      BY <2>1
    <3> QED
      BY <1>2, <2>3, <2>4, <3>1, <3>2 DEF FactIsOfficial
  <2>7. VerifiedIsOfficial' /\ evidence' # <<>>
    <3>1. ToSet(evidence') = {e} /\ evidence' # <<>>
      BY <2>1, OnePiece
    <3> QED
      BY <2>6, <3>1 DEF VerifiedIsOfficial, FactIsOfficial
  <2> QED
    BY <2>1, <2>5, <2>7 DEF PagesInv, PagesTypeOK, End
<1> QED
  BY <1>1, <1>2

LEMMA PagesStepOK ==
  ASSUME PagesAssumption, PagesInv, [PagesNext]_pageVars
  PROVE  PagesInv'
<1>0. phase # "done" => evidence = <<>>
  BY DEF PagesInv, PagesTypeOK
<1>1. CASE Search
  <2>1. PICK citations \in Citations :
          candidates' = candidatesFromDeepSeek(citations)
    BY <1>1 DEF Search
  <2>2. \A c \in candidates' : Ranked(c)
    BY <2>1 DEF candidatesFromDeepSeek, Ranked, classifySearchResult
  <2>3. evidence' = <<>> /\ VerifiedIsOfficial'
    BY <1>0, <1>1 DEF Search, VerifiedIsOfficial, ToSet
  <2>4. (\A c \in candidates : Ranked(c))'
    BY <2>2 DEF Ranked
  <2> QED
    BY <1>1, <2>4, <2>3 DEF Search, PagesInv, PagesTypeOK
<1>2. CASE Open
  <2>1. evidence' = <<>> /\ VerifiedIsOfficial'
    BY <1>0, <1>2 DEF Open, VerifiedIsOfficial, ToSet
  <2> QED
    BY <1>2, <2>1 DEF Open, PagesInv, PagesTypeOK
<1>3. CASE ResolveHost
  <2>1. CASE \E code \in {"unavailable", "unsafe_url"} : Failed(code)
    BY <1>3, <2>1, FailedOK DEF ResolveHost
  <2>2. CASE phase' = "requesting" /\ UNCHANGED evidence
    <3>1. evidence' = <<>> /\ VerifiedIsOfficial'
      BY <1>0, <1>3, <2>2 DEF ResolveHost, VerifiedIsOfficial, ToSet
    <3> QED
      BY <1>3, <2>2, <3>1 DEF ResolveHost, PagesInv, PagesTypeOK
  <2> QED
    BY <1>3, <2>1, <2>2 DEF ResolveHost
<1>4. CASE Answer
  <2>1. evidence' = <<>> /\ VerifiedIsOfficial'
    BY <1>0, <1>4 DEF Answer, VerifiedIsOfficial, ToSet
  <2>2. response' \in [status : Int, words : SUBSET Words, size : Int]
        /\ response'.size \in 0 .. MaxSize
    BY <1>4 DEF Answer, PagesInv, PagesTypeOK, NoResponse, PagesAssumption
  <2>3. redirects' \in 0 .. MaxRedirects
    BY <1>4 DEF Answer, PagesInv, PagesTypeOK, PagesAssumption
  <2> QED
    BY <1>4, <2>1, <2>2, <2>3 DEF Answer, PagesInv, PagesTypeOK
<1>5. CASE Break
  BY <1>5, FailedOK DEF Break
<1>6. CASE Piece
  <2>1. CASE response.size = MaxSize
    BY <1>6, <2>1, FailedOK DEF Piece
  <2>2. CASE response.size # MaxSize
    <3>1. PICK words \in SUBSET Words :
            response' = [response EXCEPT !.words = response.words \cup words,
                                         !.size = response.size + 1]
      BY <1>6, <2>2 DEF Piece
    <3>2. response' \in [status : Int, words : SUBSET Words, size : Int]
          /\ response'.size \in 0 .. MaxSize
      <4>1. /\ response \in [status : Int, words : SUBSET Words, size : Int]
            /\ response.size \in 0 .. MaxSize
        BY DEF PagesInv, PagesTypeOK
      <4>2. response'.size = response.size + 1
        BY <3>1, <4>1
      <4>3. response' \in [status : Int, words : SUBSET Words, size : Int]
        <5>1. response.words \cup words \in SUBSET Words
          BY <4>1
        <5>2. response' = [status |-> response.status,
                           words |-> response.words \cup words,
                           size |-> response.size + 1]
          BY <3>1, <4>1
        <5> QED
          BY <4>1, <5>1, <5>2
      <4> QED
        BY <2>2, <4>1, <4>2, <4>3 DEF PagesAssumption
    <3>3. evidence' = <<>> /\ VerifiedIsOfficial'
      <4>1. evidence' = evidence /\ phase = "reading"
        BY <1>6, <2>2 DEF Piece
      <4> QED
        BY <1>0, <4>1 DEF VerifiedIsOfficial, ToSet
    <3> QED
      BY <1>6, <2>2, <3>2, <3>3 DEF Piece, PagesInv, PagesTypeOK
  <2> QED
    BY <2>1, <2>2
<1>7. CASE End
  BY <1>7, JudgeOK
<1>8. CASE TimeIsUp
  <2>1. evidence' = <<>> /\ VerifiedIsOfficial'
    BY <1>0, <1>8 DEF TimeIsUp, VerifiedIsOfficial, ToSet
  <2> QED
    BY <1>8, <2>1 DEF TimeIsUp, PagesInv, PagesTypeOK
<1>9. CASE UNCHANGED pageVars
  BY <1>9 DEF pageVars, PagesInv, PagesTypeOK, VerifiedIsOfficial,
              FactIsOfficial
<1> QED
  BY <1>1, <1>2, <1>3, <1>4, <1>5, <1>6, <1>7, <1>8, <1>9 DEF PagesNext

\* A verified fact stands on a page of an official host, read whole and in
\* time, whatever was searched and wherever the redirects led
\* (OfficialPageEvidenceReader.read, safeFetchText).
THEOREM VerifiedFactsAreOfficial ==
  ASSUME PagesAssumption
  PROVE  PagesSpec => []VerifiedIsOfficial
<1>1. PagesInit => PagesInv
  BY PagesInitOK
<1>2. PagesInv /\ [PagesNext]_pageVars => PagesInv'
  BY PagesStepOK
<1>3. PagesInv => VerifiedIsOfficial
  BY DEF PagesInv
<1> QED
  BY <1>1, <1>2, <1>3, PTL DEF PagesSpec

-----------------------------------------------------------------------------
(* Line ends: Unix, token by token *)

\* What a body is made of, and what it can say.
Tokens == {CR, LF, "nothing", "malformed"} \cup UNION {ToSet(b) : b \in Bodies}
Texts == Seq(Tokens)
UnixStep == [x \in Texts \X Tokens |-> UnixOne(x[1], x[2])]

\* The two ends of a line are two tokens.
LEMMA Newlines == CR \in Tokens /\ LF \in Tokens /\ CR # LF
  BY DEF CR, LF, Tokens

\* A step of Unix adds at most one token.
LEMMA UnixOneIn ==
  ASSUME NEW r \in Texts, NEW c \in Tokens
  PROVE  UnixOne(r, c) \in Texts /\ Len(UnixOne(r, c)) <= Len(r) + 1
<1>0. r \in Seq(Tokens) /\ Len(r) \in Nat
  BY LenProperties DEF Texts
<1>1. Append(r, c) \in Seq(Tokens) /\ Len(Append(r, c)) = Len(r) + 1
  BY <1>0, AppendProperties
<1>2. ASSUME r # <<>>
      PROVE  /\ Append(Front(r), LF) \in Seq(Tokens)
             /\ Len(Append(Front(r), LF)) = Len(r)
  <2>1. PICK f : f = Front(r) /\ f \in Seq(Tokens) /\ Len(r) = Len(f) + 1
    BY <1>0, <1>2, LastOff
  <2>2. Append(f, LF) \in Seq(Tokens) /\ Len(Append(f, LF)) = Len(f) + 1
    BY <2>1, Newlines, AppendProperties
  <2> QED
    BY <2>1, <2>2
<1>3. CASE c = LF /\ r # <<>> /\ Last(r) = CR
  <2>1. UnixOne(r, c) = Append(Front(r), LF)
    BY <1>3 DEF UnixOne
  <2> QED
    BY <1>0, <1>2, <1>3, <2>1 DEF Texts
<1>4. CASE ~(c = LF /\ r # <<>> /\ Last(r) = CR)
  <2>1. UnixOne(r, c) = Append(r, c)
    BY <1>4 DEF UnixOne
  <2> QED
    BY <1>0, <1>1, <2>1 DEF Texts
<1> QED
  BY <1>3, <1>4

IsUnix(g, s) ==
  g = [t \in SUBSET (DOMAIN s) |->
         IF t = {} THEN <<>> ELSE UnixOne(g[t \ {Max(t)}], s[Max(t)])]

\* Unix as a fold, its steps, and what one more token does.
LEMMA UnixIsChosen ==
  ASSUME NEW s
  PROVE  Unix(s) = (CHOOSE g : IsUnix(g, s))[DOMAIN s]
  BY SMT DEF Unix, FoldLeft, MapThenFoldSet, IsUnix

LEMMA UnixSteps ==
  ASSUME NEW s \in Texts
  PROVE  \E p : /\ p[0] = <<>>
                /\ \A k \in 1 .. Len(s) : p[k] = UnixStep[<<p[k - 1], s[k]>>]
                /\ \A k \in 0 .. Len(s) : p[k] \in Texts
                /\ Unix(s) = p[Len(s)]
<1>0. <<>> \in Texts /\ s \in Seq(Tokens)
  BY EmptySeq DEF Texts
<1>3. /\ Keeps(UnixStep, Tokens, Texts)
      /\ \A r \in Texts, e \in Tokens : UnixStep[<<r, e>>] = UnixOne(r, e)
  BY UnixOneIn DEF Keeps, UnixStep
<1>4. PICK b : b = <<>> /\ b \in Texts
  BY <1>0
<1>5. PICK g : /\ IsSeqFold(g, UnixStep, b, s)
               /\ \A t \in SUBSET (DOMAIN s) :
                    /\ g[t] \in Texts
                    /\ t # {} => g[t \ {Max(t)}] \in Texts /\ s[Max(t)] \in Tokens
  <2>1. \E g : FoldRuns(g, UnixStep, b, s, Tokens, Texts)
    BY <1>0, <1>3, <1>4, FoldRunsExist
  <2> QED
    BY <2>1 DEF FoldRuns
<1>6. IsUnix(g, s)
  BY <1>3, <1>4, <1>5 DEF IsSeqFold, IsUnix
<1>7. PICK f : f = CHOOSE i : IsUnix(i, s)
  OBVIOUS
<1>8. IsUnix(f, s)
  BY <1>6, <1>7
<1>9. PICK n \in Nat : n = Len(s) /\ DOMAIN s = 1 .. n
  BY <1>0, LenProperties
<1> DEFINE p == [k \in 0 .. n |-> f[1 .. k]]
<1>10. p[0] = <<>>
  <2>1. 1 .. 0 = {} /\ {} \in SUBSET (DOMAIN s) /\ 0 \in 0 .. n
    OBVIOUS
  <2> QED
    BY <1>8, <2>1 DEF IsUnix
<1>11. \A k \in 1 .. n : p[k] = UnixOne(p[k - 1], s[k])
  <2> TAKE k \in 1 .. n
  <2>1. f[1 .. k] = UnixOne(f[1 .. (k - 1)], s[k])
    BY <1>8, <1>9, FirstIndices, ZenonT(30) DEF IsUnix
  <2>2. k \in 0 .. n /\ k - 1 \in 0 .. n
    OBVIOUS
  <2> QED
    BY <2>1, <2>2
<1>12. Unix(s) = p[n]
  BY <1>7, <1>9, UnixIsChosen
<1> HIDE DEF p
<1>13. \A k \in 1 .. n : s[k] \in Tokens
  BY <1>0, <1>9, ElementOfSeq
<1>14. \A k \in 0 .. n : p[k] \in Texts
  <2>2. \A k \in 1 .. n : p[k - 1] \in Texts => p[k] \in Texts
    BY <1>11, <1>13, UnixOneIn
  <2>3. p[0] \in Texts
    BY <1>4, <1>10
  <2> QED
    BY <2>2, <2>3, StepsStay
<1>15. \A k \in 1 .. n : p[k] = UnixStep[<<p[k - 1], s[k]>>]
  <2> TAKE k \in 1 .. n
  <2>1. k - 1 \in 0 .. n
    OBVIOUS
  <2>2. p[k - 1] \in Texts /\ s[k] \in Tokens
    BY <1>13, <1>14, <2>1
  <2> QED
    BY <1>3, <1>11, <2>2
<1> QED
  BY <1>9, <1>10, <1>12, <1>14, <1>15

LEMMA UnixIn ==
  ASSUME NEW s \in Texts
  PROVE  Unix(s) \in Texts
<1>1. PICK p : /\ \A k \in 0 .. Len(s) : p[k] \in Texts
               /\ Unix(s) = p[Len(s)]
  BY UnixSteps
<1>2. Len(s) \in 0 .. Len(s)
  BY LenProperties DEF Texts
<1> QED
  BY <1>1, <1>2

LEMMA UnixOfNothing == Unix(<<>>) = <<>>
<1>1. <<>> \in Texts /\ Len(<<>>) = 0
  BY EmptySeq DEF Texts
<1>2. PICK p : p[0] = <<>> /\ Unix(<<>>) = p[Len(<<>>)]
  BY <1>1, UnixSteps
<1> QED
  BY <1>1, <1>2

LEMMA UnixAppends ==
  ASSUME NEW s \in Texts, NEW c \in Tokens
  PROVE  Unix(Append(s, c)) = UnixOne(Unix(s), c)
<1>1. PICK n \in Nat : n = Len(s)
  BY LenProperties DEF Texts
<1>2. PICK u : u = Append(s, c)
  OBVIOUS
<1>3. /\ u \in Texts /\ Len(u) = n + 1 /\ u[n + 1] = c
      /\ \A i \in 1 .. n : u[i] = s[i]
  BY <1>1, <1>2, AppendProperties DEF Texts
<1>4. PICK p : /\ p[0] = <<>>
               /\ \A k \in 1 .. n : p[k] = UnixStep[<<p[k - 1], s[k]>>]
               /\ Unix(s) = p[n]
  BY <1>1, UnixSteps
<1>5. PICK q : /\ q[0] = <<>>
               /\ \A k \in 1 .. Len(u) : q[k] = UnixStep[<<q[k - 1], u[k]>>]
               /\ Unix(u) = q[Len(u)]
  BY <1>3, UnixSteps
<1>6. \A k \in 1 .. n : k \in 1 .. Len(u)
  BY <1>3
<1>7. p[n] = q[n]
  <2>1. RunsOver(p, UnixStep, <<>>, s, n)
    BY <1>4 DEF RunsOver
  <2>2. RunsOver(q, UnixStep, <<>>, u, n)
    BY <1>5, <1>6 DEF RunsOver
  <2>3. \A k \in 1 .. n : u[k] = s[k]
    BY <1>3
  <2> QED
    BY <2>1, <2>2, <2>3, SameRuns
<1>8. n + 1 \in 1 .. Len(u) /\ (n + 1) - 1 = n
  BY <1>3
<1>9. Unix(u) = UnixStep[<<q[n], c>>]
  BY <1>3, <1>5, <1>8
<1> QED
  BY <1>2, <1>4, <1>7, <1>9, UnixIn DEF UnixStep

-----------------------------------------------------------------------------
(* Blocks: Split, token by token *)

Splits == [whole : Seq(Texts), open : Texts]
NoSplit == [whole |-> <<>>, open |-> <<>>]
SplitStep == [x \in Splits \X Tokens |-> SplitOne(x[1], x[2])]

LEMMA NoSplitIn == NoSplit \in Splits /\ <<>> \in Texts
  BY EmptySeq DEF NoSplit, Splits, Texts

\* The last element of an open text, and the text without it.
LEMMA LastOpen ==
  ASSUME NEW r \in Texts
  PROVE  /\ Len(r) \in Nat
         /\ \A c \in Tokens :
              /\ Append(r, c) \in Texts /\ Append(r, c) # <<>>
              /\ Last(Append(r, c)) = c /\ Front(Append(r, c)) = r
              /\ Len(Append(r, c)) = Len(r) + 1
         /\ r # <<>> => /\ Front(r) \in Texts /\ Last(r) \in Tokens
                        /\ r = Append(Front(r), Last(r))
                        /\ Len(r) = Len(Front(r)) + 1
<1>1. r \in Seq(Tokens)
  BY DEF Texts
<1>2. ASSUME NEW c \in Tokens
      PROVE  /\ Append(r, c) \in Texts /\ Append(r, c) # <<>>
             /\ Last(Append(r, c)) = c /\ Front(Append(r, c)) = r
             /\ Len(Append(r, c)) = Len(r) + 1
  BY <1>1, LastAppended, AppendProperties DEF Texts
<1>3. r # <<>> => /\ Front(r) \in Texts /\ Last(r) \in Tokens
                  /\ r = Append(Front(r), Last(r))
                  /\ Len(r) = Len(Front(r)) + 1
  BY <1>1, LastOff DEF Texts
<1>4. Len(r) \in Nat
  BY <1>1, LenProperties
<1> QED
  BY <1>2, <1>3, <1>4

\* A step of Split adds at most one token to what is open.
LEMMA SplitOneIn ==
  ASSUME NEW r \in Splits, NEW c \in Tokens
  PROVE  /\ SplitOne(r, c) \in Splits
         /\ Len(SplitOne(r, c).open) <= Len(r.open) + 1
<1>1. PICK w, o : w = r.whole /\ o = r.open /\ w \in Seq(Texts) /\ o \in Texts
  BY DEF Splits
<1>2. Len(o) \in Nat /\ Append(o, c) \in Texts /\ Len(Append(o, c)) = Len(o) + 1
  BY <1>1, LastOpen
<1>3. CASE c = LF /\ o # <<>> /\ Last(o) = LF
  <2>1. Front(o) \in Texts
    BY <1>1, <1>3, LastOpen
  <2>2. Append(w, Front(o)) \in Seq(Texts)
    BY <1>1, <2>1, AppendProperties
  <2>3. SplitOne(r, c) = [whole |-> Append(w, Front(o)), open |-> <<>>]
    BY <1>1, <1>3 DEF SplitOne
  <2>4. Len(<<>>) = 0
    BY EmptySeq
  <2> QED
    BY <1>1, <1>2, <2>2, <2>3, <2>4, NoSplitIn DEF Splits
<1>4. CASE ~(c = LF /\ o # <<>> /\ Last(o) = LF)
  <2>1. SplitOne(r, c) = [whole |-> w, open |-> Append(o, c)]
    BY <1>1, <1>4 DEF SplitOne
  <2> QED
    BY <1>1, <1>2, <2>1 DEF Splits
<1> QED
  BY <1>3, <1>4

IsSplit(g, s) ==
  g = [t \in SUBSET (DOMAIN s) |->
         IF t = {} THEN NoSplit ELSE SplitOne(g[t \ {Max(t)}], s[Max(t)])]

\* Split as a fold, its steps, and what one more token does.
LEMMA SplitIsChosen ==
  ASSUME NEW s
  PROVE  Split(s) = (CHOOSE g : IsSplit(g, s))[DOMAIN s]
  BY SMT DEF Split, FoldLeft, MapThenFoldSet, IsSplit, NoSplit

LEMMA SplitSteps ==
  ASSUME NEW s \in Texts
  PROVE  \E p : /\ p[0] = NoSplit
                /\ \A k \in 1 .. Len(s) : p[k] = SplitStep[<<p[k - 1], s[k]>>]
                /\ \A k \in 0 .. Len(s) : p[k] \in Splits
                /\ Split(s) = p[Len(s)]
<1>0. NoSplit \in Splits /\ s \in Seq(Tokens)
  BY NoSplitIn DEF Texts
<1>3. /\ Keeps(SplitStep, Tokens, Splits)
      /\ \A r \in Splits, e \in Tokens : SplitStep[<<r, e>>] = SplitOne(r, e)
  BY SplitOneIn DEF Keeps, SplitStep
<1>4. PICK b : b = NoSplit /\ b \in Splits
  BY <1>0
<1>5. PICK g : /\ IsSeqFold(g, SplitStep, b, s)
               /\ \A t \in SUBSET (DOMAIN s) :
                    /\ g[t] \in Splits
                    /\ t # {} => g[t \ {Max(t)}] \in Splits /\ s[Max(t)] \in Tokens
  <2>1. \E g : FoldRuns(g, SplitStep, b, s, Tokens, Splits)
    BY <1>0, <1>3, <1>4, FoldRunsExist
  <2> QED
    BY <2>1 DEF FoldRuns
<1>6. IsSplit(g, s)
  BY <1>3, <1>4, <1>5 DEF IsSeqFold, IsSplit
<1>7. PICK f : f = CHOOSE i : IsSplit(i, s)
  OBVIOUS
<1>8. IsSplit(f, s)
  BY <1>6, <1>7
<1>9. PICK n \in Nat : n = Len(s) /\ DOMAIN s = 1 .. n
  BY <1>0, LenProperties
<1> DEFINE p == [k \in 0 .. n |-> f[1 .. k]]
<1>10. p[0] = NoSplit
  <2>1. 1 .. 0 = {} /\ {} \in SUBSET (DOMAIN s) /\ 0 \in 0 .. n
    OBVIOUS
  <2> QED
    BY <1>8, <2>1 DEF IsSplit
<1>11. \A k \in 1 .. n : p[k] = SplitOne(p[k - 1], s[k])
  <2> TAKE k \in 1 .. n
  <2>1. f[1 .. k] = SplitOne(f[1 .. (k - 1)], s[k])
    BY <1>8, <1>9, FirstIndices, ZenonT(30) DEF IsSplit
  <2>2. k \in 0 .. n /\ k - 1 \in 0 .. n
    OBVIOUS
  <2> QED
    BY <2>1, <2>2
<1>12. Split(s) = p[n]
  BY <1>7, <1>9, SplitIsChosen
<1> HIDE DEF p
<1>13. \A k \in 1 .. n : s[k] \in Tokens
  BY <1>0, <1>9, ElementOfSeq
<1>14. \A k \in 0 .. n : p[k] \in Splits
  <2>2. \A k \in 1 .. n : p[k - 1] \in Splits => p[k] \in Splits
    BY <1>11, <1>13, SplitOneIn
  <2>3. p[0] \in Splits
    BY <1>4, <1>10
  <2> QED
    BY <2>2, <2>3, StepsStay
<1>15. \A k \in 1 .. n : p[k] = SplitStep[<<p[k - 1], s[k]>>]
  <2> TAKE k \in 1 .. n
  <2>1. k - 1 \in 0 .. n
    OBVIOUS
  <2>2. p[k - 1] \in Splits /\ s[k] \in Tokens
    BY <1>13, <1>14, <2>1
  <2> QED
    BY <1>3, <1>11, <2>2
<1> QED
  BY <1>9, <1>10, <1>12, <1>14, <1>15

LEMMA SplitIn ==
  ASSUME NEW s \in Texts
  PROVE  Split(s) \in Splits
<1>1. PICK p : /\ \A k \in 0 .. Len(s) : p[k] \in Splits
               /\ Split(s) = p[Len(s)]
  BY SplitSteps
<1>2. Len(s) \in 0 .. Len(s)
  BY LenProperties DEF Texts
<1> QED
  BY <1>1, <1>2

LEMMA SplitOfNothing == Split(<<>>) = NoSplit
<1>1. <<>> \in Texts /\ Len(<<>>) = 0
  BY EmptySeq DEF Texts
<1>2. PICK p : p[0] = NoSplit /\ Split(<<>>) = p[Len(<<>>)]
  BY <1>1, SplitSteps
<1> QED
  BY <1>1, <1>2

LEMMA SplitAppends ==
  ASSUME NEW s \in Texts, NEW c \in Tokens
  PROVE  Split(Append(s, c)) = SplitOne(Split(s), c)
<1>1. PICK n \in Nat : n = Len(s)
  BY LenProperties DEF Texts
<1>2. PICK u : u = Append(s, c)
  OBVIOUS
<1>3. /\ u \in Texts /\ Len(u) = n + 1 /\ u[n + 1] = c
      /\ \A i \in 1 .. n : u[i] = s[i]
  BY <1>1, <1>2, AppendProperties DEF Texts
<1>4. PICK p : /\ p[0] = NoSplit
               /\ \A k \in 1 .. n : p[k] = SplitStep[<<p[k - 1], s[k]>>]
               /\ Split(s) = p[n]
  BY <1>1, SplitSteps
<1>5. PICK q : /\ q[0] = NoSplit
               /\ \A k \in 1 .. Len(u) : q[k] = SplitStep[<<q[k - 1], u[k]>>]
               /\ Split(u) = q[Len(u)]
  BY <1>3, SplitSteps
<1>6. \A k \in 1 .. n : k \in 1 .. Len(u)
  BY <1>3
<1>7. p[n] = q[n]
  <2>1. RunsOver(p, SplitStep, NoSplit, s, n)
    BY <1>4 DEF RunsOver
  <2>2. RunsOver(q, SplitStep, NoSplit, u, n)
    BY <1>5, <1>6 DEF RunsOver
  <2>3. \A k \in 1 .. n : u[k] = s[k]
    BY <1>3
  <2> QED
    BY <2>1, <2>2, <2>3, SameRuns
<1>8. n + 1 \in 1 .. Len(u) /\ (n + 1) - 1 = n
  BY <1>3
<1>9. Split(u) = SplitStep[<<q[n], c>>]
  BY <1>3, <1>5, <1>8
<1> QED
  BY <1>2, <1>4, <1>7, <1>9, SplitIn DEF SplitStep

-----------------------------------------------------------------------------
(* A text that is fed in one element at a time *)

Fed(t) == Split(Unix(t))

\* A CR that LF follows is dropped.
FeedOne(s, c) ==
  IF c = LF /\ s.open # <<>> /\ Last(s.open) = CR
  THEN SplitOne([whole |-> s.whole, open |-> Front(s.open)], c)
  ELSE SplitOne(s, c)

LEMMA FedIn ==
  ASSUME NEW t \in Texts
  PROVE  Fed(t) \in Splits
  BY UnixIn, SplitIn DEF Fed

LEMMA FedNothing == Fed(<<>>) = NoSplit
  BY UnixOfNothing, SplitOfNothing DEF Fed

\* The open part of a split ends as the text does.
LEMMA OpenEnds ==
  ASSUME NEW u \in Texts, NEW d \in Tokens
  PROVE  /\ Split(Append(u, d)).open # <<>> => Last(Split(Append(u, d)).open) = d
         /\ d # LF => Split(Append(u, d)) =
                        [whole |-> Split(u).whole, open |-> Append(Split(u).open, d)]
<1>1. PICK x : x = Split(u) /\ x \in Splits /\ Split(Append(u, d)) = SplitOne(x, d)
  BY SplitIn, SplitAppends
<1>2. x.open \in Texts
  BY <1>1 DEF Splits
<1>3. Last(Append(x.open, d)) = d
  BY <1>2, LastOpen
<1> QED
  BY <1>1, <1>3 DEF SplitOne

\* Feeding one more token is a step: this is what lets a text come in pieces.
LEMMA FedAppends ==
  ASSUME NEW t \in Texts, NEW c \in Tokens
  PROVE  Fed(Append(t, c)) = FeedOne(Fed(t), c)
<1>1. PICK v : v = Unix(t) /\ v \in Texts /\ Unix(Append(t, c)) = UnixOne(v, c)
  BY UnixIn, UnixAppends
<1>2. PICK x : x = Split(v) /\ x \in Splits /\ x = Fed(t)
  BY <1>1, SplitIn DEF Fed
<1>3. Fed(Append(t, c)) = Split(UnixOne(v, c))
  BY <1>1 DEF Fed
<1>4. CASE c = LF /\ v # <<>> /\ Last(v) = CR
  <2>1. PICK u \in Texts : u = Front(v) /\ v = Append(u, CR)
    BY <1>1, <1>4, LastOpen
  <2>2. PICK y : y = Split(u) /\ y \in Splits
    BY SplitIn
  <2>3. x = [whole |-> y.whole, open |-> Append(y.open, CR)]
    BY <1>2, <2>1, <2>2, Newlines, OpenEnds
  <2>4. y = [whole |-> y.whole, open |-> y.open] /\ y.open \in Texts
    BY <2>2 DEF Splits
  <2>5. x.open # <<>> /\ Last(x.open) = CR /\ Front(x.open) = y.open
    BY <2>3, <2>4, Newlines, LastOpen
  <2>6. FeedOne(x, c) = SplitOne(y, LF)
    BY <1>4, <2>3, <2>4, <2>5 DEF FeedOne
  <2>7. UnixOne(v, c) = Append(u, LF)
    BY <1>4, <2>1 DEF UnixOne
  <2>8. Split(Append(u, LF)) = SplitOne(y, LF)
    BY <2>2, Newlines, SplitAppends
  <2> QED
    BY <1>2, <1>3, <2>6, <2>7, <2>8
<1>5. CASE ~(c = LF /\ v # <<>> /\ Last(v) = CR)
  <2>1. UnixOne(v, c) = Append(v, c)
    BY <1>5 DEF UnixOne
  <2>2. Split(Append(v, c)) = SplitOne(x, c)
    BY <1>1, <1>2, SplitAppends
  <2>3. ~(c = LF /\ x.open # <<>> /\ Last(x.open) = CR)
    <3>1. SUFFICES ASSUME c = LF, x.open # <<>>, Last(x.open) = CR
                   PROVE  FALSE
      OBVIOUS
    <3>2. v # <<>>
      <4>1. ASSUME v = <<>> PROVE x = NoSplit
        BY <1>2, <4>1, SplitOfNothing, Zenon
      <4>2. NoSplit.open = <<>>
        BY DEF NoSplit
      <4> QED
        BY <3>1, <4>1, <4>2
    <3>3. PICK u \in Texts, d \in Tokens : v = Append(u, d) /\ d = Last(v)
      BY <1>1, <3>2, LastOpen
    <3>4. d = CR
      BY <1>2, <3>1, <3>3, OpenEnds
    <3> QED
      BY <1>5, <3>1, <3>2, <3>3, <3>4
  <2>4. FeedOne(x, c) = SplitOne(x, c)
    BY <2>3 DEF FeedOne
  <2> QED
    BY <1>2, <1>3, <2>1, <2>2, <2>4
<1> QED
  BY <1>4, <1>5

\* What is open is no longer than the text.
LEMMA OpenIsShort ==
  \A t \in Texts : /\ Len(Unix(t)) \in Nat /\ Len(Unix(t)) <= Len(t)
                   /\ Len(Split(t).open) \in Nat /\ Len(Split(t).open) <= Len(t)
<1> DEFINE G == {t \in Texts : Len(Unix(t)) <= Len(t) /\ Len(Split(t).open) <= Len(t)}
<1>1. <<>> \in G
  BY UnixOfNothing, SplitOfNothing, EmptySeq, NoSplitIn DEF NoSplit
<1>2. ASSUME NEW t \in Texts, NEW c \in Tokens, t \in G
      PROVE  Append(t, c) \in G
  <2>1. Append(t, c) \in Texts /\ Len(Append(t, c)) = Len(t) + 1 /\ Len(t) \in Nat
    BY LastOpen
  <2>2. PICK u : u = Unix(t) /\ u \in Texts /\ Unix(Append(t, c)) = UnixOne(u, c)
    BY UnixIn, UnixAppends
  <2>3. PICK x : x = Split(t) /\ x \in Splits /\ Split(Append(t, c)) = SplitOne(x, c)
    BY SplitIn, SplitAppends
  <2>4. /\ UnixOne(u, c) \in Texts /\ Len(UnixOne(u, c)) <= Len(u) + 1
        /\ Len(u) \in Nat /\ Len(UnixOne(u, c)) \in Nat
    BY <2>2, UnixOneIn, LastOpen
  <2>5. /\ SplitOne(x, c) \in Splits /\ Len(SplitOne(x, c).open) <= Len(x.open) + 1
    BY <2>3, SplitOneIn
  <2>6. x.open \in Texts /\ SplitOne(x, c).open \in Texts
    BY <2>3, <2>5 DEF Splits
  <2>7. Len(x.open) \in Nat /\ Len(SplitOne(x, c).open) \in Nat
    BY <2>6, LastOpen
  <2>8. Len(u) <= Len(t) /\ Len(x.open) <= Len(t)
    BY <1>2, <2>2, <2>3
  <2> QED
    BY <2>1, <2>2, <2>3, <2>4, <2>5, <2>7, <2>8
<1> HIDE DEF G
<1>3. \A t \in Texts : t \in G
  BY <1>1, <1>2, OverLists DEF Texts
<1>4. ASSUME NEW t \in Texts
      PROVE  Len(Unix(t)) \in Nat /\ Len(Split(t).open) \in Nat
  <2>1. Unix(t) \in Texts /\ Split(t).open \in Texts
    BY UnixIn, SplitIn DEF Splits
  <2> QED
    BY <2>1, LastOpen
<1> QED
  BY <1>3, <1>4 DEF G

\* No two neighbours are a pair in Q.
Without(Q, s) == \A i \in 1 .. Len(s) - 1 : <<s[i], s[i + 1]>> \notin Q

DoubleReturns == {<<CR, CR>>}

\* Pairs that feeding does not leave in an open text.
FedAway == {<<CR, CR>>, <<CR, LF>>, <<LF, LF>>}

\* Whether a list has such a pair, from the list without its last element.
LEMMA WithoutAppends ==
  ASSUME NEW Q, NEW s \in Texts, NEW c \in Tokens
  PROVE  Without(Q, Append(s, c)) <=>
           Without(Q, s) /\ (s = <<>> \/ <<Last(s), c>> \notin Q)
<1>1. PICK n \in Nat : n = Len(s)
  BY LastOpen
<1>2. PICK u : u = Append(s, c)
  OBVIOUS
<1>3. /\ Len(u) = n + 1 /\ u[n + 1] = c
      /\ \A i \in 1 .. n : u[i] = s[i]
  BY <1>1, <1>2, AppendProperties DEF Texts
<1>4. CASE s = <<>>
  <2>1. n = 0
    BY <1>1, <1>4, EmptySeq
  <2>2. Len(u) - 1 = 0 /\ Len(s) - 1 = -1
    BY <1>1, <1>3, <2>1
  <2> QED
    BY <1>2, <1>4, <2>2 DEF Without
<1>5. CASE s # <<>>
  <2>1. n \in 1 .. n /\ s[n] = Last(s)
    BY <1>1, <1>5, EmptySeq DEF Last, Texts
  <2>2. \A i : i \in 1 .. Len(u) - 1 <=> i \in 1 .. Len(s) - 1 \/ i = n
    BY <1>1, <1>3, <2>1
  <2>3. \A i \in 1 .. Len(s) - 1 : u[i] = s[i] /\ u[i + 1] = s[i + 1]
    <3> TAKE i \in 1 .. Len(s) - 1
    <3>1. i \in 1 .. n /\ i + 1 \in 1 .. n
      BY <1>1
    <3> QED
      BY <1>3, <3>1
  <2>4. u[n] = Last(s) /\ u[n + 1] = c
    BY <1>3, <2>1
  <2>5. Without(Q, u) <=> /\ \A i \in 1 .. Len(s) - 1 : <<u[i], u[i + 1]>> \notin Q
                          /\ <<u[n], u[n + 1]>> \notin Q
    BY <2>2 DEF Without
  <2>6. Without(Q, u) <=> Without(Q, s) /\ <<Last(s), c>> \notin Q
    BY <2>3, <2>4, <2>5 DEF Without
  <2> QED
    BY <1>2, <1>5, <2>6
<1> QED
  BY <1>4, <1>5

LEMMA WithoutNothing ==
  ASSUME NEW Q
  PROVE  Without(Q, <<>>)
<1>1. Len(<<>>) - 1 = -1
  BY EmptySeq
<1> QED
  BY <1>1 DEF Without

\* What is open of a text in which no CR follows another.
CalmlyOpen(t) ==
  /\ Without(FedAway, Fed(t).open)
  /\ Fed(t).open # <<>> /\ Last(Fed(t).open) = CR => t # <<>> /\ Last(t) = CR

\* In such a text feeding leaves no pair that it would change later.
LEMMA OpenIsCalm ==
  \A t \in Texts : Without(DoubleReturns, t) => CalmlyOpen(t)
<1> DEFINE G == {t \in Texts : Without(DoubleReturns, t) => CalmlyOpen(t)}
<1>1. <<>> \in G
  <2>1. Fed(<<>>).open = <<>>
    BY FedNothing DEF NoSplit
  <2> QED
    BY <2>1, NoSplitIn, WithoutNothing DEF CalmlyOpen
<1>2. ASSUME NEW t \in Texts, NEW c \in Tokens, t \in G
      PROVE  Append(t, c) \in G
  <2>1. Append(t, c) \in Texts /\ Append(t, c) # <<>> /\ Last(Append(t, c)) = c
    BY LastOpen
  <2> SUFFICES ASSUME Without(DoubleReturns, Append(t, c))
               PROVE  CalmlyOpen(Append(t, c))
    BY <2>1
  <2>2. /\ Without(DoubleReturns, t)
        /\ t = <<>> \/ <<Last(t), c>> \notin DoubleReturns
    BY WithoutAppends
  <2>3. CalmlyOpen(t)
    BY <1>2, <2>2
  <2>4. PICK x : x = Fed(t) /\ x \in Splits /\ Fed(Append(t, c)) = FeedOne(x, c)
    BY FedIn, FedAppends
  <2>5. PICK o : /\ o = x.open /\ o \in Texts /\ Without(FedAway, o)
                 /\ o # <<>> /\ Last(o) = CR => t # <<>> /\ Last(t) = CR
    BY <2>3, <2>4 DEF Splits, CalmlyOpen
  <2>6. /\ Append(o, c) \in Texts /\ Last(Append(o, c)) = c
        /\ o # <<>> => /\ Front(o) \in Texts /\ Last(o) \in Tokens
                       /\ o = Append(Front(o), Last(o))
    BY <2>5, LastOpen
  <2>7. CASE c = LF /\ o # <<>> /\ Last(o) = CR
    <3>1. PICK f \in Texts : f = Front(o) /\ o = Append(f, CR)
      BY <2>6, <2>7
    <3>2. Without(FedAway, f) /\ (f = <<>> \/ <<Last(f), CR>> \notin FedAway)
      BY <2>5, <3>1, Newlines, WithoutAppends
    <3>3. FeedOne(x, c) = SplitOne([whole |-> x.whole, open |-> f], LF)
      BY <2>5, <2>7, <3>1 DEF FeedOne
    <3>4. CASE f # <<>> /\ Last(f) = LF
      <4>1. FeedOne(x, c).open = <<>>
        BY <3>3, <3>4 DEF SplitOne
      <4> QED
        BY <2>4, <4>1, WithoutNothing DEF CalmlyOpen
    <3>5. CASE ~(f # <<>> /\ Last(f) = LF)
      <4>1. FeedOne(x, c).open = Append(f, LF)
        BY <3>3, <3>5 DEF SplitOne
      <4>2. f = <<>> \/ <<Last(f), LF>> \notin FedAway
        BY <3>2, <3>5, Newlines DEF FedAway
      <4>3. Without(FedAway, Append(f, LF))
        BY <3>2, <4>2, Newlines, WithoutAppends
      <4>4. Last(Append(f, LF)) = LF
        BY Newlines, LastOpen
      <4> QED
        BY <2>4, <4>1, <4>3, <4>4, Newlines DEF CalmlyOpen
    <3> QED
      BY <3>4, <3>5
  <2>8. CASE ~(c = LF /\ o # <<>> /\ Last(o) = CR)
    <3>1. FeedOne(x, c) = SplitOne(x, c)
      BY <2>5, <2>8 DEF FeedOne
    <3>2. CASE c = LF /\ o # <<>> /\ Last(o) = LF
      <4>1. FeedOne(x, c).open = <<>>
        BY <2>5, <3>1, <3>2 DEF SplitOne
      <4> QED
        BY <2>4, <4>1, WithoutNothing DEF CalmlyOpen
    <3>3. CASE ~(c = LF /\ o # <<>> /\ Last(o) = LF)
      <4>1. FeedOne(x, c).open = Append(o, c)
        BY <2>5, <3>1, <3>3 DEF SplitOne
      <4>2. o = <<>> \/ <<Last(o), c>> \notin FedAway
        BY <2>2, <2>5, <2>8, <3>3 DEF FedAway, DoubleReturns
      <4>3. Without(FedAway, Append(o, c))
        BY <2>5, <4>2, WithoutAppends
      <4> QED
        BY <2>1, <2>4, <2>6, <4>1, <4>3 DEF CalmlyOpen
    <3> QED
      BY <3>2, <3>3
  <2> QED
    BY <2>7, <2>8
<1> HIDE DEF G
<1>3. \A t \in Texts : t \in G
  BY <1>1, <1>2, OverLists DEF Texts
<1> QED
  BY <1>3 DEF G

\* Such an open text comes out as it goes in.
LEMMA CalmIsOpen ==
  \A s \in Texts : Without(FedAway, s) => Fed(s) = [whole |-> <<>>, open |-> s]
<1> DEFINE G == {s \in Texts : Without(FedAway, s) =>
                                 Fed(s) = [whole |-> <<>>, open |-> s]}
<1>1. <<>> \in G
  BY FedNothing, NoSplitIn DEF NoSplit
<1>2. ASSUME NEW s \in Texts, NEW c \in Tokens, s \in G
      PROVE  Append(s, c) \in G
  <2>1. Append(s, c) \in Texts
    BY LastOpen
  <2> SUFFICES ASSUME Without(FedAway, Append(s, c))
               PROVE  Fed(Append(s, c)) = [whole |-> <<>>, open |-> Append(s, c)]
    BY <2>1
  <2>2. Without(FedAway, s) /\ (s = <<>> \/ <<Last(s), c>> \notin FedAway)
    BY WithoutAppends
  <2>3. Fed(s) = [whole |-> <<>>, open |-> s]
    BY <1>2, <2>2
  <2>4. PICK x : x = [whole |-> <<>>, open |-> s] /\ Fed(Append(s, c)) = FeedOne(x, c)
    BY <2>3, FedAppends
  <2>5. x.whole = <<>> /\ x.open = s
    BY <2>4
  <2>6. s = <<>> \/ ~(c = LF /\ Last(s) \in {CR, LF})
    BY <2>2 DEF FedAway
  <2>7. FeedOne(x, c) = [whole |-> <<>>, open |-> Append(s, c)]
    BY <2>5, <2>6 DEF FeedOne, SplitOne
  <2> QED
    BY <2>4, <2>7
<1> HIDE DEF G
<1>3. \A s \in Texts : s \in G
  BY <1>1, <1>2, OverLists DEF Texts
<1> QED
  BY <1>3 DEF G

\* A split after the blocks in w.
After(w, x) == [whole |-> w \o x.whole, open |-> x.open]

LEMMA AfterIn ==
  ASSUME NEW w \in Seq(Texts), NEW x \in Splits
  PROVE  After(w, x) \in Splits /\ After(w, x).open = x.open
<1>1. x.whole \in Seq(Texts) /\ x.open \in Texts
  BY DEF Splits
<1>2. w \o x.whole \in Seq(Texts)
  BY <1>1, ConcatProperties
<1> QED
  BY <1>1, <1>2 DEF After, Splits

\* Blocks that are whole do not change what comes after them.
LEMMA SplitAfter ==
  ASSUME NEW w \in Seq(Texts), NEW x \in Splits, NEW c \in Tokens
  PROVE  SplitOne(After(w, x), c) = After(w, SplitOne(x, c))
<1>1. PICK v, o : v = x.whole /\ o = x.open /\ v \in Seq(Texts) /\ o \in Texts
  BY DEF Splits
<1>2. After(w, x).whole = w \o v /\ After(w, x).open = o
  BY <1>1 DEF After
<1>3. CASE c = LF /\ o # <<>> /\ Last(o) = LF
  <2>1. Front(o) \in Texts
    BY <1>1, <1>3, LastOpen
  <2>2. w \o Append(v, Front(o)) = Append(w \o v, Front(o))
    BY <1>1, <2>1, JoinAppends
  <2>3. SplitOne(After(w, x), c) = [whole |-> Append(w \o v, Front(o)), open |-> <<>>]
    BY <1>2, <1>3 DEF SplitOne
  <2>4. SplitOne(x, c) = [whole |-> Append(v, Front(o)), open |-> <<>>]
    BY <1>1, <1>3 DEF SplitOne
  <2>5. After(w, SplitOne(x, c)) = [whole |-> w \o Append(v, Front(o)), open |-> <<>>]
    BY <2>4 DEF After
  <2> QED
    BY <2>2, <2>3, <2>5
<1>4. CASE ~(c = LF /\ o # <<>> /\ Last(o) = LF)
  <2>1. SplitOne(After(w, x), c) = [whole |-> w \o v, open |-> Append(o, c)]
    BY <1>2, <1>4 DEF SplitOne
  <2>2. SplitOne(x, c) = [whole |-> v, open |-> Append(o, c)]
    BY <1>1, <1>4 DEF SplitOne
  <2> QED
    BY <2>1, <2>2 DEF After
<1> QED
  BY <1>3, <1>4

LEMMA FeedAfter ==
  ASSUME NEW w \in Seq(Texts), NEW x \in Splits, NEW c \in Tokens
  PROVE  FeedOne(After(w, x), c) = After(w, FeedOne(x, c))
<1>1. PICK v, o : v = x.whole /\ o = x.open /\ v \in Seq(Texts) /\ o \in Texts
  BY DEF Splits
<1>2. After(w, x).whole = w \o v /\ After(w, x).open = o
  BY <1>1 DEF After
<1>3. CASE c = LF /\ o # <<>> /\ Last(o) = CR
  <2>1. Front(o) \in Texts
    BY <1>1, <1>3, LastOpen
  <2>2. PICK y : y = [whole |-> v, open |-> Front(o)]
    OBVIOUS
  <2>3. y \in Splits /\ y.whole = v /\ y.open = Front(o)
    BY <1>1, <2>1, <2>2 DEF Splits
  <2>4. After(w, y) = [whole |-> w \o v, open |-> Front(o)]
    BY <2>3 DEF After
  <2>5. FeedOne(x, c) = SplitOne(y, c)
    BY <1>1, <1>3, <2>2 DEF FeedOne
  <2>6. FeedOne(After(w, x), c) = SplitOne(After(w, y), c)
    BY <1>2, <1>3, <2>4 DEF FeedOne
  <2> QED
    BY <2>3, <2>5, <2>6, SplitAfter
<1>4. CASE ~(c = LF /\ o # <<>> /\ Last(o) = CR)
  <2>1. FeedOne(x, c) = SplitOne(x, c)
    BY <1>1, <1>4 DEF FeedOne
  <2>2. FeedOne(After(w, x), c) = SplitOne(After(w, x), c)
    BY <1>2, <1>4 DEF FeedOne
  <2> QED
    BY <2>1, <2>2, SplitAfter
<1> QED
  BY <1>3, <1>4

LEMMA FeedOneIn ==
  ASSUME NEW x \in Splits, NEW c \in Tokens
  PROVE  FeedOne(x, c) \in Splits
<1>1. x.whole \in Seq(Texts) /\ x.open \in Texts
  BY DEF Splits
<1>2. CASE c = LF /\ x.open # <<>> /\ Last(x.open) = CR
  <2>1. PICK y : y = [whole |-> x.whole, open |-> Front(x.open)]
    OBVIOUS
  <2>2. y \in Splits
    BY <1>1, <1>2, <2>1, LastOpen DEF Splits
  <2>3. FeedOne(x, c) = SplitOne(y, c)
    BY <1>2, <2>1 DEF FeedOne
  <2> QED
    BY <2>2, <2>3, SplitOneIn
<1>3. CASE ~(c = LF /\ x.open # <<>> /\ Last(x.open) = CR)
  <2>1. FeedOne(x, c) = SplitOne(x, c)
    BY <1>3 DEF FeedOne
  <2> QED
    BY <2>1, SplitOneIn
<1> QED
  BY <1>2, <1>3

\* To go on with what was open is to go on with the text: the blocks that are
\* whole by then stay as they are.
LEMMA FeedingResumes ==
  ASSUME NEW t \in Texts, NEW w \in Seq(Texts), NEW o \in Texts,
         Fed(t) = [whole |-> w, open |-> o], Without(FedAway, o)
  PROVE  \A p \in Texts : Fed(t \o p) = After(w, Fed(o \o p))
<1> DEFINE G == {p \in Texts : Fed(t \o p) = After(w, Fed(o \o p))}
<1>0. t \in Seq(Tokens) /\ o \in Seq(Tokens)
  BY DEF Texts
<1>1. <<>> \in G
  <2>1. t \o <<>> = t /\ o \o <<>> = o
    BY <1>0, ConcatEmptySeq
  <2>2. Fed(o) = [whole |-> <<>>, open |-> o]
    BY CalmIsOpen
  <2>3. w \o <<>> = w
    BY ConcatEmptySeq
  <2>4. After(w, [whole |-> <<>>, open |-> o]) = [whole |-> w, open |-> o]
    BY <2>3 DEF After
  <2> QED
    BY <2>1, <2>2, <2>4, NoSplitIn
<1>2. ASSUME NEW p \in Texts, NEW c \in Tokens, p \in G
      PROVE  Append(p, c) \in G
  <2>0. p \in Seq(Tokens) /\ Append(p, c) \in Texts
    BY LastOpen DEF Texts
  <2>1. PICK a, b : /\ a = t \o p /\ b = o \o p /\ a \in Texts /\ b \in Texts
                    /\ t \o Append(p, c) = Append(a, c)
                    /\ o \o Append(p, c) = Append(b, c)
    <3>1. t \o p \in Texts /\ o \o p \in Texts
      BY <1>0, <2>0, ConcatProperties DEF Texts
    <3>2. t \o Append(p, c) = Append(t \o p, c)
      BY <1>0, <2>0, JoinAppends
    <3>3. o \o Append(p, c) = Append(o \o p, c)
      BY <1>0, <2>0, JoinAppends
    <3> QED
      BY <3>1, <3>2, <3>3
  <2>2. Fed(a) = After(w, Fed(b))
    BY <1>2, <2>1
  <2>3. PICK x : x = Fed(b) /\ x \in Splits
    BY <2>1, FedIn
  <2>4. Fed(Append(a, c)) = FeedOne(After(w, x), c)
    BY <2>1, <2>2, <2>3, FedAppends
  <2>5. Fed(Append(b, c)) = FeedOne(x, c)
    BY <2>1, <2>3, FedAppends
  <2>6. FeedOne(After(w, x), c) = After(w, FeedOne(x, c))
    BY <2>3, FeedAfter
  <2> QED
    BY <2>0, <2>1, <2>4, <2>5, <2>6
<1> HIDE DEF G
<1>3. \A p \in Texts : p \in G
  BY <1>1, <1>2, OverLists DEF Texts
<1> QED
  BY <1>3 DEF G

\* A text that goes on only adds blocks.
LEMMA FeedingAdds ==
  ASSUME NEW t \in Texts
  PROVE  \A p \in Texts : \E v \in Seq(Texts) :
           Fed(t \o p).whole = Fed(t).whole \o v
<1> DEFINE w == Fed(t).whole
           G == {p \in Texts : \E v \in Seq(Texts) : Fed(t \o p).whole = w \o v}
<1>0. t \in Seq(Tokens) /\ w \in Seq(Texts)
  BY FedIn DEF Texts, Splits
<1> HIDE DEF w
<1>1. <<>> \in G
  <2>1. t \o <<>> = t /\ w \o <<>> = w
    BY <1>0, ConcatEmptySeq
  <2>2. <<>> \in Seq(Texts)
    BY EmptySeq
  <2> QED
    BY <2>1, <2>2, NoSplitIn DEF w
<1>2. ASSUME NEW p \in Texts, NEW c \in Tokens, p \in G
      PROVE  Append(p, c) \in G
  <2>0. p \in Seq(Tokens) /\ Append(p, c) \in Texts
    BY LastOpen DEF Texts
  <2>1. PICK a : a = t \o p /\ a \in Texts /\ t \o Append(p, c) = Append(a, c)
    <3>1. t \o p \in Texts
      BY <1>0, <2>0, ConcatProperties DEF Texts
    <3>2. t \o Append(p, c) = Append(t \o p, c)
      BY <1>0, <2>0, JoinAppends
    <3> QED
      BY <3>1, <3>2
  <2>2. PICK v \in Seq(Texts) : Fed(a).whole = w \o v
    BY <1>2, <2>1
  <2>3. PICK x : x = Fed(a) /\ x \in Splits /\ Fed(Append(a, c)) = FeedOne(x, c)
    BY <2>1, FedIn, FedAppends
  <2>4. x.open \in Texts /\ x.whole = w \o v
    BY <2>2, <2>3 DEF Splits
  <2>5. \/ FeedOne(x, c).whole = x.whole
        \/ \E o \in Texts : FeedOne(x, c).whole = Append(x.whole, o)
    <3>1. ASSUME NEW y, y.whole = x.whole, y.open \in Texts
          PROVE  \/ SplitOne(y, c).whole = x.whole
                 \/ \E o \in Texts : SplitOne(y, c).whole = Append(x.whole, o)
      BY <3>1, LastOpen DEF SplitOne
    <3>2. CASE c = LF /\ x.open # <<>> /\ Last(x.open) = CR
      <4>1. PICK y : y = [whole |-> x.whole, open |-> Front(x.open)]
        OBVIOUS
      <4>2. y.whole = x.whole /\ y.open \in Texts
        BY <2>4, <3>2, <4>1, LastOpen
      <4>3. FeedOne(x, c) = SplitOne(y, c)
        BY <3>2, <4>1 DEF FeedOne
      <4> QED
        BY <3>1, <4>2, <4>3
    <3>3. CASE ~(c = LF /\ x.open # <<>> /\ Last(x.open) = CR)
      <4>1. FeedOne(x, c) = SplitOne(x, c)
        BY <3>3 DEF FeedOne
      <4> QED
        BY <2>4, <3>1, <4>1
    <3> QED
      BY <3>2, <3>3
  <2>6. \A o \in Texts : Append(v, o) \in Seq(Texts) /\ w \o Append(v, o) = Append(w \o v, o)
    BY <1>0, JoinAppends, AppendProperties
  <2>7. \E u \in Seq(Texts) : FeedOne(x, c).whole = w \o u
    BY <2>4, <2>5, <2>6
  <2> QED
    BY <2>0, <2>1, <2>3, <2>7
<1> HIDE DEF G
<1>3. \A p \in Texts : p \in G
  BY <1>1, <1>2, OverLists DEF Texts
<1> QED
  BY <1>3 DEF G, w

-----------------------------------------------------------------------------
(* The end of a body *)

\* A split, ended by an empty line.
EndedBy(x) == SplitOne(SplitOne(x, LF), LF)

\* The end of the body only adds blocks.
LEMMA EndAdds ==
  ASSUME NEW x \in Splits
  PROVE  \E v \in Seq(Texts) : EndedBy(x).whole = x.whole \o v
<1>1. PICK w, o : w = x.whole /\ o = x.open /\ w \in Seq(Texts) /\ o \in Texts
  BY DEF Splits
<1>2. Append(o, LF) \in Texts /\ Append(o, LF) # <<>> /\ Last(Append(o, LF)) = LF
      /\ Front(Append(o, LF)) = o
  BY <1>1, Newlines, LastOpen
<1>3. Append(<<>>, LF) = <<LF>>
  OBVIOUS
<1>4. ASSUME NEW f \in Texts
      PROVE  <<f>> \in Seq(Texts) /\ Append(w, f) = w \o <<f>>
  BY <1>1, <1>4, AppendIsConcat
<1>5. CASE o # <<>> /\ Last(o) = LF
  <2>1. Front(o) \in Texts
    BY <1>1, <1>5, LastOpen
  <2>2. SplitOne(x, LF) = [whole |-> Append(w, Front(o)), open |-> <<>>]
    BY <1>1, <1>5 DEF SplitOne
  <2>3. EndedBy(x).whole = Append(w, Front(o))
    BY <2>2 DEF EndedBy, SplitOne
  <2> QED
    BY <1>1, <1>4, <2>1, <2>3
<1>6. CASE ~(o # <<>> /\ Last(o) = LF)
  <2>1. SplitOne(x, LF) = [whole |-> w, open |-> Append(o, LF)]
    BY <1>1, <1>6 DEF SplitOne
  <2>2. EndedBy(x).whole = Append(w, o)
    BY <1>2, <2>1 DEF EndedBy, SplitOne
  <2> QED
    BY <1>1, <1>4, <2>2
<1> QED
  BY <1>5, <1>6

\* All the blocks of a body.
BodyBlocks(t) == Split(Append(Append(Unix(t), LF), LF)).whole

LEMMA BodyEnds ==
  ASSUME NEW t \in Texts
  PROVE  BodyBlocks(t) = EndedBy(Fed(t)).whole
<1>1. PICK u : u = Unix(t) /\ u \in Texts
  BY UnixIn
<1>2. PICK v : v = Append(u, LF) /\ v \in Texts
  BY <1>1, Newlines, LastOpen
<1>3. Split(Append(v, LF)) = SplitOne(Split(v), LF)
  BY <1>2, Newlines, SplitAppends
<1>4. Split(v) = SplitOne(Split(u), LF)
  BY <1>1, <1>2, Newlines, SplitAppends
<1> QED
  BY <1>1, <1>2, <1>3, <1>4 DEF BodyBlocks, EndedBy, Fed

-----------------------------------------------------------------------------
(* What blocks say *)

\* What a block says is a token, and a list of blocks says a list of tokens.
LEMMA PayloadIn ==
  ASSUME NEW b \in Texts
  PROVE  Payload(b) \in Tokens
<1>1. PICK d : d = Data(b) /\ d \in Seq(Tokens)
  BY OnlyIsList DEF Data, Texts
<1>2. Len(d) = 1 => d[1] \in Tokens
  <2> SUFFICES ASSUME Len(d) = 1 PROVE d[1] \in Tokens
    OBVIOUS
  <2>1. 1 \in 1 .. Len(d) /\ d \in Seq(Tokens)
    BY <1>1
  <2> QED
    BY <2>1, ElementOfSeq
<1>3. "nothing" \in Tokens /\ "malformed" \in Tokens
  BY DEF Tokens
<1> QED
  BY <1>1, <1>2, <1>3 DEF Payload

LEMMA PayloadOfNothing == Payload(<<>>) = "nothing"
<1>1. Data(<<>>) = <<>>
  BY OnlyOfNothing DEF Data
<1> QED
  BY <1>1 DEF Payload

Mapped(whole) == [i \in DOMAIN whole |-> Payload(whole[i])]
SaidBy(whole) == Only(Mapped(whole), ToSet(Mapped(whole)) \ {"nothing"})

LEMMA MappedIn ==
  ASSUME NEW w \in Seq(Texts)
  PROVE  Mapped(w) \in Seq(Tokens)
<1>1. PICK n \in Nat : n = Len(w) /\ DOMAIN w = 1 .. n
  BY LenProperties
<1>2. \A i \in 1 .. n : Payload(w[i]) \in Tokens
  BY <1>1, PayloadIn, ElementOfSeq
<1>3. Mapped(w) \in [1 .. n -> Tokens]
  BY <1>1, <1>2 DEF Mapped
<1> QED
  BY <1>3

LEMMA MappedAppends ==
  ASSUME NEW w \in Seq(Texts), NEW b \in Texts
  PROVE  Mapped(Append(w, b)) = Append(Mapped(w), Payload(b))
<1>1. PICK n \in Nat : n = Len(w) /\ DOMAIN w = 1 .. n
  BY LenProperties
<1>2. PICK u : u = Append(w, b)
  OBVIOUS
<1>3. /\ u \in Seq(Texts) /\ Len(u) = n + 1 /\ u[n + 1] = b
      /\ \A i \in 1 .. n : u[i] = w[i]
  BY <1>1, <1>2, AppendProperties
<1>4. DOMAIN u = 1 .. n + 1
  BY <1>3, LenProperties
<1>5. PICK m : m = Mapped(w) /\ m \in Seq(Tokens) /\ m = [i \in 1 .. n |-> Payload(w[i])]
  BY <1>1, MappedIn DEF Mapped
<1>6. Len(m) = n
  BY <1>5, LenProperties
<1>7. PICK p \in Tokens : p = Payload(b)
  BY PayloadIn
<1>8. PICK v : v = Append(m, p)
  OBVIOUS
<1>9. /\ v \in Seq(Tokens) /\ Len(v) = n + 1 /\ v[n + 1] = p
      /\ \A i \in 1 .. n : v[i] = m[i]
  BY <1>5, <1>6, <1>8, AppendProperties
<1>10. v = [i \in 1 .. n + 1 |-> v[i]]
  BY <1>9, LenProperties
<1>11. \A i \in 1 .. n + 1 : v[i] = Payload(u[i])
  <2> TAKE i \in 1 .. n + 1
  <2>1. i \in 1 .. n \/ i = n + 1
    OBVIOUS
  <2> QED
    BY <1>3, <1>5, <1>7, <1>9, <2>1
<1>12. Mapped(u) = [i \in 1 .. n + 1 |-> Payload(u[i])]
  BY <1>4 DEF Mapped
<1>13. Mapped(u) = v
  BY <1>10, <1>11, <1>12
<1> QED
  BY <1>2, <1>5, <1>7, <1>8, <1>13

\* One and the same filter for all blocks.
LEMMA SaidOnly ==
  ASSUME NEW w \in Seq(Texts)
  PROVE  SaidBy(w) = Only(Mapped(w), Tokens \ {"nothing"})
<1>1. PICK m : m = Mapped(w) /\ m \in Seq(Tokens)
  BY MappedIn
<1>2. \A e \in ToSet(m) : e \in Tokens
  BY <1>1, ElementOfSeq, LenProperties DEF ToSet
<1>3. PICK S, T : S = ToSet(m) \ {"nothing"} /\ T = Tokens \ {"nothing"}
  OBVIOUS
<1>4. \A e \in ToSet(m) : e \in S <=> e \in T
  BY <1>2, <1>3
<1>5. PICK z : z = <<>> /\ z \in Seq(Tokens) /\ \A e \in ToSet(z) : e \notin S
  <2>1. ToSet(<<>>) = {}
    BY DEF ToSet
  <2> QED
    BY <2>1, EmptySeq
<1>6. Only(m \o z, S) = Only(m, T)
  <2>1. m \in Seq(Tokens) /\ z \in Seq(Tokens)
    BY <1>1, <1>5
  <2>2. \A e \in ToSet(z) : e \notin S
    BY <1>5
  <2> QED
    BY <1>4, <2>1, <2>2, OnlyOfFirst, ZenonT(30)
<1>7. m \o z = m
  BY <1>1, <1>5, ConcatEmptySeq
<1> QED
  BY <1>1, <1>3, <1>6, <1>7 DEF SaidBy

LEMMA SaidIn ==
  ASSUME NEW w \in Seq(Texts)
  PROVE  SaidBy(w) \in Seq(Tokens)
  BY MappedIn, OnlyIsList DEF SaidBy

LEMMA SaidOfNothing == SaidBy(<<>>) = <<>>
<1>1. Mapped(<<>>) = <<>>
  BY DEF Mapped
<1> QED
  BY <1>1, OnlyOfNothing DEF SaidBy

\* What one more block adds to what the blocks say.
LEMMA SaidAppends ==
  ASSUME NEW w \in Seq(Texts), NEW b \in Texts
  PROVE  SaidBy(Append(w, b)) = IF Payload(b) = "nothing" THEN SaidBy(w)
                                ELSE Append(SaidBy(w), Payload(b))
<1>1. PICK m, p : /\ m = Mapped(w) /\ m \in Seq(Tokens)
                  /\ p = Payload(b) /\ p \in Tokens
  BY MappedIn, PayloadIn
<1>2. Append(w, b) \in Seq(Texts)
  BY AppendProperties
<1>3. PICK T : T = Tokens \ {"nothing"}
  OBVIOUS
<1>4. Only(Append(m, p), T) = IF p \in T THEN Append(Only(m, T), p) ELSE Only(m, T)
  BY <1>1, OnlyAppends
<1>5. SaidBy(w) = Only(m, T)
  BY <1>1, <1>3, SaidOnly
<1>6. SaidBy(Append(w, b)) = Only(Append(m, p), T)
  BY <1>1, <1>2, <1>3, SaidOnly, MappedAppends
<1>7. p \in T <=> p # "nothing"
  BY <1>1, <1>3
<1> QED
  BY <1>1, <1>4, <1>5, <1>6, <1>7

\* Blocks one after the other say what they say one after the other.
LEMMA SaidJoins ==
  ASSUME NEW w \in Seq(Texts)
  PROVE  \A v \in Seq(Texts) : SaidBy(w \o v) = SaidBy(w) \o SaidBy(v)
<1> DEFINE G == {v \in Seq(Texts) : SaidBy(w \o v) = SaidBy(w) \o SaidBy(v)}
<1>0. SaidBy(w) \in Seq(Tokens)
  BY SaidIn
<1>1. <<>> \in G
  <2>1. w \o <<>> = w /\ SaidBy(w) \o <<>> = SaidBy(w) /\ <<>> \in Seq(Texts)
    BY <1>0, ConcatEmptySeq, EmptySeq
  <2> QED
    BY <2>1, SaidOfNothing
<1>2. ASSUME NEW v \in Seq(Texts), NEW b \in Texts, v \in G
      PROVE  Append(v, b) \in G
  <2>1. PICK u : u = w \o v
    OBVIOUS
  <2>2. u \in Seq(Texts)
    BY <2>1, ConcatProperties
  <2>3. w \o Append(v, b) = Append(u, b)
    BY <2>1, JoinAppends
  <2>4. Append(v, b) \in Seq(Texts)
    BY AppendProperties
  <2>5. PICK x, y, p : /\ x = SaidBy(w) /\ y = SaidBy(v) /\ p = Payload(b)
                       /\ x \in Seq(Tokens) /\ y \in Seq(Tokens) /\ p \in Tokens
    BY SaidIn, PayloadIn
  <2>6. SaidBy(u) = x \o y
    BY <1>2, <2>1, <2>5
  <2>7. SaidBy(Append(v, b)) = IF p = "nothing" THEN y ELSE Append(y, p)
    BY <2>5, SaidAppends
  <2>8. SaidBy(Append(u, b)) = IF p = "nothing" THEN x \o y ELSE Append(x \o y, p)
    <3>1. SaidBy(Append(u, b)) = IF Payload(b) = "nothing" THEN SaidBy(u)
                                 ELSE Append(SaidBy(u), Payload(b))
      BY <2>2, SaidAppends
    <3> QED
      BY <2>5, <2>6, <3>1
  <2>9. x \o Append(y, p) = Append(x \o y, p)
    BY <2>5, JoinAppends
  <2>10. SaidBy(Append(u, b)) = x \o SaidBy(Append(v, b))
    BY <2>7, <2>8, <2>9
  <2> QED
    BY <2>3, <2>4, <2>5, <2>10
<1> HIDE DEF G
<1>3. \A v \in Seq(Texts) : v \in G
  BY <1>1, <1>2, OverLists
<1> QED
  BY <1>3 DEF G

-----------------------------------------------------------------------------
(* What the caller may be told *)

\* How many of the first payloads settle nothing.
Unsettling == {n \in 0 .. Len(Payloads) : \A i \in 1 .. n : Payloads[i] \notin EndsCall}

\* Heard is what comes of the longest beginning in which nothing settles the call.
LEMMA HeardOf ==
  ASSUME NEW P, P = Payloads, P \in Seq(Tokens), NEW m \in Unsettling
  PROVE  \E n \in Unsettling :
           /\ m <= n /\ \A k \in Unsettling : k <= n
           /\ Heard = Only(SubSeq(P, 1, n), Reported)
<1>1. PICK l \in Nat : l = Len(P)
  BY LenProperties
<1>2. Unsettling \subseteq 0 .. l /\ IsFiniteSet(Unsettling) /\ Unsettling \subseteq Int
  <2>1. Unsettling \subseteq 0 .. l
    BY <1>1 DEF Unsettling
  <2>2. IsFiniteSet(0 .. l)
    BY FS_Interval
  <2>3. IsFiniteSet(Unsettling)
    BY <2>1, <2>2, FS_Subset
  <2> QED
    BY <2>1, <2>3
<1>3. \E n \in Unsettling : \A k \in Unsettling : k <= n
  BY <1>2, SomeIndices, LastIn DEF Indices
<1>4. PICK n : n = CHOOSE j \in Unsettling : \A k \in Unsettling : k <= j
  OBVIOUS
<1>5. n \in Unsettling /\ \A k \in Unsettling : k <= n
  BY <1>3, <1>4
<1>6. Heard = Only(SubSeq(P, 1, n), Reported)
  BY <1>4 DEF Heard, Unsettling
<1> QED
  BY <1>5, <1>6

\* The payloads that come first are told, as far as none of them settles the
\* call; and no others, if the next one does.
LEMMA HeardFrom ==
  ASSUME NEW A \in Seq(Tokens), NEW B \in Seq(Tokens), Payloads = A \o B,
         \A p \in ToSet(A) : p \notin EndsCall
  PROVE  /\ IsPrefix(Only(A, Reported), Heard)
         /\ (B = <<>> \/ (B # <<>> /\ B[1] \in EndsCall))
              => Heard = Only(A, Reported)
<1>1. PICK m \in Nat, l \in Nat : m = Len(A) /\ l = Len(B) /\ DOMAIN A = 1 .. m
  BY LenProperties
<1>2. PICK P : P = A \o B
  OBVIOUS
<1>3. /\ P \in Seq(Tokens) /\ P = Payloads /\ Len(P) = m + l
      /\ \A i \in 1 .. m + l : P[i] = IF i <= m THEN A[i] ELSE B[i - m]
  BY <1>1, <1>2, ConcatProperties
<1>4. m \in Unsettling
  <2>1. \A i \in 1 .. m : A[i] \in ToSet(A)
    BY <1>1 DEF ToSet
  <2>2. \A i \in 1 .. m : i \in 1 .. m + l /\ i <= m
    BY <1>1
  <2>3. \A i \in 1 .. m : P[i] \notin EndsCall
    BY <1>3, <2>1, <2>2
  <2>4. m \in 0 .. Len(P)
    BY <1>1, <1>3
  <2> QED
    BY <1>3, <2>3, <2>4 DEF Unsettling
<1>5. PICK n \in Unsettling : m <= n /\ Heard = Only(SubSeq(P, 1, n), Reported)
  BY <1>3, <1>4, HeardOf
<1>6. /\ n \in m .. m + l
      /\ \A i \in 1 .. n : P[i] \notin EndsCall
  BY <1>1, <1>3, <1>5 DEF Unsettling
<1>7. SubSeq(P, 1, m) = A
  BY <1>1, <1>2, FirstOfJoined
<1>8. PICK r \in Seq(Tokens) : SubSeq(P, 1, n) = A \o r
  <2>1. \A i \in m + 1 .. n : P[i] \in Tokens
    <3>1. \A i \in m + 1 .. n : i \in 1 .. Len(P)
      BY <1>1, <1>3, <1>6
    <3> QED
      BY <1>3, <3>1, ElementOfSeq
  <2>2. m + 1 \in Int /\ n \in Int
    BY <1>1, <1>6
  <2>3. SubSeq(P, m + 1, n) \in Seq(Tokens)
    BY <2>1, <2>2, SubSeqProperties
  <2>4. 1 \in 1 .. Len(P) + 1 /\ m \in 1 - 1 .. Len(P) /\ n \in m .. Len(P)
    BY <1>1, <1>3, <1>6
  <2>5. SubSeq(P, 1, m) \o SubSeq(P, m + 1, n) = SubSeq(P, 1, n)
    BY <1>3, <2>4, ConcatAdjacentSubSeq
  <2> QED
    BY <1>7, <2>3, <2>5
<1>9. IsPrefix(Only(A, Reported), Heard)
  <2>1. PICK a, b : /\ a = Only(A, Reported) /\ b = Only(r, Reported)
                    /\ a \in Seq(Tokens) /\ b \in Seq(Tokens)
    BY OnlyIsList
  <2>2. Only(A \o r, Reported) = a \o b
    <3>1. \A x \in Seq(Tokens) :
            Only(A \o x, Reported) = Only(A, Reported) \o Only(x, Reported)
      BY OnlyJoins
    <3> QED
      BY <2>1, <3>1
  <2>3. Heard = a \o b
    BY <1>5, <1>8, <2>2
  <2> QED
    BY <2>1, <2>3, PrefixOfJoined
<1>10. ASSUME B = <<>> \/ (B # <<>> /\ B[1] \in EndsCall)
       PROVE  Heard = Only(A, Reported)
  <2>1. n = m
    <3>1. CASE B = <<>>
      <4>1. l = 0
        BY <1>1, <3>1, EmptySeq
      <4> QED
        BY <1>1, <1>6, <4>1
    <3>2. CASE B # <<>> /\ B[1] \in EndsCall
      <4>1. l \in Nat \ {0}
        BY <1>1, <3>2, EmptySeq
      <4>2. m + 1 \in 1 .. m + l /\ ~(m + 1 <= m) /\ (m + 1) - m = 1
        BY <1>1, <4>1
      <4>3. P[m + 1] \in EndsCall
        BY <1>3, <3>2, <4>2
      <4>4. m + 1 \notin 1 .. n
        BY <1>6, <4>3
      <4> QED
        BY <1>1, <1>6, <4>4
    <3> QED
      BY <1>10, <3>1, <3>2
  <2> QED
    BY <1>5, <1>7, <2>1
<1> QED
  BY <1>9, <1>10

-----------------------------------------------------------------------------
(* The invariant *)

\* What has been read of the body, and the blocks of it that were looked at,
\* account for what the caller was told.
Accounted(t, seen) ==
  /\ t \in Texts /\ seen \in Seq(Texts) /\ body = t \o rest
  /\ ~last => Fed(t) = [whole |-> seen \o blocks, open |-> buffer]
  /\ last => rest = <<>> /\ Payloads = SaidBy(seen \o blocks)
  /\ events = Only(SaidBy(seen), Reported)
  /\ \A p \in ToSet(SaidBy(seen)) : p \notin EndsCall

StreamInv ==
  /\ body \in Bodies
  /\ streaming \in {"waiting", "reading", "settled"}
  /\ streaming = "settled" => OutcomeIsTrue
  /\ streaming # "settled" =>
       /\ ending = "none" /\ last \in BOOLEAN
       /\ rest \in Texts /\ blocks \in Seq(Texts) /\ buffer \in Texts
       /\ \E t, seen : Accounted(t, seen)
  /\ streaming = "waiting" => rest = body /\ ~last
  /\ streaming = "reading" => ~bodiless

\* A body is a text in which no CR follows another.
LEMMA BodyIn ==
  ASSUME StreamAssumption, body \in Bodies
  PROVE  body \in Texts /\ Without(DoubleReturns, body)
<1>1. body \in Seq(ToSet(body))
  BY DEF StreamAssumption
<1>2. ToSet(body) \subseteq Tokens
  BY DEF Tokens
<1>3. body \in Texts
  BY <1>1, <1>2, SeqMonotonic DEF Texts
<1>4. Without(DoubleReturns, body)
  BY DEF StreamAssumption, Without, DoubleReturns
<1> QED
  BY <1>3, <1>4

\* The first part of a body in which no CR follows another.
LEMMA FirstWithout ==
  ASSUME NEW Q, NEW t \in Texts, NEW r \in Texts, Without(Q, t \o r)
  PROVE  Without(Q, t)
<1>1. PICK m \in Nat, n \in Nat : m = Len(t) /\ n = Len(r)
  BY LenProperties DEF Texts
<1>2. PICK u : u = t \o r
  OBVIOUS
<1>3. /\ Len(u) = m + n
      /\ \A i \in 1 .. m + n : u[i] = IF i <= m THEN t[i] ELSE r[i - m]
  BY <1>1, <1>2, ConcatProperties DEF Texts
<1>4. ASSUME NEW i \in 1 .. m - 1
      PROVE  <<t[i], t[i + 1]>> \notin Q
  <2>1. /\ i \in 1 .. m + n /\ i <= m /\ i + 1 \in 1 .. m + n /\ i + 1 <= m
        /\ i \in 1 .. (m + n) - 1
    BY <1>1
  <2>2. u[i] = t[i] /\ u[i + 1] = t[i + 1]
    BY <1>3, <2>1
  <2> QED
    BY <1>2, <1>3, <2>1, <2>2 DEF Without
<1> QED
  BY <1>1, <1>4 DEF Without

\* What the body will say begins with what its whole blocks say.
LEMMA Foretold ==
  ASSUME StreamAssumption, StreamInv, streaming # "settled",
         NEW t, NEW seen, Accounted(t, seen)
  PROVE  \E v \in Seq(Texts) :
           /\ Payloads = SaidBy(seen \o blocks) \o SaidBy(v)
           /\ last => v = <<>>
<1>1. /\ rest \in Texts /\ blocks \in Seq(Texts) /\ last \in BOOLEAN
      /\ t \in Texts /\ seen \in Seq(Texts) /\ body = t \o rest /\ body \in Texts
  BY BodyIn DEF StreamInv, Accounted
<1>2. PICK w : w = seen \o blocks /\ w \in Seq(Texts) /\ SaidBy(w) \in Seq(Tokens)
  <2>1. seen \o blocks \in Seq(Texts)
    BY <1>1, ConcatProperties
  <2> QED
    BY <2>1, SaidIn
<1>3. CASE last
  <2>1. <<>> \in Seq(Texts) /\ SaidBy(w) \o <<>> = SaidBy(w)
    BY <1>2, ConcatEmptySeq, EmptySeq
  <2>2. Payloads = SaidBy(w)
    BY <1>2, <1>3 DEF Accounted
  <2> QED
    BY <1>2, <2>1, <2>2, SaidOfNothing
<1>4. CASE ~last
  <2>1. Fed(t).whole = w
    BY <1>2, <1>4 DEF Accounted
  <2>2. PICK v \in Seq(Texts) : Fed(body).whole = w \o v
    BY <1>1, <2>1, FeedingAdds
  <2>3. PICK u \in Seq(Texts) : EndedBy(Fed(body)).whole = Fed(body).whole \o u
    BY <1>1, FedIn, EndAdds
  <2>4. PICK x : x = v \o u /\ x \in Seq(Texts) /\ (w \o v) \o u = w \o x
    <3>1. w \in Seq(Texts)
      BY <1>2
    <3>2. v \o u \in Seq(Texts)
      BY ConcatProperties
    <3>3. (w \o v) \o u = w \o (v \o u)
      BY <3>1, ConcatAssociative
    <3> QED
      BY <3>2, <3>3
  <2>5. BodyBlocks(body) = w \o x
    BY <1>1, <2>2, <2>3, <2>4, BodyEnds
  <2>6. Payloads = SaidBy(BodyBlocks(body))
    BY DEF Payloads, SaidBy, Mapped, BodyBlocks
  <2>7. SaidBy(w \o x) = SaidBy(w) \o SaidBy(x)
    BY <1>2, <2>4, SaidJoins
  <2> QED
    BY <1>2, <1>4, <2>4, <2>5, <2>6, <2>7
<1> QED
  BY <1>1, <1>3, <1>4

\* So far the caller was told a beginning of what it may be told.
LEMMA ToldIsPrefix ==
  ASSUME StreamAssumption, StreamInv, streaming # "settled"
  PROVE  IsPrefix(events, Heard)
<1>1. PICK t, seen : Accounted(t, seen)
  BY DEF StreamInv
<1>2. PICK v \in Seq(Texts) : Payloads = SaidBy(seen \o blocks) \o SaidBy(v)
  BY <1>1, Foretold
<1>3. blocks \in Seq(Texts) /\ seen \in Seq(Texts)
  BY <1>1 DEF StreamInv, Accounted
<1>4. PICK a, b, d : /\ a = SaidBy(seen) /\ b = SaidBy(blocks) /\ d = SaidBy(v)
                     /\ a \in Seq(Tokens) /\ b \in Seq(Tokens) /\ d \in Seq(Tokens)
  BY <1>3, SaidIn
<1>5. SaidBy(seen \o blocks) = a \o b
  BY <1>3, <1>4, SaidJoins
<1>6. PICK e : e = b \o d /\ e \in Seq(Tokens) /\ (a \o b) \o d = a \o e
  <2>1. a \in Seq(Tokens) /\ b \in Seq(Tokens) /\ d \in Seq(Tokens)
    BY <1>4
  <2>2. b \o d \in Seq(Tokens)
    BY <2>1, ConcatProperties
  <2>3. (a \o b) \o d = a \o (b \o d)
    BY <2>1, ConcatAssociative
  <2> QED
    BY <2>2, <2>3
<1>7. Payloads = a \o e
  BY <1>2, <1>4, <1>5, <1>6
<1>8. events = Only(a, Reported) /\ \A p \in ToSet(a) : p \notin EndsCall
  BY <1>1, <1>4 DEF Accounted
<1>9. IsPrefix(Only(a, Reported), Heard)
  BY <1>4, <1>6, <1>7, <1>8, HeardFrom
<1> QED
  BY <1>8, <1>9

\* An outcome that is true where it is reached.
Warranted(code) ==
  /\ code = "completed" => /\ ~bodiless /\ events = Heard
                           /\ "completed" \in ToSet(Payloads)
  /\ code = "cancelled" => aborted
  /\ code = "timeout" /\ rest # body => cutOff
  /\ code = "invalid_stream" =>
       bodiless \/ "malformed" \in ToSet(Payloads) \/ Len(body) > MaxBuffer - 2
  /\ code = "incomplete_response" =>
       \/ rest = <<>> /\ "completed" \notin ToSet(Payloads)
       \/ \E p \in ToSet(Payloads) : p \in EndsCall \ {"completed"}

\* A call that settles on such an outcome keeps the invariant.
LEMMA SettlesTruly ==
  ASSUME StreamAssumption, StreamInv, streaming # "settled",
         NEW code, Warranted(code), Settle(code),
         UNCHANGED <<bodiless, body, rest, events, aborted, cutOff>>
  PROVE  StreamInv'
<1>1. Payloads' = Payloads
  BY DEF Payloads
<1>2. Heard' = Heard
  BY <1>1 DEF Heard
<1>3. IsPrefix(events, Heard)
  BY ToldIsPrefix
<1>4. ending' = code /\ streaming' = "settled"
  BY DEF Settle
<1>5. OutcomeIsTrue'
  BY <1>1, <1>2, <1>3, <1>4 DEF OutcomeIsTrue, Warranted
<1> QED
  BY <1>4, <1>5 DEF StreamInv

LEMMA InterruptedTruly == Warranted(Interrupted)
  BY DEF Warranted, Interrupted

\* What is not looked at is no longer than the body.
LEMMA TextIsShort ==
  ASSUME StreamAssumption, NEW t, NEW seen, Accounted(t, seen), StreamInv,
         streaming # "settled", ~last, NEW n \in 0 .. Len(rest)
  PROVE  /\ Len(Buffered(SubSeq(rest, 1, n), n = 0)) \in Nat
         /\ Len(Buffered(SubSeq(rest, 1, n), n = 0)) <= Len(body) + 2
<1>1. /\ t \in Texts /\ rest \in Texts /\ buffer \in Texts /\ body = t \o rest
      /\ Fed(t).open = buffer
  BY DEF StreamInv, Accounted
<1>2. PICK l \in Nat, m \in Nat, k \in Nat : l = Len(t) /\ m = Len(rest) /\ k = Len(buffer)
  BY <1>1, LastOpen
<1>3. Len(body) = l + m
  BY <1>1, <1>2, ConcatProperties DEF Texts
<1>4. k <= l
  <2>1. Unix(t) \in Texts /\ Len(Unix(t)) \in Nat /\ Len(Unix(t)) <= l
    BY <1>1, <1>2, OpenIsShort, UnixIn
  <2>2. Len(Split(Unix(t)).open) <= Len(Unix(t))
    BY <2>1, OpenIsShort
  <2> QED
    BY <1>1, <1>2, <2>1, <2>2 DEF Fed
<1>5. PICK p : p = SubSeq(rest, 1, n) /\ p \in Texts /\ Len(p) = n
  <2>1. \A i \in 1 .. n : rest[i] \in Tokens
    <3>1. \A i \in 1 .. n : i \in 1 .. Len(rest) /\ rest \in Seq(Tokens)
      BY <1>1, <1>2 DEF Texts
    <3> QED
      BY <3>1, ElementOfSeq
  <2>2. 1 \in Int /\ n \in Int
    BY <1>2
  <2>3. SubSeq(rest, 1, n) \in Seq(Tokens)
    BY <2>1, <2>2, SubSeqProperties
  <2>4. Len(SubSeq(rest, 1, n)) = IF 1 <= n THEN n - 1 + 1 ELSE 0
    BY <2>1, <2>2, SubSeqProperties
  <2>5. Len(SubSeq(rest, 1, n)) = n
    BY <1>2, <2>4
  <2> QED
    BY <2>3, <2>5 DEF Texts
<1>6. PICK q : q = buffer \o p /\ q \in Texts /\ Len(q) = k + n
  <2>1. buffer \in Seq(Tokens) /\ p \in Seq(Tokens)
    BY <1>1, <1>5 DEF Texts
  <2>2. buffer \o p \in Seq(Tokens) /\ Len(buffer \o p) = Len(buffer) + Len(p)
    BY <2>1, ConcatProperties
  <2> QED
    BY <1>2, <1>5, <2>2 DEF Texts
<1>7. PICK u : u = Unix(q) /\ u \in Texts /\ Len(u) \in Nat /\ Len(u) <= k + n
  BY <1>6, OpenIsShort, UnixIn
<1>8. PICK z : /\ z = IF n = 0 /\ q # <<>> THEN <<LF, LF>> ELSE <<>>
               /\ z \in Texts /\ Len(z) \in {0, 2}
  <2>1. <<>> \in Seq(Tokens) /\ Len(<<>>) = 0
    BY EmptySeq
  <2>2. <<LF, LF>> \in Seq(Tokens) /\ Len(<<LF, LF>>) = 2
    BY Newlines
  <2> QED
    BY <2>1, <2>2 DEF Texts
<1>9. Len(u \o z) = Len(u) + Len(z)
  BY <1>7, <1>8, ConcatProperties DEF Texts
<1>10. Buffered(p, n = 0) = u \o z
  BY <1>6, <1>7, <1>8 DEF Buffered
<1>11. n \in Nat /\ n <= m
  BY <1>2
<1> QED
  BY <1>2, <1>3, <1>4, <1>5, <1>7, <1>8, <1>9, <1>10, <1>11

-----------------------------------------------------------------------------
(* Steps *)

\* A piece of the body comes.
LEMMA PieceKeeps ==
  ASSUME StreamAssumption, NEW t, NEW seen, Accounted(t, seen), StreamInv,
         streaming = "reading", blocks = <<>>, ~last, NEW n \in 1 .. Len(rest),
         LET text == Buffered(SubSeq(rest, 1, n), FALSE)
         IN  /\ rest' = SubSeq(rest, n + 1, Len(rest))
             /\ blocks' = Split(text).whole /\ buffer' = Split(text).open,
         last' = FALSE, UNCHANGED <<streaming, bodiless, body, events, aborted, cutOff, ending>>
  PROVE  StreamInv'
<1>1. /\ t \in Texts /\ rest \in Texts /\ buffer \in Texts /\ body = t \o rest
      /\ seen \in Seq(Texts) /\ body \in Bodies /\ ending = "none"
  BY DEF StreamInv, Accounted
<1>2. PICK m \in Nat : m = Len(rest) /\ n \in 1 .. m
  BY <1>1, LastOpen
<1>3. Fed(t) = [whole |-> seen, open |-> buffer]
  <2>1. seen \o <<>> = seen
    BY <1>1, ConcatEmptySeq
  <2> QED
    BY <2>1 DEF Accounted
<1>4. PICK p, r : /\ p = SubSeq(rest, 1, n) /\ p \in Texts
                  /\ r = SubSeq(rest, n + 1, m) /\ r \in Texts /\ rest = p \o r
  <2>1. \A i \in 1 .. m : rest[i] \in Tokens
    BY <1>1, <1>2, ElementOfSeq DEF Texts
  <2>2. 1 \in Int /\ n \in Int /\ n + 1 \in Int /\ m \in Int
        /\ (\A i \in 1 .. n : i \in 1 .. m) /\ (\A i \in n + 1 .. m : i \in 1 .. m)
    BY <1>2
  <2>3. \A i \in 1 .. n : rest[i] \in Tokens
    BY <2>1, <2>2
  <2>4. \A i \in n + 1 .. m : rest[i] \in Tokens
    BY <2>1, <2>2
  <2>5. SubSeq(rest, 1, n) \in Seq(Tokens)
    BY <2>2, <2>3, SubSeqProperties
  <2>6. SubSeq(rest, n + 1, m) \in Seq(Tokens)
    BY <2>2, <2>4, SubSeqProperties
  <2>7. rest \in Seq(Tokens) /\ 1 \in 1 .. Len(rest) + 1 /\ n \in 1 - 1 .. Len(rest)
        /\ m \in n .. Len(rest)
    BY <1>1, <1>2 DEF Texts
  <2>8. SubSeq(rest, 1, n) \o SubSeq(rest, n + 1, m) = SubSeq(rest, 1, m)
    BY <2>7, ConcatAdjacentSubSeq
  <2>9. SubSeq(rest, 1, m) = rest
    BY <1>2, <2>7, SubSeqFull
  <2> QED
    BY <2>5, <2>6, <2>8, <2>9 DEF Texts
<1>5. PICK s : s = t \o p /\ s \in Texts /\ body = s \o r
  <2>1. t \in Seq(Tokens) /\ p \in Seq(Tokens) /\ r \in Seq(Tokens)
    BY <1>1, <1>4 DEF Texts
  <2>2. t \o p \in Seq(Tokens)
    BY <2>1, ConcatProperties
  <2>3. (t \o p) \o r = t \o (p \o r)
    BY <2>1, ConcatAssociative
  <2> QED
    BY <1>1, <1>4, <2>2, <2>3 DEF Texts
<1>6. Without(FedAway, buffer)
  <2>1. Without(DoubleReturns, t)
    BY <1>1, BodyIn, FirstWithout
  <2>2. CalmlyOpen(t)
    BY <1>1, <2>1, OpenIsCalm
  <2> QED
    BY <1>3, <2>2 DEF CalmlyOpen
<1>7. Fed(s) = After(seen, Fed(buffer \o p))
  <2>1. \A x \in Texts : Fed(t \o x) = After(seen, Fed(buffer \o x))
    BY <1>1, <1>3, <1>6, FeedingResumes
  <2> QED
    BY <1>4, <1>5, <2>1
<1>8. Buffered(p, FALSE) = Unix(buffer \o p)
  <2>1. buffer \o p \in Texts
    BY <1>1, <1>4, ConcatProperties DEF Texts
  <2>2. Unix(buffer \o p) \o <<>> = Unix(buffer \o p)
    BY <2>1, UnixIn, ConcatEmptySeq DEF Texts
  <2> QED
    BY <2>2 DEF Buffered
<1>9. PICK x : x = Fed(buffer \o p) /\ x \in Splits
  <2>1. buffer \o p \in Texts
    BY <1>1, <1>4, ConcatProperties DEF Texts
  <2> QED
    BY <2>1, FedIn
<1>10. blocks' = x.whole /\ buffer' = x.open /\ rest' = r
  BY <1>2, <1>4, <1>8, <1>9 DEF Fed
<1>11. Fed(s) = [whole |-> seen \o blocks', open |-> buffer']
  BY <1>7, <1>9, <1>10 DEF After
<1>12. x.whole \in Seq(Texts) /\ x.open \in Texts
  BY <1>9 DEF Splits
<1>13. /\ events = Only(SaidBy(seen), Reported)
       /\ \A y \in ToSet(SaidBy(seen)) : y \notin EndsCall
  BY DEF Accounted
<1>14. Accounted(s, seen)'
  BY <1>1, <1>5, <1>10, <1>11, <1>13 DEF Accounted
<1> QED
  BY <1>1, <1>4, <1>10, <1>12, <1>14 DEF StreamInv

\* The body ends.
LEMMA EndKeeps ==
  ASSUME StreamAssumption, NEW t, NEW seen, Accounted(t, seen), StreamInv,
         streaming = "reading", blocks = <<>>, ~last, rest = <<>>,
         LET text == Buffered(SubSeq(rest, 1, 0), TRUE)
         IN  /\ rest' = SubSeq(rest, 1, Len(rest))
             /\ blocks' = Split(text).whole /\ buffer' = Split(text).open,
         last' = TRUE, UNCHANGED <<streaming, bodiless, body, events, aborted, cutOff, ending>>
  PROVE  StreamInv'
<1>1. /\ t \in Texts /\ buffer \in Texts /\ body = t \o rest
      /\ seen \in Seq(Texts) /\ body \in Bodies /\ body \in Texts /\ ending = "none"
  BY BodyIn DEF StreamInv, Accounted
<1>2. body = t /\ rest' = <<>>
  <2>1. t \o <<>> = t
    BY <1>1, ConcatEmptySeq DEF Texts
  <2>2. SubSeq(<<>>, 1, 0) = <<>> /\ Len(<<>>) = 0
    BY SubSeqEmpty, EmptySeq
  <2> QED
    BY <1>1, <2>1, <2>2
<1>3. Fed(t) = [whole |-> seen, open |-> buffer]
  <2>1. seen \o <<>> = seen
    BY <1>1, ConcatEmptySeq
  <2> QED
    BY <2>1 DEF Accounted
<1>4. Without(FedAway, buffer)
  <2>1. Without(DoubleReturns, t)
    BY <1>1, <1>2, BodyIn
  <2>2. CalmlyOpen(t)
    BY <1>1, <2>1, OpenIsCalm
  <2> QED
    BY <1>3, <2>2 DEF CalmlyOpen
<1>5. PICK x : /\ x = [whole |-> <<>>, open |-> buffer] /\ x \in Splits
               /\ Fed(buffer) = x /\ Fed(body) = After(seen, x)
  <2>1. Fed(buffer) = [whole |-> <<>>, open |-> buffer]
    BY <1>1, <1>4, CalmIsOpen
  <2>2. [whole |-> <<>>, open |-> buffer] \in Splits
    BY <1>1, <2>1, FedIn
  <2>3. seen \o <<>> = seen
    BY <1>1, ConcatEmptySeq
  <2> QED
    BY <1>2, <1>3, <2>1, <2>2, <2>3 DEF After
<1>6. PICK y : y = EndedBy(x) /\ y \in Splits /\ EndedBy(Fed(body)) = After(seen, y)
  <2>1. PICK v : v = SplitOne(x, LF) /\ v \in Splits
    BY <1>5, Newlines, SplitOneIn
  <2>2. SplitOne(After(seen, x), LF) = After(seen, v)
    BY <1>1, <1>5, <2>1, Newlines, SplitAfter
  <2>3. SplitOne(After(seen, v), LF) = After(seen, SplitOne(v, LF))
    BY <1>1, <2>1, Newlines, SplitAfter
  <2>4. SplitOne(v, LF) \in Splits
    BY <2>1, Newlines, SplitOneIn
  <2> QED
    BY <1>5, <2>1, <2>2, <2>3, <2>4 DEF EndedBy
<1>7. PICK w : w = y.whole /\ w \in Seq(Texts) /\ Payloads = SaidBy(seen \o w)
  <2>1. Payloads = SaidBy(BodyBlocks(body))
    BY DEF Payloads, SaidBy, Mapped, BodyBlocks
  <2>2. BodyBlocks(body) = seen \o y.whole
    BY <1>1, <1>6, BodyEnds DEF After
  <2> QED
    BY <1>6, <2>1, <2>2 DEF Splits
<1>8. SubSeq(rest, 1, 0) = <<>> /\ buffer \o <<>> = buffer
  BY <1>1, SubSeqEmpty, ConcatEmptySeq DEF Texts
<1>9. /\ blocks' \in Seq(Texts) /\ buffer' \in Texts
      /\ SaidBy(seen \o blocks') = SaidBy(seen \o w)
  <2>1. CASE buffer # <<>>
    <3>1. Buffered(<<>>, TRUE) = Unix(buffer) \o <<LF, LF>>
      BY <1>8, <2>1 DEF Buffered
    <3>2. PICK u : u = Unix(buffer) /\ u \in Texts
      BY <1>1, UnixIn
    <3>3. PICK v : v = Append(u, LF) /\ v \in Texts
      BY <3>2, Newlines, LastOpen
    <3>4. u \o <<LF, LF>> = Append(v, LF)
      <4>1. <<LF>> \in Seq(Tokens) /\ u \in Seq(Tokens)
        BY <3>2, Newlines DEF Texts
      <4>2. u \o Append(<<LF>>, LF) = Append(u \o <<LF>>, LF)
        BY <4>1, Newlines, JoinAppends
      <4>3. Append(u, LF) = u \o <<LF>>
        BY <4>1, Newlines, AppendIsConcat
      <4>4. Append(<<LF>>, LF) = <<LF, LF>>
        BY OneAndOne
      <4> QED
        BY <3>3, <4>2, <4>3, <4>4
    <3>5. Split(Append(v, LF)) = SplitOne(Split(v), LF)
      BY <3>3, Newlines, SplitAppends
    <3>6. Split(v) = SplitOne(Split(u), LF)
      BY <3>2, <3>3, Newlines, SplitAppends
    <3>7. Split(u) = x
      BY <1>5, <3>2 DEF Fed
    <3>8. Split(Buffered(<<>>, TRUE)) = y
      BY <1>6, <3>1, <3>2, <3>4, <3>5, <3>6, <3>7 DEF EndedBy
    <3>9. blocks' = w /\ buffer' = y.open
      BY <1>7, <1>8, <3>8
    <3> QED
      BY <1>6, <1>7, <3>9 DEF Splits
  <2>2. CASE buffer = <<>>
    <3>1. Buffered(<<>>, TRUE) = <<>>
      <4>1. Buffered(<<>>, TRUE) = Unix(<<>>) \o <<>>
        BY <1>8, <2>2 DEF Buffered
      <4>2. Unix(<<>>) \o <<>> = <<>>
        BY UnixOfNothing, NoSplitIn, ConcatEmptySeq DEF Texts
      <4> QED
        BY <4>1, <4>2
    <3>2. blocks' = <<>> /\ buffer' = <<>>
      <4>1. PICK z : z = Split(Buffered(<<>>, TRUE)) /\ z = NoSplit
        BY <3>1, SplitOfNothing
      <4>2. NoSplit.whole = <<>> /\ NoSplit.open = <<>>
        BY DEF NoSplit
      <4>3. blocks' = z.whole /\ buffer' = z.open
        BY <1>8, <4>1
      <4> QED
        BY <4>1, <4>2, <4>3
    <3>3. w = <<<<>>>>
      <4>1. SplitOne(x, LF) = [whole |-> <<>>, open |-> <<LF>>]
        BY <1>5, <2>2 DEF SplitOne
      <4>2. Last(<<LF>>) = LF /\ Front(<<LF>>) = <<>> /\ <<LF>> # <<>>
        <5>1. Append(<<>>, LF) = <<LF>>
          OBVIOUS
        <5> QED
          BY <5>1, NoSplitIn, Newlines, LastOpen
      <4>3. y.whole = Append(<<>>, <<>>)
        BY <1>6, <4>1, <4>2 DEF EndedBy, SplitOne
      <4> QED
        BY <1>7, <4>3
    <3>4. seen \o w = Append(seen, <<>>)
      BY <1>1, <3>3, NoSplitIn, AppendIsConcat
    <3>5. SaidBy(Append(seen, <<>>)) = SaidBy(seen)
      BY <1>1, NoSplitIn, SaidAppends, PayloadOfNothing
    <3>6. seen \o <<>> = seen /\ <<>> \in Seq(Texts)
      BY <1>1, ConcatEmptySeq, EmptySeq
    <3> QED
      BY <3>2, <3>4, <3>5, <3>6, NoSplitIn
  <2> QED
    BY <2>1, <2>2
<1>10. Payloads' = Payloads
  BY DEF Payloads
<1>11. /\ events = Only(SaidBy(seen), Reported)
       /\ \A z \in ToSet(SaidBy(seen)) : z \notin EndsCall
  BY DEF Accounted
<1>12. body = t \o rest'
  BY <1>1, <1>2
<1>13. Accounted(t, seen)'
  BY <1>1, <1>2, <1>7, <1>9, <1>10, <1>11, <1>12 DEF Accounted
<1> QED
  BY <1>1, <1>2, <1>9, <1>13, NoSplitIn DEF StreamInv

\* What the next block does to the account.
LEMMA BlockSaid ==
  ASSUME StreamAssumption, NEW t, NEW seen, Accounted(t, seen), StreamInv,
         streaming = "reading", blocks # <<>>
  PROVE  /\ Head(blocks) \in Texts /\ Tail(blocks) \in Seq(Texts)
         /\ Append(seen, Head(blocks)) \in Seq(Texts)
         /\ seen \o blocks = Append(seen, Head(blocks)) \o Tail(blocks)
         /\ Payload(Head(blocks)) # "nothing" =>
              \E v \in Seq(Tokens) :
                Payloads = SaidBy(seen) \o (<<Payload(Head(blocks))>> \o v)
<1>1. blocks \in Seq(Texts) /\ seen \in Seq(Texts)
  BY DEF StreamInv, Accounted
<1>2. PICK b, r : /\ b = Head(blocks) /\ b \in Texts
                  /\ r = Tail(blocks) /\ r \in Seq(Texts) /\ blocks = <<b>> \o r
  <2>1. Head(blocks) \in Texts /\ Tail(blocks) \in Seq(Texts)
    BY <1>1, HeadTailProperties
  <2>2. blocks = <<Head(blocks)>> \o Tail(blocks)
    <3>1. Len(blocks) \in Nat \ {0}
      BY <1>1, EmptySeq
    <3>2. 1 \in 1 .. Len(blocks) /\ Len(blocks) \in 1 .. Len(blocks)
      BY <3>1
    <3>3. SubSeq(blocks, 1, Len(blocks)) = <<blocks[1]>> \o SubSeq(blocks, 1 + 1, Len(blocks))
      BY <1>1, <3>2, SubSeqRecursiveFirst
    <3>4. SubSeq(blocks, 1, Len(blocks)) = blocks /\ Tail(blocks) = SubSeq(blocks, 2, Len(blocks))
      BY <1>1, SubSeqFull, TailIsSubSeq
    <3>5. Head(blocks) = blocks[1] /\ 1 + 1 = 2
      BY <1>1
    <3> QED
      BY <3>3, <3>4, <3>5
  <2> QED
    BY <2>1, <2>2
<1>3. PICK d : d = Append(seen, b) /\ d \in Seq(Texts) /\ d = seen \o <<b>>
  BY <1>1, <1>2, AppendProperties, AppendIsConcat
<1>4. seen \o blocks = d \o r
  <2>1. <<b>> \in Seq(Texts)
    BY <1>2
  <2>2. (seen \o <<b>>) \o r = seen \o (<<b>> \o r)
    BY <1>1, <1>2, <2>1, ConcatAssociative
  <2> QED
    BY <1>2, <1>3, <2>2
<1>5. ASSUME Payload(b) # "nothing"
      PROVE  \E v \in Seq(Tokens) : Payloads = SaidBy(seen) \o (<<Payload(b)>> \o v)
  <2>1. PICK v \in Seq(Texts) : Payloads = SaidBy(seen \o blocks) \o SaidBy(v)
    BY Foretold
  <2>2. PICK a, p, x, y : /\ a = SaidBy(seen) /\ p = Payload(b) /\ x = SaidBy(r)
                          /\ y = SaidBy(v) /\ a \in Seq(Tokens) /\ p \in Tokens
                          /\ x \in Seq(Tokens) /\ y \in Seq(Tokens)
    BY <1>1, <1>2, SaidIn, PayloadIn
  <2>3. <<p>> \in Seq(Tokens)
    BY <2>2
  <2>4. SaidBy(d) = a \o <<p>>
    <3>1. SaidBy(d) = Append(a, p)
      BY <1>1, <1>2, <1>3, <1>5, <2>2, SaidAppends
    <3>2. Append(a, p) = a \o <<p>>
      BY <2>2, AppendIsConcat
    <3> QED
      BY <3>1, <3>2
  <2>5. SaidBy(d \o r) = SaidBy(d) \o x
    BY <1>2, <1>3, <2>2, SaidJoins
  <2>6. Payloads = ((a \o <<p>>) \o x) \o y
    BY <1>4, <2>1, <2>2, <2>4, <2>5
  <2>7. (a \o <<p>>) \o x = a \o (<<p>> \o x)
    BY <2>2, <2>3, ConcatAssociative
  <2>8. <<p>> \o x \in Seq(Tokens)
    BY <2>2, <2>3, ConcatProperties
  <2>9. (a \o (<<p>> \o x)) \o y = a \o ((<<p>> \o x) \o y)
    BY <2>2, <2>8, ConcatAssociative
  <2>10. (<<p>> \o x) \o y = <<p>> \o (x \o y)
    BY <2>2, <2>3, ConcatAssociative
  <2>11. x \o y \in Seq(Tokens)
    BY <2>2, ConcatProperties
  <2> QED
    BY <2>2, <2>6, <2>7, <2>9, <2>10, <2>11
<1> QED
  BY <1>2, <1>3, <1>4, <1>5

LEMMA ReadKeeps ==
  ASSUME StreamAssumption, StreamInv, Read
  PROVE  StreamInv'
<1>1. /\ streaming = "reading" /\ streaming # "settled" /\ blocks = <<>> /\ ~last
      /\ UNCHANGED <<bodiless, body, events, aborted, cutOff>>
  BY DEF Read
<1>2. PICK t, seen : Accounted(t, seen)
  BY <1>1 DEF StreamInv
<1>12. PICK n \in 0 .. Len(rest) : \E text :
        /\ text = Buffered(SubSeq(rest, 1, n), n = 0)
        /\ n = 0 => rest = <<>>
        /\ \/ /\ Settle(Interrupted)
              /\ UNCHANGED <<rest, buffer, blocks, last>>
           \/ /\ Len(text) > MaxBuffer
              /\ Settle("invalid_stream")
              /\ UNCHANGED <<rest, buffer, blocks, last>>
           \/ /\ rest' = SubSeq(rest, n + 1, Len(rest))
              /\ blocks' = Split(text).whole
              /\ buffer' = Split(text).open
              /\ last' = (n = 0)
              /\ UNCHANGED <<streaming, ending, key>>
  BY DEF Read
<1>3. PICK text :
        /\ text = Buffered(SubSeq(rest, 1, n), n = 0)
        /\ n = 0 => rest = <<>>
        /\ \/ /\ Settle(Interrupted)
              /\ UNCHANGED <<rest, buffer, blocks, last>>
           \/ /\ Len(text) > MaxBuffer
              /\ Settle("invalid_stream")
              /\ UNCHANGED <<rest, buffer, blocks, last>>
           \/ /\ rest' = SubSeq(rest, n + 1, Len(rest))
              /\ blocks' = Split(text).whole
              /\ buffer' = Split(text).open
              /\ last' = (n = 0)
              /\ UNCHANGED <<streaming, ending, key>>
  BY <1>12
<1>4. CASE /\ Settle(Interrupted)
           /\ UNCHANGED <<rest, buffer, blocks, last>>
  BY <1>1, <1>4, InterruptedTruly, SettlesTruly
<1>5. CASE /\ Len(text) > MaxBuffer
           /\ Settle("invalid_stream")
           /\ UNCHANGED <<rest, buffer, blocks, last>>
  <2>1. Len(text) <= Len(body) + 2
    BY <1>1, <1>2, <1>3, TextIsShort
  <2>2. Len(body) \in Nat /\ MaxBuffer \in Nat
    BY BodyIn, LastOpen DEF StreamInv, StreamAssumption
  <2>3. Len(text) \in Nat
    BY <1>1, <1>2, <1>3, TextIsShort
  <2>4. Len(body) > MaxBuffer - 2
    BY <1>5, <2>1, <2>2, <2>3
  <2>5. Warranted("invalid_stream")
    BY <2>4 DEF Warranted
  <2> QED
    BY <1>1, <1>5, <2>5, SettlesTruly
<1>6. CASE /\ rest' = SubSeq(rest, n + 1, Len(rest))
           /\ blocks' = Split(text).whole
           /\ buffer' = Split(text).open
           /\ last' = (n = 0)
           /\ UNCHANGED <<streaming, ending, key>>
  <2>1. Len(rest) \in Nat
    BY <1>1, LastOpen DEF StreamInv
  <2>2. CASE n = 0
    <3>1. rest = <<>> /\ text = Buffered(SubSeq(rest, 1, 0), TRUE) /\ last' = TRUE
      BY <1>3, <1>6, <2>2
    <3>2. rest' = SubSeq(rest, 1, Len(rest))
      BY <1>6, <2>2
    <3> QED
      BY <1>1, <1>2, <1>6, <3>1, <3>2, EndKeeps
  <2>3. CASE n # 0
    <3>1. n \in 1 .. Len(rest) /\ text = Buffered(SubSeq(rest, 1, n), FALSE) /\ last' = FALSE
      <4>1. (n = 0) = FALSE
        BY <2>3
      <4>2. n \in 1 .. Len(rest)
        BY <2>1, <2>3
      <4> QED
        BY <1>3, <1>6, <4>1, <4>2
    <3> QED
      BY <1>1, <1>2, <1>6, <3>1, PieceKeeps
  <2> QED
    BY <2>2, <2>3
<1> QED
  BY <1>3, <1>4, <1>5, <1>6

LEMMA BreakOffKeeps ==
  ASSUME StreamAssumption, StreamInv, BreakOff
  PROVE  StreamInv'
<1>1. /\ streaming # "settled" /\ Settle(Interrupted)
      /\ UNCHANGED <<bodiless, body, rest, events, aborted, cutOff>>
  BY DEF BreakOff
<1> QED
  BY <1>1, InterruptedTruly, SettlesTruly

LEMMA ConnectKeeps ==
  ASSUME StreamAssumption, StreamInv, Connect
  PROVE  StreamInv'
<1>1. /\ streaming = "waiting" /\ streaming # "settled"
      /\ UNCHANGED <<bodiless, body, rest, buffer, blocks, last, events, aborted, cutOff>>
  BY DEF Connect
<1>2. CASE Settle(Interrupted)
  BY <1>1, <1>2, InterruptedTruly, SettlesTruly
<1>3. ASSUME NEW status \in {401, 403, 408, 422, 429, 500},
             Settle(ErrorForStatus(status))
      PROVE  StreamInv'
  <2>1. ErrorForStatus(status) \in {"invalid_key", "quota_or_permission",
          "rate_limited", "timeout", "invalid_request", "upstream_error"}
    BY DEF ErrorForStatus
  <2>2. rest = body
    BY <1>1 DEF StreamInv
  <2>3. Warranted(ErrorForStatus(status))
    BY <2>1, <2>2 DEF Warranted
  <2> QED
    BY <1>1, <1>3, <2>3, SettlesTruly
<1>4. CASE /\ ~bodiless
           /\ streaming' = "reading" /\ UNCHANGED <<ending, key>>
  <2>1. Payloads' = Payloads
    BY <1>1 DEF Payloads
  <2>2. PICK t, seen : Accounted(t, seen)
    BY <1>1 DEF StreamInv
  <2>3. Accounted(t, seen)'
    BY <1>1, <2>1, <2>2 DEF Accounted
  <2> QED
    BY <1>1, <1>4, <2>3 DEF StreamInv
<1>5. CASE bodiless /\ Settle("invalid_stream")
  <2>1. Warranted("invalid_stream")
    BY <1>5 DEF Warranted
  <2> QED
    BY <1>1, <1>5, <2>1, SettlesTruly
<1> QED
  BY <1>2, <1>3, <1>4, <1>5 DEF Connect

LEMMA EndOfStreamKeeps ==
  ASSUME StreamAssumption, StreamInv, EndOfStream
  PROVE  StreamInv'
<1>1. /\ streaming = "reading" /\ streaming # "settled" /\ blocks = <<>> /\ last
      /\ Settle("incomplete_response")
      /\ UNCHANGED <<bodiless, body, rest, events, aborted, cutOff>>
  BY DEF EndOfStream
<1>2. PICK t, seen : Accounted(t, seen)
  BY <1>1 DEF StreamInv
<1>3. seen \o <<>> = seen
  BY <1>2, ConcatEmptySeq DEF Accounted
<1>4. rest = <<>> /\ Payloads = SaidBy(seen)
  BY <1>1, <1>2, <1>3 DEF Accounted
<1>5. "completed" \notin ToSet(Payloads)
  BY <1>2, <1>4 DEF Accounted, EndsCall
<1>6. Warranted("incomplete_response")
  BY <1>4, <1>5 DEF Warranted
<1> QED
  BY <1>1, <1>6, SettlesTruly

LEMMA SignalKeeps ==
  ASSUME StreamInv, streaming # "settled",
         UNCHANGED <<streaming, bodiless, body, rest, buffer, blocks, last, events, ending>>
  PROVE  StreamInv'
<1>1. Payloads' = Payloads
  BY DEF Payloads
<1>2. PICK t, seen : Accounted(t, seen)
  BY DEF StreamInv
<1>3. Accounted(t, seen)'
  BY <1>1, <1>2 DEF Accounted
<1> QED
  BY <1>3 DEF StreamInv

LEMMA BlockKeeps ==
  ASSUME StreamAssumption, StreamInv, Block
  PROVE  StreamInv'
<1>1. /\ streaming = "reading" /\ streaming # "settled" /\ blocks # <<>>
      /\ UNCHANGED <<bodiless, body, rest, buffer, last, aborted, cutOff>>
  BY DEF Block
<1>2. PICK t, seen : Accounted(t, seen)
  BY <1>1 DEF StreamInv
<1>3. PICK b, r, p : b = Head(blocks) /\ r = Tail(blocks) /\ p = Payload(b)
  OBVIOUS
<1>4. /\ b \in Texts /\ r \in Seq(Texts) /\ Append(seen, b) \in Seq(Texts)
      /\ seen \o blocks = Append(seen, b) \o r
  BY <1>1, <1>2, <1>3, BlockSaid
<1>5. p # "nothing" => \E v \in Seq(Tokens) : Payloads = SaidBy(seen) \o (<<p>> \o v)
  BY <1>1, <1>2, <1>3, BlockSaid
<1>6. Payloads' = Payloads
  BY <1>1 DEF Payloads
<1>7. CASE Settle(Interrupted) /\ UNCHANGED <<blocks, events>>
  BY <1>1, <1>7, InterruptedTruly, SettlesTruly
<1>8. CASE /\ blocks' = r
           /\ events' = IF p \in Reported THEN Append(events, p) ELSE events
           /\ CASE p = "completed" -> Settle("completed")
                [] p = "malformed" -> Settle("invalid_stream")
                [] p \in {"incomplete", "completed without usage"} ->
                     Settle("incomplete_response")
                [] p = "failed" -> Settle("upstream_error")
                [] OTHER -> UNCHANGED <<streaming, ending, key>>
  <2>1. PICK a : a = SaidBy(seen) /\ a \in Seq(Tokens) /\ p \in Tokens
    BY <1>2, <1>3, <1>4, SaidIn, PayloadIn DEF Accounted
  <2>2. /\ events = Only(a, Reported) /\ \A q \in ToSet(a) : q \notin EndsCall
        /\ seen \in Seq(Texts)
    BY <1>2, <2>1 DEF Accounted
  <2>3. CASE p \in EndsCall
    <3>1. p # "nothing" /\ p \notin Reported
      BY <2>3 DEF EndsCall, Reported
    <3>2. events' = events
      BY <1>8, <3>1
    <3>3. PICK v \in Seq(Tokens) : Payloads = a \o (<<p>> \o v)
      BY <1>5, <2>1, <3>1
    <3>4. PICK w : w = <<p>> \o v /\ w \in Seq(Tokens) /\ w # <<>> /\ w[1] = p
      <4>1. <<p>> \in Seq(Tokens) /\ Len(<<p>>) = 1 /\ <<p>>[1] = p
        BY <2>1
      <4>2. PICK n \in Nat : n = Len(v)
        BY LenProperties
      <4>3. <<p>> \o v \in Seq(Tokens) /\ Len(<<p>> \o v) = 1 + n
        BY <4>1, <4>2, ConcatProperties
      <4>4. \A i \in 1 .. 1 + n : (<<p>> \o v)[i] = IF i <= 1 THEN <<p>>[i] ELSE v[i - 1]
        BY <4>1, <4>2, ConcatProperties
      <4>5. 1 \in 1 .. 1 + n /\ 1 + n # 0
        BY <4>2
      <4>6. Len(<<>>) = 0
        BY EmptySeq
      <4>7. PICK w : w = <<p>> \o v
        OBVIOUS
      <4>8. w \in Seq(Tokens) /\ w[1] = <<p>>[1] /\ Len(w) # 0
        BY <4>2, <4>3, <4>4, <4>5, <4>7
      <4> QED
        BY <4>1, <4>6, <4>7, <4>8
    <3>5. Heard = Only(a, Reported)
      BY <2>1, <2>2, <2>3, <3>3, <3>4, HeardFrom
    <3>6. p \in ToSet(Payloads)
      <4>1. PICK m \in Nat, l \in Nat : m = Len(a) /\ l = Len(w) /\ l # 0
        BY <2>1, <3>4, LenProperties, EmptySeq
      <4>2. PICK P : P = a \o w
        OBVIOUS
      <4>3. /\ P \in Seq(Tokens) /\ Len(P) = m + l
            /\ \A i \in 1 .. m + l : P[i] = IF i <= m THEN a[i] ELSE w[i - m]
        BY <2>1, <3>4, <4>1, <4>2, ConcatProperties
      <4>4. m + 1 \in 1 .. m + l /\ ~(m + 1 <= m) /\ (m + 1) - m = 1
        BY <4>1
      <4>5. P[m + 1] = p /\ DOMAIN P = 1 .. m + l
        BY <3>4, <4>3, <4>4, LenProperties
      <4> QED
        BY <3>3, <3>4, <4>2, <4>4, <4>5 DEF ToSet
    <3>7. CASE p = "completed"
      <4>1. Settle("completed") /\ ~bodiless
        BY <1>1, <1>8, <3>7 DEF StreamInv
      <4>2. Warranted("completed")
        BY <2>2, <3>5, <3>6, <3>7, <4>1 DEF Warranted
      <4> QED
        BY <1>1, <3>2, <4>1, <4>2, SettlesTruly
    <3>8. CASE p = "malformed"
      <4>1. Settle("invalid_stream")
        BY <1>8, <3>8
      <4>2. Warranted("invalid_stream")
        BY <3>6, <3>8 DEF Warranted
      <4> QED
        BY <1>1, <3>2, <4>1, <4>2, SettlesTruly
    <3>9. CASE p \in {"incomplete", "completed without usage"}
      <4>1. Settle("incomplete_response")
        BY <1>8, <3>9
      <4>2. p \in EndsCall \ {"completed"}
        BY <2>3, <3>9
      <4>3. Warranted("incomplete_response")
        BY <3>6, <4>2 DEF Warranted
      <4> QED
        BY <1>1, <3>2, <4>1, <4>3, SettlesTruly
    <3>10. CASE p = "failed"
      <4>1. Settle("upstream_error")
        BY <1>8, <3>10
      <4>2. Warranted("upstream_error")
        BY DEF Warranted
      <4> QED
        BY <1>1, <3>2, <4>1, <4>2, SettlesTruly
    <3> QED
      BY <2>3, <3>7, <3>8, <3>9, <3>10 DEF EndsCall
  <2>4. CASE p \notin EndsCall
    <3>1. UNCHANGED <<streaming, ending, key>>
      BY <1>8, <2>4 DEF EndsCall
    <3>2. PICK d : d = Append(seen, b) /\ d \in Seq(Texts)
      BY <1>4
    <3>3. SaidBy(d) = IF p = "nothing" THEN a ELSE Append(a, p)
      BY <1>3, <1>4, <2>1, <2>2, <3>2, SaidAppends
    <3>4. Only(Append(a, p), Reported) =
            IF p \in Reported THEN Append(Only(a, Reported), p) ELSE Only(a, Reported)
      BY <2>1, OnlyAppends
    <3>5. "nothing" \notin Reported
      BY DEF Reported
    <3>6. events' = Only(SaidBy(d), Reported)
      BY <1>8, <2>2, <3>3, <3>4, <3>5
    <3>7. ToSet(Append(a, p)) = ToSet(a) \cup {p}
      BY <2>1, AppendedSet
    <3>8. \A q \in ToSet(SaidBy(d)) : q \notin EndsCall
      BY <2>2, <2>4, <3>3, <3>7
    <3>9. Accounted(t, d)'
      BY <1>1, <1>2, <1>4, <1>6, <1>8, <3>2, <3>6, <3>8 DEF Accounted
    <3> QED
      BY <1>1, <1>4, <1>8, <3>1, <3>9 DEF StreamInv
  <2> QED
    BY <2>3, <2>4
<1> QED
  BY <1>3, <1>7, <1>8 DEF Block

LEMMA StreamStarts ==
  ASSUME StreamAssumption, StreamInit
  PROVE  StreamInv
<1>1. /\ body \in Bodies /\ rest = body /\ streaming = "waiting" /\ blocks = <<>>
      /\ buffer = <<>> /\ last = FALSE /\ events = <<>> /\ ending = "none"
  BY DEF StreamInit
<1>2. body \in Texts /\ <<>> \in Seq(Texts) /\ <<>> \in Texts
  BY <1>1, BodyIn, EmptySeq, NoSplitIn
<1>3. <<>> \o body = body /\ <<>> \o <<>> = <<>>
  BY <1>2, ConcatEmptySeq DEF Texts
<1>4. Fed(<<>>) = [whole |-> <<>>, open |-> <<>>]
  BY FedNothing DEF NoSplit
<1>5. Only(SaidBy(<<>>), Reported) = <<>> /\ ToSet(SaidBy(<<>>)) = {}
  <2>1. ToSet(<<>>) = {}
    BY DEF ToSet
  <2> QED
    BY <2>1, SaidOfNothing, OnlyOfNothing
<1>6. Accounted(<<>>, <<>>)
  BY <1>1, <1>2, <1>3, <1>4, <1>5 DEF Accounted
<1> QED
  BY <1>1, <1>2, <1>6 DEF StreamInv

\* The invariant of a streamed call: what has arrived and what was looked at
\* account for the buffer, for the blocks and for all that the caller was told,
\* however the body was cut.  (ssePayloads, createResponse)
THEOREM StreamInvariant == StreamAssumption => (StreamSpec => []StreamInv)
<1> SUFFICES ASSUME StreamAssumption
             PROVE  StreamSpec => []StreamInv
  OBVIOUS
<1>1. StreamInit => StreamInv
  BY StreamStarts
<1>2. StreamInv /\ [StreamNext]_streamVars => StreamInv'
  <2> SUFFICES ASSUME StreamInv, [StreamNext]_streamVars
               PROVE  StreamInv'
    OBVIOUS
  <2>1. CASE Connect
    BY <2>1, ConnectKeeps
  <2>2. CASE Read
    BY <2>2, ReadKeeps
  <2>3. CASE BreakOff
    BY <2>3, BreakOffKeeps
  <2>4. CASE Block
    BY <2>4, BlockKeeps
  <2>5. CASE EndOfStream
    BY <2>5, EndOfStreamKeeps
  <2>6. CASE AbortStream
    BY <2>6, SignalKeeps DEF AbortStream
  <2>7. CASE StreamTimer
    BY <2>7, SignalKeeps DEF StreamTimer
  <2>8. CASE UNCHANGED streamVars
    BY <2>8 DEF streamVars, StreamInv, OutcomeIsTrue, Heard, Payloads, Accounted
  <2> QED
    BY <2>1, <2>2, <2>3, <2>4, <2>5, <2>6, <2>7, <2>8 DEF StreamNext
<1> QED
  BY <1>1, <1>2, PTL DEF StreamSpec

\* For any bodies in which no CR directly follows another, and however they are
\* cut: the caller is told the events of the body in their order and no other,
\* all of them when the call completes, and an error is what it says.
\* (ssePayloads, createResponse)
THEOREM OutcomesAreTrue == StreamAssumption => (StreamSpec => []OutcomeIsTrue)
<1> SUFFICES ASSUME StreamAssumption
             PROVE  StreamSpec => []OutcomeIsTrue
  OBVIOUS
<1>1. StreamInv => OutcomeIsTrue
  <2> SUFFICES ASSUME StreamInv
               PROVE  OutcomeIsTrue
    OBVIOUS
  <2>1. CASE streaming = "settled"
    BY <2>1 DEF StreamInv
  <2>2. CASE streaming # "settled"
    <3>1. ending = "none" /\ IsPrefix(events, Heard)
      BY <2>2, ToldIsPrefix DEF StreamInv
    <3> QED
      BY <3>1 DEF OutcomeIsTrue
  <2> QED
    BY <2>1, <2>2
<1> QED
  BY <1>1, StreamInvariant, PTL
=============================================================================
