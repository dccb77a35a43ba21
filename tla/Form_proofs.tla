------------------------------ MODULE Form_proofs ------------------------------
(***************************************************************************)
(* Machine-checked proofs about the planning form.                         *)
(*                                                                         *)
(* KeySession keeps KeysAreTried, for any set of keys and any number of    *)
(* calls under way.  KeysAreTried alone is not inductive: that an answer   *)
(* taken for the key in the field is about it follows only from what every *)
(* edit does to the checks of the open form, which KeyInv records.         *)
(*                                                                         *)
(* Requirements keeps ReadyUntilItStarts, for any forms and answers and    *)
(* however many days pass: what a form is found ready for holds of its     *)
(* brief on every day until the trip starts (ReadyStaysReady), and each    *)
(* round of questions leaves one round less (Rounds).                      *)
(*                                                                         *)
(* Skeleton keeps BookingsAreKept, for any briefs and whatever the model   *)
(* answers: the bookings of a day are what a filter leaves of the brief's, *)
(* and what a filter leaves is in FoldFacts.                               *)
(***************************************************************************)
EXTENDS KeySession, Requirements, Skeleton, FoldFacts, TLAPS

\* A call that holds the form's buttons.
Holds(c) ==
    /\ call[c].here
    /\ \/ call[c].kind = "start"
       \/ call[c].kind = "check" /\ call[c].live

\* What KeyInv says of a call.
CallOK(c) ==
    /\ call[c] \in CallRecords
    /\ call[c].kind = "start" => call[c].key \in tried
    /\ call[c].kind = "check" =>
         /\ call[c].live /\ call[c].here => call[c].key = field
         /\ call[c].answer = "ok" => call[c].key \in tried

\* What KeyInv says of the page.
PageOK ==
    /\ field \in Keys \cup {NoKey}
    /\ session \in Keys \cup {NoKey}
    /\ status = "connected" => field \in tried
    /\ session # NoKey => session \in tried

\* KeyInv, call by call.
LEMMA KeyInvParts ==
  KeyInv <=>
    /\ PageOK
    /\ busy => \E c \in Calls : Holds(c)
    /\ call = [c \in Calls |-> call[c]]
    /\ \A c \in Calls : CallOK(c)
<1>1. call \in [Calls -> CallRecords]
        <=> /\ call = [c \in Calls |-> call[c]]
            /\ \A c \in Calls : call[c] \in CallRecords
  OBVIOUS
<1> QED
  BY <1>1 DEF KeyInv, KeysAreTried, PageOK, Holds, CallOK

\* The same of the next state.
LEMMA KeyInvPartsNext ==
  KeyInv' <=>
    /\ PageOK'
    /\ busy' => \E c \in Calls : Holds(c)'
    /\ call' = [c \in Calls |-> call'[c]]
    /\ \A c \in Calls : CallOK(c)'
<1>1. call' \in [Calls -> CallRecords]
        <=> /\ call' = [c \in Calls |-> call'[c]]
            /\ \A c \in Calls : call'[c] \in CallRecords
  OBVIOUS
<1> QED
  BY <1>1 DEF KeyInv, KeysAreTried, PageOK, Holds, CallOK

LEMMA NoRequestOK == NoRequest \in CallRecords /\ NoRequest.kind = "none"
BY DEF NoRequest, CallRecords

-----------------------------------------------------------------------------
(* The initial state and the pages *)

LEMMA InitOK == KeyInit => KeyInv
<1> SUFFICES ASSUME KeyInit PROVE KeyInv
  OBVIOUS
<1>1. PageOK /\ ~busy
  BY DEF KeyInit, PageOK
<1>2. call = [c \in Calls |-> call[c]] /\ \A c \in Calls : CallOK(c)
  BY NoRequestOK DEF KeyInit, CallOK
<1> QED
  BY <1>1, <1>2, KeyInvParts

\* The page that is shown takes the remembered key, which was accepted.
LEMMA ShownOK ==
  ASSUME PageOK, NEW p, Shown(p), session' = session, tried' = tried
  PROVE  PageOK' /\ ~busy'
BY DEF PageOK, Shown

\* A call whose page is left is no longer about any field.
LEMMA LeftOK ==
  ASSUME NEW c \in Calls, CallOK(c), tried \subseteq tried',
         call'[c] = [call[c] EXCEPT !.here = FALSE]
  PROVE  CallOK(c)'
<1>1. /\ call'[c] \in CallRecords
      /\ ~call'[c].here
      /\ call'[c].kind = call[c].kind
      /\ call'[c].key = call[c].key
      /\ call'[c].answer = call[c].answer
  BY DEF CallOK, CallRecords
<1> QED
  BY <1>1 DEF CallOK

\* An edit outdates the checks of the open form.
LEMMA RevisedOK ==
  ASSUME NEW c \in Calls, CallOK(c), tried \subseteq tried',
         call'[c] = Revised[c]
  PROVE  CallOK(c)'
<1>1. /\ call'[c] \in CallRecords
      /\ ~(call'[c].here /\ call'[c].live)
      /\ call'[c].kind = call[c].kind
      /\ call'[c].key = call[c].key
      /\ call'[c].answer = call[c].answer
  BY DEF CallOK, CallRecords, Revised
<1> QED
  BY <1>1 DEF CallOK

\* A call that no step touches stays right while the field is kept and accepted
\* keys stay accepted.
LEMMA KeptOK ==
  ASSUME NEW c \in Calls, CallOK(c), tried \subseteq tried',
         field' = field, call'[c] = call[c]
  PROVE  CallOK(c)'
BY DEF CallOK

LEMMA GoneOK ==
  ASSUME NEW c \in Calls, call'[c] = NoRequest
  PROVE  CallOK(c)'
BY NoRequestOK DEF CallOK

LEMMA VisitOK ==
  ASSUME KeyInv, NEW p \in PageKinds, Visit(p)
  PROVE  KeyInv'
<1>1. PageOK' /\ ~busy'
  BY KeyInvParts, ShownOK DEF Visit
<1>2. call' = [c \in Calls |-> call'[c]]
  BY DEF Visit, Left
<1>3. \A c \in Calls : CallOK(c)'
  BY KeyInvParts, LeftOK DEF Visit, Left
<1> QED
  BY <1>1, <1>2, <1>3, KeyInvPartsNext

LEMMA ReloadOK ==
  ASSUME KeyInv, Reload
  PROVE  KeyInv'
<1>1. PageOK' /\ ~busy'
  BY KeyInvParts, ShownOK DEF Reload
<1>2. call' = [c \in Calls |-> call'[c]] /\ \A c \in Calls : CallOK(c)'
  BY GoneOK DEF Reload
<1> QED
  BY <1>1, <1>2, KeyInvPartsNext

LEMMA TypeOK ==
  ASSUME KeyInv, NEW k \in Keys \cup {NoKey}, Type(k)
  PROVE  KeyInv'
<1>1. PageOK' /\ ~busy'
  BY DEF Type, PageOK
<1>2. call' = [c \in Calls |-> call'[c]]
  BY DEF Type, Revised
<1>3. \A c \in Calls : CallOK(c)'
  BY KeyInvParts, RevisedOK DEF Type
<1> QED
  BY <1>1, <1>2, <1>3, KeyInvPartsNext

-----------------------------------------------------------------------------
(* Validation *)

\* What Called leaves of the calls.
LEMMA CalledCalls ==
  ASSUME NEW c \in Calls, NEW kind, NEW others,
         others = [d \in Calls |-> others[d]], Called(c, kind, others)
  PROVE  /\ call' = [d \in Calls |-> call'[d]]
         /\ call'[c] = [kind |-> kind, key |-> field, live |-> TRUE,
                        here |-> TRUE, answer |-> "none"]
         /\ \A d \in Calls \ {c} : call'[d] = others[d]
BY DEF Called

\* A new check is about the key in the field and holds the buttons; it outdates
\* the earlier ones.
LEMMA ValidateOK ==
  ASSUME KeyInv, NEW c \in Calls, Validate(c)
  PROVE  KeyInv'
<1>1. /\ PageOK
      /\ \A d \in Calls : CallOK(d)
  BY KeyInvParts
<1>2. PageOK'
  BY <1>1 DEF Validate, PageOK
<1>3. /\ call' = [d \in Calls |-> call'[d]]
      /\ call'[c] = [kind |-> "check", key |-> field, live |-> TRUE,
                     here |-> TRUE, answer |-> "none"]
      /\ \A d \in Calls \ {c} : call'[d] = Revised[d]
  <2>1. Revised = [d \in Calls |-> Revised[d]]
    BY DEF Revised
  <2> QED
    BY <2>1, CalledCalls DEF Validate
<1>4. Holds(c)'
  BY <1>3 DEF Holds
<1>5. CallOK(c)'
  BY <1>1, <1>3 DEF Validate, CallOK, CallRecords, PageOK
<1>6. \A d \in Calls \ {c} : CallOK(d)'
  BY <1>1, <1>3, RevisedOK DEF Validate
<1> QED
  BY <1>2, <1>3, <1>4, <1>5, <1>6, KeyInvPartsNext

\* An answer of the server: well only for a key it has accepted.
LEMMA CheckOK ==
  ASSUME KeyInv, NEW c \in Calls, Check(c)
  PROVE  KeyInv'
<1>1. /\ PageOK
      /\ busy => \E d \in Calls : Holds(d)
      /\ call = [d \in Calls |-> call[d]]
      /\ \A d \in Calls : CallOK(d)
  BY KeyInvParts
<1>2. PageOK' /\ tried \subseteq tried'
  BY <1>1 DEF Check, PageOK
<1>3. PICK answer \in {"ok", "failed"} :
        /\ call' = [call EXCEPT ![c].answer = answer]
        /\ answer = "ok" => call[c].key \in tried'
  BY DEF Check
<1>4. /\ call' = [d \in Calls |-> call'[d]]
      /\ \A d \in Calls \ {c} : call'[d] = call[d]
      /\ call'[c] = [call[c] EXCEPT !.answer = answer]
  BY <1>1, <1>3
<1>5. /\ call'[c] \in CallRecords
      /\ call'[c].kind = call[c].kind /\ call'[c].key = call[c].key
      /\ call'[c].live = call[c].live /\ call'[c].here = call[c].here
      /\ call'[c].answer = answer
  BY <1>1, <1>4 DEF CallOK, CallRecords
<1>6. CallOK(c)'
  BY <1>1, <1>2, <1>3, <1>5 DEF CallOK, Check
<1>7. \A d \in Calls \ {c} : CallOK(d)'
  BY <1>1, <1>2, <1>4, KeptOK DEF Check
<1>8. busy' => \E d \in Calls : Holds(d)'
  <2>1. \A d \in Calls : Holds(d) => Holds(d)'
    BY <1>4, <1>5 DEF Holds
  <2> QED
    BY <1>1, <2>1 DEF Check
<1> QED
  BY <1>2, <1>4, <1>6, <1>7, <1>8, KeyInvPartsNext

\* What is remembered was accepted.
LEMMA RememberOK ==
  ASSUME NEW k \in Keys \cup {NoKey}, Remember(k)
  PROVE  session' \in {k, session}
BY DEF Remember

\* The form takes an answer only for the key in its field, and then it holds no
\* button any more; an answer it does not take was not what held them.
LEMMA CheckedOK ==
  ASSUME KeyInv, NEW c \in Calls, NEW ok \in BOOLEAN, Checked(c, ok)
  PROVE  KeyInv'
<1>1. /\ PageOK
      /\ busy => \E d \in Calls : Holds(d)
      /\ call = [d \in Calls |-> call[d]]
      /\ \A d \in Calls : CallOK(d)
  BY KeyInvParts
<1>2. /\ call[c].kind = "check"
      /\ field' = field /\ tried' = tried
      /\ ok => call[c].key \in tried
      /\ call[c].key \in Keys \cup {NoKey}
  BY <1>1 DEF Checked, CallOK, CallRecords
<1>3. /\ call' = [d \in Calls |-> call'[d]]
      /\ call'[c] = NoRequest
      /\ \A d \in Calls \ {c} : call'[d] = call[d]
  BY <1>1 DEF Checked
<1>4. \A d \in Calls : CallOK(d)'
  BY <1>1, <1>2, <1>3, KeptOK, GoneOK
<1>5. PageOK'
  <2>1. session' \in Keys \cup {NoKey} /\ (session' # NoKey => session' \in tried)
    <3>1. CASE Taken(c) /\ ok
      BY <3>1, <1>1, <1>2, RememberOK DEF Checked, PageOK
    <3>2. CASE ~(Taken(c) /\ ok)
      BY <3>2, <1>1 DEF Checked, PageOK
    <3> QED
      BY <3>1, <3>2
  <2>2. status' = "connected" => field \in tried
    <3>1. CASE Taken(c) /\ call[c].here
      <4>1. call[c].key = field
        BY <3>1, <1>1, <1>2 DEF CallOK, Taken
      <4> QED
        BY <3>1, <4>1, <1>2 DEF Checked
    <3>2. CASE ~(Taken(c) /\ call[c].here)
      BY <3>2, <1>1 DEF Checked, PageOK
    <3> QED
      BY <3>1, <3>2
  <2> QED
    BY <1>1, <1>2, <2>1, <2>2 DEF PageOK
<1>6. busy' => \E d \in Calls : Holds(d)'
  <2>1. CASE Taken(c) /\ call[c].here
    BY <2>1 DEF Checked
  <2>2. CASE ~(Taken(c) /\ call[c].here)
    <3>1. ~Holds(c) /\ (busy' <=> busy)
      BY <2>2, <1>2 DEF Checked, Holds, Taken
    <3>2. \A d \in Calls \ {c} : Holds(d) => Holds(d)'
      BY <1>3 DEF Holds
    <3> QED
      BY <3>1, <3>2, <1>1
  <2> QED
    BY <2>1, <2>2
<1> QED
  BY <1>3, <1>4, <1>5, <1>6, KeyInvPartsNext

-----------------------------------------------------------------------------
(* Jobs *)

\* A job is started with the key the form calls connected.
LEMMA StartOK ==
  ASSUME KeyInv, NEW c \in Calls, Start(c)
  PROVE  KeyInv'
<1>1. /\ PageOK
      /\ call = [d \in Calls |-> call[d]]
      /\ \A d \in Calls : CallOK(d)
  BY KeyInvParts
<1>2. PageOK'
  BY <1>1 DEF Start, PageOK
<1>3. /\ call' = [d \in Calls |-> call'[d]]
      /\ call'[c] = [kind |-> "start", key |-> field, live |-> TRUE,
                     here |-> TRUE, answer |-> "none"]
      /\ \A d \in Calls \ {c} : call'[d] = call[d]
  BY <1>1, CalledCalls DEF Start
<1>4. Holds(c)'
  BY <1>3 DEF Holds
<1>5. CallOK(c)'
  BY <1>1, <1>3 DEF Start, CallOK, CallRecords, PageOK
<1>6. \A d \in Calls \ {c} : CallOK(d)'
  BY <1>1, <1>3, KeptOK DEF Start
<1> QED
  BY <1>2, <1>3, <1>4, <1>5, <1>6, KeyInvPartsNext

LEMMA StartedOK ==
  ASSUME KeyInv, NEW c \in Calls, Started(c)
  PROVE  KeyInv'
<1>1. PageOK' /\ ~busy'
  BY KeyInvParts, ShownOK DEF Started
<1>2. /\ call' = [d \in Calls |-> call'[d]]
      /\ call'[c] = NoRequest
      /\ \A d \in Calls \ {c} : call'[d] = [call[d] EXCEPT !.here = FALSE]
  BY DEF Started, Left
<1>3. \A d \in Calls : CallOK(d)'
  BY <1>2, KeyInvParts, LeftOK, GoneOK DEF Started
<1> QED
  BY <1>1, <1>2, <1>3, KeyInvPartsNext

LEMMA NotStartedOK ==
  ASSUME KeyInv, NEW c \in Calls, NotStarted(c)
  PROVE  KeyInv'
<1>1. /\ PageOK
      /\ busy => \E d \in Calls : Holds(d)
      /\ call = [d \in Calls |-> call[d]]
      /\ \A d \in Calls : CallOK(d)
  BY KeyInvParts
<1>2. PageOK'
  BY <1>1 DEF NotStarted, PageOK
<1>3. /\ call' = [d \in Calls |-> call'[d]]
      /\ call'[c] = NoRequest
      /\ \A d \in Calls \ {c} : call'[d] = call[d]
  BY <1>1 DEF NotStarted
<1>4. \A d \in Calls : CallOK(d)'
  BY <1>1, <1>3, KeptOK, GoneOK DEF NotStarted
<1>5. busy' => \E d \in Calls : Holds(d)'
  <2> SUFFICES ASSUME busy' PROVE \E d \in Calls : Holds(d)'
    OBVIOUS
  <2>1. busy /\ ~Holds(c)
    BY DEF NotStarted, Holds
  <2>2. \A d \in Calls \ {c} : Holds(d) => Holds(d)'
    BY <1>3 DEF Holds
  <2> QED
    BY <2>1, <2>2, <1>1
<1> QED
  BY <1>2, <1>3, <1>4, <1>5, KeyInvPartsNext

\* A key handed to the server by another page is remembered once it is taken.
LEMMA HandOK ==
  ASSUME KeyInv, NEW c \in Calls, Hand(c)
  PROVE  KeyInv'
<1>1. /\ PageOK
      /\ busy => \E d \in Calls : Holds(d)
      /\ call = [d \in Calls |-> call[d]]
      /\ \A d \in Calls : CallOK(d)
  BY KeyInvParts
<1>2. PageOK'
  BY <1>1 DEF Hand, PageOK
<1>3. /\ call' = [d \in Calls |-> call'[d]]
      /\ call'[c] = [kind |-> page, key |-> field, live |-> TRUE,
                     here |-> TRUE, answer |-> "none"]
      /\ \A d \in Calls \ {c} : call'[d] = call[d]
  BY <1>1, CalledCalls DEF Hand
<1>4. CallOK(c)'
  BY <1>1, <1>3 DEF Hand, CallOK, CallRecords, PageOK
<1>5. \A d \in Calls \ {c} : CallOK(d)'
  BY <1>1, <1>3, KeptOK DEF Hand
<1>6. busy' => \E d \in Calls : Holds(d)'
  <2>1. ~Holds(c)
    BY NoRequestOK DEF Hand, Called, Holds
  <2>2. \A d \in Calls \ {c} : Holds(d) => Holds(d)'
    BY <1>3 DEF Holds
  <2> QED
    BY <2>1, <2>2, <1>1 DEF Hand
<1> QED
  BY <1>2, <1>3, <1>4, <1>5, <1>6, KeyInvPartsNext

LEMMA HandedOK ==
  ASSUME KeyInv, NEW c \in Calls, Handed(c)
  PROVE  KeyInv'
<1>1. /\ PageOK
      /\ busy => \E d \in Calls : Holds(d)
      /\ call = [d \in Calls |-> call[d]]
      /\ \A d \in Calls : CallOK(d)
  BY KeyInvParts
<1>2. /\ session' \in {call[c].key, session}
      /\ session' \in Keys \cup {NoKey}
      /\ call[c].key \in tried' /\ tried \subseteq tried'
  BY <1>1, RememberOK DEF Handed, CallOK, CallRecords, PageOK
<1>3. ~Holds(c)
  BY DEF Handed, Holds
<1>4. CASE call[c].kind = "job"
  <2>1. /\ call' = [d \in Calls |-> call'[d]]
        /\ call'[c] = NoRequest
        /\ \A d \in Calls \ {c} : call'[d] = call[d]
    BY <1>1, <1>4 DEF Handed
  <2>2. PageOK'
    BY <1>1, <1>2, <1>4 DEF Handed, PageOK
  <2>3. \A d \in Calls : CallOK(d)'
    BY <1>1, <1>2, <1>4, <2>1, KeptOK, GoneOK DEF Handed
  <2>4. busy' => \E d \in Calls : Holds(d)'
    <3>1. \A d \in Calls \ {c} : Holds(d) => Holds(d)'
      BY <2>1 DEF Holds
    <3> QED
      BY <3>1, <1>1, <1>3, <1>4 DEF Handed
  <2> QED
    BY <2>1, <2>2, <2>3, <2>4, KeyInvPartsNext
<1>5. CASE call[c].kind = "trip"
  <2>1. /\ call' = [d \in Calls |-> call'[d]]
        /\ call'[c] = NoRequest
        /\ \A d \in Calls \ {c} : call'[d] = [call[d] EXCEPT !.here = FALSE]
    BY <1>5 DEF Handed, Left
  <2>2. PageOK' /\ ~busy'
    BY <1>1, <1>2, <1>5 DEF Handed, PageOK
  <2>3. \A d \in Calls : CallOK(d)'
    BY <1>1, <1>2, <2>1, LeftOK, GoneOK
  <2> QED
    BY <2>1, <2>2, <2>3, KeyInvPartsNext
<1> QED
  BY <1>4, <1>5 DEF Handed

LEMMA NotHandedOK ==
  ASSUME KeyInv, NEW c \in Calls, NotHanded(c)
  PROVE  KeyInv'
<1>1. /\ PageOK
      /\ busy => \E d \in Calls : Holds(d)
      /\ call = [d \in Calls |-> call[d]]
      /\ \A d \in Calls : CallOK(d)
  BY KeyInvParts
<1>2. PageOK'
  BY <1>1 DEF NotHanded, PageOK
<1>3. /\ call' = [d \in Calls |-> call'[d]]
      /\ call'[c] = NoRequest
      /\ \A d \in Calls \ {c} : call'[d] = call[d]
  BY <1>1 DEF NotHanded
<1>4. \A d \in Calls : CallOK(d)'
  BY <1>1, <1>3, KeptOK, GoneOK DEF NotHanded
<1>5. busy' => \E d \in Calls : Holds(d)'
  <2>1. ~Holds(c)
    BY DEF NotHanded, Holds
  <2>2. \A d \in Calls \ {c} : Holds(d) => Holds(d)'
    BY <1>3 DEF Holds
  <2> QED
    BY <2>1, <2>2, <1>1 DEF NotHanded
<1> QED
  BY <1>2, <1>3, <1>4, <1>5, KeyInvPartsNext

-----------------------------------------------------------------------------
LEMMA StepOK == KeyInv /\ [KeyNext]_keyVars => KeyInv'
<1> SUFFICES ASSUME KeyInv, [KeyNext]_keyVars PROVE KeyInv'
  OBVIOUS
<1>1. CASE \E p \in PageKinds : Visit(p)
  BY <1>1, VisitOK
<1>2. CASE Reload
  BY <1>2, ReloadOK
<1>3. CASE \E k \in Keys \cup {NoKey} : Type(k)
  BY <1>3, TypeOK
<1>4. CASE \E c \in Calls : Validate(c) \/ Check(c)
                            \/ \E ok \in BOOLEAN : Checked(c, ok)
  BY <1>4, ValidateOK, CheckOK, CheckedOK
<1>5. CASE \E c \in Calls : Start(c) \/ Started(c) \/ NotStarted(c)
  BY <1>5, StartOK, StartedOK, NotStartedOK
<1>6. CASE \E c \in Calls : Hand(c) \/ Handed(c) \/ NotHanded(c)
  BY <1>6, HandOK, HandedOK, NotHandedOK
<1>7. CASE UNCHANGED keyVars
  <2>1. /\ PageOK' <=> PageOK
        /\ \A c \in Calls : (CallOK(c)' <=> CallOK(c)) /\ (Holds(c)' <=> Holds(c))
        /\ (busy' <=> busy) /\ call' = call
    BY <1>7 DEF keyVars, PageOK, CallOK, Holds
  <2> QED
    BY <2>1, KeyInvParts, KeyInvPartsNext
<1> QED
  BY <1>1, <1>2, <1>3, <1>4, <1>5, <1>6, <1>7 DEF KeyNext

\* The inductive invariant of a tab's key, with its pages, calls and answers in
\* any order.
THEOREM KeyInvariant == KeySpec => []KeyInv
BY InitOK, StepOK, PTL DEF KeySpec

\* The form never calls a key connected, starts a job with one or has one
\* remembered that the server has not accepted, and is never left busy for
\* nothing (validateKey, start, rememberDeepSeekSession).
THEOREM OnlyTriedKeys == KeySpec => []KeysAreTried
<1>1. KeyInv => KeysAreTried
  BY DEF KeyInv
<1> QED
  BY <1>1, KeyInvariant, PTL

-----------------------------------------------------------------------------
(* The questions *)

\* What is asked with fewer than five questions before it is asked at once.
LEMMA FirstFiveAreAsked ==
  ASSUME NEW v
  PROVE  /\ Questions(v) \ FirstFive(Questions(v))
              \subseteq {"hardConstraints", "preferences"}
         /\ Questions(v) \subseteq {"hardConstraints", "preferences"} =>
              Questions(v) \ FirstFive(Questions(v)) = {}
<1> DEFINE Q == Questions(v)
           Four == {"origin", "dates", "party", "budget"}
<1>1. Q \subseteq DOMAIN Turn
  BY DEF Questions, Turn
<1>2. ASSUME NEW S, NEW T, S \subseteq T, IsFiniteSet(T), Cardinality(T) < 5
      PROVE  Cardinality(S) < 5
  BY <1>2, FS_Subset, FS_CardinalityType
<1>3. IsFiniteSet(Four) /\ Cardinality(Four) < 5
  <2>1. IsFiniteSet({"origin"}) /\ Cardinality({"origin"}) = 1
    BY FS_Singleton
  <2>2. /\ IsFiniteSet({"origin"} \cup {"dates"})
        /\ Cardinality({"origin"} \cup {"dates"}) = 2
    BY <2>1, FS_AddElement
  <2>3. /\ IsFiniteSet(({"origin"} \cup {"dates"}) \cup {"party"})
        /\ Cardinality(({"origin"} \cup {"dates"}) \cup {"party"}) = 3
    BY <2>2, FS_AddElement
  <2>4. /\ IsFiniteSet((({"origin"} \cup {"dates"}) \cup {"party"})
                         \cup {"budget"})
        /\ Cardinality((({"origin"} \cup {"dates"}) \cup {"party"})
                         \cup {"budget"}) = 4
    BY <2>3, FS_AddElement
  <2>5. Four = (({"origin"} \cup {"dates"}) \cup {"party"}) \cup {"budget"}
    OBVIOUS
  <2> QED
    BY <2>4, <2>5
<1>4. IsFiniteSet({"hardConstraints"}) /\ Cardinality({"hardConstraints"}) < 5
  <2>1. /\ IsFiniteSet({"hardConstraints"})
        /\ Cardinality({"hardConstraints"}) = 1
    BY FS_Singleton
  <2> QED
    BY <2>1
<1>5. ASSUME NEW f \in Q, f \notin {"hardConstraints", "preferences"}
      PROVE  f \in FirstFive(Q)
  <2>1. Earlier(f, Q) \subseteq Four
    BY <1>1, <1>5 DEF Earlier, Turn
  <2> HIDE DEF Q, Four
  <2> QED
    BY <1>2, <1>3, <1>5, <2>1 DEF FirstFive
<1>6. ASSUME NEW f \in Q, Q \subseteq {"hardConstraints", "preferences"}
      PROVE  f \in FirstFive(Q)
  <2>1. Earlier(f, Q) \subseteq {"hardConstraints"}
    BY <1>6 DEF Earlier, Turn
  <2> HIDE DEF Q
  <2> QED
    BY <1>2, <1>4, <1>6, <2>1 DEF FirstFive
<1> QED
  BY <1>5, <1>6

\* An answer settles its own question and opens no other.
LEMMA OneQuestionLess ==
  ASSUME NEW v, WellFormedInput(v), NEW f, NEW value, NEW w,
         f = "dates" => value \in FieldAnswers["dates"],
         f = "party" => value \in FieldAnswers["party"],
         w = Given(v, f, value)
  PROVE  /\ WellFormedInput(w)
         /\ Questions(w) \subseteq Questions(v) \ {f}
         /\ f = "destination" => w.cities # <<>>
         /\ f # "destination" => w.cities = v.cities
<1>0. /\ DOMAIN v = {"sensitive", "origin", "cities", "candidates", "start",
                      "end", "days", "party", "budget", "answered", "dayTrips"}
      /\ v.dayTrips \in Seq(Int)
  BY DEF WellFormedInput
<1>1. CASE f = "destination"
  <2>1. w = [v EXCEPT !.cities = <<value>>]
    BY <1>1 DEF Given
  <2>2. /\ DOMAIN w = DOMAIN v /\ w.cities # <<>>
        /\ w.origin = v.origin /\ w.start = v.start /\ w.end = v.end
        /\ w.days = v.days /\ w.party = v.party /\ w.budget = v.budget
        /\ w.answered = v.answered /\ w.dayTrips = v.dayTrips
    BY <1>0, <2>1
  <2>3. WellFormedInput(w)
    BY <2>2 DEF WellFormedInput
  <2>4. Questions(w) = Questions(v) /\ f \notin Questions(v)
    BY <1>1, <2>2 DEF Questions, endDate
  <2> QED
    BY <1>1, <2>2, <2>3, <2>4
<1>2. CASE f = "dates"
  <2>1. w = [v EXCEPT !.start = <<value.start>>, !.end = value.end,
                      !.days = value.days]
    BY <1>2 DEF Given
  <2>2. /\ value.start \in Int
        /\ OneOrNone(value.end, Int) /\ OneOrNone(value.days, Int)
        /\ value.end # <<>> \/ value.days # <<>>
    BY <1>2, FormAssumption
  <2>3. OneOrNone(<<value.start>>, Int)
    BY <2>2 DEF OneOrNone
  <2>4. /\ DOMAIN w = DOMAIN v /\ w.cities = v.cities
        /\ w.origin = v.origin /\ w.start = <<value.start>>
        /\ w.end = value.end /\ w.days = value.days
        /\ w.party = v.party /\ w.budget = v.budget
        /\ w.answered = v.answered /\ w.dayTrips = v.dayTrips
    BY <1>0, <2>1
  <2>5. WellFormedInput(w)
    BY <2>2, <2>3, <2>4 DEF WellFormedInput
  <2>6. w.start # <<>> /\ endDate(w) # <<>>
    BY <2>2, <2>4 DEF endDate
  <2> QED
    BY <1>2, <2>4, <2>5, <2>6 DEF Questions
<1>3. CASE f = "party"
  <2>1. w = [v EXCEPT !.party = <<value>>]
    BY <1>3 DEF Given
  <2>2. OneOrNone(<<value>>, Parties)
    BY <1>3, FormAssumption DEF OneOrNone
  <2>3. /\ DOMAIN w = DOMAIN v /\ w.cities = v.cities
        /\ w.origin = v.origin /\ w.start = v.start /\ w.end = v.end
        /\ w.days = v.days /\ w.party = <<value>> /\ w.budget = v.budget
        /\ w.answered = v.answered /\ w.dayTrips = v.dayTrips
    BY <1>0, <2>1
  <2>4. WellFormedInput(w)
    BY <2>2, <2>3 DEF WellFormedInput
  <2>5. endDate(w) = endDate(v) /\ w.party # <<>>
    BY <2>3 DEF endDate
  <2>6. Questions(w) \subseteq Questions(v) \ {f}
    BY <1>3, <2>3, <2>5 DEF Questions
  <2> QED
    BY <1>3, <2>3, <2>4, <2>6
<1>4. CASE f = "origin"
  <2>1. w = [v EXCEPT !.origin = <<value>>]
    BY <1>4 DEF Given
  <2>2. /\ DOMAIN w = DOMAIN v /\ w.cities = v.cities
        /\ w.origin # <<>> /\ w.start = v.start /\ w.end = v.end
        /\ w.days = v.days /\ w.party = v.party /\ w.budget = v.budget
        /\ w.answered = v.answered /\ w.dayTrips = v.dayTrips
    BY <1>0, <2>1
  <2>3. WellFormedInput(w)
    BY <2>2 DEF WellFormedInput
  <2>4. endDate(w) = endDate(v)
    BY <2>2 DEF endDate
  <2>5. Questions(w) \subseteq Questions(v) \ {f}
    BY <1>4, <2>2, <2>4 DEF Questions
  <2> QED
    BY <1>4, <2>2, <2>3, <2>5
<1>5. CASE f = "budget"
  <2>1. w = [v EXCEPT !.budget = <<value>>]
    BY <1>5 DEF Given
  <2>2. /\ DOMAIN w = DOMAIN v /\ w.cities = v.cities
        /\ w.origin = v.origin /\ w.start = v.start /\ w.end = v.end
        /\ w.days = v.days /\ w.party = v.party /\ w.budget # <<>>
        /\ w.answered = v.answered /\ w.dayTrips = v.dayTrips
    BY <1>0, <2>1
  <2>3. WellFormedInput(w)
    BY <2>2 DEF WellFormedInput
  <2>4. endDate(w) = endDate(v)
    BY <2>2 DEF endDate
  <2>5. Questions(w) \subseteq Questions(v) \ {f}
    BY <1>5, <2>2, <2>4 DEF Questions
  <2> QED
    BY <1>5, <2>2, <2>3, <2>5
<1>6. CASE f \notin {"destination", "origin", "dates", "party", "budget"}
  <2>1. w = [v EXCEPT !.answered = v.answered \cup {f}]
    BY <1>6 DEF Given
  <2>2. /\ DOMAIN w = DOMAIN v /\ w.cities = v.cities
        /\ w.origin = v.origin /\ w.start = v.start /\ w.end = v.end
        /\ w.days = v.days /\ w.party = v.party /\ w.budget = v.budget
        /\ w.answered = v.answered \cup {f} /\ w.dayTrips = v.dayTrips
    BY <1>0, <2>1
  <2>3. WellFormedInput(w)
    BY <2>2 DEF WellFormedInput
  <2> QED
    BY <1>6, <2>2, <2>3 DEF Questions, endDate
<1> QED
  BY <1>1, <1>2, <1>3, <1>4, <1>5, <1>6

-----------------------------------------------------------------------------
(* What is ready today *)

LEMMA ReadyMeans ==
  ASSUME NEW v, NEW day, checkRequirements(v, day).state = "ready"
  PROVE  /\ ~v.sensitive /\ ValidInput(v)
         /\ v.cities # <<>> /\ Contains(SupportedCities, v.cities[1])
         /\ ~(Len(v.dayTrips) > 1 \/ \E m \in ToSet(v.dayTrips) : m > 120)
         /\ Questions(v) = {} /\ FormIssues(v, day) = {}
<1> DEFINE
      far == Len(v.dayTrips) > 1 \/ \E m \in ToSet(v.dayTrips) : m > 120
      here == Contains(SupportedCities, v.cities[1])
      valid == ValidInput(v)
      many == Len(v.cities) > 1
      open == Questions(v)
      wrong == FormIssues(v, day)
<1>1. checkRequirements(v, day).state =
        IF v.sensitive THEN "rejected"
        ELSE IF ~valid THEN "needs_clarification"
        ELSE IF many THEN "out_of_scope"
        ELSE IF v.cities = <<>> THEN "destination_options"
        ELSE IF ~here THEN "out_of_scope"
        ELSE IF far THEN "out_of_scope"
        ELSE IF open # {} THEN "needs_clarification"
        ELSE IF wrong # {} THEN "out_of_scope" ELSE "ready"
  BY DEF checkRequirements, Stops
<1> HIDE DEF far, here, valid, many, open, wrong
<1>2. ~v.sensitive /\ valid /\ v.cities # <<>> /\ here /\ ~far
      /\ open = {} /\ wrong = {}
  BY <1>1
<1> QED
  BY <1>2 DEF far, here, valid, open, wrong

LEMMA MeansReady ==
  ASSUME NEW v, NEW day,
         ~v.sensitive, ValidInput(v), ~(Len(v.cities) > 1), v.cities # <<>>,
         Contains(SupportedCities, v.cities[1]),
         ~(Len(v.dayTrips) > 1 \/ \E m \in ToSet(v.dayTrips) : m > 120),
         Questions(v) = {}, FormIssues(v, day) = {}
  PROVE  checkRequirements(v, day).state = "ready"
BY DEF checkRequirements, Stops

LEMMA NoneOrOnce ==
  /\ ToSet(<<>>) = {}
  /\ \A e : ToSet(<<e>>) = {e}
<1>1. ToSet(<<>>) = {}
  BY DEF ToSet
<1>2. ASSUME NEW e
      PROVE  ToSet(<<e>>) = {e}
  <2>1. DOMAIN <<e>> = {1} /\ <<e>>[1] = e
    OBVIOUS
  <2> QED
    BY <2>1 DEF ToSet
<1> QED
  BY <1>1, <1>2

\* What a ready form holds.
LEMMA ReadyParts ==
  ASSUME NEW v, WellFormedInput(v), NEW day \in Int,
         checkRequirements(v, day).state = "ready"
  PROVE  /\ v.origin # <<>> /\ v.budget # <<>>
         /\ v.start[1] \in Int /\ endDate(v)[1] \in Int
         /\ v.party[1] \in Parties /\ PartyParses(v.party[1])
         /\ endDate(v)[1] - v.start[1] + 1 \in 3 .. 5
         /\ v.start[1] >= day /\ endDate(v)[1] <= day + Year
         /\ v.dayTrips \in Seq(Int) /\ Len(v.dayTrips) <= 1
         /\ \A m \in ToSet(v.dayTrips) : m <= 120
         /\ Contains(SupportedCities, v.cities[1])
<1> DEFINE from == v.start[1]
           to == endDate(v)[1]
           p == v.party[1]
<1>1. /\ ValidInput(v) /\ Contains(SupportedCities, v.cities[1])
      /\ ~(Len(v.dayTrips) > 1 \/ \E m \in ToSet(v.dayTrips) : m > 120)
      /\ Questions(v) = {} /\ FormIssues(v, day) = {}
  BY ReadyMeans
<1>2. /\ v.origin # <<>> /\ v.start # <<>> /\ endDate(v) # <<>>
      /\ v.party # <<>> /\ v.budget # <<>>
  BY <1>1 DEF Questions
<1>3. /\ from \in Int /\ p \in Parties /\ v.party = <<p>>
      /\ v.dayTrips \in Seq(Int)
  BY <1>2 DEF WellFormedInput, OneOrNone
<1>4. to \in Int
  <2>1. CASE v.end = <<>>
    <3>1. v.days # <<>> /\ endDate(v) = <<v.start[1] + v.days[1] - 1>>
      BY <1>2, <2>1 DEF endDate
    <3>2. v.days[1] \in Int
      BY <3>1 DEF WellFormedInput, OneOrNone
    <3> QED
      BY <1>3, <3>1, <3>2
  <2>2. CASE v.end # <<>>
    <3>1. endDate(v) = v.end
      BY <2>2 DEF endDate
    <3> QED
      BY <2>2, <3>1 DEF WellFormedInput, OneOrNone
  <2> QED
    BY <2>1, <2>2
<1>5. /\ p.adults \in 0 .. 20 /\ p.children \in 0 .. 20
      /\ p.seniors \in 0 .. 20
  BY <1>1, <1>3, NoneOrOnce DEF ValidInput
<1>6. /\ to - from + 1 \in 3 .. 5 /\ ~(from < day \/ to > day + Year)
      /\ ~(p.adults < 1 \/ p.adults + p.children + p.seniors > 6)
  BY <1>1 DEF FormIssues
<1>7. PartyParses(p)
  BY <1>5, <1>6, SMTT(30) DEF PartyParses
<1>8. from >= day /\ to <= day + Year
  BY <1>3, <1>4, <1>6, FormAssumption
<1>9. Len(v.dayTrips) <= 1 /\ \A m \in ToSet(v.dayTrips) : m <= 120
  <2>1. ToSet(v.dayTrips) \subseteq Int /\ Len(v.dayTrips) \in Nat
    BY <1>3 DEF ToSet
  <2> QED
    BY <1>1, <2>1
<1> QED
  BY <1>1, <1>2, <1>3, <1>4, <1>6, <1>7, <1>8, <1>9

\* The brief of a ready form parses, and is its own brief.
LEMMA BriefOfReady ==
  ASSUME NEW v, WellFormedInput(v), NEW day \in Int,
         checkRequirements(v, day).state = "ready"
  PROVE  /\ BriefParses(BriefOf(v))
         /\ BriefOf(AsInput(BriefOf(v))) = BriefOf(v)
         /\ BriefOf(v).first \in Int
<1> DEFINE b == BriefOf(v)
           w == AsInput(b)
<1>1. /\ b.party = v.party[1] /\ b.first = v.start[1]
      /\ b.last = endDate(v)[1] /\ b.dayTrips = v.dayTrips
  BY DEF BriefOf
<1>2. BriefParses(b) /\ b.first \in Int
  BY <1>1, ReadyParts DEF BriefParses
<1>3. /\ w.origin = b.origin /\ w.cities = <<b.city>> /\ w.start = <<b.first>>
      /\ w.end = <<b.last>> /\ w.party = <<b.party>> /\ w.budget = b.budget
      /\ w.dayTrips = b.dayTrips
  BY DEF AsInput
<1>4. endDate(w) = <<b.last>>
  BY <1>3 DEF endDate
<1>5. BriefOf(w) = [origin |-> b.origin, city |-> b.city, first |-> b.first,
                    last |-> b.last, party |-> b.party, budget |-> b.budget,
                    dayTrips |-> b.dayTrips]
  <2> HIDE DEF w, b
  <2> QED
    BY <1>3, <1>4 DEF BriefOf
<1>6. b = [origin |-> b.origin, city |-> b.city, first |-> b.first,
           last |-> b.last, party |-> b.party, budget |-> b.budget,
           dayTrips |-> b.dayTrips]
  BY DEF BriefOf
<1> QED
  BY <1>2, <1>5, <1>6

\* What is ready on a day is ready, as a brief, on every later day until the
\* trip starts: nothing but the start date looks at the day.
\* (checkRequirements, the stage requirements_check)
THEOREM ReadyStaysReady ==
  ASSUME NEW v, WellFormedInput(v), NEW day \in Int,
         checkRequirements(v, day).state = "ready",
         NEW later \in day .. BriefOf(v).first
  PROVE  checkRequirements(AsInput(BriefOf(v)), later).state = "ready"
<1>1. PICK b : b = BriefOf(v)
  OBVIOUS
<1>2. /\ b.origin = v.origin /\ b.city = v.cities[1] /\ b.first = v.start[1]
      /\ b.last = endDate(v)[1] /\ b.party = v.party[1]
      /\ b.budget = v.budget /\ b.dayTrips = v.dayTrips
  BY <1>1 DEF BriefOf
<1>3. /\ b.origin # <<>> /\ b.budget # <<>>
      /\ b.first \in Int /\ b.last \in Int
      /\ b.party \in Parties /\ PartyParses(b.party)
      /\ b.last - b.first + 1 \in 3 .. 5
      /\ b.last <= day + Year
      /\ b.dayTrips \in Seq(Int) /\ Len(b.dayTrips) <= 1
      /\ \A m \in ToSet(b.dayTrips) : m <= 120
      /\ Contains(SupportedCities, b.city)
  BY <1>2, ReadyParts
<1>4. later \in Int /\ day <= later /\ later <= b.first
  BY <1>1, <1>3
<1>5. PICK w : w = AsInput(b)
  OBVIOUS
<1>6. /\ ~w.sensitive /\ w.origin = b.origin /\ w.cities = <<b.city>>
      /\ w.start = <<b.first>> /\ w.end = <<b.last>> /\ w.days = <<>>
      /\ w.party = <<b.party>> /\ w.budget = b.budget
      /\ w.answered = {"bookedItems", "hardConstraints", "preferences"}
      /\ w.dayTrips = b.dayTrips
  BY <1>5 DEF AsInput
<1>7. endDate(w) = <<b.last>>
  BY <1>6 DEF endDate
<1>8. Questions(w) = {}
  BY <1>3, <1>6, <1>7 DEF Questions
<1>9. FormIssues(w, later) = {}
  <2>1. w.start[1] = b.first /\ endDate(w)[1] = b.last /\ w.party[1] = b.party
    BY <1>6, <1>7
  <2>2. b.last <= later + Year /\ ~(b.first < later \/ b.last > later + Year)
    BY <1>3, <1>4, FormAssumption
  <2>3. ~(b.party.adults < 1
          \/ b.party.adults + b.party.children + b.party.seniors > 6)
    <3>1. PICK p : p = b.party
      OBVIOUS
    <3>2. /\ p.adults \in 1 .. 6 /\ p.children \in 0 .. 5
          /\ p.seniors \in 0 .. 5 /\ p.adults + p.children + p.seniors <= 6
      BY <1>3, <3>1 DEF PartyParses
    <3>3. ~(p.adults < 1 \/ p.adults + p.children + p.seniors > 6)
      BY <3>2
    <3> QED
      BY <3>1, <3>3
  <2> QED
    BY <1>3, <2>1, <2>2, <2>3 DEF FormIssues
<1>10. ValidInput(w)
  <2>1. ToSet(w.party) = {b.party} /\ ToSet(w.days) = {}
    BY <1>6, NoneOrOnce
  <2>2. Len(w.dayTrips) <= 5
    BY <1>3, <1>6
  <2> QED
    BY <1>3, <2>1, <2>2 DEF ValidInput, PartyParses
<1>11. ~(Len(w.cities) > 1) /\ w.cities # <<>> /\ w.cities[1] = b.city
  BY <1>6
<1>12. ~(Len(w.dayTrips) > 1 \/ \E m \in ToSet(w.dayTrips) : m > 120)
  <2>1. ToSet(b.dayTrips) \subseteq Int
    BY <1>3 DEF ToSet
  <2> QED
    BY <1>3, <1>6, <2>1
<1>13. checkRequirements(w, later).state = "ready"
  BY <1>3, <1>6, <1>8, <1>9, <1>10, <1>11, <1>12, MeansReady, ZenonT(30)
<1> QED
  BY <1>1, <1>5, <1>13

-----------------------------------------------------------------------------
(* FormInv is kept *)

LEMMA FormBegins == FormInit => FormInv
<1> SUFFICES ASSUME FormInit PROVE FormInv
  OBVIOUS
<1>1. /\ today = 1 /\ input \in Inputs /\ result = NotAsked /\ brief = <<>>
      /\ asked = 0
  BY DEF FormInit
<1>2. WellFormedInput(input)
  BY <1>1, FormAssumption
<1>3. "questions" \in DOMAIN result
  BY <1>1 DEF NotAsked
<1>4. ToSet(brief) = {}
  BY <1>1, NoneOrOnce
<1>5. DestinationLeft \in 0 .. 1 /\ Rounds \in 0 .. 2
  BY DEF DestinationLeft, Rounds
<1> QED
  BY <1>1, <1>2, <1>3, <1>4, <1>5 DEF FormInv

\* The three outcomes of checkRequirements that matter here.
LEMMA Outcome ==
  ASSUME NEW v, NEW day, NEW r, r = checkRequirements(v, day)
  PROVE  /\ "questions" \in DOMAIN r
         /\ \/ r.questions = {}
            \/ r.questions = {"destination"} /\ v.cities = <<>>
            \/ r.questions = FirstFive(Questions(v)) /\ v.cities # <<>>
<1> DEFINE
      far == Len(v.dayTrips) > 1 \/ \E m \in ToSet(v.dayTrips) : m > 120
      here == Contains(SupportedCities, v.cities[1])
      valid == ValidInput(v)
      many == Len(v.cities) > 1
      open == Questions(v)
      wrong == FormIssues(v, day)
<1>1. checkRequirements(v, day) =
        IF v.sensitive THEN Stops("rejected", {"SENSITIVE_INPUT"})
        ELSE IF ~valid THEN Stops("needs_clarification", {"INVALID_INPUT"})
        ELSE IF many THEN Stops("out_of_scope", {"MULTI_CITY"})
        ELSE IF v.cities = <<>>
        THEN [state |-> "destination_options", issues |-> {"UNDECIDED"},
              questions |-> {"destination"}]
        ELSE IF ~here THEN Stops("out_of_scope", {"EXPERIMENTAL_CITY"})
        ELSE IF far THEN Stops("out_of_scope", {"DAY_TRIP_SCOPE"})
        ELSE IF open # {}
        THEN [state |-> "needs_clarification", issues |-> open,
              questions |-> FirstFive(open)]
        ELSE IF wrong # {} THEN Stops("out_of_scope", wrong)
        ELSE Stops("ready", {})
  BY DEF checkRequirements
<1> HIDE DEF far, here, valid, many, open, wrong
<1>2. \A s, i : /\ "questions" \in DOMAIN Stops(s, i)
                /\ Stops(s, i).questions = {}
  BY DEF Stops
<1> QED
  BY <1>1, <1>2 DEF open

\* The form is sent: the round it begins was counted.
LEMMA SubmitOK == FormInv /\ Submit => FormInv'
<1> SUFFICES ASSUME FormInv, Submit PROVE FormInv'
  OBVIOUS
<1>1. /\ today \in Int /\ WellFormedInput(input) /\ asked \in Nat
      /\ asked + DestinationLeft + Rounds <= 3
      /\ \A b \in ToSet(brief) :
           /\ BriefParses(b) /\ BriefOf(AsInput(b)) = b
           /\ b.first \in Int
           /\ job = "refused" => today > b.first
           /\ \A day \in today .. b.first :
                checkRequirements(AsInput(b), day).state = "ready"
      /\ brief = <<>> \/ brief = <<brief[1]>>
  BY DEF FormInv
<1>2. /\ job = "none" /\ result = NotAsked /\ today' = today /\ input' = input
      /\ result' = checkRequirements(input, today)
      /\ asked' = IF result'.questions # {} THEN asked + 1 ELSE asked
  BY DEF Submit
<1>3. /\ "questions" \in DOMAIN result'
      /\ \/ result'.questions = {}
         \/ result'.questions = {"destination"} /\ input.cities = <<>>
         \/ /\ result'.questions = FirstFive(Questions(input))
            /\ input.cities # <<>>
  BY <1>2, Outcome
<1>4. result.questions = {}
  BY <1>2 DEF NotAsked
<1>5. /\ asked' \in Nat /\ asked' + DestinationLeft' + Rounds' <= 3
  <2>1. Unasked = Questions(input) /\ Rounds \in 0 .. 2
    BY <1>4 DEF Unasked, Rounds
  <2>2. Unasked' = Questions(input) \ result'.questions
    BY <1>2 DEF Unasked
  <2>3. CASE result'.questions = {}
    <3>1. Unasked' = Unasked /\ asked' = asked
      BY <1>2, <2>1, <2>2, <2>3
    <3>2. Rounds' = Rounds /\ DestinationLeft' = DestinationLeft
      BY <1>2, <1>4, <2>3, <3>1 DEF Rounds, DestinationLeft
    <3> QED
      BY <1>1, <3>1, <3>2
  <2>4. CASE result'.questions = {"destination"} /\ input.cities = <<>>
    <3>1. "destination" \notin Questions(input)
      BY DEF Questions
    <3>2. Unasked' = Unasked /\ asked' = asked + 1
      BY <1>2, <2>1, <2>2, <2>4, <3>1
    <3>3. Rounds' = Rounds /\ DestinationLeft' = 0 /\ DestinationLeft = 1
      BY <1>2, <1>4, <2>4, <3>2 DEF Rounds, DestinationLeft
    <3> QED
      BY <1>1, <2>1, <3>2, <3>3
  <2>5. CASE /\ result'.questions = FirstFive(Questions(input))
             /\ result'.questions # {} /\ input.cities # <<>>
    <3>1. /\ Unasked' \subseteq {"hardConstraints", "preferences"}
          /\ Unasked \subseteq {"hardConstraints", "preferences"} =>
               Unasked' = {}
      BY <2>1, <2>2, <2>5, FirstFiveAreAsked
    <3>2. Unasked # {}
      BY <2>1, <2>5 DEF FirstFive
    <3>3. Rounds' + 1 <= Rounds
      <4>1. CASE Unasked \subseteq {"hardConstraints", "preferences"}
        <5>1. Rounds = 1 /\ Rounds' = 0
          BY <3>1, <3>2, <4>1 DEF Rounds
        <5> QED
          BY <5>1
      <4>2. CASE ~(Unasked \subseteq {"hardConstraints", "preferences"})
        <5>1. Rounds = 2 /\ (Rounds' = 0 \/ Rounds' = 1)
          BY <3>1, <3>2, <4>2 DEF Rounds
        <5> QED
          BY <5>1
      <4> QED
        BY <4>1, <4>2
    <3>4. DestinationLeft = 0 /\ DestinationLeft' = 0 /\ asked' = asked + 1
      BY <1>2, <2>5 DEF DestinationLeft
    <3>5. Rounds' \in 0 .. 2
      BY DEF Rounds
    <3> QED
      BY <1>1, <2>1, <3>3, <3>4, <3>5
  <2> QED
    BY <1>3, <2>3, <2>4, <2>5
<1>6. /\ brief' = <<>> \/ brief' = <<brief'[1]>>
      /\ \A b \in ToSet(brief') :
           /\ BriefParses(b) /\ BriefOf(AsInput(b)) = b
           /\ b.first \in Int
           /\ job' = "refused" => today' > b.first
           /\ \A day \in today' .. b.first :
                checkRequirements(AsInput(b), day).state = "ready"
  <2>1. CASE result'.state = "ready"
    <3>1. PICK c : c = BriefOf(input)
      OBVIOUS
    <3>2. brief' = <<c>> /\ job' = "waiting"
      BY <2>1, <3>1 DEF Submit
    <3>3. ToSet(brief') = {c} /\ brief' = <<brief'[1]>>
      BY <3>2, NoneOrOnce
    <3>4. checkRequirements(input, today).state = "ready"
      BY <1>2, <2>1
    <3>5. /\ BriefParses(c) /\ BriefOf(AsInput(c)) = c /\ c.first \in Int
      BY <1>1, <3>1, <3>4, BriefOfReady
    <3>6. \A day \in today .. c.first :
            checkRequirements(AsInput(c), day).state = "ready"
      BY <1>1, <3>1, <3>4, ReadyStaysReady
    <3> QED
      BY <1>2, <3>2, <3>3, <3>5, <3>6
  <2>2. CASE result'.state # "ready"
    <3>1. brief' = brief /\ job' = job
      BY <2>2 DEF Submit
    <3> QED
      BY <1>1, <1>2, <3>1
  <2> QED
    BY <2>1, <2>2
<1> QED
  BY <1>1, <1>2, <1>3, <1>5, <1>6 DEF FormInv

\* An answer: what it settles is pending no more and open no more.
LEMMA AnswerOneOK == FormInv /\ AnswerOne => FormInv'
<1> SUFFICES ASSUME FormInv, AnswerOne PROVE FormInv'
  OBVIOUS
<1>1. /\ WellFormedInput(input) /\ asked \in Nat
      /\ asked + DestinationLeft + Rounds <= 3
      /\ "questions" \in DOMAIN result
  BY DEF FormInv
<1>2. PICK f \in result.questions :
        /\ \E value \in FieldAnswers[f] \cup
               (IF f = "destination" THEN ToSet(Options(input)) ELSE {}) :
             input' = Given(input, f, value)
        /\ result' = IF result.questions = {f} THEN NotAsked
                     ELSE [result EXCEPT !.questions =
                             result.questions \ {f}]
  BY DEF AnswerOne
<1>3. PICK value \in FieldAnswers[f] \cup
               (IF f = "destination" THEN ToSet(Options(input)) ELSE {}) :
        input' = Given(input, f, value)
  BY <1>2
<1>4. UNCHANGED <<today, brief, job, asked>>
  BY DEF AnswerOne
<1>5. /\ WellFormedInput(input')
      /\ Questions(input') \subseteq Questions(input) \ {f}
      /\ f = "destination" => input'.cities # <<>>
      /\ f # "destination" => input'.cities = input.cities
  <2>1. /\ f = "dates" => value \in FieldAnswers["dates"]
        /\ f = "party" => value \in FieldAnswers["party"]
    BY <1>3
  <2> QED
    BY <1>1, <1>3, <2>1, OneQuestionLess
<1>6. /\ "questions" \in DOMAIN result'
      /\ result'.questions = result.questions \ {f}
  <2>1. CASE result.questions = {f}
    BY <1>2, <2>1 DEF NotAsked
  <2>2. CASE result.questions # {f}
    BY <1>1, <1>2, <2>2
  <2> QED
    BY <2>1, <2>2
<1>7. Unasked' \subseteq Unasked
  BY <1>5, <1>6 DEF Unasked
<1>8. Rounds' \in 0 .. 2 /\ Rounds \in 0 .. 2 /\ Rounds' <= Rounds
  BY <1>7 DEF Rounds
<1>9. DestinationLeft' \in 0 .. 1 /\ DestinationLeft \in 0 .. 1
      /\ DestinationLeft' <= DestinationLeft
  BY <1>2, <1>5, <1>6 DEF DestinationLeft
<1>10. asked' + DestinationLeft' + Rounds' <= 3 /\ asked' \in Nat
  <2>1. ASSUME NEW a \in Nat, NEW d \in 0 .. 1, NEW e \in 0 .. 1,
               NEW r \in 0 .. 2, NEW s \in 0 .. 2,
               a + d + r <= 3, e <= d, s <= r
        PROVE  a + e + s <= 3
    BY <2>1
  <2> QED
    BY <1>1, <1>4, <1>8, <1>9, <2>1
<1> QED
  BY <1>4, <1>5, <1>6, <1>10 DEF FormInv

LEMMA QuestionsStay ==
  ASSUME UNCHANGED <<input, result, asked>>
  PROVE  UNCHANGED <<DestinationLeft, Rounds>>
BY DEF DestinationLeft, Rounds, Unasked

LEMMA NextDayOK == FormInv /\ NextDay => FormInv'
<1> SUFFICES ASSUME FormInv, NextDay PROVE FormInv'
  OBVIOUS
<1>1. /\ today \in Int /\ today' = today + 1
      /\ UNCHANGED <<input, result, brief, job, asked>>
  BY DEF FormInv, NextDay
<1>2. UNCHANGED <<DestinationLeft, Rounds>>
  BY <1>1, QuestionsStay
<1>3. ASSUME NEW b \in ToSet(brief)
      PROVE  /\ job' = "refused" => today' > b.first
             /\ \A day \in today' .. b.first :
                  checkRequirements(AsInput(b), day).state = "ready"
  <2>1. /\ b.first \in Int
        /\ job = "refused" => today > b.first
        /\ \A day \in today .. b.first :
             checkRequirements(AsInput(b), day).state = "ready"
    BY DEF FormInv
  <2>2. job' = "refused" => today' > b.first
    BY <1>1, <2>1
  <2>3. \A day \in today' .. b.first : day \in today .. b.first
    BY <1>1, <2>1
  <2> QED
    BY <2>1, <2>2, <2>3
<1> QED
  BY <1>1, <1>2, <1>3 DEF FormInv

\* The stage finds the brief ready unless its trip has started.
LEMMA RequirementsCheckOK == FormInv /\ RequirementsCheck => FormInv'
<1> SUFFICES ASSUME FormInv, RequirementsCheck PROVE FormInv'
  OBVIOUS
<1>1. UNCHANGED <<today, input, result, brief, asked>>
  BY DEF RequirementsCheck
<1>2. UNCHANGED <<DestinationLeft, Rounds>>
  BY <1>1, QuestionsStay
<1>3. ASSUME NEW b \in ToSet(brief), job' = "refused"
      PROVE  today > b.first
  <2>1. brief[1] = b
    <3>1. brief # <<>>
      BY <1>3, NoneOrOnce
    <3>2. brief = <<brief[1]>>
      BY <3>1 DEF FormInv
    <3> QED
      BY <1>3, <3>2, NoneOrOnce
  <2>2. checkRequirements(AsInput(b), today).state # "ready"
    BY <1>3, <2>1 DEF RequirementsCheck
  <2>3. /\ today \in Int /\ b.first \in Int
        /\ \A day \in today .. b.first :
             checkRequirements(AsInput(b), day).state = "ready"
    BY DEF FormInv
  <2> QED
    BY <2>2, <2>3
<1> QED
  BY <1>1, <1>2, <1>3 DEF FormInv

LEMMA FormStepOK == FormInv /\ [FormNext]_requirementVars => FormInv'
<1> SUFFICES ASSUME FormInv, [FormNext]_requirementVars PROVE FormInv'
  OBVIOUS
<1>1. CASE Submit
  BY <1>1, SubmitOK
<1>2. CASE AnswerOne
  BY <1>2, AnswerOneOK
<1>3. CASE NextDay
  BY <1>3, NextDayOK
<1>4. CASE RequirementsCheck
  BY <1>4, RequirementsCheckOK
<1>5. CASE UNCHANGED requirementVars
  <2>1. UNCHANGED <<today, input, result, brief, job, asked>>
    BY <1>5 DEF requirementVars
  <2>2. UNCHANGED <<DestinationLeft, Rounds>>
    BY <2>1, QuestionsStay
  <2> QED
    BY <2>1, <2>2 DEF FormInv
<1> QED
  BY <1>1, <1>2, <1>3, <1>4, <1>5 DEF FormNext

\* The inductive invariant of the form.
THEOREM FormInvariant == FormSpec => []FormInv
<1>1. FormInit => FormInv
  BY FormBegins
<1>2. FormInv /\ [FormNext]_requirementVars => FormInv'
  BY FormStepOK
<1> QED
  BY <1>1, <1>2, PTL DEF FormSpec

\* A job whose form was ready is refused for being late and for nothing else,
\* and nobody is asked more than three times. (requirements_check)
THEOREM BriefsStayReady == FormSpec => []ReadyUntilItStarts
<1>1. FormInv => ReadyUntilItStarts
  <2> SUFFICES ASSUME FormInv PROVE ReadyUntilItStarts
    OBVIOUS
  <2>1. DestinationLeft \in 0 .. 1 /\ Rounds \in 0 .. 2
    BY DEF DestinationLeft, Rounds
  <2>2. asked <= 3
    BY <2>1 DEF FormInv
  <2>3. ASSUME NEW b \in ToSet(brief)
        PROVE  /\ BriefParses(b)
               /\ job = "refused" => today > b.first
               /\ today <= b.first =>
                    /\ checkRequirements(AsInput(b), today).state = "ready"
                    /\ BriefOf(AsInput(b)) = b
    BY <2>3 DEF FormInv
  <2> QED
    BY <2>2, <2>3 DEF ReadyUntilItStarts
<1> QED
  BY <1>1, FormInvariant, PTL

-----------------------------------------------------------------------------
(* The skeleton *)

\* The dates of a brief are its days, from the first to the last.
LEMMA DatesAreDays ==
  ASSUME NEW b, b.first \in Int, b.last \in Int,
         NEW m, m = b.last - b.first + 1,
         Len(dateRange(b)) \in 3 .. 5
  PROVE  /\ m \in 3 .. 5 /\ DOMAIN dateRange(b) = 1 .. m
         /\ \A i \in 1 .. m : dateRange(b)[i] = b.first + i - 1
         /\ ToSet(dateRange(b)) = b.first .. b.last
<1>1. PICK r : r = dateRange(b)
  OBVIOUS
<1>2. m \in Int /\ r = [i \in 1 .. m |-> b.first + i - 1]
  BY <1>1 DEF dateRange
<1>3. m \in Nat /\ Len(r) = m
  <2>1. CASE m \in Nat
    <3>1. r \in Seq(Int)
      BY <1>2, <2>1
    <3> QED
      BY <1>2, <2>1, <3>1
  <2>2. CASE m \notin Nat
    <3>1. 1 .. m = {}
      BY <1>2, <2>2
    <3>2. r = <<>>
      BY <1>2, <3>1
    <3>3. Len(r) = 0
      BY <3>2
    <3> QED
      BY <1>1, <3>3
  <2> QED
    BY <2>1, <2>2
<1>4. m \in 3 .. 5 /\ DOMAIN r = 1 .. m
  BY <1>1, <1>2, <1>3
<1>5. \A i \in 1 .. m : r[i] = b.first + i - 1
  BY <1>2
<1>6. ToSet(r) = b.first .. b.last
  <2>1. \A d \in b.first .. b.last : /\ d - b.first + 1 \in 1 .. m
                                     /\ r[d - b.first + 1] = d
    BY <1>4, <1>5
  <2>2. \A i \in 1 .. m : r[i] \in b.first .. b.last
    BY <1>4, <1>5
  <2> QED
    BY <1>4, <2>1, <2>2 DEF ToSet
<1> QED
  BY <1>1, <1>4, <1>5, <1>6

\* A booking is on the days that it touches.
LEMMA OnTheDaysItTouches ==
  ASSUME NEW k, k.start \in Int, k.end \in Int, NEW dates, NEW d \in Int,
         d \in ToSet(dates), ToSet(dates) \subseteq Int
  PROVE  d \in bookingDates(k, dates) <=> Touches(k, d)
<1>1. PICK s \in Int : s = localDate(k.start)
  BY DEF localDate, Minutes
<1>2. PICK e \in Int : e = localDate(k.end)
  BY DEF localDate, Minutes
<1>3. Minutes * s <= k.start /\ k.start < Minutes * (s + 1)
  BY <1>1 DEF localDate, Minutes
<1>4. Minutes * e <= k.end /\ k.end < Minutes * (e + 1)
  BY <1>2 DEF localDate, Minutes
<1>5. /\ d = s <=> k.start < (d + 1) * Minutes /\ k.start >= d * Minutes
      /\ s <= d <=> k.start < (d + 1) * Minutes
      /\ d <= e <=> k.end >= d * Minutes
  BY <1>3, <1>4 DEF Minutes
<1> QED
  BY <1>1, <1>2, <1>5 DEF bookingDates, Touches

\* The bookings of a day are those that touch it, each once.
LEMMA OnTheirDays ==
  ASSUME NEW b, PlannerBrief(b), Len(dateRange(b)) \in 3 .. 5,
         NEW d \in b.first .. b.last
  PROVE  /\ ToSet(OnDay(b, d)) = {k \in ToSet(b.booked) : Touches(k, d)}
         /\ Len(OnDay(b, d)) = Cardinality(ToSet(OnDay(b, d)))
<1>1. PICK dates : dates = dateRange(b)
  OBVIOUS
<1>2. ToSet(dates) = b.first .. b.last
  BY <1>1, DatesAreDays DEF PlannerBrief
<1>3. \A k \in ToSet(b.booked) : d \in bookingDates(k, dates) <=> Touches(k, d)
  <2> TAKE k \in ToSet(b.booked)
  <2>1. k.start \in Int /\ k.end \in Int /\ d \in Int /\ d \in ToSet(dates)
        /\ ToSet(dates) \subseteq Int
    BY <1>2 DEF PlannerBrief
  <2> QED
    BY <2>1, OnTheDaysItTouches
<1>4. PICK S : S = {k \in ToSet(b.booked) : d \in bookingDates(k, dates)}
  OBVIOUS
<1>5. OnDay(b, d) = Only(b.booked, S)
  BY <1>1, <1>4 DEF OnDay
<1>6. PICK E : E = ToSet(b.booked)
  OBVIOUS
<1>7. b.booked \in Seq(E) /\ Distinct(b.booked)
  BY <1>6 DEF PlannerBrief, Distinct
<1>8. /\ OnDay(b, d) \in Seq(E \cap S) /\ Distinct(OnDay(b, d))
      /\ ToSet(OnDay(b, d)) = E \cap S
  BY <1>5, <1>6, <1>7, OnlySelects
<1>9. Len(OnDay(b, d)) = Cardinality(ToSet(OnDay(b, d)))
  BY <1>8, DistinctCounts
<1>10. E \cap S = {k \in ToSet(b.booked) : Touches(k, d)}
  BY <1>3, <1>4, <1>6
<1> QED
  BY <1>8, <1>9, <1>10

\* What is left over touches no day of the trip.
LEMMA LeftOver ==
  ASSUME NEW b, PlannerBrief(b), Len(dateRange(b)) \in 3 .. 5
  PROVE  ToSet(Unplaced(b)) =
           {k \in ToSet(b.booked) :
                \A date \in b.first .. b.last : ~Touches(k, date)}
<1>1. PICK dates : dates = ToSet(dateRange(b))
  OBVIOUS
<1>2. dates = b.first .. b.last
  BY <1>1, DatesAreDays DEF PlannerBrief
<1>3. PICK placed :
        placed = {k.id : k \in UNION {ToSet(OnDay(b, d)) : d \in dates}}
  OBVIOUS
<1>4. PICK S : S = {k \in ToSet(b.booked) : k.id \notin placed}
  OBVIOUS
<1>5. Unplaced(b) = Only(b.booked, S)
  BY <1>1, <1>3, <1>4 DEF Unplaced
<1>6. PICK E : E = ToSet(b.booked)
  OBVIOUS
<1>7. b.booked \in Seq(E)
  BY <1>6 DEF PlannerBrief
<1>8. ToSet(Unplaced(b)) = E \cap S
  BY <1>5, <1>6, <1>7, OnlySelects
<1>9. \A k, l \in E : k.id = l.id => k = l
  BY <1>6 DEF PlannerBrief, ToSet
<1>10. ASSUME NEW k \in E
       PROVE  k.id \in placed <=> \E d \in dates : Touches(k, d)
  <2>1. \A d \in dates : ToSet(OnDay(b, d)) = {l \in E : Touches(l, d)}
    BY <1>2, <1>6, OnTheirDays
  <2>2. ASSUME NEW d \in dates, Touches(k, d) PROVE k.id \in placed
    <3>1. k \in ToSet(OnDay(b, d))
      BY <2>1, <2>2
    <3> QED
      BY <1>3, <3>1
  <2>3. ASSUME k.id \in placed PROVE \E d \in dates : Touches(k, d)
    <3>1. PICK d \in dates : \E l \in ToSet(OnDay(b, d)) : l.id = k.id
      BY <1>3, <2>3
    <3>3. PICK l \in ToSet(OnDay(b, d)) : l.id = k.id
      BY <3>1
    <3>2. l \in E /\ Touches(l, d)
      BY <2>1, <3>1
    <3> QED
      BY <1>9, <3>2, <3>3
  <2> QED
    BY <2>2, <2>3
<1>11. E \cap S = {k \in ToSet(b.booked) :
                     \A date \in b.first .. b.last : ~Touches(k, date)}
  BY <1>2, <1>4, <1>6, <1>10
<1> QED
  BY <1>8, <1>11

\* What is planned of a brief keeps its bookings.
LEMMA PlanKeepsBookings ==
  ASSUME NEW b, PlannerBrief(b), NEW answer, plan(b, answer).error = "none",
         planned' = b, skeleton' = plan(b, answer)
  PROVE  BookingsAreKept'
<1>0. /\ Len(dateRange(b)) \in 3 .. 5
      /\ [i \in DOMAIN answer.days |-> answer.days[i].date] = dateRange(b)
      /\ \A d \in ToSet(answer.days) :
           d.morning \/ d.afternoon \/ OnDay(b, d.date) # <<>>
      /\ plan(b, answer) =
           [error |-> "none",
            days |-> [i \in DOMAIN answer.days |->
                        [plan |-> answer.days[i],
                         bookings |-> OnDay(b, answer.days[i].date)]],
            unplaced |-> Unplaced(b)]
  BY DEF plan, Unplanned
<1>1. PICK m : m = b.last - b.first + 1
  OBVIOUS
<1>2. /\ m \in 3 .. 5 /\ DOMAIN dateRange(b) = 1 .. m
      /\ \A i \in 1 .. m : dateRange(b)[i] = b.first + i - 1
  BY <1>0, <1>1, DatesAreDays DEF PlannerBrief
<1>3. PICK days : days = plan(b, answer).days
  OBVIOUS
<1>4. /\ DOMAIN answer.days = 1 .. m
      /\ \A i \in 1 .. m : answer.days[i].date = b.first + i - 1
  BY <1>0, <1>2
<1>5. /\ days = [i \in 1 .. m |->
                   [plan |-> answer.days[i],
                    bookings |-> OnDay(b, answer.days[i].date)]]
      /\ plan(b, answer).unplaced = Unplaced(b)
  BY <1>0, <1>3, <1>4
<1>6. Len(days) = m
  BY <1>2, <1>5
<1>7. ASSUME NEW i \in DOMAIN days
      PROVE  /\ days[i].plan.date = b.first + i - 1
             /\ \/ days[i].plan.morning \/ days[i].plan.afternoon
                \/ days[i].bookings # <<>>
             /\ ToSet(days[i].bookings) =
                  {k \in ToSet(b.booked) : Touches(k, days[i].plan.date)}
             /\ Len(days[i].bookings) = Cardinality(ToSet(days[i].bookings))
  <2>1. i \in 1 .. m
    BY <1>5
  <2>2. PICK d : d = b.first + i - 1
    OBVIOUS
  <2>3. d \in b.first .. b.last
    BY <1>1, <1>2, <2>1, <2>2 DEF PlannerBrief
  <2>4. days[i].plan = answer.days[i] /\ days[i].bookings = OnDay(b, d)
        /\ answer.days[i].date = d
    BY <1>4, <1>5, <2>1, <2>2
  <2>5. answer.days[i] \in ToSet(answer.days)
    BY <1>4, <2>1 DEF ToSet
  <2>6. \/ days[i].plan.morning \/ days[i].plan.afternoon
        \/ days[i].bookings # <<>>
    BY <1>0, <2>4, <2>5
  <2>7. /\ ToSet(OnDay(b, d)) = {k \in ToSet(b.booked) : Touches(k, d)}
        /\ Len(OnDay(b, d)) = Cardinality(ToSet(OnDay(b, d)))
    BY <1>0, <2>3, OnTheirDays
  <2> QED
    BY <2>2, <2>4, <2>6, <2>7
<1>8. ToSet(Unplaced(b)) = {k \in ToSet(b.booked) :
            \A date \in b.first .. b.last : ~Touches(k, date)}
  BY <1>0, LeftOver
<1>9. skeleton'.days = days /\ skeleton'.unplaced = Unplaced(b)
      /\ planned' = b
  BY <1>3, <1>5
<1> QED
  BY <1>1, <1>6, <1>7, <1>8, <1>9 DEF BookingsAreKept, Touches

\* Whatever the model answers, every booking is on the days that it touches and
\* on no other, none is lost and none doubled. (SkeletonPlanner.plan)
THEOREM BookingsStayOnTheirDays == PlannerSpec => []BookingsAreKept
<1> DEFINE Inv == planned \in PlannedBriefs /\ BookingsAreKept
<1>1. PlannerInit => Inv
  BY DEF PlannerInit, BookingsAreKept, Unplanned
<1>2. Inv /\ [PlannerNext]_plannerVars => Inv'
  <2> SUFFICES ASSUME Inv, [PlannerNext]_plannerVars PROVE Inv'
    OBVIOUS
  <2>1. CASE PlanSkeleton
    <3>1. PICK answer : skeleton' = plan(planned, answer)
      BY <2>1 DEF PlanSkeleton
    <3>2. planned' = planned /\ PlannerBrief(planned)
      BY <2>1, PlannerAssumption DEF PlanSkeleton
    <3>3. PICK b : b = planned
      OBVIOUS
    <3>4. CASE plan(b, answer).error = "none"
      BY <3>1, <3>2, <3>3, <3>4, PlanKeepsBookings
    <3>5. CASE plan(b, answer).error # "none"
      BY <3>1, <3>2, <3>3, <3>5 DEF BookingsAreKept
    <3> QED
      BY <3>2, <3>4, <3>5
  <2>2. CASE UNCHANGED plannerVars
    BY <2>2 DEF plannerVars, BookingsAreKept, Touches
  <2> QED
    BY <2>1, <2>2 DEF PlannerNext
<1>3. Inv => BookingsAreKept
  OBVIOUS
<1> QED
  BY <1>1, <1>2, <1>3, PTL DEF PlannerSpec
=============================================================================
