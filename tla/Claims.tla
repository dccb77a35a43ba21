------------------------------- MODULE Claims -------------------------------
(***************************************************************************)
(* Observations of a trip's places come in one by one, and after each of   *)
(* them evidence/normalize.ts makes claims of all there are.  The claims   *)
(* are decided again whenever the trip is validated, by all its evidence.  *)
(***************************************************************************)
EXTENDS Evidence

CONSTANTS
    Observable,     \* what may be observed
    MaxObservations \* bound

VARIABLE observations

SourceTypes == {"official", "dedicated_api", "platform", "web"}

\* What the theorems assume of an observation.  A piece of evidence that failed
\* has no value, and a value means something else than none; and no source gives
\* a name that looks like one made of a group and a name: the program makes
\* those of the word "evidence" and a hash (stableId), the sources theirs of a
\* word of their own and a candidate or a page.
ObservableAssumption ==
    /\ \A o \in Observable :
         /\ o.item \in [id : Seq(STRING), source : SourceTypes, origin : STRING,
                        value : [means : STRING, spelt : Nat], at : Nat,
                        status : STRING]
         /\ o.item.status = "failed" => o.item.value = NoValue
         /\ o.item.value.means = NoValue.means => o.item.value = NoValue
    /\ \A o, p, q \in Observable : o.item.id # NewName(p.group, q.item)

ClaimsInit == observations = <<>>

Observe ==
    /\ Len(observations) < MaxObservations
    /\ \E o \in Observable : observations' = Append(observations, o)

ClaimsNext == Observe

ClaimsSpec == ClaimsInit /\ [][ClaimsNext]_observations

\* A claim stays as its own evidence resolved it.
ClaimsStayResolved == StaysResolved(observations)
=============================================================================
