------------------------------ MODULE Evidence ------------------------------
(***************************************************************************)
(* What the planner believes: evidence/normalize.ts groups observations    *)
(* into claims and evidence/resolve.ts decides what a claim says.          *)
(*                                                                         *)
(* A value is [means, spelt]: two spellings that differ in case or white   *)
(* space mean the same.  A piece of evidence is [id, source, origin,       *)
(* value, at, status], where origin stands for its name and address, and   *)
(* an observation is [group, critical, item], where a group is the subject, *)
(* place, date and field that it is about.  Names are tuples: one derived  *)
(* from a group and a name is longer than the name.                        *)
(***************************************************************************)
EXTENDS Basics

\* assertedValue is absent.
NoValue == [means |-> "undefined", spelt |-> 0]

SourcePriority(source) ==
    CASE source = "official" -> 4
      [] source = "dedicated_api" -> 3
      [] source = "platform" -> 2
      [] source = "web" -> 1

Rank(e) == SourcePriority(e.source)

-----------------------------------------------------------------------------
(* resolveClaim *)

\* The evidence a claim can be decided by, in order.
Referenced(claim, all) ==
    Only(all, {e \in ToSet(all) : /\ e.id \in claim.evidence
                                  /\ e.status # "failed"
                                  /\ e.value # NoValue})

\* Those of the best source, and what they say.
Best(s) == {e \in ToSet(s) : \A f \in ToSet(s) : Rank(f) <= Rank(e)}

BestMeanings(s) == {e.value.means : e \in Best(s)}

Resolve(claim, all) ==
    LET s == Referenced(claim, all)
        selected == Only(s, {e \in ToSet(s) : e.value.means \in BestMeanings(s)})
        others == {e \in ToSet(s) : e.value.means \notin BestMeanings(s)}
        conflict == \E m, n \in BestMeanings(s) : m # n
    IN  IF s = <<>>
        THEN [claim EXCEPT !.status = "failed", !.conflicts = {}]
        ELSE IF conflict
        THEN [claim EXCEPT !.status = "recheck_required",
                           !.conflicts = {e.id : e \in ToSet(s)}]
        ELSE [claim EXCEPT
                !.value = selected[1].value,
                !.status = IF \E e \in Best(s) : e.status = "verified"
                           THEN "verified" ELSE "recheck_required",
                !.conflicts = {e.id : e \in others}]

-----------------------------------------------------------------------------
(* mergeEvidence *)

MergeKey(e) == <<e.source, e.origin, e.value.means>>

\* A later look at the same thing takes its place, under its name.
MergeOne(merged, e) ==
    IF \A i \in DOMAIN merged : MergeKey(merged[i]) # MergeKey(e)
    THEN Append(merged, e)
    ELSE [i \in DOMAIN merged |->
            IF MergeKey(merged[i]) = MergeKey(e) /\ e.at > merged[i].at
            THEN [e EXCEPT !.id = merged[i].id]
            ELSE merged[i]]

Merge(items) == FoldLeft(MergeOne, <<>>, items)

-----------------------------------------------------------------------------
(* normalizeEvidence *)

\* Fault: a piece of evidence keeps its name in every group.
RenameNone(group, used, items) == items

\* A name that is taken is replaced by one made of the group and the name.
NewName(group, e) == <<"evidence", group>> \o e.id

Rename(group, used, items) ==
    FoldLeft(LAMBDA done, e :
               Append(done,
                 IF e.id \in used \cup {d.id : d \in ToSet(done)}
                 THEN [e EXCEPT !.id = NewName(group, e)]
                 ELSE e),
             <<>>, items)

\* The groups in the order of their first observation.
Groups(observations) ==
    FoldLeft(LAMBDA done, o : IF Contains(done, o.group) THEN done
                              ELSE Append(done, o.group),
             <<>>, observations)

\* One group's evidence under its final names, and its claim.
GroupResult(observations, used, group) ==
    LET own == Only(observations, {o \in ToSet(observations) : o.group = group})
        items == Rename(group, used,
                        Merge([i \in DOMAIN own |-> own[i].item]))
        claim == [group |-> group, value |-> NoValue,
                  evidence |-> {e.id : e \in ToSet(items)},
                  critical |-> \E o \in ToSet(own) : o.critical,
                  status |-> "recheck_required", conflicts |-> {}]
    IN  [items |-> items, claim |-> Resolve(claim, items)]

ClaimIssues(claim) ==
    IF claim.status # "verified"
    THEN {IF claim.critical
          THEN [severity |-> "blocking", code |-> "UNRESOLVED_CRITICAL"]
          ELSE [severity |-> "warning", code |-> "UNRESOLVED"]}
    ELSE IF claim.conflicts # {}
    THEN {[severity |-> "warning", code |-> "CONFLICT_RESOLVED"]}
    ELSE {}

\* One group more.
AddGroup(observations, done, group) ==
    LET used == {e.id : e \in ToSet(done.evidence)}
        r == GroupResult(observations, used, group)
    IN  [evidence |-> done.evidence \o r.items,
         claims |-> Append(done.claims, r.claim),
         issues |-> done.issues \cup ClaimIssues(r.claim)]

Normalize(observations) ==
    FoldLeft(LAMBDA done, group : AddGroup(observations, done, group),
             [evidence |-> <<>>, claims |-> <<>>, issues |-> {}],
             Groups(observations))

-----------------------------------------------------------------------------
(* Properties of any list of observations *)

\* What a claim was resolved to by its own group's evidence is what it resolves
\* to again by all the evidence of the trip, as every later validation does
\* (validation/trip.ts), and a verified claim repeats what a verified source of
\* the best kind says, which no other source of that kind contradicts.
StaysResolved(observations) ==
    LET set == Normalize(observations)
    IN  \A claim \in ToSet(set.claims) :
          /\ Resolve(claim, set.evidence) = claim
          /\ claim.status = "verified" =>
               LET own == {o.item : o \in {p \in ToSet(observations) :
                               /\ p.group = claim.group
                               /\ p.item.status # "failed"
                               /\ p.item.value # NoValue}}
               IN  \E e \in own :
                     /\ e.status = "verified"
                     /\ e.value.means = claim.value.means
                     /\ \A f \in own :
                          f.value.means # e.value.means => Rank(f) < Rank(e)
=============================================================================
