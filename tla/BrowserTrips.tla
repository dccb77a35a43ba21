----------------------------- MODULE BrowserTrips -----------------------------
(***************************************************************************)
(* One trip in the localStorage of a browser                               *)
(* (src/persistence/browser-store.ts) and the pages that read and write    *)
(* it: workspaces open in several tabs (src/components/trip-workspace.tsx, *)
(* src/trips/changes.ts), the progress page of the plan that produced the  *)
(* trip and those of its local replans (src/components/job-progress.tsx).  *)
(*                                                                         *)
(* A page's call into the store is one task of its event loop and is taken *)
(* as one step; between two calls anything may happen in another tab.      *)
(* Abstracted: what is edited.  A trip is its version and the set of       *)
(* changes it contains.  A call refused by the schema, the privacy filter  *)
(* or a full storage throws before it writes and is no step.               *)
(***************************************************************************)
EXTENDS Integers, Sequences

CONSTANTS
  Tabs,        \* tabs with the trip's workspace
  Edits,       \* identities of the minor edits that may be made
  Replans,     \* identities of the local replans that may be asked for
  NoTrip,      \* nothing stored, nothing on the page
  MaxHistory,  \* revisions kept: 20 in the code
  MaxVersion   \* bound of the model: no change is made to this version

ASSUME StoreAssumption ==
  /\ MaxHistory \in Nat \ {0}
  /\ MaxVersion \in Nat
  /\ Edits \cap Replans = {}

VARIABLES
  stored,    \* the envelope under the trip's key: trip, previous, history
  held,      \* the trip each workspace shows
  replans,   \* of each replan: the trip it is based on, and its result
  used,      \* history: the edits that were stored
  saves      \* history: how often the plan's page stored the trip, 2 at most

vars == <<stored, held, replans, used, saves>>

Changes   == Edits \cup Replans
Trips     == [version : Nat, content : SUBSET Changes]
Revisions == [base : Nat, next : Nat]
Histories == {h \in Seq(Revisions) : Len(h) <= MaxHistory}
Envelopes == [trip : Trips, previous : Trips \cup {NoTrip},
              history : Histories]
Orders    == [base : Trips \cup {NoTrip}, result : Trips \cup {NoTrip}]

ASSUME NoTripAssumption == NoTrip \notin Trips \cup Envelopes

TypeOK ==
  /\ stored \in Envelopes \cup {NoTrip}
  /\ held \in [Tabs -> Trips \cup {NoTrip}]
  /\ replans \in [Replans -> Orders]
  /\ used \subseteq Edits
  /\ saves \in 0..2

\* A finished plan's trip (collectEvidence starts it at version 1).
PlannedTrip == [version |-> 1, content |-> {}]

NoOrder == [base |-> NoTrip, result |-> NoTrip]

Init ==
  /\ stored = NoTrip
  /\ held = [t \in Tabs |-> NoTrip]
  /\ replans = [r \in Replans |-> NoOrder]
  /\ used = {}
  /\ saves = 0

-----------------------------------------------------------------------------
(* The store.                                                              *)

Stored == stored # NoTrip

\* slice(-20).
Newest(history) ==
  IF Len(history) <= MaxHistory THEN history
  ELSE SubSeq(history, Len(history) - MaxHistory + 1, Len(history))

Revision(trip) == [base |-> trip.version - 1, next |-> trip.version]

\* Seeded faults, written like this one, precede the definition they replace;
\* none is part of the specification.  Fault: an undo goes
\* back to the trip of the first edit, not the last.
CommittedKeepsPrevious(trip) ==
  [trip     |-> trip,
   previous |-> IF stored.previous = NoTrip THEN stored.trip
                ELSE stored.previous,
   history  |-> Newest(Append(stored.history, Revision(trip)))]

\* commitEdit: the new trip, the one it replaces for an undo, and a revision.
Committed(trip) ==
  [trip     |-> trip,
   previous |-> stored.trip,
   history  |-> Newest(Append(stored.history, Revision(trip)))]

\* commitEdit's guard on the version the caller expects to find.
Expects(version) ==
  /\ Stored
  /\ stored.trip.version = version
  /\ version < MaxVersion

-----------------------------------------------------------------------------
(* The pages.                                                              *)

\* The progress page of the plan sees its finished view, for the first time
\* or again (the page is visited once more, a repeated cancel appends another
\* event): saveTrip writes a fresh envelope.
SavePlan ==
  /\ stored' = [trip |-> PlannedTrip, previous |-> NoTrip, history |-> <<>>]
  /\ saves' = IF saves = 0 THEN 1 ELSE 2
  /\ UNCHANGED <<held, replans, used>>

\* A workspace is opened or reloaded.
Open(t) ==
  /\ held' = [held EXCEPT ![t] = IF Stored THEN stored.trip ELSE NoTrip]
  /\ UNCHANGED <<stored, replans, used, saves>>

\* A minor change: commitChange on the trip on the page, commitEdit of the
\* result against its version.  A page that is behind is told so and keeps
\* showing what it shows.
Edit(t, e) ==
  /\ held[t] # NoTrip
  /\ e \notin used
  /\ Expects(held[t].version)
  /\ LET trip == [version |-> held[t].version + 1,
                  content |-> held[t].content \cup {e}]
     IN  /\ stored' = Committed(trip)
         /\ held' = [held EXCEPT ![t] = trip]
  /\ used' = used \cup {e}
  /\ UNCHANGED <<replans, saves>>

\* A major change is confirmed: the page checks the stored version and sends
\* its trip to the server as the base of a replan.
ConfirmReplan(t, r) ==
  /\ replans[r] = NoOrder
  /\ held[t] # NoTrip
  /\ Stored
  /\ stored.trip.version = held[t].version
  /\ replans' = [replans EXCEPT ![r].base = held[t]]
  /\ UNCHANGED <<stored, held, used, saves>>

\* localReplan ends: with a changed trip of the next version, or, after two
\* rejected rounds, with its base.
EndReplan(r) ==
  /\ replans[r].base # NoTrip
  /\ replans[r].result = NoTrip
  /\ LET base == replans[r].base IN
     \E result \in {base, [version |-> base.version + 1,
                           content |-> base.content \cup {r}]} :
       replans' = [replans EXCEPT ![r].result = result]
  /\ UNCHANGED <<stored, held, used, saves>>

\* Fault: the progress page of a replan stores what it gets.
AcceptReplanUnchecked(r) ==
  /\ Stored
  /\ stored.trip.version < MaxVersion
  /\ replans[r].result \notin {NoTrip, replans[r].base}
  /\ stored' = Committed(replans[r].result)
  /\ UNCHANGED <<held, replans, used, saves>>

\* The progress page of a replan sees its finished view, perhaps not for the
\* first time.  A result that is its base stores nothing; a changed one is
\* committed only onto the version it is based on.
AcceptReplan(r) ==
  /\ replans[r].result \notin {NoTrip, replans[r].base}
  /\ Expects(replans[r].base.version)
  /\ stored' = Committed(replans[r].result)
  /\ UNCHANGED <<held, replans, used, saves>>

\* Fault: an undo gives back the old version number with the old trip.
UndoReusesVersion(t) ==
  /\ held[t] # NoTrip
  /\ Stored
  /\ stored.previous # NoTrip
  /\ stored' = [stored EXCEPT !.trip = stored.previous, !.previous = NoTrip]
  /\ held' = [held EXCEPT ![t] = stored.previous]
  /\ UNCHANGED <<replans, used, saves>>

\* Fault: an undo leaves no revision.
UndoUnrecorded(t) ==
  /\ held[t] # NoTrip
  /\ Stored
  /\ stored.previous # NoTrip
  /\ stored.trip.version < MaxVersion
  /\ LET trip == [stored.previous EXCEPT !.version = stored.trip.version + 1]
     IN  /\ stored' = [stored EXCEPT !.trip = trip, !.previous = NoTrip]
         /\ held' = [held EXCEPT ![t] = trip]
  /\ UNCHANGED <<replans, used, saves>>

\* undoLast: whatever the page shows, the trip stored before the last commit
\* becomes the next version, and there is nothing more to undo.
Undo(t) ==
  /\ held[t] # NoTrip
  /\ Stored
  /\ stored.previous # NoTrip
  /\ stored.trip.version < MaxVersion
  /\ LET trip == [stored.previous EXCEPT !.version = stored.trip.version + 1]
     IN  /\ stored' = [trip     |-> trip,
                       previous |-> NoTrip,
                       history  |-> Newest(Append(stored.history,
                                                  Revision(trip)))]
         /\ held' = [held EXCEPT ![t] = trip]
  /\ UNCHANGED <<replans, used, saves>>

\* Thirty days pass without a commit, or the visitor clears the storage.
Forget ==
  /\ Stored
  /\ stored' = NoTrip
  /\ UNCHANGED <<held, replans, used, saves>>

Next ==
  \/ SavePlan
  \/ \E t \in Tabs :
       \/ Open(t) \/ Undo(t)
       \/ \E e \in Edits : Edit(t, e)
       \/ \E r \in Replans : ConfirmReplan(t, r)
  \/ \E r \in Replans : EndReplan(r) \/ AcceptReplan(r)
  \/ Forget

Spec == Init /\ [][Next]_vars

-----------------------------------------------------------------------------
(* Safety.                                                                 *)

\* Consecutive revisions that end at a version.
Chain(h, version) ==
  /\ \A i \in 1..Len(h) : h[i].next = h[i].base + 1
  /\ \A i \in 1..(Len(h) - 1) : h[i].next = h[i + 1].base
  /\ Len(h) > 0 => h[Len(h)].next = version

\* The local version record is one chain of consecutive revisions that ends
\* at the stored version, whoever wrote them: edits of any tab, replans and
\* undos (README.md: the version history is kept in this browser).
HistoryIsChain == Stored => Chain(stored.history, stored.trip.version)

\* What the version check of commitEdit relies on: as long as the plan's page
\* has not stored its trip again, a page or a replan that is at the stored
\* version has the stored trip in its hands.
Resaved == saves = 2

Hands ==
  {held[t] : t \in Tabs} \cup {replans[r].base : r \in Replans}

VersionNamesTrip ==
  (Stored /\ ~Resaved) =>
    \A trip \in Hands \ {NoTrip} :
      /\ trip.version <= stored.trip.version
      /\ trip.version = stored.trip.version => trip = stored.trip

\* A step takes no change out of the stored trip, unless it undoes the last
\* commit or the visitor's storage is cleared.
Undone ==
  /\ stored.previous # NoTrip
  /\ stored'.trip.content = stored.previous.content
  /\ stored'.trip.version = stored.trip.version + 1

Kept == (Stored /\ Stored') =>
          \/ stored.trip.content \subseteq stored'.trip.content
          \/ Undone

\* No edit is lost to another tab, to a replan that took long, or to a second
\* look at a replan's page, until the plan's own page stores its trip again
\* (job-progress.tsx: a replan never overwrites local edits).
EditsKept == [][~Resaved' => Kept]_vars

\* "Undo the last change" takes exactly one change back, whichever tab it is
\* pressed in, and never brings one back.
UndoTakesOne ==
  [][\A t \in Tabs : (Undo(t) /\ ~Resaved) =>
       \E c \in stored.trip.content :
         stored'.trip.content = stored.trip.content \ {c}]_vars

-----------------------------------------------------------------------------
(* The inductive invariant (proved in BrowserTrips_proofs).                *)

\* Nothing is in anybody's hands before the plan is stored.
UnsavedInv ==
  saves = 0 => ~Stored /\ Hands \subseteq {NoTrip}

\* A replan's result is its base or the next version of it, with this replan
\* in it for the first time.
OrderInv ==
  \A r \in Replans :
    LET base == replans[r].base  result == replans[r].result IN
    /\ base = NoTrip => result = NoTrip
    /\ base # NoTrip => r \notin base.content
    /\ result \notin {NoTrip, base} =>
         /\ result.version = base.version + 1
         /\ result.content = base.content \cup {r}

\* What a trip contains was stored, or a replan ended with it.
Made == used \cup {r \in Replans : replans[r].result # NoTrip}

OriginInv ==
  /\ \A trip \in Hands \ {NoTrip} : trip.content \subseteq Made
  /\ Stored => stored.trip.content \subseteq Made
  /\ (Stored /\ stored.previous # NoTrip)
       => stored.previous.content \subseteq Made

\* The trip an undo goes back to is the stored one but for one change.
PreviousInv ==
  (Stored /\ stored.previous # NoTrip /\ ~Resaved) =>
    \E c \in stored.trip.content :
      stored.previous.content = stored.trip.content \ {c}

IInv ==
  /\ TypeOK
  /\ HistoryIsChain
  /\ VersionNamesTrip
  /\ UnsavedInv
  /\ OrderInv
  /\ OriginInv
  /\ PreviousInv

-----------------------------------------------------------------------------
(* What the documents say and the code does not do.                        *)

\* TICKETS.md (032: "minor changes take effect at once and are kept after a
\* refresh") and README.md (direct edits, history kept in this browser): an
\* edit is never taken away except by an undo.
EditsAlwaysKept == [][Kept]_vars
=============================================================================
