----------------------------- MODULE ModelGate -----------------------------
(***************************************************************************)
(* The model regression gate: evaluation/regression.ts, the command that   *)
(* maintains its file (scripts/model-regression.ts) and the question the   *)
(* request guard asks of that file.  Commands are run one at a time.       *)
(***************************************************************************)
EXTENDS Naturals

CONSTANTS
    Models,  \* names a provider reports
    Missing  \* no file, or one that does not parse

VARIABLES
    gate,    \* the file's state, or Missing
    pending, \* what the running command is going to write, or Missing
    passes,  \* history: models whose full regression passed since observed
    trusted  \* history: models a file was begun with

gateVars == <<gate, pending, passes, trusted>>

States ==
    [lastPassed : Models, observed : Models,
     status : {"passed", "regression_required", "smoke_failed"},
     smoke : {0, 5}, critical : 0 .. 1, full : {0, 12, 36}]

GateInit ==
    /\ gate = Missing
    /\ pending = Missing
    /\ passes = {}
    /\ trusted = {}

\* The command begins with the file, or with a state that has passed.
Begun(m) ==
    IF gate # Missing THEN gate
    ELSE [lastPassed |-> m, observed |-> m, status |-> "passed",
          smoke |-> 0, critical |-> 0, full |-> 0]

\* Fault: a change of model keeps the status.
ObservedKept(s, m) ==
    IF m = s.observed THEN s
    ELSE [s EXCEPT !.observed = m, !.smoke = 0, !.critical = 0, !.full = 0]

\* observeModel: another model invalidates what the last one has passed.
Observed(s, m) ==
    IF m = s.observed THEN s
    ELSE [s EXCEPT !.observed = m, !.status = "regression_required",
                   !.smoke = 0, !.critical = 0, !.full = 0]

\* recordSmoke: five cases; a passed model has to pass in full again.
Smoked(s, critical) ==
    [s EXCEPT !.smoke = 5, !.critical = critical,
              !.status = IF critical > 0 THEN "smoke_failed"
                         ELSE "regression_required"]

\* recordFullRegression: 36 samples and a passed gate.
FullyTested(s, samples, passed) ==
    IF samples # 36 \/ ~passed
    THEN [s EXCEPT !.status = "regression_required", !.full = samples]
    ELSE [s EXCEPT !.lastPassed = s.observed, !.status = "passed",
                   !.full = 36, !.critical = 0]

\* A command reads the file and decides; a report of other than five smoke cases
\* makes it fail and write nothing.
Command(m) ==
    /\ pending = Missing
    /\ \/ /\ pending' = Observed(Begun(m), m)
          /\ passes' = passes
       \/ \E critical \in 0 .. 1 :
            /\ pending' = Smoked(Observed(Begun(m), m), critical)
            /\ passes' = passes
       \/ \E samples \in {12, 36}, passed \in BOOLEAN :
            /\ pending' = FullyTested(Observed(Begun(m), m), samples, passed)
            /\ passes' = IF samples = 36 /\ passed
                         THEN passes \cup {m} ELSE passes
    /\ trusted' = IF gate = Missing THEN trusted \cup {m} ELSE trusted
    /\ UNCHANGED gate

\* It writes the file, and may be killed while it does.
Write ==
    /\ pending # Missing
    /\ gate' \in {pending, Missing}
    /\ pending' = Missing
    /\ passes' = IF gate' = Missing THEN passes
                 ELSE passes \cap {gate'.observed}
    /\ UNCHANGED trusted

GateNext == (\E m \in Models : Command(m)) \/ Write

GateSpec == GateInit /\ [][GateNext]_gateVars

\* regressionAllowsCustomGeneration, when a file is configured.
Allows == gate # Missing /\ gate.status = "passed"

-----------------------------------------------------------------------------
(* Properties *)

GateTypeOK ==
    /\ {gate, pending} \subseteq States \cup {Missing}
    /\ {passes, trusted} \subseteq SUBSET Models

\* While the gate is open, the model last observed is one whose full regression
\* passed after it was observed, or one that a missing or damaged file was begun
\* with.  (observeModel, recordFullRegression)
OpenMeansTested ==
    Allows => gate.observed \in passes \cup trusted

\* For the proof: what a command is going to write opens the gate only for such a
\* model either.
GateInv ==
    /\ gate \in States \cup {Missing} /\ pending \in States \cup {Missing}
    /\ \A s \in {gate, pending} :
        s # Missing /\ s.status = "passed" => s.observed \in passes \cup trusted
=============================================================================
