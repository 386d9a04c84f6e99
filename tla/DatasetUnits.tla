---------------------------- MODULE DatasetUnits ----------------------------
(***************************************************************************)
(* The vocabulary of the dataset registry: trainable units (a data file,   *)
(* or a row range of one), the runs that claim them and the models they    *)
(* are assigned to.                                                        *)
(***************************************************************************)
EXTENDS Naturals, FiniteSets

CONSTANTS
    Path, Seg, Whole,   \* data files, row ranges, and "the whole file"
    Unit,               \* the trainable units in use
    Run, NoRun,         \* run ids, and the empty run id
    Model, NoModel      \* model names, and the empty name

WholeOf(p) == [path |-> p, seg |-> Whole]

ASSUME UnitAssumption ==
    /\ Whole \notin Seg
    /\ Unit \subseteq [path : Path, seg : Seg \cup {Whole}]
    /\ \A u \in Unit : WholeOf(u.path) \in Unit

ASSUME NameAssumption == NoRun \notin Run /\ NoModel \notin Model

Owner == Run \cup {NoRun}
Assignee == Model \cup {NoModel}

\* Does a reported unit v stand for the queue entry u?  An exact report names
\* the unit itself, one without ranges names every unit of the file.
Matches(u, v, exact) == IF exact THEN u = v ELSE u.path = v.path

\* The records of S that a delete target t removes: every record of the file
\* for a whole-file target, exactly the range's for a row range (TD-333).
PurgedBy(t, S) == {u \in S : IF t.seg = Whole THEN u.path = t.path ELSE u = t}
=============================================================================
