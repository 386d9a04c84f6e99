------------------------------ MODULE WorkQueue ------------------------------
(***************************************************************************)
(* What the dataset registry promises its users, without files, leases,    *)
(* messages or crashes: a unit is queued, claimed by one run, and leaves   *)
(* the queue only because a run that held it reported it, or the whole     *)
(* file it is part of, as trained.                                         *)
(***************************************************************************)
CONSTANTS
    Unit,           \* trainable units
    Run,            \* training runs
    Parts,          \* the units that training a unit covers, itself included
    Out, Free       \* a unit that is not queued; a queued unit nobody claimed

VARIABLES
    holder,         \* Out, Free, or the run that holds the unit
    trained         \* units recorded as trained

wqVars == <<holder, trained>>

HeldUnits(r) == {u \in Unit : holder[u] = r}

Set(S, h) == [u \in Unit |-> IF u \in S THEN h ELSE holder[u]]

WQInit ==
    /\ holder = [u \in Unit |-> Out]
    /\ trained = {}

\* A unit enters the queue, for the first time or again.
Enqueue(u) ==
    /\ holder[u] = Out
    /\ holder' = Set({u}, Free)
    /\ UNCHANGED trained

\* A run claims queued units, also from runs that hold them.
Claim(r, S) ==
    /\ \A u \in S : holder[u] # Out
    /\ holder' = Set(S, r)
    /\ UNCHANGED trained

\* A run gives units back.
Return(r, S) ==
    /\ S \subseteq HeldUnits(r)
    /\ holder' = Set(S, Free)
    /\ UNCHANGED trained

\* A run reports the units T that it holds; the units S that it holds leave the
\* queue, each covered by what was reported.
Finish(r, T, S) ==
    /\ T \subseteq HeldUnits(r)
    /\ S \subseteq HeldUnits(r) \cap UNION {Parts[t] : t \in T}
    /\ trained' = trained \cup T
    /\ holder' = Set(S, Out)

WQNext ==
    \/ \E u \in Unit : Enqueue(u)
    \/ \E r \in Run, S \in SUBSET Unit :
          \/ Claim(r, S)
          \/ Return(r, S)
          \/ \E T \in SUBSET Unit : Finish(r, T, S)

WQSpec == WQInit /\ [][WQNext]_wqVars
=============================================================================
