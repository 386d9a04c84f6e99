-------------------------- MODULE MCRegistryServer --------------------------
(***************************************************************************)
(* Small instances of the registry server.                                 *)
(***************************************************************************)
EXTENDS RegistryServer, TLC

CONSTANTS p1, p2, s1, r1, r2

\* A file of the group that is queued whole and as a row range, and a file
\* outside the group's directory.
UnitsOfTwoFiles == {[path |-> p1, seg |-> s1], WholeOf(p1), WholeOf(p2)}

\* What the handlers and the properties tell apart: not which content a record
\* has, nor what an unclaimed unit was seen with.
WhatMatters ==
    LET watched == {u \in Claimed \ disturbed : seen[u] # 0}
    IN  <<pending, Recorded, {p \in Path : bytes[p] # 0}, writes, fetching, owed,
          watched, {u \in watched : bytes[u.path] # seen[u]}>>

\* Runs are interchangeable.
RunSymmetry == Permutations({r1, r2})
=============================================================================
