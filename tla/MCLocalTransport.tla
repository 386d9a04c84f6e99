-------------------------- MODULE MCLocalTransport --------------------------
EXTENDS LocalTransport, TLC

CONSTANTS p1, p2, s1, r1, r2, m1

\* A file queued whole and as a row range; two whole files.
WholeAndRange == {[path |-> p1, seg |-> s1], WholeOf(p1)}
TwoFiles == {WholeOf(p1), WholeOf(p2)}

RunSymmetry == Permutations({r1, r2})

\* What is left of a call: of a requeue, what it found to put back and, once it
\* has, the records it saves; of a delete with the queue behind it, the records it
\* saves, if it saves any; of a commit, once it has saved them, no records.
LeftOf(p) ==
    LET j == job[p] IN
    CASE j.op = "requeue" /\ j.at = "unlocked" ->
           [j EXCEPT !.units = {}, !.model = NoModel, !.queue = Empty,
                     !.records = @ \ Requeued(p)]
      [] j.op = "requeue" -> [j EXCEPT !.units = Requeued(p)]
      [] j.op = "delete" /\ j.at = "unlocked" ->
           LET gone == UNION {PurgedBy(t, j.records) : t \in j.units}
           IN  IF gone = {} THEN [j EXCEPT !.units = {}, !.force = FALSE, !.queue = Empty,
                                           !.records = {}]
               ELSE [j EXCEPT !.units = Unit, !.force = FALSE, !.queue = Empty,
                              !.records = @ \ gone]
      [] j.at = "recorded" -> [j EXCEPT !.records = {}]
      [] OTHER -> j

WhatMatters == <<pending, registry, lock, batch, erased, [p \in Process |-> LeftOf(p)]>>

AllUnassigned == [r \in Run |-> NoModel]
=============================================================================
