-------------------------- MODULE MCMetricsSessions --------------------------
EXTENDS MetricsSessions, TLC

CONSTANTS k1, k2, h1, h2, h3

Symmetric == Permutations(Key) \cup Permutations(Thread)

(* The VIEW leaves out what no later step and no property asks for: all of a
   session that no thread holds but whether its records are on disk; what a
   retired one has in memory, and how far one had come that is out of the map; in
   which archive records are; the names of those that lie with some restored
   session's, where no mixture counts; and whose an old summary is. *)

\* A thread whose request can no longer do anything.
Idle(w, inRows) == LET s == job[w].own IN
    /\ job[w].pc = "apply" /\ session[s].retired
    /\ session[s].begun \/ ~session[s].fresh \/ s \notin inRows

Job(w, inRows) ==
    IF Idle(w, inRows) THEN [job[w] EXCEPT !.own = None]
    ELSE IF job[w].pc = "begin" THEN [job[w] EXCEPT !.key = NoKey] ELSE job[w]

Memory(s, inRows) ==
    LET v == session[s]
        apart == v.fresh /\ (v.retired => s \in inRows)
    IN
    IF live[v.key] = s THEN
        [v EXCEPT !.stale = @ /\ v.training, !.claimed = @ /\ ~v.started,
                  !.begun = @ /\ v.fresh, !.saved = FALSE, !.lost = FALSE]
    ELSE [Unmade EXCEPT
              !.key = v.key, !.retired = v.retired,
              !.fresh = apart, !.begun = v.begun /\ apart,
              !.flushed = v.flushed /\ ~v.retired,
              !.unsaved = v.unsaved /\ ~v.retired,
              !.lost = v.lost /\ v.flushed /\ ~v.retired]

Kept(s) ==
    /\ session[s].saved => s \in rows[session[s].key] \cup UNION archived
    /\ session[s].retired /\ session[s].unsaved => session[s].lost

WhatMatters ==
    LET mixed == {k \in Key : \E s \in rows[k] : ~session[s].fresh}
        inRows == UNION {rows[k] : k \in Key \ mixed}
        jobs == [w \in Worker |-> Job(w, inRows)]
        held == Live \cup UNION {jobs[w].pending \cup {jobs[w].own} : w \in Worker}
    IN  <<live, archiving, made, faults, jobs,
          [s \in 1..made |->
              <<IF s \in held THEN Memory(s, inRows) ELSE session[s].fresh /\ s \in inRows,
                Kept(s)>>],
          [k \in Key |->
              <<IF k \in mixed THEN Session ELSE rows[k], summary[k] # None,
                live[k] # None /\ session[live[k]].fresh
                    => summary[k] \in {None, live[k]} \cup strays>>]>>
=============================================================================
