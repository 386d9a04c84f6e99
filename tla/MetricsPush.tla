----------------------------- MODULE MetricsPush -----------------------------
(***************************************************************************)
(* One training pass that reports to the metrics server (run_training of    *)
(* IncrementalTrainer, MetricsPushClient).  The pass takes the first free    *)
(* one of its keys, then queues events while it trains.  A push thread sends *)
(* them one by one, retries what is not answered, starts the session again  *)
(* when the server no longer knows it, and sends heartbeats.  At the end it *)
(* drains the queue against a deadline, with /end last.                     *)
(*                                                                         *)
(* Requests and answers are lost and the server is down for as long as it   *)
(* likes; it forgets sessions (restart, sweep); other trainers take keys.   *)
(*                                                                         *)
(* Abstracted: the metrics.  A request that got no answer was executed at   *)
(* once or never.  Another trainer ends no session but its own.             *)
(***************************************************************************)
EXTENDS Naturals, Sequences, SequencesExt

CONSTANTS
    Keys,       \* keys a pass tries: its own, then with the suffixes -2, -3
    Attempts,   \* kMaxAttempts
    Depth,      \* max_queue_depth_
    MaxEpochs   \* bound: events that are not per-sample ones

ASSUME MetricsPushAssumption ==
    Keys \in Nat \ {0} /\ Attempts \in Nat \ {0} /\ Depth \in Nat \ {0} /\ MaxEpochs \in Nat

VARIABLES
    pc,         \* where the pass is
    key,        \* the key it tries or reports under
    queue,      \* queue_
    made,       \* epoch and session events so far; they are numbered
    stopping,   \* stop_
    late,       \* the drain deadline is past
    call,       \* what the push thread, or the starting pass, is posting
    tries,      \* attempts left
    event,      \* the event in the push thread's hands
    draining,   \* the push thread's copy of stop_
    server,     \* the session of each key: whose, and whether it ended
    sent,       \* history: the numbers of the events taken from the queue
    cut,        \* history: the deadline emptied the queue
    evicted,    \* history: the server forgot the session under the key
    hits,       \* history: faults that met the event in hand, 2 for more
    landed,     \* history: the event in hand was applied
    astray,     \* history: metrics were applied to another trainer's session
    lost,       \* history: an event was given up after less than two faults
    ended       \* history: /end was answered

vars == <<pc, key, queue, made, stopping, late, call, tries, event, draining,
          server, sent, cut, evicted, hits, landed, astray, lost, ended>>

passVars == <<pc, key, made, stopping, late>>
history  == <<cut, evicted, astray, lost, ended>>

Sample   == [kind |-> "sample", n |-> 0]
Epoch(n) == [kind |-> "epoch", n |-> n]
End(n)   == [kind |-> "end", n |-> n]

IsSample(e) == e.kind = "sample"

\* The events of q of some kinds, in their order; the first n events of q give keep[n].
OfKind(q, kinds) ==
    LET keep[n \in 0..Len(q)] ==
            IF n = 0 THEN <<>>
            ELSE IF q[n].kind \in kinds THEN Append(keep[n - 1], q[n]) ELSE keep[n - 1]
    IN  keep[Len(q)]

Weighty(q) == OfKind(q, {"epoch", "end"})
Numbers(q) == [i \in DOMAIN Weighty(q) |-> Weighty(q)[i].n]

Live == {"ours", "theirs"}
Hit  == hits' = IF hits = 0 THEN 1 ELSE 2

-----------------------------------------------------------------------------
(* The server, as the pass sees it *)

Status(what, k) ==
    IF what = "start" THEN IF server[k] \in Live THEN 409 ELSE 200
    ELSE IF server[k] = "none" THEN 404 ELSE 200

\* What executing a request makes of the session of its key.
After(what, k) ==
    CASE what = "start" /\ server[k] \notin Live -> "ours"
      [] what = "end" /\ server[k] = "ours" -> "ours ended"
      [] what = "end" /\ server[k] = "theirs" -> "theirs ended"
      [] OTHER -> server[k]

\* A restart, the sweep, or a start of the key that found the session stale.
Forget(k) ==
    /\ server[k] # "none"
    /\ server' = [server EXCEPT ![k] = "none"]
    /\ evicted' = (evicted \/ (k = key /\ server[k] = "ours"))
    /\ IF k = key /\ call # "none" THEN Hit ELSE UNCHANGED hits
    /\ UNCHANGED <<passVars, queue, call, tries, event, draining, sent, cut, landed,
                   astray, lost, ended>>

\* Another trainer starts or ends its session.
OtherTrainer(k) ==
    /\ \/ server[k] \notin Live /\ server' = [server EXCEPT ![k] = "theirs"]
       \/ server[k] = "theirs" /\ server' = [server EXCEPT ![k] = "theirs ended"]
    /\ UNCHANGED <<passVars, queue, call, tries, event, draining, sent, hits, landed, history>>

-----------------------------------------------------------------------------
(* attempt_post *)

\* The request the call in progress sends.
Request ==
    CASE call \in {"hello", "register"} -> "start"
      [] call = "heartbeat" -> "heartbeat"
      [] OTHER -> event.kind

Execute ==
    /\ server' = [server EXCEPT ![key] = After(Request, key)]
    /\ landed' = (landed \/ (call \in {"event", "again"} /\ server[key] # "none"))
    /\ astray' = (astray \/ (/\ call \in {"event", "again"} /\ event.kind # "end"
                             /\ server[key] \in {"theirs", "theirs ended"}))

\* No answer, or one above 499; with another attempt left.
Retry ==
    /\ call # "none" /\ tries > 1
    /\ tries' = tries - 1
    /\ Hit
    /\ Execute \/ UNCHANGED <<server, landed, astray>>
    /\ UNCHANGED <<passVars, queue, call, event, draining, sent, cut, evicted, lost, ended>>

\* The call returns a status: that of the answer, or 0 after the last attempt.
Returns(what, status) ==
    /\ call = what
    /\ \/ status = Status(Request, key) /\ Execute /\ UNCHANGED hits
       \/ status = 0 /\ tries = 1 /\ (Execute \/ UNCHANGED <<server, landed, astray>>) /\ Hit

-----------------------------------------------------------------------------
(* The pass *)

\* Variant: 409 is taken for success, as when a session is started again.
StartOnConflict(status) ==
    /\ pc = "starting" /\ Returns("hello", status)
    /\ pc' = IF status \in {200, 409} THEN "training" ELSE "unreported"
    /\ call' = "none"
    /\ UNCHANGED <<key, queue, made, stopping, late, tries, event, draining, sent, cut,
                   evicted, lost, ended>>

\* start_session: accepted, refused for a session in progress, or without success.
\* Only 409 leads to another key; without a session the pass trains all the same.
Start(status) ==
    /\ pc = "starting" /\ Returns("hello", status)
    /\ CASE status = 200 -> pc' = "training" /\ call' = "none" /\ UNCHANGED <<key, tries>>
         [] status = 409 /\ key < Keys ->
              key' = key + 1 /\ tries' = Attempts /\ UNCHANGED <<pc, call>>
         [] OTHER -> pc' = "unreported" /\ call' = "none" /\ UNCHANGED <<key, tries>>
    /\ UNCHANGED <<queue, made, stopping, late, event, draining, sent, cut, evicted,
                   lost, ended>>

\* Variants: the oldest event makes room, or none does.
EvictOldest(q) == IF Len(q) < Depth THEN q ELSE Tail(q)

EvictNone(q) == q

\* The oldest per-sample event makes room for one that is never dropped.
Evict(q) ==
    IF Len(q) < Depth \/ \A i \in DOMAIN q : ~IsSample(q[i]) THEN q
    ELSE RemoveAt(q, CHOOSE i \in DOMAIN q :
             IsSample(q[i]) /\ \A j \in 1..(i - 1) : ~IsSample(q[j]))

Enqueue(e) ==
    queue' = IF IsSample(e)
             THEN IF Len(queue) < Depth THEN Append(queue, e) ELSE queue
             ELSE Append(Evict(queue), e)

EnqueueSample ==
    /\ pc = "training" /\ Len(queue) < Depth /\ Enqueue(Sample)
    /\ UNCHANGED <<passVars, call, tries, event, draining, server, sent, hits, landed, history>>

EnqueueEpoch ==
    /\ pc = "training" /\ made < MaxEpochs
    /\ made' = made + 1 /\ Enqueue(Epoch(made'))
    /\ UNCHANGED <<pc, key, stopping, late, call, tries, event, draining, server, sent,
                   hits, landed, history>>

\* end_session queues /end, then sets stop_; the destructor, when an exception
\* unwinds the pass, only the latter.
EndSession ==
    /\ pc = "training" /\ pc' = "ending"
    /\ made' = made + 1 /\ Enqueue(End(made'))
    /\ UNCHANGED <<key, stopping, late, call, tries, event, draining, server, sent,
                   hits, landed, history>>

BeginStop ==
    /\ pc \in {"training", "ending"} /\ pc' = "joining"
    /\ stopping' = TRUE
    /\ UNCHANGED <<key, queue, made, late, call, tries, event, draining, server, sent,
                   hits, landed, history>>

DeadlinePasses ==
    /\ stopping /\ ~late /\ late' = TRUE
    /\ UNCHANGED <<pc, key, queue, made, stopping, call, tries, event, draining, server,
                   sent, hits, landed, history>>

-----------------------------------------------------------------------------
(* push_loop *)

\* What is left to send: no per-sample events while draining, and at the
\* deadline nothing but /end.
Kept ==
    IF ~stopping THEN queue
    ELSE IF late THEN OfKind(queue, {"end"})
    ELSE Weighty(queue)

Reporting == pc \notin {"starting", "unreported", "done"}

\* The next event, under the queue's lock.
Take ==
    /\ Reporting /\ call = "none" /\ Kept # <<>>
    /\ draining' = stopping
    /\ cut' = (cut \/ (late /\ Weighty(queue) # Kept))
    /\ event' = Head(Kept) /\ queue' = Tail(Kept)
    /\ sent' = IF IsSample(event') THEN sent ELSE Append(sent, event'.n)
    /\ call' = "event" /\ tries' = IF stopping THEN 1 ELSE Attempts
    /\ hits' = IF server[key] = "ours" THEN 0 ELSE 1
    /\ landed' = FALSE
    /\ UNCHANGED <<passVars, server, evicted, astray, lost, ended>>

\* Variant: the thread stays until /end was answered.
LeaveWhenEnded ==
    /\ stopping /\ Reporting /\ call = "none" /\ Kept = <<>> /\ ended
    /\ pc' = "done" /\ queue' = <<>>
    /\ UNCHANGED <<key, made, stopping, late, call, tries, event, draining, server, sent,
                   hits, landed, history>>

\* Drained: the thread ends, and with it the wait of end_session.
Leave ==
    /\ stopping /\ Reporting /\ call = "none" /\ Kept = <<>>
    /\ pc' = "done" /\ queue' = <<>>
    /\ cut' = (cut \/ (late /\ Weighty(queue) # <<>>))
    /\ UNCHANGED <<key, made, stopping, late, call, tries, event, draining, server, sent,
                   hits, landed, evicted, astray, lost, ended>>

\* The event is done with.  Unless draining, a heartbeat may be due.
Finish ==
    /\ \/ call' = "none" /\ UNCHANGED tries
       \/ ~draining /\ call' = "heartbeat" /\ tries' = Attempts
    /\ lost' = (lost \/ (~draining /\ event.kind = "epoch" /\ ~landed' /\ hits' < 2))
    /\ UNCHANGED queue

\* Variant: a session unknown to /end is started again as well.
PostEventOrEnd(status) ==
    /\ Returns("event", status)
    /\ ended' = (ended \/ (event.kind = "end" /\ status # 0))
    /\ IF status = 404
       THEN /\ call' = "register" /\ tries' = IF draining THEN 1 ELSE Attempts
            /\ UNCHANGED <<queue, lost>>
       ELSE Finish
    /\ UNCHANGED <<passVars, event, draining, sent, cut, evicted>>

PostEvent(status) ==
    /\ Returns("event", status)
    /\ ended' = (ended \/ (event.kind = "end" /\ status # 0))
    /\ IF status = 404 /\ event.kind # "end"
       THEN /\ call' = "register" /\ tries' = IF draining THEN 1 ELSE Attempts
            /\ UNCHANGED <<queue, lost>>
       ELSE Finish
    /\ UNCHANGED <<passVars, event, draining, sent, cut, evicted>>

\* Variant: the event is not sent again.
RegisterOnly(status) ==
    /\ Returns("register", status)
    /\ Finish
    /\ UNCHANGED <<passVars, event, draining, sent, cut, evicted, ended>>

\* reconnect_body_: 409 is taken for the session being there again.
Register(status) ==
    /\ Returns("register", status)
    /\ IF status \in {200, 409}
       THEN /\ call' = "again" /\ tries' = IF draining THEN 1 ELSE Attempts
            /\ UNCHANGED <<queue, lost>>
       ELSE Finish
    /\ UNCHANGED <<passVars, event, draining, sent, cut, evicted, ended>>

PostAgain(status) ==
    /\ Returns("again", status)
    /\ Finish
    /\ UNCHANGED <<passVars, event, draining, sent, cut, evicted, ended>>

\* The queue stayed empty for an interval.
HeartbeatDue ==
    /\ pc \in {"training", "ending"} /\ call = "none" /\ queue = <<>>
    /\ call' = "heartbeat" /\ tries' = Attempts /\ draining' = FALSE
    /\ UNCHANGED <<passVars, queue, event, server, sent, hits, landed, history>>

Heartbeat(status) ==
    /\ Returns("heartbeat", status)
    /\ call' = "none"
    /\ UNCHANGED <<passVars, queue, tries, event, draining, sent, cut, evicted, lost, ended>>

-----------------------------------------------------------------------------
Init ==
    /\ pc = "starting" /\ key = 1
    /\ queue = <<>> /\ made = 0 /\ stopping = FALSE /\ late = FALSE
    /\ call = "hello" /\ tries = Attempts /\ event = Sample /\ draining = FALSE
    /\ server \in [1..Keys -> {"none", "theirs"}]
    /\ sent = <<>> /\ cut = FALSE /\ evicted = FALSE
    /\ hits = 0 /\ landed = FALSE /\ astray = FALSE /\ lost = FALSE /\ ended = FALSE

Push ==
    \/ Take \/ Leave \/ Retry
    \/ \E status \in {0, 200, 404, 409} :
         PostEvent(status) \/ Register(status) \/ PostAgain(status) \/ Heartbeat(status)

Pass ==
    \/ \E status \in {0, 200, 409} : Start(status)
    \/ EnqueueSample \/ EnqueueEpoch \/ EndSession \/ BeginStop

Next ==
    \/ Push \/ HeartbeatDue \/ Pass
    \/ DeadlinePasses
    \/ \E k \in 1..Keys : Forget(k) \/ OtherTrainer(k)

\* The push thread runs, and every call returns: a POST has a time limit.
Spec == Init /\ [][Next]_vars /\ WF_vars(Push)

-----------------------------------------------------------------------------
(* Properties *)

\* The queue grows past its limit only with events that are never dropped.
TypeOK ==
    /\ pc \in {"starting", "unreported", "training", "ending", "joining", "done"}
    /\ key \in 1..Keys /\ tries \in 0..Attempts
    /\ call \in {"none", "hello", "event", "register", "again", "heartbeat"}
    /\ made \in 0..(MaxEpochs + 1)
    /\ server \in [1..Keys -> {"none", "ours", "ours ended", "theirs", "theirs ended"}]
    /\ Len(queue) > Depth => \A i \in DOMAIN queue : ~IsSample(queue[i])

\* Epoch and session events are taken in the order they were made and none is
\* passed over, however full the queue gets, until the drain deadline; then
\* /end alone is still sent ("Epoch and Session events are never dropped").
NothingIsPassedOver ==
    LET all == [i \in 1..made |-> i]
        kept == sent \o Numbers(queue)
    IN IF ~cut THEN kept = all
       ELSE \E i \in 0..made :
              kept \in {SubSeq(all, 1, i), SubSeq(all, 1, i) \o <<made>>}

\* As long as the pass trains, one fault does not cost an epoch event: neither a
\* lost request or answer nor a session the server forgot.
OneFaultLosesNothing == ~lost

\* No metrics land in another trainer's session while the server keeps the one
\* the pass started, whichever keys were taken.  (A repeated /end may: the first
\* one was executed, its answer lost, and another trainer took the key at once.)
OwnSessionOnly == astray => evicted

\* A pass whose /end was answered leaves no session of its own live under its
\* key, where it would refuse the next pass until it is stale.
LeavesNoSession == ended => server[key] # "ours"

\* end_session returns, whatever the server does (TD-442).
EndReturns == pc = "joining" ~> pc = "done"
=============================================================================
