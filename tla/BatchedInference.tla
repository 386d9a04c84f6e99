-------------------------- MODULE BatchedInference --------------------------
(***************************************************************************)
(* BatchedInferenceEngine: threads submit requests to a bounded queue, one *)
(* worker thread collects them into batches and answers every request of a *)
(* batch, shutdown stops the worker.  Collecting holds queue_mutex_ except *)
(* while it waits; `running_` is an atomic read and cleared without it.    *)
(*                                                                         *)
(* Abstracted: prompts and texts, statistics, and the deadline of a batch, *)
(* which may pass whenever the worker waits.  A wake-up that falls between *)
(* the wait's check and its sleep is lost, but the deadline ends the wait. *)
(***************************************************************************)
EXTENDS Naturals, Sequences

CONSTANTS
    Request,        \* the submitted requests, one thread each
    MaxBatch,       \* max_batch_size
    TokenLimit,     \* requests whose estimated tokens reach max_tokens_per_batch
    MaxQueue        \* max_queue_size

ASSUME BatchAssumption ==
    /\ MaxBatch \in Nat \ {0} /\ TokenLimit \in Nat \ {0}
    /\ MaxQueue \in Nat

VARIABLES
    running,        \* running_
    queue, batch,   \* request_queue_ and the worker's current, or last, batch
    worker,         \* where the worker is; "ended" when shutdown has joined it
    state,          \* each request: its thread's place, then its promise
    accepted, early \* history: the requests in the order they were queued, and
                    \* how many of them before shutdown

history == <<accepted, early>>
vars == <<running, queue, batch, worker, state, history>>

Settled == {"answered", "failed", "broken"}

\* The elements of a sequence, and the states of requests S set to s.
In(seq) == {seq[i] : i \in DOMAIN seq}
Set(S, s) == [r \in Request |-> IF r \in S THEN s ELSE state[r]]

-----------------------------------------------------------------------------
(* submit, and the destructor of the engine *)

\* The engine runs, or the request is refused.
CheckRunning(r) ==
    /\ state[r] = "new"
    /\ state' = Set({r}, IF running THEN "checked" ELSE "refused")
    /\ UNCHANGED <<running, queue, batch, worker, history>>

\* Variant: a full queue takes one more.
EnqueueOneMore(r) ==
    /\ state[r] = "checked" /\ worker # "collecting"
    /\ IF Len(queue) > MaxQueue
       THEN /\ state' = Set({r}, "refused")
            /\ UNCHANGED <<queue, history>>
       ELSE /\ state' = Set({r}, "waiting")
            /\ queue' = Append(queue, r)
            /\ accepted' = Append(accepted, r)
            /\ early' = IF running THEN early + 1 ELSE early
    /\ UNCHANGED <<running, batch, worker>>

\* Under queue_mutex_, which the worker has while it collects.
Enqueue(r) ==
    /\ state[r] = "checked" /\ worker # "collecting"
    /\ IF Len(queue) >= MaxQueue
       THEN /\ state' = Set({r}, "refused")
            /\ UNCHANGED <<queue, history>>
       ELSE /\ state' = Set({r}, "waiting")
            /\ queue' = Append(queue, r)
            /\ accepted' = Append(accepted, r)
            /\ early' = IF running THEN early + 1 ELSE early
    /\ UNCHANGED <<running, batch, worker>>

\* shutdown; it returns when the worker has ended.
Shutdown ==
    /\ running /\ running' = FALSE
    /\ UNCHANGED <<queue, batch, worker, state, history>>

\* The engine goes, with the queue in it: its promises are broken.  Nobody
\* submits any more.
Destroy ==
    /\ worker = "ended"
    /\ \A r \in Request : state[r] # "checked"
    /\ worker' = "destroyed"
    /\ state' = [r \in Request |->
                   CASE r \in In(queue) -> "broken"
                     [] state[r] = "new" -> "refused"
                     [] OTHER -> state[r]]
    /\ queue' = <<>>
    /\ UNCHANGED <<running, batch, history>>

-----------------------------------------------------------------------------
(* collect_batch *)

\* should_flush_batch: the batch is full, or its estimated tokens are.
ShouldFlush(b) == Len(b) >= MaxBatch \/ Len(b) >= TokenLimit

\* An empty batch is not processed.
Collected(b) == worker' = IF b = <<>> THEN "loop" ELSE "generating"

StartBatch ==
    /\ worker = "loop" /\ running
    /\ worker' = "collecting" /\ batch' = <<>>
    /\ UNCHANGED <<running, queue, state, history>>

\* Variant: the newest request is taken.
TakeNewest ==
    /\ worker = "collecting" /\ running /\ queue # <<>>
    /\ batch' = Append(batch, queue[Len(queue)])
    /\ queue' = SubSeq(queue, 1, Len(queue) - 1)
    /\ IF ShouldFlush(batch') THEN Collected(batch') ELSE UNCHANGED worker
    /\ UNCHANGED <<running, state, history>>

Take ==
    /\ worker = "collecting" /\ running /\ queue # <<>>
    /\ batch' = Append(batch, Head(queue))
    /\ queue' = Tail(queue)
    /\ IF ShouldFlush(batch') THEN Collected(batch') ELSE UNCHANGED worker
    /\ UNCHANGED <<running, state, history>>

Wait ==
    /\ worker = "collecting" /\ running /\ queue = <<>>
    /\ worker' = "asleep"
    /\ UNCHANGED <<running, queue, batch, state, history>>

\* Variant: the wait is for requests only.
WakeForRequest ==
    /\ worker = "asleep" /\ queue # <<>>
    /\ worker' = "collecting"
    /\ UNCHANGED <<running, queue, batch, state, history>>

\* The wait's condition: a request, or shutdown.
WakeUp ==
    /\ worker = "asleep" /\ (queue # <<>> \/ ~running)
    /\ worker' = "collecting"
    /\ UNCHANGED <<running, queue, batch, state, history>>

\* Variant: the deadline only ends the wait of an empty batch.
DeadlineIfEmpty ==
    /\ worker = "asleep" /\ queue = <<>> /\ running /\ batch = <<>>
    /\ Collected(batch)
    /\ UNCHANGED <<running, queue, batch, state, history>>

\* The deadline passes and the condition is still false: what is there is flushed.
Deadline ==
    /\ worker = "asleep" /\ queue = <<>> /\ running
    /\ Collected(batch)
    /\ UNCHANGED <<running, queue, batch, state, history>>

StopCollecting ==
    /\ worker = "collecting" /\ ~running
    /\ Collected(batch)
    /\ UNCHANGED <<running, queue, batch, state, history>>

-----------------------------------------------------------------------------
(* process_batch, and the end of batch_processing_loop *)

\* Variant: a request that throws ends the batch, and the others keep their
\* promises pending.
ProcessUntilThrow ==
    /\ worker \in {"generating", "last"}
    /\ \/ state' = Set(In(batch), "answered")
       \/ state' = Set({Head(batch)}, "failed")
    /\ worker' = IF worker = "last" THEN "ended" ELSE "loop"
    /\ UNCHANGED <<running, queue, batch, history>>

\* Every request of the batch is generated, then answered; one that throws
\* fails them all.
Process ==
    /\ worker \in {"generating", "last"}
    /\ \E result \in {"answered", "failed"} : state' = Set(In(batch), result)
    /\ worker' = IF worker = "last" THEN "ended" ELSE "loop"
    /\ UNCHANGED <<running, queue, batch, history>>

\* Variant: the worker ends without a last batch.
EndAtOnce ==
    /\ worker = "loop" /\ ~running
    /\ worker' = "ended" /\ batch' = <<>>
    /\ UNCHANGED <<running, queue, state, history>>

\* After shutdown, collect_batch_no_wait takes one last batch.
DrainOnce ==
    /\ worker = "loop" /\ ~running
    /\ LET n == IF Len(queue) < MaxBatch THEN Len(queue) ELSE MaxBatch
       IN  /\ batch' = SubSeq(queue, 1, n)
           /\ queue' = SubSeq(queue, n + 1, Len(queue))
           /\ worker' = IF n = 0 THEN "ended" ELSE "last"
    /\ UNCHANGED <<running, state, history>>

-----------------------------------------------------------------------------
Init ==
    /\ running = TRUE
    /\ queue = <<>> /\ batch = <<>>
    /\ worker = "loop"
    /\ state = [r \in Request |-> "new"]
    /\ accepted = <<>> /\ early = 0

Client == \/ \E r \in Request : CheckRunning(r) \/ Enqueue(r)
          \/ Shutdown
          \/ Destroy

Work == \/ StartBatch \/ Take \/ Wait \/ WakeUp \/ Deadline \/ StopCollecting
        \/ Process \/ DrainOnce

Next == Client \/ Work
Spec == Init /\ [][Next]_vars

\* The worker's thread runs and a generation ends: max_length bounds it.
LiveSpec == Spec /\ WF_vars(Work)

-----------------------------------------------------------------------------
(* Properties *)

\* The requests that the worker still has to settle, in its order.
InHand == worker \in {"collecting", "asleep", "generating", "last"}
Line == IF InHand THEN batch \o queue ELSE queue

\* The variables keep their shape and the queue its bound.
TypeOK ==
    /\ running \in BOOLEAN
    /\ queue \in Seq(Request) /\ Len(queue) <= MaxQueue
    /\ batch \in Seq(Request) /\ Len(batch) <= MaxBatch
    /\ worker \in {"loop", "collecting", "asleep", "generating", "last", "ended", "destroyed"}
    /\ state \in [Request -> {"new", "checked", "refused", "waiting"} \cup Settled]
    /\ accepted \in Seq(Request) /\ early \in 0..Len(accepted)

\* The worker's line is the last of what was queued, in that order, and exactly
\* they wait: no promise is dropped without an outcome, none is settled twice.
LineIsWhoWaits ==
    LET settled == Len(accepted) - Len(Line)
    IN  /\ Len(Line) <= Len(accepted)
        /\ \A i \in DOMAIN Line : Line[i] = accepted[settled + i]
        /\ \A i \in DOMAIN accepted : state[accepted[i]] = "waiting" <=> i > settled

\* Requests are settled in the order they were queued, whatever batches they
\* fall in, up to the end of the engine.
FirstComeFirstServed ==
    \A i, j \in DOMAIN accepted :
        i < j /\ state[accepted[j]] \in Settled => state[accepted[i]] \in Settled

\* What shutdown owes: a request queued before it is left behind only by a full
\* last batch.
DrainsABatch ==
    worker = "ended" /\ (\E i \in 1..early : state[accepted[i]] = "waiting")
        => Len(batch) = MaxBatch

\* A request that was queued is settled, as long as the engine runs.
RequestsSettle ==
    \A r \in Request : state[r] = "waiting" ~> state[r] \in Settled \/ ~running

\* A shutdown ends, although it notifies the worker without the lock.
ShutdownEnds == ~running ~> worker \in {"ended", "destroyed"}
=============================================================================
