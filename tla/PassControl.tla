---------------------------- MODULE PassControl ----------------------------
(***************************************************************************)
(* The state that one training pass shares with its admin API              *)
(* (TrainerControlState): the phase it reports, the pause that drains it,   *)
(* and numbered checkpoint requests.  The pass, the HTTP threads and the    *)
(* signal handler each take one step at a time; phase changes happen under  *)
(* phase_mutex_ and are one step, everything else is one atomic each.       *)
(*                                                                         *)
(* A step of the pass is one sample.  The sample callback, which reports    *)
(* the phase and takes requests, comes after an optimizer step, at the end  *)
(* of an accumulation window or of the epoch, and after a sample that threw.*)
(* Abstracted: a pass has one epoch; auto-saves (they answer no request),   *)
(* progress numbers and the log.  A second signal ends the process at once  *)
(* (_exit), which leaves nothing to say.                                    *)
(***************************************************************************)
EXTENDS Naturals

CONSTANTS
    Asker,          \* HTTP threads that post /admin/checkpoint
    Samples,        \* samples of the pass
    Window,         \* gradient_accumulation_steps: samples per optimizer step
    MaxTickets      \* bound: checkpoint requests

ASSUME PassAssumption ==
    /\ Samples \in Nat /\ MaxTickets \in Nat
    /\ Window \in Nat \ {0}

VARIABLES
    phase, before,      \* phase, phase_before_pause_
    paused, stopping,   \* the pause flag; the signal handler: "no", "half", "set"
    flag, made, served, \* checkpoint_requested, checkpoint_requests_made, _served
    at, done, ticket,   \* the pass: where it is, its samples, the ticket it took
    inWindow,           \* accumulation_step: samples since the last optimizer step
    outcome,            \* how the pass ended
    asker,              \* each HTTP thread: where it is, its ticket
    begun, written,     \* history: tickets drawn when the last forced write began,
    unsaved             \* and the last that succeeded; newest ticket of a failed one

control == <<phase, before, paused, stopping>>
history == <<begun, written, unsaved>>
tickets == <<flag, made, served, history>>
pass == <<at, done, inWindow, ticket, outcome>>
vars == <<control, tickets, pass, asker>>

WorkingPhase == {"loading_data", "tokenizing", "training"}
TrainerPhase == WorkingPhase \cup {"idle", "checkpointing", "pausing"}
Ticket == 0..MaxTickets
Later(a, b) == IF a < b THEN b ELSE a

-----------------------------------------------------------------------------
(* TrainerControlState: phases *)

\* set_phase: while a pause is pending, a working phase is reported as pausing.
SetPhase(p) ==
    IF paused /\ p \in WorkingPhase
    THEN before' = p /\ phase' = "pausing"
    ELSE phase' = p /\ UNCHANGED before

\* Variant: a second pause remembers "pausing" as the phase to go back to.
RequestPauseTwice ==
    /\ paused' = TRUE
    /\ IF phase \notin {"idle", "checkpointing"}
       THEN before' = phase /\ phase' = "pausing"
       ELSE UNCHANGED <<phase, before>>
    /\ UNCHANGED <<stopping, tickets, pass, asker>>

\* request_pause (POST /admin/pause).
RequestPause ==
    /\ paused' = TRUE
    /\ IF phase \in WorkingPhase
       THEN before' = phase /\ phase' = "pausing"
       ELSE UNCHANGED <<phase, before>>
    /\ UNCHANGED <<stopping, tickets, pass, asker>>

\* Variant: a resume always goes back to training.
ClearPauseToTraining ==
    /\ paused' = FALSE
    /\ phase' = IF phase = "pausing" THEN "training" ELSE phase
    /\ UNCHANGED <<before, stopping, tickets, pass, asker>>

\* clear_pause (POST /admin/resume): the pass carries on in its phase.
ClearPause ==
    /\ paused' = FALSE
    /\ phase' = IF phase = "pausing" THEN before ELSE phase
    /\ UNCHANGED <<before, stopping, tickets, pass, asker>>

\* signal_handler: stop_signal, then paused, without the lock.
StoreStopSignal ==
    /\ stopping = "no" /\ stopping' = "half"
    /\ UNCHANGED <<phase, before, paused, tickets, pass, asker>>

StorePaused ==
    /\ stopping = "half" /\ stopping' = "set"
    /\ paused' = TRUE
    /\ UNCHANGED <<phase, before, tickets, pass, asker>>

-----------------------------------------------------------------------------
(* POST /admin/checkpoint: request_checkpoint, then wait for the ticket *)

AskerAt(a, place) == asker[a].at = place
AskerTo(a, place, t) == asker' = [asker EXCEPT ![a] = [at |-> place, ticket |-> t]]

\* An idle trainer answers 409.
CheckNotIdle(a) ==
    /\ AskerAt(a, "idle") /\ phase # "idle"
    /\ AskerTo(a, "checked", 0)
    /\ UNCHANGED <<control, tickets, pass>>

\* Variant: request_checkpoint stores the flag before it draws the ticket.
RequestFlagFirst(a) ==
    \/ /\ AskerAt(a, "checked") /\ flag' = TRUE
       /\ AskerTo(a, "ticketed", 0)
       /\ UNCHANGED <<control, made, served, history, pass>>
    \/ /\ AskerAt(a, "ticketed") /\ made < MaxTickets /\ made' = made + 1
       /\ AskerTo(a, "waiting", made')
       /\ UNCHANGED <<control, flag, served, history, pass>>

\* request_checkpoint: draws a ticket, then stores the flag.
Request(a) ==
    \/ /\ AskerAt(a, "checked") /\ made < MaxTickets /\ made' = made + 1
       /\ AskerTo(a, "ticketed", made')
       /\ UNCHANGED <<control, flag, served, history, pass>>
    \/ /\ AskerAt(a, "ticketed") /\ flag' = TRUE
       /\ AskerTo(a, "waiting", asker[a].ticket)
       /\ UNCHANGED <<control, made, served, history, pass>>

\* The answer: completed or not, when the ticket is served or the wait is over.
Answer(a) ==
    /\ AskerAt(a, "waiting")
    /\ AskerTo(a, "idle", 0)
    /\ UNCHANGED <<control, tickets, pass>>

-----------------------------------------------------------------------------
(* The pass *)

\* The pass goes from one place to the next in a phase of its own.
Enter(from, to, p) ==
    /\ at = from /\ at' = to
    /\ SetPhase(p)
    /\ UNCHANGED <<paused, stopping, asker>>

\* train_on_files, then run_training; a pass without samples fails.
LoadData == Enter("start", "loading", "loading_data")
                /\ UNCHANGED <<done, inWindow, ticket, outcome, tickets>>
Tokenize == Enter("loading", "tokenizing", "tokenizing")
                /\ UNCHANGED <<done, inWindow, ticket, outcome, tickets>>
StartTraining ==
    /\ at = "tokenizing" /\ at' = "boundary"
    /\ UNCHANGED <<control, tickets, done, inWindow, ticket, outcome, asker>>

\* train_epoch's loop: a pause is honoured where no optimizer step is half done.
AtStepBoundary == at = "boundary" /\ done < Samples /\ inWindow = 0

Abort ==
    /\ AtStepBoundary /\ paused
    /\ at' = "aborted"
    /\ UNCHANGED <<control, tickets, done, inWindow, ticket, outcome, asker>>

NextSample ==
    /\ at = "boundary" /\ done < Samples
    /\ AtStepBoundary => ~paused
    /\ at' = "sample"
    /\ UNCHANGED <<control, tickets, done, inWindow, ticket, outcome, asker>>

\* The sample callback, if there is one: it enters phase training when it is
\* called for sample 1, which need not happen.
CallBack(called) ==
    /\ at' = IF called THEN "callback" ELSE "boundary"
    /\ IF called /\ done' = 1 THEN SetPhase("training") ELSE UNCHANGED <<phase, before>>
    /\ UNCHANGED <<paused, stopping, tickets, ticket, outcome, asker>>

\* A sample is trained, throws before its backward pass (it leaves no gradient),
\* or throws later (its window is discarded).
SampleDone ==
    /\ at = "sample"
    /\ done' = done + 1
    /\ \E result \in {"trained", "skipped", "discarded"} :
          LET update == result = "trained" /\ (inWindow + 1 >= Window \/ done' = Samples)
          IN  /\ inWindow' = CASE result = "skipped" -> inWindow
                             [] result = "trained" /\ ~update -> inWindow + 1
                             [] OTHER -> 0
              /\ CallBack(update \/ result # "trained")

\* The last sample was skipped: the optimizer steps on what its window has,
\* unless that throws.
LastUpdate ==
    /\ at = "boundary" /\ done = Samples /\ inWindow > 0
    /\ inWindow' = 0
    /\ UNCHANGED done
    /\ \E called \in BOOLEAN : CallBack(called)

\* take_checkpoint_request: the flag is taken down, then the newest ticket read.
TakeFlag ==
    /\ at = "callback"
    /\ at' = IF flag THEN "taking" ELSE "boundary"
    /\ flag' = FALSE
    /\ UNCHANGED <<control, made, served, history, done, inWindow, ticket, outcome, asker>>

ReadTickets ==
    /\ at = "taking"
    /\ ticket' = made
    /\ at' = IF made = 0 THEN "boundary" ELSE "forced"
    /\ UNCHANGED <<control, tickets, done, inWindow, outcome, asker>>

BeginForced == Enter("forced", "saving", "checkpointing")
                   /\ begun' = made
                   /\ UNCHANGED <<flag, made, served, written, unsaved>>
                   /\ UNCHANGED <<done, inWindow, ticket, outcome>>

\* Variant: every ticket drawn by now counts as served, not the one taken.
SaveServesAll(ok) ==
    /\ at = "saving" /\ at' = "saved"
    /\ served' = IF ok THEN Later(served, made) ELSE served
    /\ written' = IF ok THEN begun ELSE written
    /\ unsaved' = IF ok THEN unsaved ELSE ticket
    /\ UNCHANGED <<control, flag, made, begun, done, inWindow, ticket, outcome, asker>>

\* perform_auto_save, then mark_checkpoint_served if it was written.
Save(ok) ==
    /\ at = "saving" /\ at' = "saved"
    /\ served' = IF ok THEN Later(served, ticket) ELSE served
    /\ written' = IF ok THEN begun ELSE written
    /\ unsaved' = IF ok THEN unsaved ELSE ticket
    /\ UNCHANGED <<control, flag, made, begun, done, inWindow, ticket, outcome, asker>>

EndForced == Enter("saved", "boundary", "training")
                 /\ ticket' = 0 /\ UNCHANGED <<done, inWindow, outcome, tickets>>

\* An aborted pass saves what it has (that may fail), and is not trained, even
\* when the pause was withdrawn meanwhile.
Drain == Enter("aborted", "draining", "checkpointing")
             /\ UNCHANGED <<done, inWindow, ticket, outcome, tickets>>

\* Variant: whether the pass was aborted is read from the pause flag.
EndDrainedIfPaused ==
    /\ Enter("draining", "ended", "idle")
    /\ outcome' = IF paused THEN "drained" ELSE "trained"
    /\ UNCHANGED <<done, inWindow, ticket, tickets>>

EndDrained == Enter("draining", "ended", "idle")
                  /\ outcome' = "drained" /\ UNCHANGED <<done, inWindow, ticket, tickets>>

\* Every sample is done and the final checkpoint is written.
Complete ==
    /\ done = Samples /\ inWindow = 0
    /\ Enter("boundary", "ended", "idle")
    /\ outcome' = "trained" /\ UNCHANGED <<done, inWindow, ticket, tickets>>

\* No samples, an exception, a final checkpoint that cannot be written.
Fail ==
    /\ \E place \in {"loading", "tokenizing", "boundary"} : Enter(place, "ended", "idle")
    /\ outcome' = "failed" /\ UNCHANGED <<done, inWindow, ticket, tickets>>

-----------------------------------------------------------------------------
Init ==
    /\ phase = "idle" /\ before = "idle" /\ paused = FALSE /\ stopping = "no"
    /\ flag = FALSE /\ made = 0 /\ served = 0 /\ begun = 0 /\ written = 0 /\ unsaved = 0
    /\ at = "start" /\ done = 0 /\ inWindow = 0 /\ ticket = 0 /\ outcome = "none"
    /\ asker = [a \in Asker |-> [at |-> "idle", ticket |-> 0]]

Admin ==
    \/ RequestPause \/ ClearPause
    \/ StoreStopSignal \/ StorePaused
    \/ \E a \in Asker : \/ CheckNotIdle(a) \/ Request(a) \/ Answer(a)

PassStep ==
    \/ LoadData \/ Tokenize \/ StartTraining
    \/ Abort \/ NextSample \/ SampleDone \/ LastUpdate
    \/ TakeFlag \/ ReadTickets \/ BeginForced \/ (\E ok \in BOOLEAN : Save(ok)) \/ EndForced
    \/ Drain \/ EndDrained \/ Complete \/ Fail

Next == Admin \/ PassStep
Spec == Init /\ [][Next]_vars

-----------------------------------------------------------------------------
(* Properties *)

\* The variables keep their shape.
Flags == paused \in BOOLEAN /\ flag \in BOOLEAN
Shape ==
    /\ phase \in TrainerPhase /\ before \in WorkingPhase \cup {"idle"}
    /\ stopping \in {"no", "half", "set"}
    /\ {made, served, begun, written, unsaved, ticket} \subseteq Ticket
    /\ done \in 0..Samples /\ inWindow \in 0..(Window - 1)
    /\ at \in {"start", "loading", "tokenizing", "boundary", "sample", "callback", "taking",
              "forced", "saving", "saved", "aborted", "draining", "ended"}
    /\ outcome \in {"none", "trained", "drained", "failed"}
    /\ asker \in [Asker -> [at : {"idle", "checked", "ticketed", "waiting"}, ticket : Ticket]]
TypeOK == Flags /\ Shape

\* What the pass is doing where it is: it trains once a sample is behind it.
Doing ==
    CASE at \in {"start", "ended"} -> "idle"
      [] at = "loading" -> "loading_data"
      [] at \in {"saving", "saved", "draining"} -> "checkpointing"
      [] at \in {"tokenizing", "boundary", "sample", "aborted"} /\ done = 0 -> "tokenizing"
      [] OTHER -> "training"

\* While it trains a pass may still report tokenizing: its first callback was
\* not for sample 1, as windows are longer than a sample, and it has finished
\* no forced checkpoint.
StillTokenizing == Doing = "training" /\ Window > 1 /\ begun = 0

\* The reported phase, and the one a resume goes back to, is what the pass does,
\* but for that delay, however pauses, resumes and signals fall between its
\* steps (TD-522).  Pausing is reported only while a pause is pending, and a
\* working phase under a pause only after a signal, which cannot take the lock.
PhaseIsTrue ==
    /\ LET reported == IF phase = "pausing" THEN before ELSE phase
       IN  reported = Doing \/ (StillTokenizing /\ reported = "tokenizing")
    /\ phase = "pausing" => paused
    /\ paused /\ phase \in WorkingPhase => stopping = "set"

\* A ticket counts as served only when a forced checkpoint that began after it
\* was drawn has been written (TD-521).
ServedIsWritten == served <= written

\* No request is forgotten: while one waits, its ticket is served, or met a
\* failed write, or the pass has it in hand, or the flag still asks for it.
NoRequestLost ==
    \A a \in Asker : AskerAt(a, "waiting") =>
        \/ flag \/ at = "taking"
        \/ asker[a].ticket <= served \/ asker[a].ticket <= unsaved
        \/ at \in {"forced", "saving"} /\ asker[a].ticket <= ticket

\* A pass is trained only when it did every sample, a drained one never: its
\* files are reported, or given back, accordingly.
OutcomeIsRight ==
    /\ outcome = "trained" => done = Samples
    /\ outcome = "drained" => done < Samples
=============================================================================
