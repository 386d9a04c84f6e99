------------------------- MODULE PassControl_proofs -------------------------
(***************************************************************************)
(* Proofs about a pass and its admin API, for any number of HTTP threads,  *)
(* samples and requests, and any accumulation window.                      *)
(***************************************************************************)
EXTENDS PassControl, TLAPS

\* Where the pass is bounds how far it got, and tells how it may end.
PlaceInv ==
    /\ at \in {"start", "loading", "tokenizing"} => done = 0
    /\ at \in {"callback", "taking", "forced", "saving", "saved"} => done > 0
    /\ at \in {"sample", "aborted", "draining"} => done < Samples
    /\ inWindow > 0 \/ begun > 0 => done > 0
    /\ outcome # "none" => at = "ended"

\* A pause that is reported knows the phase to go back to.
PhaseInv ==
    /\ PhaseIsTrue
    /\ phase = "pausing" => before \in WorkingPhase

\* How the ticket counters relate while the pass has a request in hand.
TicketInv ==
    /\ served <= written /\ written <= begun /\ begun <= made
    /\ unsaved <= made /\ ticket <= made
    /\ at \in {"forced", "saving"} => unsaved <= ticket
    /\ at = "saving" => ticket <= begun
    /\ \A a \in Asker : asker[a].ticket <= made

-----------------------------------------------------------------------------
(* Type correctness, and where the pass is *)

\* Every step of the pass and of its admin API keeps the variables' shape and
\* the pass where its loop can be.
LEMMA ShapeStep ==
    ASSUME Shape, PlaceInv, [Next]_vars
    PROVE  Shape' /\ PlaceInv'
  <1> USE PassAssumption DEF Shape, PlaceInv, Ticket, TrainerPhase, WorkingPhase,
          control, tickets, history, pass
  <1>1. CASE Admin
    <2>1. CASE RequestPause \/ ClearPause
      BY <2>1 DEF RequestPause, ClearPause
    <2>2. CASE StoreStopSignal \/ StorePaused
      BY <2>2 DEF StoreStopSignal, StorePaused
    <2>3. CASE \E a \in Asker : CheckNotIdle(a) \/ Request(a) \/ Answer(a)
      BY <2>3 DEF CheckNotIdle, Request, Answer, AskerAt, AskerTo
    <2> QED BY <1>1, <2>1, <2>2, <2>3 DEF Admin
  <1>2. CASE PassStep
    <2>1. CASE LoadData \/ Tokenize \/ StartTraining
      BY <2>1 DEF LoadData, Tokenize, StartTraining, Enter, SetPhase
    <2>2. CASE Abort \/ NextSample
      BY <2>2 DEF Abort, NextSample, AtStepBoundary
    <2>3. CASE SampleDone \/ LastUpdate
      BY <2>3 DEF SampleDone, LastUpdate, CallBack, SetPhase
    <2>4. CASE TakeFlag \/ ReadTickets
      BY <2>4 DEF TakeFlag, ReadTickets
    <2>5. CASE BeginForced \/ EndForced
      BY <2>5 DEF BeginForced, EndForced, Enter, SetPhase
    <2>6. CASE \E ok \in BOOLEAN : Save(ok)
      BY <2>6 DEF Save, Later
    <2>7. CASE Drain \/ EndDrained \/ Complete \/ Fail
      BY <2>7 DEF Drain, EndDrained, Complete, Fail, Enter, SetPhase
    <2> QED BY <1>2, <2>1, <2>2, <2>3, <2>4, <2>5, <2>6, <2>7 DEF PassStep
  <1>3. CASE UNCHANGED vars
    BY <1>3 DEF vars
  <1> QED BY <1>1, <1>2, <1>3 DEF Next

\* The two flags stay Boolean: they are only ever set to a truth value.
LEMMA FlagsStep ==
    ASSUME Flags, [Next]_vars
    PROVE  Flags'
  <1>1. /\ paused' \in {TRUE, FALSE} \/ paused' = paused
        /\ flag' \in {TRUE, FALSE} \/ flag' = flag
    BY DEF Next, Admin, PassStep, vars, control, tickets, RequestPause, ClearPause,
           StoreStopSignal, StorePaused, CheckNotIdle, Request, Answer, LoadData, Tokenize,
           StartTraining, Abort, NextSample, SampleDone, LastUpdate, CallBack, TakeFlag, ReadTickets, BeginForced,
           Save, EndForced, Drain, EndDrained, Complete, Fail, Enter
  <1> QED BY <1>1, Zenon DEF Flags

\* The variables of TrainerControlState, the pass and the HTTP threads keep
\* their shape in every reachable state.
THEOREM PassTypeCorrect == Spec => [](TypeOK /\ PlaceInv)
  <1>1. Init => Shape /\ PlaceInv
    BY PassAssumption DEF Init, Shape, PlaceInv, Ticket, TrainerPhase, WorkingPhase
  <1>2. Init => Flags
    BY Zenon DEF Init, Flags
  <1>3. TypeOK /\ PlaceInv /\ [Next]_vars => (TypeOK /\ PlaceInv)'
    BY ShapeStep, FlagsStep DEF TypeOK
  <1> QED BY <1>1, <1>2, <1>3, PTL DEF Spec, TypeOK

-----------------------------------------------------------------------------
(* The reported phase *)

\* Pauses, resumes and signals keep the phase true, and so does every change
\* of phase by the pass.
LEMMA PhaseStep ==
    ASSUME Shape, PlaceInv, PhaseInv, [Next]_vars
    PROVE  PhaseInv'
  <1> USE PassAssumption DEF Shape, PlaceInv, PhaseInv, PhaseIsTrue, Doing, StillTokenizing,
          TrainerPhase, WorkingPhase, Ticket, control, tickets, history, pass
  <1>1. CASE Admin
    <2>1. CASE RequestPause
      BY <2>1 DEF RequestPause
    <2>2. CASE ClearPause
      BY <2>2 DEF ClearPause
    <2>3. CASE StoreStopSignal \/ StorePaused
      BY <2>3 DEF StoreStopSignal, StorePaused
    <2>4. CASE \E a \in Asker : CheckNotIdle(a) \/ Request(a) \/ Answer(a)
      BY <2>4 DEF CheckNotIdle, Request, Answer
    <2> QED BY <1>1, <2>1, <2>2, <2>3, <2>4 DEF Admin
  <1>2. CASE PassStep
    <2>1. CASE LoadData \/ Tokenize
      BY <2>1 DEF LoadData, Tokenize, Enter, SetPhase
    <2>2. CASE StartTraining \/ Abort \/ NextSample
      BY <2>2 DEF StartTraining, Abort, NextSample, AtStepBoundary
    <2>3. CASE SampleDone \/ LastUpdate
      BY <2>3 DEF SampleDone, LastUpdate, CallBack, SetPhase
    <2>4. CASE TakeFlag \/ ReadTickets
      BY <2>4 DEF TakeFlag, ReadTickets
    <2>5. CASE BeginForced \/ EndForced
      BY <2>5 DEF BeginForced, EndForced, Enter, SetPhase
    <2>6. CASE \E ok \in BOOLEAN : Save(ok)
      BY <2>6 DEF Save
    <2>7. CASE Drain \/ EndDrained \/ Complete \/ Fail
      BY <2>7 DEF Drain, EndDrained, Complete, Fail, Enter, SetPhase
    <2> QED BY <1>2, <2>1, <2>2, <2>3, <2>4, <2>5, <2>6, <2>7 DEF PassStep
  <1>3. CASE UNCHANGED vars
    BY <1>3 DEF vars
  <1> QED BY <1>1, <1>2, <1>3 DEF Next

\* GET /admin/status: whatever pauses, resumes and signals fall between its
\* steps, the phase reported, or the one behind "pausing", is what the pass
\* does (TD-522), but for one delay: a pass that trains with windows of several
\* samples may report tokenizing until its first forced checkpoint.
THEOREM ReportedPhaseIsTrue == Spec => []PhaseIsTrue
  <1>1. Init => PhaseInv
    BY DEF Init, PhaseInv, PhaseIsTrue, Doing, WorkingPhase
  <1>2. TypeOK /\ PlaceInv /\ PhaseInv /\ [Next]_vars => PhaseInv'
    BY PhaseStep DEF TypeOK
  <1>3. PhaseInv => PhaseIsTrue
    BY DEF PhaseInv
  <1> QED BY <1>1, <1>2, <1>3, PassTypeCorrect, PTL DEF Spec

-----------------------------------------------------------------------------
(* Checkpoint requests *)

\* The pass reads the newest ticket after it took the flag down, so no request
\* falls between the two.
LEMMA TicketStep ==
    ASSUME Shape, PlaceInv, TicketInv, NoRequestLost, [Next]_vars
    PROVE  TicketInv' /\ NoRequestLost'
  <1> USE DEF Shape, TicketInv, NoRequestLost, Ticket, AskerAt,
          control, tickets, history, pass
  <1>1. CASE Admin
    <2>1. CASE RequestPause \/ ClearPause \/ StoreStopSignal \/ StorePaused
      BY <2>1 DEF RequestPause, ClearPause, StoreStopSignal, StorePaused
    <2>2. CASE \E a \in Asker : CheckNotIdle(a) \/ Answer(a)
      BY <2>2 DEF CheckNotIdle, Answer, AskerTo
    <2>3. CASE \E a \in Asker : Request(a)
      BY <2>3 DEF Request, AskerTo
    <2> QED BY <1>1, <2>1, <2>2, <2>3 DEF Admin
  <1>2. CASE PassStep
    <2>1. CASE LoadData \/ Tokenize \/ StartTraining
      BY <2>1 DEF LoadData, Tokenize, StartTraining, Enter
    <2>2. CASE Abort \/ NextSample \/ SampleDone \/ LastUpdate
      BY <2>2 DEF Abort, NextSample, SampleDone, LastUpdate, CallBack, AtStepBoundary
    <2>3. CASE TakeFlag
      BY <2>3 DEF TakeFlag
    <2>4. CASE ReadTickets
      BY <2>4 DEF ReadTickets
    <2>5. CASE BeginForced \/ EndForced
      BY <2>5 DEF BeginForced, EndForced, Enter
    <2>6. CASE \E ok \in BOOLEAN : Save(ok)
      BY <2>6 DEF Save, Later
    <2>7. CASE Drain \/ EndDrained \/ Complete \/ Fail
      BY <2>7 DEF Drain, EndDrained, Complete, Fail, Enter
    <2> QED BY <1>2, <2>1, <2>2, <2>3, <2>4, <2>5, <2>6, <2>7 DEF PassStep
  <1>3. CASE UNCHANGED vars
    BY <1>3 DEF vars
  <1> QED BY <1>1, <1>2, <1>3 DEF Next

\* POST /admin/checkpoint: an answer "completed" means a checkpoint begun after
\* the request, and no request is dropped between the flag and the counter,
\* with any number of threads asking at once (TD-521).
THEOREM CheckpointsAnswerRequests == Spec => [](ServedIsWritten /\ NoRequestLost)
  <1>1. Init => TicketInv /\ NoRequestLost
    BY DEF Init, TicketInv, NoRequestLost, AskerAt
  <1>2. TypeOK /\ PlaceInv /\ TicketInv /\ NoRequestLost /\ [Next]_vars
            => (TicketInv /\ NoRequestLost)'
    BY TicketStep DEF TypeOK
  <1>3. TicketInv => ServedIsWritten
    BY DEF TicketInv, ServedIsWritten
  <1> QED BY <1>1, <1>2, <1>3, PassTypeCorrect, PTL DEF Spec

-----------------------------------------------------------------------------
(* How a pass ends *)

\* A pass that was aborted never counts as trained, even when the pause is
\* withdrawn while it drains; one that is trained did all its samples.
THEOREM OutcomeMatchesWork == Spec => []OutcomeIsRight
  <1>1. Init => OutcomeIsRight
    BY DEF Init, OutcomeIsRight
  <1>2. TypeOK /\ PlaceInv /\ OutcomeIsRight /\ [Next]_vars => OutcomeIsRight'
    <2> SUFFICES ASSUME Shape, PlaceInv, OutcomeIsRight, [Next]_vars
                 PROVE  OutcomeIsRight'
      BY DEF TypeOK
    <2> USE DEF OutcomeIsRight, PlaceInv, Shape, control, pass
    <2>1. CASE Admin
      BY <2>1 DEF Admin, RequestPause, ClearPause, StoreStopSignal, StorePaused,
                  CheckNotIdle, Request, Answer
    <2>2. CASE EndDrained \/ Complete \/ Fail
      BY <2>2, PassAssumption DEF EndDrained, Complete, Fail, Enter
    <2>3. CASE PassStep /\ ~(EndDrained \/ Complete \/ Fail)
      BY <2>3 DEF PassStep, LoadData, Tokenize, StartTraining, Abort, NextSample, SampleDone,
                  LastUpdate, CallBack,
                  TakeFlag, ReadTickets, BeginForced, Save, EndForced, Drain, Enter
    <2>4. CASE UNCHANGED vars
      BY <2>4 DEF vars
    <2> QED BY <2>1, <2>2, <2>3, <2>4 DEF Next
  <1> QED BY <1>1, <1>2, PassTypeCorrect, PTL DEF Spec
=============================================================================
