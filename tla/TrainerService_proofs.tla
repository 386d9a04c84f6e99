------------------------ MODULE TrainerService_proofs ------------------------
(***************************************************************************)
(* Proofs about the state and the wake-ups of trainer_service, for any     *)
(* number of HTTP threads.                                                 *)
(***************************************************************************)
EXTENDS TrainerService, TLAPS

-----------------------------------------------------------------------------
(* Type correctness *)

\* No step of the loop, of the pass or of a request takes them out of shape.
LEMMA PlacesStep ==
    ASSUME Places, [Next]_vars
    PROVE  Places'
  <1> USE DEF Places, flags, Outcome
  <1>1. ASSUME NEW c \in Caller, NEW value \in BOOLEAN, SetPaused(c, value)
        PROVE  Places'
    BY <1>1 DEF SetPaused
  <1>2. ASSUME NEW c \in Caller, Wake(c)
        PROVE  Places'
    BY <1>2 DEF Wake
  <1>3. CASE RequestStop
    BY <1>3 DEF RequestStop
  <1>4. CASE Check
    BY <1>4 DEF Check
  <1>5. CASE FallAsleep \/ WakeUp
    BY <1>5 DEF FallAsleep, WakeUp
  <1>6. CASE Launch \/ StopAndWait \/ PollExit \/ PassEnds
    BY <1>6 DEF Launch, StopAndWait, PollExit, PassEnds
  <1>7. CASE Collect
    BY <1>7 DEF Collect
  <1>8. CASE UNCHANGED vars
    BY <1>8 DEF vars
  <1> QED BY <1>1, <1>2, <1>3, <1>4, <1>5, <1>6, <1>7, <1>8 DEF Next, Supervise

\* The flags are only ever set to a truth value.
LEMMA FlagsStep ==
    ASSUME Flags, [Next]_vars
    PROVE  Flags'
  <1>1. /\ paused \in BOOLEAN /\ stop \in BOOLEAN
        /\ wake \in BOOLEAN /\ saw \in BOOLEAN
    BY Zenon DEF Flags
  <1>2. /\ paused' \in {TRUE, FALSE} \/ paused' = paused
        /\ stop' \in {TRUE, FALSE} \/ stop' = stop
        /\ wake' \in {TRUE, FALSE} \/ wake' = wake
        /\ saw' \in {paused, saw}
    BY DEF Next, Supervise, vars, flags, SetPaused, Wake, RequestStop, Check, FallAsleep,
           WakeUp, Launch, StopAndWait, PollExit, PassEnds, Collect
  <1> QED BY <1>1, <1>2, Zenon DEF Flags

\* The variables of the service keep their shape, and a pass exists exactly while
\* the loop polls it or collects its exit code (ChildProcess).
THEOREM ServiceTypeCorrect == Spec => []TypeOK
  <1>1. Init => Places
    BY DEF Init, Places, Outcome
  <1>2. Init => Flags
    BY Zenon DEF Init, Flags
  <1>3. TypeOK /\ [Next]_vars => TypeOK'
    BY PlacesStep, FlagsStep DEF TypeOK
  <1> QED BY <1>1, <1>2, <1>3, PTL DEF Spec, TypeOK

-----------------------------------------------------------------------------
(* Wake-ups *)

\* From the moment the loop read the pause flag until it reads it again, a
\* change of the flag has a wake-up on its way, also while a pass runs: the
\* sleep that follows the pass must not be one that nobody ends.
WakeInv ==
    /\ sup \in {"check", "parking", "asleep", "launching", "polling", "collecting", "exited"}
    /\ caller \in [Caller -> {"idle", "flagged"}]
    /\ sup \notin {"check", "exited"} /\ paused # saw
           => wake \/ \E c \in Caller : caller[c] = "flagged"

\* Only Wake ends a caller's part, and it leaves the wake-up; only the end of a
\* sleep forgets one, and the flag is read again after it.
LEMMA WakeStep ==
    ASSUME WakeInv, [Next]_vars
    PROVE  WakeInv'
  <1> USE DEF WakeInv, flags
  <1>1. ASSUME NEW c \in Caller, NEW value \in BOOLEAN, SetPaused(c, value)
        PROVE  WakeInv'
    BY <1>1 DEF SetPaused
  <1>2. ASSUME NEW c \in Caller, Wake(c)
        PROVE  WakeInv'
    BY <1>2 DEF Wake
  <1>3. CASE RequestStop
    BY <1>3 DEF RequestStop
  <1>4. CASE Check
    BY <1>4 DEF Check
  <1>5. CASE FallAsleep \/ WakeUp
    BY <1>5 DEF FallAsleep, WakeUp
  <1>6. CASE Launch \/ StopAndWait \/ PollExit \/ PassEnds
    BY <1>6 DEF Launch, StopAndWait, PollExit, PassEnds
  <1>7. CASE Collect
    BY <1>7 DEF Collect
  <1>8. CASE UNCHANGED vars
    BY <1>8 DEF vars
  <1> QED BY <1>1, <1>2, <1>3, <1>4, <1>5, <1>6, <1>7, <1>8 DEF Next, Supervise

\* No pause and no resume is slept through, however many HTTP threads there
\* are and wherever in the loop they fall (the comment on wake()).
THEOREM NoWakeUpIsLost == Spec => []NoLostWakeUp
  <1>1. Init => WakeInv
    BY DEF Init, WakeInv
  <1>2. WakeInv /\ [Next]_vars => WakeInv'
    BY WakeStep
  <1>3. WakeInv => NoLostWakeUp
    BY DEF WakeInv, NoLostWakeUp
  <1> QED BY <1>1, <1>2, <1>3, PTL DEF Spec
=============================================================================
