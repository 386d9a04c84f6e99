--------------------------- MODULE TrainerService ---------------------------
(***************************************************************************)
(* trainer_service: a supervisory loop that launches one training pass     *)
(* after the other as a child process, and the HTTP threads of its proxy   *)
(* that pause and resume it (TrainerServiceControlState).  The loop sleeps *)
(* when it is paused, when nothing is pending and after a failure;         *)
(* wake_requested_ ends a sleep, or the next one.                           *)
(*                                                                         *)
(* Abstracted: how long a sleep is (it may end at any time; the backoff    *)
(* only makes it longer), counters and times for GET /admin/status, and    *)
(* what a pass does with a forwarded pause (PassControl).  A pass may end, *)
(* with any exit code, at any time.                                        *)
(***************************************************************************)
CONSTANT Caller     \* HTTP threads of the proxy that pause or resume

VARIABLES
    paused, stop,   \* the control flags: pause, stop_requested
    wake,           \* wake_requested_
    sup,            \* where the supervisory loop is
    saw,            \* the pause flag as the loop last read it
    child,          \* the pass: running, ended (an exit code to collect), none
    exit,           \* the outcome of its exit code, see classify_pass_exit
    caller          \* each HTTP thread: before its request, or flag set and not
                    \* yet woken

flags == <<paused, stop, wake>>
vars == <<flags, sup, saw, child, exit, caller>>

Outcome == {"DidWork", "Idle", "Failed", "Crashed"}

-----------------------------------------------------------------------------
(* POST /admin/pause and /admin/resume, and the signal handler *)

SetPaused(c, value) ==
    /\ caller[c] = "idle"
    /\ paused' = value
    /\ caller' = [caller EXCEPT ![c] = "flagged"]
    /\ UNCHANGED <<stop, wake, sup, saw, child, exit>>

\* Variant: the sleeper is notified, but the wake-up is not remembered.
NotifyOnly(c) ==
    /\ caller[c] = "flagged"
    /\ wake' = (wake \/ sup = "asleep")
    /\ caller' = [caller EXCEPT ![c] = "idle"]
    /\ UNCHANGED <<paused, stop, sup, saw, child, exit>>

Wake(c) ==
    /\ caller[c] = "flagged"
    /\ wake' = TRUE
    /\ caller' = [caller EXCEPT ![c] = "idle"]
    /\ UNCHANGED <<paused, stop, sup, saw, child, exit>>

\* SIGTERM or SIGINT only stores stop_requested; it wakes nobody.
RequestStop ==
    /\ stop' = TRUE
    /\ UNCHANGED <<paused, wake, sup, saw, child, exit, caller>>

-----------------------------------------------------------------------------
(* The supervisory loop *)

\* Variant: the loop does not look at the pause (before TD-173).
CheckStopOnly ==
    /\ sup = "check"
    /\ sup' = IF stop THEN "exited" ELSE "launching"
    /\ saw' = paused
    /\ UNCHANGED <<flags, child, exit, caller>>

\* The top of the loop: stop, wait while paused, or launch.
Check ==
    /\ sup = "check"
    /\ sup' = IF stop THEN "exited" ELSE IF paused THEN "parking" ELSE "launching"
    /\ saw' = paused
    /\ UNCHANGED <<flags, child, exit, caller>>

\* interruptible_sleep: takes the lock; then sleeps until a wake-up, a stop or
\* the end of its time, and forgets the wake-up.
FallAsleep ==
    /\ sup = "parking" /\ sup' = "asleep"
    /\ UNCHANGED <<flags, saw, child, exit, caller>>

WakeUp ==
    /\ sup = "asleep" /\ sup' = "check"
    /\ wake' = FALSE
    /\ UNCHANGED <<paused, stop, saw, child, exit, caller>>

\* ChildProcess::start; a failure is backed off.
Launch ==
    /\ sup = "launching"
    /\ \/ sup' = "polling" /\ child' = "running"
       \/ sup' = "parking" /\ UNCHANGED child
    /\ UNCHANGED <<flags, saw, exit, caller>>

\* Variant: a stop asks the pass to end, and then waits for it.
StopAndWaitForever ==
    /\ sup = "polling" /\ stop
    /\ child = "ended"
    /\ sup' = "collecting"
    /\ UNCHANGED <<flags, saw, child, exit, caller>>

\* stop_and_wait: the pass ends by itself in time, or is killed.
StopAndWait ==
    /\ sup = "polling" /\ stop
    /\ sup' = "collecting"
    /\ child' = "ended"
    /\ exit' \in IF child = "ended" THEN {exit} ELSE Outcome
    /\ UNCHANGED <<flags, saw, caller>>

PollExit ==
    /\ sup = "polling" /\ child = "ended"
    /\ sup' = "collecting"
    /\ UNCHANGED <<flags, saw, child, exit, caller>>

\* More work may be pending after a pass that trained; any other sleeps.
Collect ==
    /\ sup = "collecting"
    /\ sup' = IF stop THEN "exited"
              ELSE IF exit = "DidWork" THEN "check" ELSE "parking"
    /\ child' = "none"
    /\ UNCHANGED <<flags, saw, exit, caller>>

\* The pass ends by itself.
PassEnds ==
    /\ child = "running" /\ child' = "ended"
    /\ exit' \in Outcome
    /\ UNCHANGED <<flags, sup, saw, caller>>

-----------------------------------------------------------------------------
Init ==
    /\ paused = FALSE /\ stop = FALSE /\ wake = FALSE
    /\ sup = "check" /\ saw = FALSE
    /\ child = "none" /\ exit = "Idle"
    /\ caller = [c \in Caller |-> "idle"]

Supervise ==
    \/ Check \/ FallAsleep \/ WakeUp \/ Launch \/ StopAndWait \/ PollExit \/ Collect

Next ==
    \/ \E c \in Caller : Wake(c) \/ \E value \in BOOLEAN : SetPaused(c, value)
    \/ RequestStop
    \/ Supervise
    \/ PassEnds

Spec == Init /\ [][Next]_vars

\* The loop's thread runs; a pass may run forever.
LiveSpec == Spec /\ WF_vars(Supervise)

-----------------------------------------------------------------------------
(* Properties *)

\* The variables keep their shape, and a pass exists only while the loop polls it
\* or collects its exit code.
Flags == {paused, stop, wake, saw} \subseteq BOOLEAN
Places ==
    /\ sup \in {"check", "parking", "asleep", "launching", "polling", "collecting", "exited"}
    /\ exit \in Outcome
    /\ caller \in [Caller -> {"idle", "flagged"}]
    /\ child # "none" <=> sup \in {"polling", "collecting"}
    /\ child \in {"none", "running", "ended"}
TypeOK == Flags /\ Places

\* A pause or a resume is never slept through: if the flag is no longer what the
\* loop saw, the sleep it is in or going to has a wake-up, or one is coming (the
\* comment on wake()).
NoLostWakeUp ==
    sup \in {"parking", "asleep"} /\ paused # saw
        => wake \/ \E c \in Caller : caller[c] = "flagged"

\* A service that stays paused does not launch one pass after the other: from
\* some time on it launches none (TD-173).
PauseHolds == <>[]paused => <>[](sup # "launching")

\* A stop ends the service and its pass, even a pass that hangs, and however
\* often the service is paused and resumed meanwhile.
StopEnds == stop ~> (sup = "exited" /\ child = "none")
=============================================================================
