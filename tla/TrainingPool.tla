---------------------------- MODULE TrainingPool ----------------------------
(***************************************************************************)
(* Trainers that work through the dataset registry: each run repeats       *)
(* acquire, download, train, and report (or give back), as                 *)
(* IncrementalTrainer::resume_last_session and the train command do        *)
(* through DatasetRegistry and RemoteTransport, while a ClaimRenewer       *)
(* thread restarts the lease of its claims.  Requests are synchronous and  *)
(* may fail: a lost reply of acquire leaves claims the client does not     *)
(* know of, a lost report or release is only logged.  A trainer may crash  *)
(* at any point and come back with the same run id, or never.  A request   *)
(* that the server executes after its client timed out is not modelled.    *)
(*                                                                         *)
(* One tick is the time between two renewals (a third of the lease); a     *)
(* renewal that is due happens, or fails, before the clock moves on.       *)
(***************************************************************************)
EXTENDS RegistryServer

CONSTANTS
    ModelOf,        \* the model each run trains
    MaxFiles,       \* files per pass, 0 = all
    RenewEvery,     \* ticks between two renewals
    PromptReports,  \* a report or release takes less than a tick
    MaxFaults       \* bound: lost messages, failed saves and passes, crashes

ASSUME PoolAssumption ==
    /\ ModelOf \in [Run -> Assignee]
    /\ MaxFiles \in Nat /\ MaxFaults \in Nat
    /\ RenewEvery \in Nat \ {0} /\ 2 * RenewEvery < Lease
    /\ PromptReports \in BOOLEAN

VARIABLES
    pc,         \* where each run is in its pass
    batch,      \* units of the pass (AcquireResponse::file_ranges)
    read,       \* content of each unit's file as downloaded for the pass
    wake,       \* ticks until the renewer's next call
    missed,     \* history: renewals that failed in a row (2 is final for a pass)
    faults,     \* faults so far
    worked      \* history: the units trained, with the content they had

trainerVars == <<pc, batch, read, wake, missed, worked>>
poolVars == <<vars, trainerVars, faults>>

Phase == {"idle", "fetching", "training", "reporting", "releasing", "down"}

\* The phases in which the claim renewer runs: from the acquire until
\* mark_trained or release_pending stops it.
Working == {r \in Run : pc[r] \in {"fetching", "training"}}

Fault == faults < MaxFaults /\ faults' = faults + 1

\* A pass ends: the run is idle (or down) and knows no units any more.
EndPass(r, phase) ==
    /\ pc' = [pc EXCEPT ![r] = phase]
    /\ batch' = [batch EXCEPT ![r] = {}]
    /\ read' = [read EXCEPT ![r] = [u \in Unit |-> 0]]
    /\ wake' = [wake EXCEPT ![r] = 0]
    /\ missed' = [missed EXCEPT ![r] = 0]

-----------------------------------------------------------------------------
(* One pass of a trainer *)

\* acquire_pending: claims the batch and starts the renewer.
AcquirePass(r) ==
    /\ pc[r] = "idle"
    /\ \E taken \in SUBSET Unit :
          /\ Acquire(r, ModelOf[r], MaxFiles, taken)
          /\ batch' = [batch EXCEPT ![r] = taken]
    /\ pc' = [pc EXCEPT ![r] = "fetching"]
    /\ wake' = [wake EXCEPT ![r] = RenewEvery]
    /\ UNCHANGED <<read, missed, faults, worked>>

\* The server claims a batch, the client sees a failed request.
AcquireReplyLost(r) ==
    /\ pc[r] = "idle" /\ Fault
    /\ \E taken \in SUBSET Unit : Acquire(r, ModelOf[r], MaxFiles, taken)
    /\ UNCHANGED trainerVars

\* resolve_pass_files: every file of the batch is downloaded, or the batch is
\* given back.
Download(r) ==
    /\ pc[r] = "fetching"
    /\ \A u \in batch[r] : bytes[u.path] # 0
    /\ pc' = [pc EXCEPT ![r] = "training"]
    /\ read' = [read EXCEPT ![r] =
                   [u \in Unit |-> IF u \in batch[r] THEN bytes[u.path] ELSE 0]]
    /\ UNCHANGED <<vars, batch, wake, missed, faults, worked>>

\* The renewer stops with the pass: release_pending resets it first.
StopWorking(r, phase) ==
    /\ pc' = [pc EXCEPT ![r] = phase]
    /\ wake' = [wake EXCEPT ![r] = 0]
    /\ missed' = [missed EXCEPT ![r] = 0]
    /\ UNCHANGED <<vars, batch, read>>

\* A missing file fails the download.
DownloadMissing(r) ==
    /\ pc[r] = "fetching"
    /\ \E u \in batch[r] : bytes[u.path] = 0
    /\ StopWorking(r, "releasing")
    /\ UNCHANGED <<faults, worked>>

\* The download, the checkpoint or the training fails.
PassFails(r) ==
    /\ r \in Working /\ Fault
    /\ StopWorking(r, "releasing")
    /\ UNCHANGED worked

\* train_on_files succeeded; mark_trained stops the renewer, then reports.
PassSucceeds(r) ==
    /\ pc[r] = "training"
    /\ StopWorking(r, "reporting")
    /\ worked' = worked \cup {[unit |-> u, content |-> read[r][u]] : u \in batch[r]}
    /\ UNCHANGED faults

\* commit_trained sends the ranges only when the batch has a row range; a batch
\* of whole files is reported without them.
ExactReport(r) == \E u \in batch[r] : u.seg # Whole

Report(r) ==
    /\ pc[r] = "reporting"
    /\ \E saved \in BOOLEAN :
          /\ Trained(r, batch[r], ExactReport(r), saved)
          /\ IF saved THEN UNCHANGED faults ELSE Fault
    /\ EndPass(r, "idle")
    /\ UNCHANGED worked

GiveBack(r) ==
    /\ pc[r] = "releasing"
    /\ Release(r, batch[r])
    /\ EndPass(r, "idle")
    /\ UNCHANGED <<faults, worked>>

\* The report or the release does not reach the server: only a log line.
LastRequestLost(r) ==
    /\ pc[r] \in {"reporting", "releasing"} /\ Fault
    /\ EndPass(r, "idle")
    /\ UNCHANGED <<vars, worked>>

Crash(r) ==
    /\ pc[r] # "down" /\ Fault
    /\ EndPass(r, "down")
    /\ UNCHANGED <<vars, worked>>

\* The service starts again with its persistent run id.
Restart(r) ==
    /\ pc[r] = "down"
    /\ pc' = [pc EXCEPT ![r] = "idle"]
    /\ UNCHANGED <<vars, batch, read, wake, missed, faults, worked>>

-----------------------------------------------------------------------------
(* The claim renewer of a working run, and time *)

RenewClaims(r) ==
    /\ r \in Working /\ wake[r] = 0
    /\ IF HeldBy(r) # {} THEN Renew(r) ELSE UNCHANGED vars
    /\ wake' = [wake EXCEPT ![r] = RenewEvery]
    /\ missed' = [missed EXCEPT ![r] = IF @ <= 1 THEN 0 ELSE @]
    /\ UNCHANGED <<pc, batch, read, faults, worked>>

RenewLost(r) ==
    /\ r \in Working /\ wake[r] = 0 /\ Fault
    /\ wake' = [wake EXCEPT ![r] = RenewEvery]
    /\ missed' = [missed EXCEPT ![r] = @ + 1]
    /\ UNCHANGED <<vars, pc, batch, read, worked>>

PoolTick ==
    /\ \A r \in Working : wake[r] > 0
    /\ PromptReports => \A r \in Run : pc[r] \notin {"reporting", "releasing"}
    /\ Tick
    /\ wake' = [r \in Run |-> IF r \in Working THEN wake[r] - 1 ELSE 0]
    /\ UNCHANGED <<pc, batch, read, missed, faults, worked>>

-----------------------------------------------------------------------------
PoolInit ==
    /\ Init
    /\ pc = [r \in Run |-> "idle"]
    /\ batch = [r \in Run |-> {}]
    /\ read = [r \in Run |-> [u \in Unit |-> 0]]
    /\ wake = [r \in Run |-> 0]
    /\ missed = [r \in Run |-> 0]
    /\ faults = 0
    /\ worked = {}

PassStep(r) ==
    \/ AcquirePass(r) \/ Download(r) \/ DownloadMissing(r)
    \/ PassSucceeds(r) \/ Report(r) \/ GiveBack(r)

FaultStep(r) ==
    \/ AcquireReplyLost(r) \/ PassFails(r) \/ LastRequestLost(r)
    \/ RenewLost(r) \/ Crash(r)

\* What dataset_manager and the upload clients do meanwhile; nothing forced.
Feed ==
    /\ \/ \E u \in Unit : bytes[u.path] # 0 /\ PendingAdd(u)
       \/ \E p \in Path, overwrite \in BOOLEAN : Upload(p, overwrite, TRUE)
    /\ UNCHANGED <<trainerVars, faults>>

PoolNext ==
    \/ \E r \in Run : PassStep(r) \/ RenewClaims(r) \/ FaultStep(r) \/ Restart(r)
    \/ Feed
    \/ PoolTick

PoolSpec == PoolInit /\ [][PoolNext]_poolVars

\* Trainers keep working and time passes; a crashed trainer need not return.
Fairness ==
    /\ \A r \in Run : WF_poolVars(PassStep(r)) /\ WF_poolVars(RenewClaims(r))
    /\ SF_poolVars(PoolTick)

LivePoolSpec == PoolSpec /\ Fairness

\* Operators also reassign what is queued, requeue what is trained, and queue
\* files that are not there (yet).
Manage ==
    /\ \/ \E u \in Unit : bytes[u.path] = 0 /\ PendingAdd(u)
       \/ \E m \in Model, u \in Unit : Assign(m, {u})
       \/ \E u \in Unit : Unassign(NoModel, {u}, FALSE)
       \/ \E p \in Path : Requeue({p}, NoModel, TRUE)
    /\ UNCHANGED <<trainerVars, faults>>

ManagedPoolSpec == PoolInit /\ [][PoolNext \/ Manage]_poolVars

-----------------------------------------------------------------------------
(* Properties *)

\* A run that works on a pass and has missed at most one renewal in a row still
\* holds every unit of its batch: no other run took it (TD-494).
HoldsItsBatch ==
    \A r \in Working : missed[r] <= 1 => batch[r] \subseteq HeldBy(r)

\* So two such runs never work on the same unit.
NoSharedWork ==
    \A r1, r2 \in Working :
        r1 # r2 /\ missed[r1] <= 1 /\ missed[r2] <= 1
            => batch[r1] \cap batch[r2] = {}

\* The registry only says "trained" of content that a run really trained the
\* unit on, whatever was lost, crashed, expired or uploaded again in between.
RecordsAreEarned == registry \subseteq worked

\* A queued unit is trained in the end, however its runs crash and whichever
\* messages are lost, as long as one trainer keeps running.
EveryUnitTrained ==
    \A u \in Unit :
        u \in Queued ~> u \notin Queued /\ {u, WholeOf(u.path)} \cap Recorded # {}

\* The server and its trainers, unmanaged, are a work queue: each of their
\* steps is a step, or a stutter, of the abstract queue.
WQ == INSTANCE WorkQueue WITH
    Parts <- [u \in Unit |-> IF u.seg = Whole THEN {v \in Unit : v.path = u.path} ELSE {u}],
    Out <- "out", Free <- NoRun,
    holder <- [u \in Unit |-> IF u \in Queued THEN pending[u].run ELSE "out"],
    trained <- Recorded

ImplementsWorkQueue == WQ!WQSpec
=============================================================================
