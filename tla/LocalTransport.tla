--------------------------- MODULE LocalTransport ---------------------------
(***************************************************************************)
(* The dataset registry of a session directory without a server: several   *)
(* processes (trainers and dataset_manager) share pending_files.txt and    *)
(* data_registry.txt through LocalTransport.  Its calls change the queue   *)
(* under an exclusive flock: load, change, save, unlock.  Two commands of  *)
(* dataset_manager do not: remove and clear-pending load the queue and     *)
(* save it with neither lock nor look at the claims.  The registry is      *)
(* loaded and saved under the lock by commit_trained, but delete_paths and *)
(* requeue_trained load it before they take the lock and save it after     *)
(* they gave it up.  A process may die at any step (the system then drops  *)
(* its lock) and come back with the same run id; a save may fail.  Claims  *)
(* have no lease here.                                                     *)
(***************************************************************************)
EXTENDS DatasetUnits

CONSTANTS
    Manager,        \* the dataset_manager processes
    ModelOf,        \* the model each run trains
    NoProc,         \* nobody has the lock
    ForceRequests   \* the force values that unassign and delete are called with

ASSUME LocalAssumption ==
    /\ Manager \cap Run = {}
    /\ NoProc \notin Manager \cup Run
    /\ ModelOf \in [Run -> Assignee]
    /\ ForceRequests \subseteq BOOLEAN

Process == Run \cup Manager

VARIABLES
    pending,    \* pending_files.txt: unit |-> its run and model
    registry,   \* data_registry.txt: the trained units
    lock,       \* the process that holds the flock
    job,        \* what each process is doing, with the copies it loaded
    batch,      \* the units a run acquired and trains
    erased      \* history: the units of its batch whose claims were erased by
                \*   a forced delete, or by a save that took no lock

localVars == <<pending, registry, lock, job, batch, erased>>

Entry == [run : Owner, model : Assignee]
Empty == [u \in {} |-> [run |-> NoRun, model |-> NoModel]]

\* A process between two calls; a call has its arguments (units, model, force)
\* and the contents it loaded (queue, records).
Idle == [op |-> "none", at |-> "idle", units |-> {}, model |-> NoModel,
         force |-> FALSE, queue |-> Empty, records |-> {}]

Ops == {"acquire", "release", "commit", "add", "assign", "unassign", "delete", "requeue",
        "remove"}

\* Queue q without, or with, the units of S, and with their entries changed.
Drop(q, S) == [u \in DOMAIN q \ S |-> q[u]]
AddTo(q, S, m) == [u \in DOMAIN q \cup S |->
    IF u \in DOMAIN q THEN q[u] ELSE [run |-> NoRun, model |-> m]]
OwnedBy(q, S, r) == [u \in DOMAIN q |->
    IF u \in S THEN [q[u] EXCEPT !.run = r] ELSE q[u]]
AssignedTo(q, S, m) == [u \in DOMAIN q |->
    IF u \in S THEN [q[u] EXCEPT !.model = m] ELSE q[u]]

\* Claimed entries, which unassign and delete skip unless forced.
Protected(q, force) == IF force THEN {} ELSE {u \in DOMAIN q : q[u].run # NoRun}

\* The run has a new batch, or none; nothing of it has been erased.
SetBatch(r, units) ==
    /\ batch' = [batch EXCEPT ![r] = units]
    /\ erased' = [erased EXCEPT ![r] = {}]

-----------------------------------------------------------------------------
(* A call starts, loads what it needs, and takes the lock *)

\* delete_paths and requeue_trained load the registry here, before the lock.
Call(p, op, units, m, force) ==
    /\ job[p].at = "idle"
    /\ job' = [job EXCEPT ![p] =
                 [op |-> op, at |-> "waiting", units |-> units, model |-> m,
                  force |-> force, queue |-> Empty,
                  records |-> IF op \in {"delete", "requeue"} THEN registry ELSE {}]]

RunCall(r) ==
    /\ r \in Run
    /\ IF batch[r] = {} THEN Call(r, "acquire", {}, ModelOf[r], FALSE)
       ELSE \E op \in {"commit", "release"} : Call(r, op, batch[r], NoModel, FALSE)
    /\ UNCHANGED <<pending, registry, lock, batch, erased>>

\* remove takes the first entry of a path, whichever that is, off a copy of the
\* queue, clear-pending takes all; neither of them takes the lock.
RemoveFromCopy(p, units) ==
    /\ job[p].at = "idle"
    /\ units \subseteq DOMAIN pending
    /\ Cardinality(units) = 1 \/ units = DOMAIN pending
    /\ job' = [job EXCEPT ![p] =
                 [op |-> "remove", at |-> "loaded", units |-> {}, model |-> NoModel,
                  force |-> FALSE, queue |-> Drop(pending, units), records |-> {}]]

ManagerCall(p) ==
    /\ p \in Manager
    /\ \E units \in SUBSET Unit \ {{}} :
          \/ /\ Cardinality(units) = 1
             /\ Call(p, "add", units, NoModel, FALSE)
          \/ \E op \in {"unassign", "delete"}, force \in ForceRequests :
                Call(p, op, units, NoModel, force)
          \/ /\ \A u \in units : u = WholeOf(u.path)
             /\ \E m \in Assignee : Call(p, "requeue", units, m, FALSE)
          \/ \E m \in Model : Call(p, "assign", units, m, FALSE)
          \/ RemoveFromCopy(p, units)
    /\ UNCHANGED <<pending, registry, lock, batch, erased>>

\* Variant: the queue is loaded and changed without the lock.
LoadUnlocked(p) ==
    /\ job[p].at = "waiting"
    /\ job' = [job EXCEPT ![p].at = "locked", ![p].queue = pending,
                          ![p].records = IF job[p].op = "commit" THEN registry ELSE @]
    /\ UNCHANGED <<pending, registry, lock, batch, erased>>

\* lock_pending, then load_pending (commit_trained also loads the registry).
LockAndLoad(p) ==
    /\ job[p].at = "waiting"
    /\ lock = NoProc
    /\ lock' = p
    /\ job' = [job EXCEPT ![p].at = "locked", ![p].queue = pending,
                          ![p].records = IF job[p].op = "commit" THEN registry ELSE @]
    /\ UNCHANGED <<pending, registry, batch, erased>>

Doing(p, op, at) == job[p].op = op /\ job[p].at = at

\* The queue is saved, or the file stays: the save failed, or nothing changed.
\* Then the lock is free.
SaveAndUnlock(queue, saved) ==
    /\ pending' = IF saved THEN queue ELSE pending
    /\ lock' = NoProc

Done(p) == job' = [job EXCEPT ![p] = Idle]

\* remove and clear-pending save their copy: what other processes wrote since
\* it was loaded is lost.
SaveUnlocked(p) ==
    /\ job[p].at = "loaded"
    /\ pending' = job[p].queue \/ UNCHANGED pending
    /\ erased' = [r \in Run |-> erased[r] \cup
                    (batch[r] \ {u \in DOMAIN pending' : pending'[u].run = r})]
    /\ Done(p)
    /\ UNCHANGED <<registry, lock, batch>>

-----------------------------------------------------------------------------
(* Calls that change only the queue *)

\* A run takes what is unclaimed or already its own, and not another model's.
AcquirableIn(q, r, m) == {u \in DOMAIN q : q[u].run \in {NoRun, r} /\ q[u].model \in {NoModel, m}}

\* max_files may cut the batch short; a failed save acquires nothing.
FinishAcquire(r) ==
    /\ r \in Run /\ Doing(r, "acquire", "locked")
    /\ \E taken \in SUBSET AcquirableIn(job[r].queue, r, job[r].model), saved \in BOOLEAN :
          /\ taken = {} <=> AcquirableIn(job[r].queue, r, job[r].model) = {}
          /\ saved => taken # {}
          /\ SaveAndUnlock(OwnedBy(job[r].queue, taken, r), saved)
          /\ SetBatch(r, IF saved THEN taken ELSE {})
    /\ Done(r)
    /\ UNCHANGED registry

FinishRelease(r) ==
    /\ r \in Run /\ Doing(r, "release", "locked")
    /\ LET q == job[r].queue
           mine == {u \in job[r].units \cap DOMAIN q : q[u].run = r}
       IN  \E saved \in BOOLEAN : SaveAndUnlock(OwnedBy(q, mine, NoRun), saved)
    /\ SetBatch(r, {})
    /\ Done(r)
    /\ UNCHANGED registry

FinishAdd(p) ==
    /\ Doing(p, "add", "locked")
    /\ \E saved \in BOOLEAN :
          /\ saved => ~ job[p].units \subseteq DOMAIN job[p].queue
          /\ SaveAndUnlock(AddTo(job[p].queue, job[p].units, NoModel), saved)
    /\ Done(p)
    /\ UNCHANGED <<registry, batch, erased>>

FinishAssign(p) ==
    /\ Doing(p, "assign", "locked")
    /\ \E saved \in BOOLEAN :
          /\ saved => job[p].units \cap DOMAIN job[p].queue # {}
          /\ SaveAndUnlock(AssignedTo(job[p].queue, job[p].units, job[p].model), saved)
    /\ Done(p)
    /\ UNCHANGED <<registry, batch, erased>>

FinishUnassign(p) ==
    /\ Doing(p, "unassign", "locked")
    /\ LET q == job[p].queue
           cleared == (job[p].units \cap DOMAIN q) \ Protected(q, job[p].force)
       IN  \E saved \in BOOLEAN :
              /\ saved => cleared # {}
              /\ SaveAndUnlock(AssignedTo(q, cleared, NoModel), saved)
    /\ Done(p)
    /\ UNCHANGED <<registry, batch, erased>>

-----------------------------------------------------------------------------
(* commit_trained: the registry, then the queue, under one lock *)

\* A row range in the batch makes the removal exact.
ExactCommit(r) == \E u \in job[r].units : u.seg # Whole

\* Records are appended when the run holds the unit (a whole file: any unit of
\* the file); a failed save is only logged.
CommitRegistry(r) ==
    LET q == job[r].queue
        held == {u \in DOMAIN q : q[u].run = r}
        recorded == {v \in job[r].units : \E u \in held : Matches(u, v, v.seg # Whole)}
    IN  /\ r \in Run /\ Doing(r, "commit", "locked")
        /\ registry' = job[r].records \cup recorded \/ UNCHANGED registry
        /\ job' = [job EXCEPT ![r].at = "recorded"]
        /\ UNCHANGED <<pending, lock, batch, erased>>

CommitPending(r) ==
    LET q == job[r].queue
        trained == {u \in DOMAIN q : /\ q[u].run = r
                                     /\ \E v \in job[r].units : Matches(u, v, ExactCommit(r))}
    IN  /\ r \in Run /\ Doing(r, "commit", "recorded")
        /\ \E saved \in BOOLEAN : SaveAndUnlock(Drop(q, trained), saved)
        /\ SetBatch(r, {})
        /\ Done(r)
        /\ UNCHANGED registry

-----------------------------------------------------------------------------
(* delete_paths and requeue_trained: the queue under the lock, then the     *)
(* registry copy that was loaded before it                                  *)

DeletePending(p) ==
    LET q == job[p].queue
        deleted == (job[p].units \cap DOMAIN q) \ Protected(q, job[p].force)
    IN  /\ Doing(p, "delete", "locked")
        /\ \E saved \in BOOLEAN :
              /\ saved => deleted # {}
              /\ SaveAndUnlock(Drop(q, deleted), saved)
              /\ erased' = IF saved /\ job[p].force
                            THEN [r \in Run |-> erased[r] \cup (batch[r] \cap deleted)]
                            ELSE erased
        /\ job' = [job EXCEPT ![p].at = "unlocked"]
        /\ UNCHANGED <<registry, batch>>

\* A path or range only counts as changed when a record of it goes.
DeleteRegistry(p) ==
    LET gone == UNION {PurgedBy(t, job[p].records) : t \in job[p].units}
    IN  /\ Doing(p, "delete", "unlocked")
        /\ UNCHANGED registry \/ (gone # {} /\ registry' = job[p].records \ gone)
        /\ Done(p)
        /\ UNCHANGED <<pending, lock, batch, erased>>

\* The trained units of the files that a requeue names.
Requeued(p) == {u \in job[p].records : \E t \in job[p].units : t.path = u.path}

\* A failed save of the queue ends the call; nothing to requeue saves nothing.
RequeuePending(p) ==
    /\ Doing(p, "requeue", "locked")
    /\ \E saved \in BOOLEAN :
          /\ saved => Requeued(p) # {}
          /\ SaveAndUnlock(AddTo(job[p].queue, Requeued(p), job[p].model), saved)
          /\ IF saved THEN job' = [job EXCEPT ![p].at = "unlocked"] ELSE Done(p)
    /\ UNCHANGED <<registry, batch, erased>>

RequeueRegistry(p) ==
    /\ Doing(p, "requeue", "unlocked")
    /\ registry' = job[p].records \ Requeued(p) \/ UNCHANGED registry
    /\ Done(p)
    /\ UNCHANGED <<pending, lock, batch, erased>>

-----------------------------------------------------------------------------
\* A process dies; its lock goes with it, its claims stay in the file.
Die(p) ==
    /\ job[p].at # "idle" \/ (p \in Run /\ batch[p] # {})
    /\ Done(p)
    /\ IF p \in Run THEN SetBatch(p, {}) ELSE UNCHANGED <<batch, erased>>
    /\ lock' = IF lock = p THEN NoProc ELSE lock
    /\ UNCHANGED <<pending, registry>>

LocalInit ==
    /\ pending = Empty
    /\ registry = {}
    /\ lock = NoProc
    /\ job = [p \in Process |-> Idle]
    /\ batch = [r \in Run |-> {}]
    /\ erased = [r \in Run |-> {}]

LocalNext == \E p \in Process :
    \/ RunCall(p) \/ ManagerCall(p) \/ LockAndLoad(p) \/ SaveUnlocked(p)
    \/ FinishAcquire(p) \/ FinishRelease(p) \/ FinishAdd(p)
    \/ FinishAssign(p) \/ FinishUnassign(p)
    \/ CommitRegistry(p) \/ CommitPending(p)
    \/ DeletePending(p) \/ DeleteRegistry(p)
    \/ RequeuePending(p) \/ RequeueRegistry(p)
    \/ Die(p)

LocalSpec == LocalInit /\ [][LocalNext]_localVars

-----------------------------------------------------------------------------
(* Properties *)

\* A run keeps the units it acquired until it commits or releases them itself:
\* no concurrent call of another process takes, drops or forgets its claim,
\* but a forced delete and the two commands that save without the lock, and
\* these cost it only what their own save no longer holds.
RunKeepsItsClaims ==
    \A r \in Run : batch[r] \ erased[r] \subseteq {u \in DOMAIN pending : pending[u].run = r}
=============================================================================
