------------------------ MODULE LocalTransport_proofs ------------------------
(***************************************************************************)
(* Proofs about the registry of a local session directory, for every set   *)
(* of processes, units and models and any number of faults.                *)
(***************************************************************************)
EXTENDS LocalTransport, TLAPS

\* The contents of a pending_files.txt.
Queue == UNION {[S -> Entry] : S \in SUBSET Unit}

Job == [op : Ops \cup {"none"},
        at : {"idle", "waiting", "loaded", "locked", "recorded", "unlocked"},
        units : SUBSET Unit, model : Assignee, force : BOOLEAN,
        queue : Queue, records : SUBSET Unit]

LocalTypes ==
    /\ pending \in Queue
    /\ registry \in SUBSET Unit
    /\ lock \in Process \cup {NoProc}
    /\ job \in [Process -> Job]
    /\ batch \in [Run -> SUBSET Unit]
    /\ erased \in [Run -> SUBSET Unit]

\* The units that a run holds in queue q.
HeldIn(q, r) == {u \in DOMAIN q : q[u].run = r}

\* The units of its batch whose claims nobody erased.
Kept(r) == batch[r] \ erased[r]

\* Who works on a copy of the queue under the lock has the lock, and his copy
\* has the claims that the runs still count on.  It need not be what the file
\* holds: remove and clear-pending save without the lock.
CopiesHaveClaims ==
    \A p \in Process : job[p].at \in {"locked", "recorded"} =>
        lock = p /\ \A r \in Run : Kept(r) \subseteq HeldIn(job[p].queue, r)

LocalInv == LocalTypes /\ CopiesHaveClaims /\ RunKeepsItsClaims

-----------------------------------------------------------------------------
(* What the calls do to the queue they loaded *)

LEMMA EmptyQueue == Empty \in Queue
  <1>1. Empty \in [{} -> Entry]
    BY DEF Empty
  <1> QED BY <1>1 DEF Queue

\* A queue by its parts.
LEMMA QueueParts ==
    ASSUME NEW q
    PROVE  q \in Queue <=> DOMAIN q \subseteq Unit /\ q \in [DOMAIN q -> Entry]
  BY DEF Queue

\* Removing entries keeps the rest as it was.
LEMMA DropQueue ==
    ASSUME NEW q \in Queue, NEW S
    PROVE  /\ Drop(q, S) \in Queue
           /\ \A r : HeldIn(Drop(q, S), r) = HeldIn(q, r) \ S
  <1>1. /\ DOMAIN Drop(q, S) = DOMAIN q \ S
        /\ \A u \in DOMAIN q \ S : Drop(q, S)[u] = q[u]
    BY DEF Drop
  <1>2. Drop(q, S) \in [DOMAIN q \ S -> Entry]
    BY QueueParts DEF Drop
  <1> QED BY <1>1, <1>2, QueueParts DEF HeldIn

\* Queueing units takes no claim away.
LEMMA AddToQueue ==
    ASSUME NEW q \in Queue, NEW S \in SUBSET Unit, NEW m \in Assignee
    PROVE  /\ AddTo(q, S, m) \in Queue
           /\ \A r : HeldIn(q, r) \subseteq HeldIn(AddTo(q, S, m), r)
  <1>1. [run |-> NoRun, model |-> m] \in Entry
    BY DEF Entry, Owner
  <1>2. AddTo(q, S, m) \in [DOMAIN q \cup S -> Entry]
    BY <1>1, QueueParts DEF AddTo
  <1>3. \A u \in DOMAIN q : u \in DOMAIN AddTo(q, S, m) /\ AddTo(q, S, m)[u] = q[u]
    BY DEF AddTo
  <1> QED BY <1>2, <1>3, QueueParts DEF HeldIn

\* Giving units to an owner takes them from those who held them.
LEMMA OwnedByQueue ==
    ASSUME NEW q \in Queue, NEW S, NEW r \in Owner
    PROVE  /\ OwnedBy(q, S, r) \in Queue
           /\ \A o : HeldIn(q, o) \ S \subseteq HeldIn(OwnedBy(q, S, r), o)
           /\ S \cap DOMAIN q \subseteq HeldIn(OwnedBy(q, S, r), r)
  <1>1. \A e \in Entry : [e EXCEPT !.run = r] \in Entry /\ [e EXCEPT !.run = r].run = r
    BY DEF Entry
  <1>2. \A u \in DOMAIN q : q[u] \in Entry
    BY QueueParts
  <1>3. /\ DOMAIN OwnedBy(q, S, r) = DOMAIN q
        /\ \A u \in DOMAIN q : OwnedBy(q, S, r)[u] = IF u \in S THEN [q[u] EXCEPT !.run = r] ELSE q[u]
    BY DEF OwnedBy
  <1>4. OwnedBy(q, S, r) \in [DOMAIN q -> Entry]
    BY <1>1, <1>2 DEF OwnedBy
  <1> QED BY <1>1, <1>2, <1>3, <1>4, QueueParts DEF HeldIn

\* Assigning a model changes no claim.
LEMMA AssignedToQueue ==
    ASSUME NEW q \in Queue, NEW S, NEW m \in Assignee
    PROVE  /\ AssignedTo(q, S, m) \in Queue
           /\ \A o : HeldIn(q, o) \subseteq HeldIn(AssignedTo(q, S, m), o)
  <1>1. \A e \in Entry : [e EXCEPT !.model = m] \in Entry /\ [e EXCEPT !.model = m].run = e.run
    BY DEF Entry
  <1>2. \A u \in DOMAIN q : q[u] \in Entry
    BY QueueParts
  <1>3. /\ DOMAIN AssignedTo(q, S, m) = DOMAIN q
        /\ \A u \in DOMAIN q : AssignedTo(q, S, m)[u] = IF u \in S THEN [q[u] EXCEPT !.model = m] ELSE q[u]
    BY DEF AssignedTo
  <1>4. AssignedTo(q, S, m) \in [DOMAIN q -> Entry]
    BY <1>1, <1>2 DEF AssignedTo
  <1> QED BY <1>1, <1>2, <1>3, <1>4, QueueParts DEF HeldIn

-----------------------------------------------------------------------------
(* Type correctness *)

\* One process goes on to another job; the others keep theirs.
LEMMA JobChange ==
    ASSUME LocalTypes, NEW p \in Process, NEW j \in Job, job' = [job EXCEPT ![p] = j]
    PROVE  /\ job' \in [Process -> Job] /\ job'[p] = j
           /\ \A q \in Process \ {p} : job'[q] = job[q]
  BY DEF LocalTypes

LEMMA IdleIsJob == Idle \in Job /\ Idle.at = "idle"
  BY EmptyQueue DEF Idle, Job, Assignee

\* A process at position "at" of its job.
LEMMA JobAt ==
    ASSUME LocalTypes, NEW p \in Process,
           NEW at \in {"idle", "waiting", "loaded", "locked", "recorded", "unlocked"},
           job' = [job EXCEPT ![p].at = at]
    PROVE  /\ job' \in [Process -> Job]
           /\ job'[p].at = at /\ job'[p].queue = job[p].queue
           /\ \A q \in Process \ {p} : job'[q] = job[q]
  BY DEF LocalTypes, Job

\* A call ends, or gives the lock up and goes on.
LEMMA JobOff ==
    ASSUME LocalTypes, NEW p \in Process,
           Done(p) \/ job' = [job EXCEPT ![p].at = "unlocked"]
    PROVE  /\ job' \in [Process -> Job] /\ job'[p].at \notin {"locked", "recorded"}
           /\ \A q \in Process \ {p} : job'[q] = job[q]
  <1>1. CASE Done(p)
    BY <1>1, JobChange, IdleIsJob DEF Done
  <1>2. CASE job' = [job EXCEPT ![p].at = "unlocked"]
    BY <1>2, JobAt
  <1> QED BY <1>1, <1>2

\* What a call has in hand.
LEMMA InHand ==
    ASSUME LocalTypes, NEW p \in Process
    PROVE  /\ job[p].queue \in Queue /\ job[p].units \in SUBSET Unit
           /\ job[p].model \in Assignee /\ job[p].records \in SUBSET Unit
           /\ job[p].force \in BOOLEAN
  BY DEF LocalTypes, Job

\* The job of a call that starts, or that takes entries off a copy.
LEMMA CallJob ==
    ASSUME LocalTypes, NEW p \in Process, NEW op \in Ops, NEW units \in SUBSET Unit,
           NEW m \in Assignee, NEW force \in BOOLEAN, Call(p, op, units, m, force)
    PROVE  /\ job' \in [Process -> Job] /\ job'[p].at = "waiting"
           /\ \A q \in Process \ {p} : job'[q] = job[q]
  <1> DEFINE j == [op |-> op, at |-> "waiting", units |-> units, model |-> m,
                   force |-> force, queue |-> Empty,
                   records |-> IF op \in {"delete", "requeue"} THEN registry ELSE {}]
  <1>1. j \in Job /\ j.at = "waiting"
    BY EmptyQueue DEF Job, LocalTypes
  <1>2. job' = [job EXCEPT ![p] = j]
    BY DEF Call
  <1> HIDE DEF j
  <1> QED BY <1>1, <1>2, JobChange

LEMMA RemoveJob ==
    ASSUME LocalTypes, NEW p \in Process, NEW units, RemoveFromCopy(p, units)
    PROVE  /\ job' \in [Process -> Job] /\ job'[p].at = "loaded"
           /\ \A q \in Process \ {p} : job'[q] = job[q]
  <1> DEFINE j == [op |-> "remove", at |-> "loaded", units |-> {}, model |-> NoModel,
                   force |-> FALSE, queue |-> Drop(pending, units), records |-> {}]
  <1>1. Drop(pending, units) \in Queue
    BY DropQueue DEF LocalTypes
  <1>2. j \in Job /\ j.at = "loaded"
    BY <1>1 DEF Job, Ops, Assignee
  <1>3. job' = [job EXCEPT ![p] = j]
    BY DEF RemoveFromCopy
  <1> HIDE DEF j
  <1> QED BY <1>2, <1>3, JobChange

\* Both kinds of call leave their process waiting for the lock, or off it.
LEMMA StartJob ==
    ASSUME LocalTypes, NEW p \in Process, RunCall(p) \/ ManagerCall(p)
    PROVE  /\ job' \in [Process -> Job] /\ job'[p].at \notin {"locked", "recorded"}
           /\ \A q \in Process \ {p} : job'[q] = job[q]
           /\ UNCHANGED <<pending, registry, lock, batch, erased>>
  <1>1. CASE RunCall(p)
    <2>1. /\ NoModel \in Assignee /\ ModelOf[p] \in Assignee /\ batch[p] \in SUBSET Unit
          /\ {"acquire", "commit", "release"} \subseteq Ops
      BY <1>1, LocalAssumption DEF RunCall, LocalTypes, Assignee, Ops
    <2>2. \/ Call(p, "acquire", {}, ModelOf[p], FALSE)
          \/ \E op \in {"commit", "release"} : Call(p, op, batch[p], NoModel, FALSE)
      BY <1>1 DEF RunCall
    <2>3. /\ job' \in [Process -> Job] /\ job'[p].at = "waiting"
          /\ \A q \in Process \ {p} : job'[q] = job[q]
      BY <2>1, <2>2, CallJob
    <2> QED BY <1>1, <2>3 DEF RunCall
  <1>2. CASE ManagerCall(p)
    <2>1. /\ NoModel \in Assignee /\ Model \subseteq Assignee /\ ForceRequests \subseteq BOOLEAN
          /\ {"add", "unassign", "delete", "requeue", "assign"} \subseteq Ops
      BY LocalAssumption DEF Assignee, Ops
    <2>2. \/ \E op \in Ops, units \in SUBSET Unit, m \in Assignee, force \in BOOLEAN :
                Call(p, op, units, m, force)
          \/ \E units : RemoveFromCopy(p, units)
      BY <1>2, <2>1 DEF ManagerCall
    <2>3. /\ job' \in [Process -> Job] /\ job'[p].at \in {"waiting", "loaded"}
          /\ \A q \in Process \ {p} : job'[q] = job[q]
      BY <2>2, CallJob, RemoveJob
    <2> QED BY <1>2, <2>3 DEF ManagerCall
  <1> QED BY <1>1, <1>2

LEMMA LoadJob ==
    ASSUME LocalTypes, NEW p \in Process, LockAndLoad(p)
    PROVE  /\ job' \in [Process -> Job] /\ job'[p].at = "locked" /\ job'[p].queue = pending
           /\ \A q \in Process \ {p} : job'[q] = job[q]
  <1> DEFINE j == [job[p] EXCEPT !.at = "locked", !.queue = pending,
                                 !.records = IF job[p].op = "commit" THEN registry ELSE @]
  <1>1. j \in Job /\ j.at = "locked" /\ j.queue = pending
    BY DEF LocalTypes, Job
  <1>2. job' = [job EXCEPT ![p] = j]
    BY DEF LockAndLoad, LocalTypes
  <1> HIDE DEF j
  <1> QED BY <1>1, <1>2, JobChange

LEMMA BatchSet ==
    ASSUME LocalTypes, NEW r \in Run, NEW units \in SUBSET Unit, SetBatch(r, units)
    PROVE  /\ batch' \in [Run -> SUBSET Unit] /\ erased' \in [Run -> SUBSET Unit]
           /\ Kept(r)' = units
           /\ \A o \in Run \ {r} : Kept(o)' = Kept(o)
  BY DEF SetBatch, LocalTypes, Kept

\* What a call saves under the lock: a queue, made from its copy, in which every
\* run but its own has what it had.
LEMMA SavedQueue ==
    ASSUME LocalTypes, NEW p \in Process
    PROVE  /\ \A S : \A r \in Owner : OwnedBy(job[p].queue, S, r) \in Queue
           /\ \A S : \A m \in Assignee : AssignedTo(job[p].queue, S, m) \in Queue
           /\ \A S \in SUBSET Unit, m \in Assignee : AddTo(job[p].queue, S, m) \in Queue
           /\ \A S : Drop(job[p].queue, S) \in Queue
  BY InHand, OwnedByQueue, AssignedToQueue, AddToQueue, DropQueue

\* A save under the lock leaves a queue on disk, and the lock free.
LEMMA SaveTypes ==
    ASSUME LocalTypes, NEW p \in Process, Done(p) \/ job' = [job EXCEPT ![p].at = "unlocked"],
           NEW q \in Queue, NEW saved \in BOOLEAN, SaveAndUnlock(q, saved),
           UNCHANGED registry, batch' \in [Run -> SUBSET Unit], erased' \in [Run -> SUBSET Unit]
    PROVE  LocalTypes'
  <1>1. pending' \in Queue /\ lock' \in Process \cup {NoProc}
    BY DEF SaveAndUnlock, LocalTypes
  <1>2. job' \in [Process -> Job]
    BY JobOff
  <1> QED BY <1>1, <1>2 DEF LocalTypes

LEMMA TypesStep ==
    ASSUME LocalTypes, [LocalNext]_localVars
    PROVE  LocalTypes'
  <1>0. NoModel \in Assignee /\ NoRun \in Owner /\ Run \subseteq Owner
    BY DEF Assignee, Owner
  <1>1. ASSUME NEW p \in Process, RunCall(p) \/ ManagerCall(p)
        PROVE  LocalTypes'
    BY <1>1, StartJob DEF LocalTypes
  <1>2. ASSUME NEW p \in Process, LockAndLoad(p)
        PROVE  LocalTypes'
    <2>1. job' \in [Process -> Job]
      BY <1>2, LoadJob
    <2> QED BY <1>2, <2>1 DEF LockAndLoad, LocalTypes
  <1>3. ASSUME NEW p \in Process, SaveUnlocked(p)
        PROVE  LocalTypes'
    <2>1. job' \in [Process -> Job] /\ pending' \in Queue
      BY <1>3, JobOff, InHand DEF SaveUnlocked, LocalTypes
    <2>2. erased' \in [Run -> SUBSET Unit]
      BY <1>3 DEF SaveUnlocked, LocalTypes
    <2> QED BY <1>3, <2>1, <2>2 DEF SaveUnlocked, LocalTypes
  <1>4. ASSUME NEW r \in Process, FinishAcquire(r)
        PROVE  LocalTypes'
    <2>1. PICK taken \in SUBSET AcquirableIn(job[r].queue, r, job[r].model), saved \in BOOLEAN :
             /\ SaveAndUnlock(OwnedBy(job[r].queue, taken, r), saved)
             /\ SetBatch(r, IF saved THEN taken ELSE {})
      BY <1>4 DEF FinishAcquire
    <2>2. (IF saved THEN taken ELSE {}) \in SUBSET Unit
      BY <2>1, InHand, QueueParts DEF AcquirableIn
    <2>3. batch' \in [Run -> SUBSET Unit] /\ erased' \in [Run -> SUBSET Unit]
      BY <1>4, <2>1, <2>2, BatchSet DEF FinishAcquire
    <2>4. OwnedBy(job[r].queue, taken, r) \in Queue
      BY <1>0, <1>4, SavedQueue DEF FinishAcquire
    <2> QED BY <1>4, <2>1, <2>3, <2>4, SaveTypes DEF FinishAcquire
  <1>5. ASSUME NEW r \in Process, FinishRelease(r)
        PROVE  LocalTypes'
    <2>1. PICK S : \E saved \in BOOLEAN : SaveAndUnlock(OwnedBy(job[r].queue, S, NoRun), saved)
      BY <1>5 DEF FinishRelease
    <2>2. batch' \in [Run -> SUBSET Unit] /\ erased' \in [Run -> SUBSET Unit]
      BY <1>5, BatchSet DEF FinishRelease
    <2>3. OwnedBy(job[r].queue, S, NoRun) \in Queue
      BY <1>0, SavedQueue
    <2> QED BY <1>5, <2>1, <2>2, <2>3, SaveTypes DEF FinishRelease
  <1>6. ASSUME NEW p \in Process, FinishAdd(p)
        PROVE  LocalTypes'
    <2>1. AddTo(job[p].queue, job[p].units, NoModel) \in Queue
      BY <1>0, InHand, SavedQueue
    <2> QED BY <1>6, <2>1, SaveTypes DEF FinishAdd, LocalTypes
  <1>7. ASSUME NEW p \in Process, FinishAssign(p) \/ FinishUnassign(p)
        PROVE  LocalTypes'
    <2>1. PICK S : \E m \in Assignee, saved \in BOOLEAN :
             SaveAndUnlock(AssignedTo(job[p].queue, S, m), saved)
      BY <1>0, <1>7, InHand, Zenon DEF FinishAssign, FinishUnassign
    <2>2. \A m \in Assignee : AssignedTo(job[p].queue, S, m) \in Queue
      BY SavedQueue
    <2> QED BY <1>7, <2>1, <2>2, SaveTypes DEF FinishAssign, FinishUnassign, LocalTypes
  <1>8. ASSUME NEW r \in Process, CommitRegistry(r)
        PROVE  LocalTypes'
    <2>1. job' \in [Process -> Job]
      BY <1>8, JobAt DEF CommitRegistry
    <2>2. \/ UNCHANGED registry
          \/ \E S \in SUBSET job[r].units : registry' = job[r].records \cup S
      BY <1>8, Zenon DEF CommitRegistry
    <2>3. registry' \in SUBSET Unit
      BY <2>2, InHand DEF LocalTypes
    <2> QED BY <1>8, <2>1, <2>3 DEF CommitRegistry, LocalTypes
  <1>9. ASSUME NEW r \in Process, CommitPending(r)
        PROVE  LocalTypes'
    <2>1. PICK S : \E saved \in BOOLEAN : SaveAndUnlock(Drop(job[r].queue, S), saved)
      BY <1>9 DEF CommitPending
    <2>2. batch' \in [Run -> SUBSET Unit] /\ erased' \in [Run -> SUBSET Unit]
      BY <1>9, BatchSet DEF CommitPending
    <2>3. Drop(job[r].queue, S) \in Queue
      BY SavedQueue
    <2> QED BY <1>9, <2>1, <2>2, <2>3, SaveTypes DEF CommitPending
  <1>10. ASSUME NEW p \in Process, DeletePending(p)
         PROVE  LocalTypes'
    <2>1. PICK S : \E saved \in BOOLEAN :
             /\ SaveAndUnlock(Drop(job[p].queue, S), saved)
             /\ erased' = IF saved /\ job[p].force
                          THEN [r \in Run |-> erased[r] \cup (batch[r] \cap S)] ELSE erased
      BY <1>10 DEF DeletePending
    <2>a. [r \in Run |-> erased[r] \cup (batch[r] \cap S)] \in [Run -> SUBSET Unit]
      BY DEF LocalTypes
    <2>2. batch' \in [Run -> SUBSET Unit] /\ erased' \in [Run -> SUBSET Unit]
      BY <1>10, <2>1, <2>a DEF DeletePending, LocalTypes
    <2>3. Drop(job[p].queue, S) \in Queue
      BY SavedQueue
    <2> QED BY <1>10, <2>1, <2>2, <2>3, SaveTypes DEF DeletePending
  <1>11. ASSUME NEW p \in Process, DeleteRegistry(p) \/ RequeueRegistry(p)
         PROVE  LocalTypes'
    <2>1. UNCHANGED registry \/ registry' \subseteq job[p].records
      BY <1>11 DEF DeleteRegistry, RequeueRegistry
    <2>2. registry' \in SUBSET Unit
      BY <2>1, InHand DEF LocalTypes
    <2>3. job' \in [Process -> Job]
      BY <1>11, JobOff DEF DeleteRegistry, RequeueRegistry
    <2> QED BY <1>11, <2>2, <2>3 DEF DeleteRegistry, RequeueRegistry, LocalTypes
  <1>12. ASSUME NEW p \in Process, RequeuePending(p)
         PROVE  LocalTypes'
    <2>1. Requeued(p) \in SUBSET Unit /\ job[p].model \in Assignee
      BY InHand DEF Requeued
    <2>2. AddTo(job[p].queue, Requeued(p), job[p].model) \in Queue
      BY <2>1, SavedQueue
    <2>3. Done(p) \/ job' = [job EXCEPT ![p].at = "unlocked"]
      BY <1>12 DEF RequeuePending
    <2> QED BY <1>12, <2>2, <2>3, SaveTypes DEF RequeuePending, LocalTypes
  <1>13. ASSUME NEW p \in Process, Die(p)
         PROVE  LocalTypes'
    <2>1. job' \in [Process -> Job]
      BY <1>13, JobOff DEF Die
    <2>2. batch' \in [Run -> SUBSET Unit] /\ erased' \in [Run -> SUBSET Unit]
      BY <1>13, BatchSet DEF Die, LocalTypes
    <2> QED BY <1>13, <2>1, <2>2 DEF Die, LocalTypes
  <1>14. CASE UNCHANGED localVars
    BY <1>14 DEF localVars, LocalTypes
  <1> QED BY <1>1, <1>2, <1>3, <1>4, <1>5, <1>6, <1>7, <1>8, <1>9, <1>10, <1>11, <1>12, <1>13, <1>14
          DEF LocalNext

-----------------------------------------------------------------------------
(* A run keeps its claims *)

\* A step that leaves the file, the lock and the batches alone, and gives no
\* copy out.
LEMMA QuietStep ==
    ASSUME LocalInv, NEW p \in Process, UNCHANGED <<pending, lock, batch, erased>>,
           \A q \in Process \ {p} : job'[q] = job[q],
           \/ job'[p].at \notin {"locked", "recorded"}
           \/ job[p].at \in {"locked", "recorded"} /\ job'[p].queue = job[p].queue
    PROVE  CopiesHaveClaims' /\ RunKeepsItsClaims'
  BY DEF LocalInv, CopiesHaveClaims, RunKeepsItsClaims, Kept

\* A save under the lock: nobody else has a copy, so the file is what matters.
LEMMA SaveStep ==
    ASSUME LocalInv, NEW p \in Process, job[p].at \in {"locked", "recorded"},
           Done(p) \/ job' = [job EXCEPT ![p].at = "unlocked"],
           \A r \in Run : Kept(r)' \subseteq HeldIn(pending', r)
    PROVE  CopiesHaveClaims' /\ RunKeepsItsClaims'
  <1>1. /\ job'[p].at \notin {"locked", "recorded"}
        /\ \A q \in Process \ {p} : job'[q] = job[q]
    BY JobOff DEF LocalInv
  <1>2. CopiesHaveClaims'
    BY <1>1 DEF LocalInv, CopiesHaveClaims
  <1>3. RunKeepsItsClaims'
    BY DEF RunKeepsItsClaims, Kept, HeldIn
  <1> QED BY <1>2, <1>3

\* What a run still counts on is in the file, whether a save under the lock
\* succeeds or not, when the saved queue has what the copy gives that run.
LEMMA SavedClaims ==
    ASSUME LocalInv, NEW p \in Process, job[p].at \in {"locked", "recorded"},
           NEW q, NEW saved \in BOOLEAN, SaveAndUnlock(q, saved), NEW r \in Run,
           saved => Kept(r)' \cap HeldIn(job[p].queue, r) \subseteq HeldIn(q, r),
           Kept(r)' \subseteq Kept(r)
    PROVE  Kept(r)' \subseteq HeldIn(pending', r)
  <1>1. Kept(r) \subseteq HeldIn(job[p].queue, r) /\ Kept(r) \subseteq HeldIn(pending, r)
    BY DEF LocalInv, CopiesHaveClaims, RunKeepsItsClaims, Kept, HeldIn
  <1> QED BY <1>1 DEF SaveAndUnlock

\* A call that changes no batch and saves a queue with all the claims of its copy.
LEMMA PlainSave ==
    ASSUME LocalInv, NEW p \in Process, job[p].at \in {"locked", "recorded"},
           Done(p) \/ job' = [job EXCEPT ![p].at = "unlocked"],
           NEW q, NEW saved \in BOOLEAN, SaveAndUnlock(q, saved), UNCHANGED <<batch, erased>>,
           \A r \in Run : HeldIn(job[p].queue, r) \subseteq HeldIn(q, r)
    PROVE  CopiesHaveClaims' /\ RunKeepsItsClaims'
  <1>1. \A r \in Run : Kept(r)' = Kept(r)
    BY DEF Kept
  <1>2. \A r \in Run : Kept(r)' \subseteq HeldIn(pending', r)
    BY <1>1, SavedClaims
  <1> QED BY <1>2, SaveStep

\* A call that ends the batch of its own run.
LEMMA EndOfBatch ==
    ASSUME LocalInv, NEW p \in Run, p \in Process, job[p].at \in {"locked", "recorded"}, Done(p),
           NEW q, NEW saved \in BOOLEAN, SaveAndUnlock(q, saved), SetBatch(p, {}),
           \A r \in Run \ {p} : HeldIn(job[p].queue, r) \subseteq HeldIn(q, r)
    PROVE  CopiesHaveClaims' /\ RunKeepsItsClaims'
  <1>1. Kept(p)' = {} /\ \A r \in Run \ {p} : Kept(r)' = Kept(r)
    BY BatchSet DEF LocalInv
  <1>2. \A r \in Run \ {p} : Kept(r)' \subseteq HeldIn(pending', r)
    BY <1>1, SavedClaims
  <1> QED BY <1>1, <1>2, SaveStep

LEMMA ClaimsStep ==
    ASSUME LocalInv, [LocalNext]_localVars
    PROVE  CopiesHaveClaims' /\ RunKeepsItsClaims'
  <1>0. LocalTypes
    BY DEF LocalInv
  <1>a. NoModel \in Assignee /\ NoRun \in Owner /\ Run \subseteq Owner
    BY DEF Assignee, Owner
  <1>1. ASSUME NEW p \in Process, RunCall(p) \/ ManagerCall(p)
        PROVE  CopiesHaveClaims' /\ RunKeepsItsClaims'
    BY <1>0, <1>1, StartJob, QuietStep
  <1>2. ASSUME NEW p \in Process, LockAndLoad(p)
        PROVE  CopiesHaveClaims' /\ RunKeepsItsClaims'
    <2>1. /\ job'[p].queue = pending /\ \A q \in Process \ {p} : job'[q] = job[q]
          /\ lock' = p /\ lock = NoProc /\ UNCHANGED <<pending, batch, erased>>
      BY <1>0, <1>2, LoadJob DEF LockAndLoad
    <2>2. RunKeepsItsClaims'
      BY <2>1 DEF LocalInv, RunKeepsItsClaims
    <2>3. \A r \in Run : Kept(r)' \subseteq HeldIn(pending, r)
      BY <2>1 DEF LocalInv, RunKeepsItsClaims, Kept, HeldIn
    <2>4. \A q \in Process : job[q].at \notin {"locked", "recorded"}
      BY <2>1, LocalAssumption DEF LocalInv, CopiesHaveClaims, Process
    <2>5. CopiesHaveClaims'
      BY <2>1, <2>3, <2>4 DEF CopiesHaveClaims
    <2> QED BY <2>2, <2>5
  <1>3. ASSUME NEW p \in Process, SaveUnlocked(p)
        PROVE  CopiesHaveClaims' /\ RunKeepsItsClaims'
    <2>1. /\ job'[p].at \notin {"locked", "recorded"}
          /\ \A q \in Process \ {p} : job'[q] = job[q]
      BY <1>0, <1>3, JobOff DEF SaveUnlocked
    <2>2. \A r \in Run : erased'[r] = erased[r] \cup (batch[r] \ HeldIn(pending', r))
      BY <1>3 DEF SaveUnlocked, HeldIn
    <2>3. \A r \in Run : Kept(r)' \subseteq Kept(r) /\ Kept(r)' \subseteq HeldIn(pending', r)
      BY <1>3, <2>2 DEF SaveUnlocked, Kept
    <2>4. RunKeepsItsClaims'
      BY <2>3 DEF RunKeepsItsClaims, Kept, HeldIn
    <2>5. CopiesHaveClaims'
      BY <1>3, <2>1, <2>3 DEF LocalInv, CopiesHaveClaims, SaveUnlocked
    <2> QED BY <2>4, <2>5
  <1>4. ASSUME NEW r \in Process, FinishAcquire(r)
        PROVE  CopiesHaveClaims' /\ RunKeepsItsClaims'
    <2> DEFINE c == job[r].queue
    <2>1. job[r].at = "locked" /\ r \in Run /\ r \in Owner /\ c \in Queue
      BY <1>0, <1>4, InHand DEF FinishAcquire, Doing, Owner
    <2>2. PICK taken \in SUBSET AcquirableIn(c, r, job[r].model), saved \in BOOLEAN :
             /\ SaveAndUnlock(OwnedBy(c, taken, r), saved)
             /\ SetBatch(r, IF saved THEN taken ELSE {})
      BY <1>4 DEF FinishAcquire
    <2> HIDE DEF c
    <2> DEFINE q == OwnedBy(c, taken, r)
    <2>3. \A u \in taken : u \in DOMAIN c /\ c[u].run \in {NoRun, r}
      BY <2>2 DEF AcquirableIn
    <2>4. (IF saved THEN taken ELSE {}) \in SUBSET Unit
      BY <2>1, <2>3, QueueParts
    <2>5. /\ \A o : HeldIn(c, o) \ taken \subseteq HeldIn(q, o)
          /\ taken \cap DOMAIN c \subseteq HeldIn(q, r)
      BY <2>1, OwnedByQueue
    <2>6. \A o \in Run \ {r} : HeldIn(c, o) \subseteq HeldIn(q, o)
      BY <2>3, <2>5, NameAssumption DEF HeldIn
    <2>7. /\ Kept(r)' = (IF saved THEN taken ELSE {})
          /\ \A o \in Run \ {r} : Kept(o)' = Kept(o)
      BY <1>0, <2>1, <2>2, <2>4, BatchSet
    <2> HIDE DEF q
    <2>8. \A o \in Run \ {r} : Kept(o)' \subseteq HeldIn(pending', o)
      BY <2>1, <2>2, <2>6, <2>7, SavedClaims DEF q, c
    <2>9. Kept(r)' \subseteq HeldIn(pending', r)
      BY <2>2, <2>3, <2>5, <2>7 DEF SaveAndUnlock, q
    <2> QED BY <1>4, <2>1, <2>8, <2>9, SaveStep DEF FinishAcquire
  <1>5. ASSUME NEW r \in Process, FinishRelease(r)
        PROVE  CopiesHaveClaims' /\ RunKeepsItsClaims'
    <2> DEFINE c == job[r].queue
               S == {u \in job[r].units \cap DOMAIN c : c[u].run = r}
    <2>1. job[r].at = "locked" /\ r \in Run /\ Done(r) /\ SetBatch(r, {}) /\ c \in Queue
      BY <1>0, <1>5, InHand DEF FinishRelease, Doing
    <2>2. PICK saved \in BOOLEAN : SaveAndUnlock(OwnedBy(c, S, NoRun), saved)
      BY <1>5 DEF FinishRelease
    <2>3. \A o : HeldIn(c, o) \ S \subseteq HeldIn(OwnedBy(c, S, NoRun), o)
      BY <1>a, <2>1, OwnedByQueue
    <2>4. \A o \in Run \ {r} : HeldIn(c, o) \subseteq HeldIn(OwnedBy(c, S, NoRun), o)
      BY <2>3 DEF HeldIn
    <2> QED BY <2>1, <2>2, <2>4, EndOfBatch
  <1>6. ASSUME NEW p \in Process, FinishAdd(p)
        PROVE  CopiesHaveClaims' /\ RunKeepsItsClaims'
    <2> DEFINE q == AddTo(job[p].queue, job[p].units, NoModel)
    <2>1. PICK saved \in BOOLEAN : SaveAndUnlock(q, saved)
      BY <1>6 DEF FinishAdd
    <2>2. \A o : HeldIn(job[p].queue, o) \subseteq HeldIn(q, o)
      BY <1>0, <1>a, InHand, AddToQueue
    <2> HIDE DEF q
    <2> QED BY <1>6, <2>1, <2>2, PlainSave DEF FinishAdd, Doing
  <1>7. ASSUME NEW p \in Process, FinishAssign(p) \/ FinishUnassign(p)
        PROVE  CopiesHaveClaims' /\ RunKeepsItsClaims'
    <2>1. PICK S : \E m \in Assignee, saved \in BOOLEAN :
             SaveAndUnlock(AssignedTo(job[p].queue, S, m), saved)
      BY <1>0, <1>a, <1>7, InHand, Zenon DEF FinishAssign, FinishUnassign
    <2>2. \A m \in Assignee : \A o : HeldIn(job[p].queue, o) \subseteq
                                     HeldIn(AssignedTo(job[p].queue, S, m), o)
      BY <1>0, InHand, AssignedToQueue
    <2> QED BY <1>7, <2>1, <2>2, PlainSave DEF FinishAssign, FinishUnassign, Doing
  <1>8. ASSUME NEW r \in Process, CommitRegistry(r)
        PROVE  CopiesHaveClaims' /\ RunKeepsItsClaims'
    <2>1. /\ job[r].at = "locked" /\ job'[r].queue = job[r].queue
          /\ \A q \in Process \ {r} : job'[q] = job[q]
      BY <1>0, <1>8, JobAt DEF CommitRegistry, Doing
    <2> QED BY <1>8, <2>1, QuietStep DEF CommitRegistry
  <1>9. ASSUME NEW r \in Process, CommitPending(r)
        PROVE  CopiesHaveClaims' /\ RunKeepsItsClaims'
    <2> DEFINE c == job[r].queue
               S == {u \in DOMAIN c : /\ c[u].run = r
                                      /\ \E v \in job[r].units : Matches(u, v, ExactCommit(r))}
    <2>1. job[r].at = "recorded" /\ r \in Run /\ Done(r) /\ SetBatch(r, {}) /\ c \in Queue
      BY <1>0, <1>9, InHand DEF CommitPending, Doing
    <2>2. PICK saved \in BOOLEAN : SaveAndUnlock(Drop(c, S), saved)
      BY <1>9 DEF CommitPending
    <2>3. \A o \in Run \ {r} : HeldIn(c, o) \cap S = {}
      BY DEF HeldIn
    <2> HIDE DEF S
    <2>4. \A o : HeldIn(Drop(c, S), o) = HeldIn(c, o) \ S
      BY <2>1, DropQueue
    <2>5. \A o \in Run \ {r} : HeldIn(c, o) \subseteq HeldIn(Drop(c, S), o)
      BY <2>3, <2>4
    <2> QED BY <2>1, <2>2, <2>5, EndOfBatch
  <1>10. ASSUME NEW p \in Process, DeletePending(p)
         PROVE  CopiesHaveClaims' /\ RunKeepsItsClaims'
    <2> DEFINE c == job[p].queue
               S == (job[p].units \cap DOMAIN c) \ Protected(c, job[p].force)
    <2>1. job[p].at = "locked" /\ c \in Queue /\ job[p].force \in BOOLEAN
      BY <1>0, <1>10, InHand DEF DeletePending, Doing
    <2>2. PICK saved \in BOOLEAN :
             /\ SaveAndUnlock(Drop(c, S), saved)
             /\ erased' = IF saved /\ job[p].force
                          THEN [r \in Run |-> erased[r] \cup (batch[r] \cap S)] ELSE erased
      BY <1>10 DEF DeletePending
    <2>3. ~ job[p].force => \A o \in Run : HeldIn(c, o) \cap S = {}
      BY NameAssumption DEF HeldIn, Protected
    <2> HIDE DEF S
    <2>4. \A o : HeldIn(Drop(c, S), o) = HeldIn(c, o) \ S
      BY <2>1, DropQueue
    <2>5. UNCHANGED batch
      BY <1>10 DEF DeletePending
    <2>6. \A o \in Run : /\ Kept(o)' \subseteq Kept(o)
                         /\ saved /\ job[p].force => Kept(o)' \cap S = {}
      BY <2>2, <2>5 DEF Kept
    <2>7. \A o \in Run : saved => Kept(o)' \cap HeldIn(c, o) \subseteq HeldIn(Drop(c, S), o)
      BY <2>1, <2>3, <2>4, <2>6
    <2>8. \A o \in Run : Kept(o)' \subseteq HeldIn(pending', o)
      BY <2>1, <2>2, <2>6, <2>7, SavedClaims
    <2> QED BY <1>10, <2>1, <2>8, SaveStep DEF DeletePending
  <1>11. ASSUME NEW p \in Process, DeleteRegistry(p) \/ RequeueRegistry(p)
         PROVE  CopiesHaveClaims' /\ RunKeepsItsClaims'
    <2>1. Done(p) /\ UNCHANGED <<pending, lock, batch, erased>>
      BY <1>11 DEF DeleteRegistry, RequeueRegistry
    <2> QED BY <1>0, <2>1, JobOff, QuietStep
  <1>12. ASSUME NEW p \in Process, RequeuePending(p)
         PROVE  CopiesHaveClaims' /\ RunKeepsItsClaims'
    <2> DEFINE q == AddTo(job[p].queue, Requeued(p), job[p].model)
    <2>1. PICK saved \in BOOLEAN :
             /\ SaveAndUnlock(q, saved)
             /\ IF saved THEN job' = [job EXCEPT ![p].at = "unlocked"] ELSE Done(p)
      BY <1>12 DEF RequeuePending
    <2>2. Requeued(p) \in SUBSET Unit /\ job[p].model \in Assignee
      BY <1>0, InHand DEF Requeued
    <2>3. \A o : HeldIn(job[p].queue, o) \subseteq HeldIn(q, o)
      BY <1>0, <2>2, InHand, AddToQueue
    <2> HIDE DEF q
    <2> QED BY <1>12, <2>1, <2>3, PlainSave DEF RequeuePending, Doing
  <1>13. ASSUME NEW p \in Process, Die(p)
         PROVE  CopiesHaveClaims' /\ RunKeepsItsClaims'
    <2>1. /\ job'[p].at \notin {"locked", "recorded"}
          /\ \A q \in Process \ {p} : job'[q] = job[q]
      BY <1>0, <1>13, JobOff DEF Die
    <2>2. \A r \in Run : Kept(r)' \subseteq Kept(r)
      BY <1>0, <1>13, BatchSet DEF Die, Kept
    <2>3. \A q \in Process \ {p} : lock = q => lock' = q
      BY <1>13 DEF Die
    <2>4. CopiesHaveClaims'
      BY <2>1, <2>2, <2>3 DEF LocalInv, CopiesHaveClaims
    <2>5. RunKeepsItsClaims'
      BY <1>13, <2>2 DEF LocalInv, RunKeepsItsClaims, Die, Kept
    <2> QED BY <2>4, <2>5
  <1>14. CASE UNCHANGED localVars
    BY <1>14 DEF localVars, LocalInv, CopiesHaveClaims, RunKeepsItsClaims, Kept
  <1> QED BY <1>1, <1>2, <1>3, <1>4, <1>5, <1>6, <1>7, <1>8, <1>9, <1>10, <1>11, <1>12, <1>13, <1>14
          DEF LocalNext

LEMMA InitLocal == LocalInit => LocalInv
  <1>1. LocalInit => LocalTypes
    BY EmptyQueue, IdleIsJob DEF LocalInit, LocalTypes
  <1>2. LocalInit => CopiesHaveClaims /\ RunKeepsItsClaims
    BY DEF LocalInit, CopiesHaveClaims, Idle, RunKeepsItsClaims
  <1> QED BY <1>1, <1>2 DEF LocalInv

LEMMA NextLocal == LocalInv /\ [LocalNext]_localVars => LocalInv'
  BY TypesStep, ClaimsStep DEF LocalInv

\* Whoever changes the queue under the lock has the lock, and saves no queue
\* without the claims that a run still counts on, although remove and
\* clear-pending may have changed the file under him.
THEOREM NoStaleClaims == LocalSpec => [](LocalTypes /\ CopiesHaveClaims)
  BY InitLocal, NextLocal, PTL DEF LocalSpec, LocalInv

\* A run keeps what it acquired until it commits or releases it, although a
\* local claim has no lease and its processes share only a lock file, whoever
\* dies or fails to save in between: all but what a forced delete deleted, and
\* what the queue saved by a remove or a clear-pending no longer gives it.
THEOREM ClaimsAreKept == LocalSpec => []RunKeepsItsClaims
  BY InitLocal, NextLocal, PTL DEF LocalSpec, LocalInv
=============================================================================
