------------------------ MODULE TrainingPool_proofs ------------------------
(***************************************************************************)
(* Proofs about the registry server and the trainers of one registry, for  *)
(* every set of runs, models, files and row ranges, every lease, any       *)
(* number of writes and any number of faults.  The server comes first; the *)
(* trainers send requests with arguments of their own, so its lemmas are   *)
(* about ServerStep.                                                       *)
(***************************************************************************)
EXTENDS TrainingPool, TLAPS

-----------------------------------------------------------------------------
(* The registry server *)

\* A request with any arguments, also those that Next does not enumerate; the
\* trainers of TrainingPool send such requests, too.
ServerStep ==
    \/ \E r \in Run : \/ \E m \in Assignee, limit \in Nat, taken \in SUBSET Unit :
                            Acquire(r, m, limit, taken)
                      \/ Renew(r)
    \/ \E r \in Owner, units \in SUBSET Unit :
          \/ Release(r, units)
          \/ \E exact, saved \in BOOLEAN : Trained(r, units, exact, saved)
    \/ \E u \in Unit : PendingAdd(u)
    \/ \E p \in Path, saved \in BOOLEAN :
          \/ WriteSlice(p) \/ EmptySlice(p) \/ QueueFetchedSlice(p, saved)
          \/ \E overwrite \in BOOLEAN : Upload(p, overwrite, saved)
    \/ \E m \in Assignee, units \in SUBSET Unit :
          Assign(m, units) \/ \E force \in BOOLEAN : Unassign(m, units, force)
    \/ \E targets \in SUBSET Unit, force \in ForceRequests, unlink \in UnlinkRequests,
          saves \in 0..2 : Delete(targets, force, unlink, saves)
    \/ \E paths \in SUBSET Path, m \in Assignee, saved \in BOOLEAN :
          Requeue(paths, m, saved)
    \/ Tick
    \/ RestartServer

LEMMA NextIsServerStep == Next => ServerStep
  <1>1. \A limit \in 0..1 : limit \in Nat
    OBVIOUS
  <1>2. CASE RunRequest
    BY <1>1, <1>2, Zenon DEF RunRequest, ServerStep
  <1>3. CASE ReleaseOrCommit
    BY <1>3, Zenon DEF ReleaseOrCommit, ServerStep
  <1>4. CASE OperatorRequest
    <2>1. ASSUME NEW m \in Assignee, NEW units \in SUBSET Unit, NEW force \in ForceRequests,
                 Unassign(m, units, force)
          PROVE  ServerStep
      BY <2>1, BoundAssumption, Zenon DEF ServerStep
    <2> QED BY <1>4, <2>1, Zenon DEF OperatorRequest, ServerStep
  <1>5. CASE Tick \/ RestartServer
    BY <1>5 DEF ServerStep
  <1> QED BY <1>2, <1>3, <1>4, <1>5 DEF Next

\* A well-formed queue.
QueueOK(q) == DOMAIN q \subseteq Unit /\ q \in [DOMAIN q -> Entry]

-----------------------------------------------------------------------------
(* What the helpers on the queue return *)

\* Removing entries (trained, delete) leaves a well-formed queue, and the
\* other entries as they were.
LEMMA WithoutQueue ==
    ASSUME QueueOK(pending), NEW S
    PROVE  /\ QueueOK(Without(S))
           /\ DOMAIN Without(S) = Queued \ S
           /\ \A u \in Queued \ S : Without(S)[u] = pending[u]
  BY DEF QueueOK, Without, Queued

\* Queueing units (add, fetch, upload, requeue) adds unclaimed entries only.
LEMMA WithNewQueue ==
    ASSUME QueueOK(pending), NEW S \in SUBSET Unit, NEW m \in Assignee
    PROVE  /\ QueueOK(WithNew(S, m))
           /\ DOMAIN WithNew(S, m) = Queued \cup S
           /\ \A u \in Queued : WithNew(S, m)[u] = pending[u]
           /\ \A u \in S \ Queued : WithNew(S, m)[u].run = NoRun
  <1>1. FreshEntry(m) \in Entry /\ FreshEntry(m).run = NoRun
    BY BoundAssumption DEF FreshEntry, Entry, Owner
  <1> QED BY <1>1 DEF QueueOK, WithNew, Queued

\* Claiming and releasing keep the queued units; only the claims of S change.
LEMMA WithRunQueue ==
    ASSUME QueueOK(pending), NEW S, NEW r \in Owner
    PROVE  /\ QueueOK(WithRun(S, r))
           /\ DOMAIN WithRun(S, r) = Queued
           /\ \A u \in Queued : /\ WithRun(S, r)[u].run = IF u \in S THEN r ELSE pending[u].run
                               /\ WithRun(S, r)[u].age = IF u \in S THEN 0 ELSE pending[u].age
  <1>1. \A e \in Entry : [run |-> r, model |-> e.model, age |-> 0] \in Entry
    BY BoundAssumption DEF Entry
  <1>2. \A u \in Queued : pending[u] \in Entry
    BY DEF QueueOK, Queued
  <1> QED BY <1>1, <1>2 DEF QueueOK, WithRun, Queued

\* Assigning changes no claim and no claim's age.
LEMMA WithModelQueue ==
    ASSUME QueueOK(pending), NEW S, NEW m \in Assignee
    PROVE  /\ QueueOK(WithModel(S, m))
           /\ DOMAIN WithModel(S, m) = Queued
           /\ \A u \in Queued : /\ WithModel(S, m)[u].run = pending[u].run
                               /\ WithModel(S, m)[u].age = pending[u].age
  <1>1. \A e \in Entry : /\ [e EXCEPT !.model = m] \in Entry
                         /\ [e EXCEPT !.model = m].run = e.run
                         /\ [e EXCEPT !.model = m].age = e.age
    BY DEF Entry
  <1>2. \A u \in Queued : pending[u] \in Entry
    BY DEF QueueOK, Queued
  <1> QED BY <1>1, <1>2 DEF QueueOK, WithModel, Queued

-----------------------------------------------------------------------------
(* Type correctness *)

\* What TypeOK says of the variables other than the queue.
StoreOK ==
    /\ registry \subseteq [unit : Unit, content : Content]
    /\ bytes \in [Path -> Content]
    /\ writes \in Content
    /\ fetching \subseteq Slices
    /\ owed \subseteq Unit
    /\ seen \in [Unit -> Content]
    /\ disturbed \subseteq Unit

LEMMA TypeParts == TypeOK <=> QueueOK(pending) /\ StoreOK
  BY DEF TypeOK, QueueOK, StoreOK, Queued

\* The same of the next state.
LEMMA NextTypeParts == QueueOK(pending)' /\ StoreOK' => TypeOK'
  BY DEF TypeOK, QueueOK, StoreOK, Queued, Content, Entry, Owner, Assignee

\* The recorded units, and the files of units, are among the declared ones.
LEMMA RecordedUnits ==
    ASSUME StoreOK
    PROVE  Recorded \subseteq Unit
  BY DEF StoreOK, Recorded

LEMMA UnitPath == \A u \in Unit : u.path \in Path
  BY UnitAssumption

\* A recorded unit gets the content its file has now.
LEMMA NewRecordsOK ==
    ASSUME StoreOK, NEW S \in SUBSET Unit
    PROVE  NewRecords(S) \subseteq [unit : Unit, content : Content]
  BY UnitPath DEF StoreOK, NewRecords

\* A written file: the next content number is in range.
LEMMA WriteOK ==
    ASSUME StoreOK, NEW p \in Path, Write(p)
    PROVE  writes' \in Content /\ bytes' \in [Path -> Content]
  <1>1. writes' \in Content
    BY BoundAssumption DEF StoreOK, Content, Write
  <1> QED BY <1>1 DEF StoreOK, Write

\* The slices are files, and the claims on one are units.
LEMMA SlicesOK ==
    ASSUME QueueOK(pending), NEW p \in Slices
    PROVE  p \in Path /\ WholeOf(p) \in Unit /\ ClaimsOn(p) \subseteq Unit
  BY BoundAssumption DEF QueueOK, ClaimsOn, Claimed, Queued

\* The slice that is queued: either it is, or its file is dropped.
LEMMA FetchedSlice ==
    ASSUME NEW p, NEW saved \in BOOLEAN, QueueFetchedSlice(p, saved)
    PROVE  /\ p \in fetching /\ fetching' = fetching \ {p}
           /\ \/ pending' = WithNew({WholeOf(p)}, NoModel) /\ owed' = owed \cup {WholeOf(p)}
              \/ UNCHANGED <<pending, owed>>
           /\ \/ UNCHANGED <<bytes, disturbed>>
              \/ DropSlice(p)
           /\ UNCHANGED <<registry, writes, seen>>
  BY Zenon DEF QueueFetchedSlice, DropSlice

LEMMA InitType == Init => TypeOK
  BY BoundAssumption DEF Init, TypeOK, Queued, Content

LEMMA NextType ==
    ASSUME TypeOK, [ServerStep]_vars
    PROVE  TypeOK'
  <1> USE DEF Content
  <1>0. QueueOK(pending) /\ StoreOK
    BY TypeParts
  <1>a. SUFFICES QueueOK(pending') /\ StoreOK'
    BY NextTypeParts DEF QueueOK, Entry, Owner, Assignee
  <1>1. ASSUME NEW u \in Unit, PendingAdd(u)
        PROVE  QueueOK(pending') /\ StoreOK'
    BY <1>0, <1>1, WithNewQueue DEF PendingAdd, StoreOK, Assignee
  <1>2. ASSUME NEW p \in Path, NEW saved \in BOOLEAN, QueueFetchedSlice(p, saved)
        PROVE  QueueOK(pending') /\ StoreOK'
    <2>1. p \in Slices /\ fetching' \subseteq Slices
      BY <1>0, <1>2, FetchedSlice DEF StoreOK
    <2>2. WholeOf(p) \in Unit /\ ClaimsOn(p) \subseteq Unit /\ NoModel \in Assignee
      BY <1>0, <2>1, SlicesOK DEF Assignee
    <2>3. UNCHANGED <<bytes, disturbed>> \/ DropSlice(p)
      BY <1>2, FetchedSlice
    <2>4. bytes' \in [Path -> Content] /\ disturbed' \subseteq Unit
      BY <1>0, <2>2, <2>3, BoundAssumption DEF DropSlice, StoreOK
    <2>5. /\ \/ pending' = WithNew({WholeOf(p)}, NoModel) /\ owed' = owed \cup {WholeOf(p)}
             \/ UNCHANGED <<pending, owed>>
          /\ UNCHANGED <<registry, writes, seen>>
      BY <1>2, FetchedSlice
    <2> QED BY <1>0, <2>1, <2>2, <2>4, <2>5, WithNewQueue DEF StoreOK
  <1>2a. ASSUME NEW p \in Path, WriteSlice(p) \/ EmptySlice(p)
         PROVE  QueueOK(pending') /\ StoreOK'
    <2>1. p \in Slices
      BY <1>0, <1>2a DEF WriteSlice, EmptySlice, StoreOK
    <2>2. ClaimsOn(p) \subseteq Unit
      BY <1>0, <2>1, SlicesOK
    <2>3. CASE WriteSlice(p)
      BY <1>0, <2>1, <2>2, <2>3, WriteOK DEF WriteSlice, StoreOK
    <2>4. CASE EmptySlice(p)
      BY <1>0, <2>1, <2>2, <2>4, BoundAssumption DEF EmptySlice, DropSlice, StoreOK
    <2> QED BY <1>2a, <2>3, <2>4
  <1>3. ASSUME NEW p \in Path, NEW overwrite \in BOOLEAN, NEW saved \in BOOLEAN,
               Upload(p, overwrite, saved)
        PROVE  QueueOK(pending') /\ StoreOK'
    <2>1. writes' \in Content /\ bytes' \in [Path -> Content]
      BY <1>0, <1>3, WriteOK DEF Upload
    <2>2. {WholeOf(p)} \subseteq Unit /\ NoModel \in Assignee
      BY <1>3 DEF Upload, Assignee
    <2>3. /\ \/ pending' = WithNew({WholeOf(p)}, NoModel) /\ owed' = owed \cup {WholeOf(p)}
             \/ UNCHANGED <<pending, owed>>
          /\ UNCHANGED <<registry, fetching, seen, disturbed>>
      BY <1>3 DEF Upload
    <2> QED BY <1>0, <2>1, <2>2, <2>3, WithNewQueue DEF StoreOK
  <1>4. ASSUME NEW r \in Run, NEW m \in Assignee, NEW limit \in Nat,
               NEW taken \in SUBSET Unit, Acquire(r, m, limit, taken)
        PROVE  QueueOK(pending') /\ StoreOK'
    <2>1. \A u \in Unit : bytes[u.path] \in Content /\ seen[u] \in Content
      BY <1>0, UnitPath DEF StoreOK
    <2>2. seen' \in [Unit -> Content]
      BY <1>4, <2>1 DEF Acquire
    <2> QED BY <1>0, <1>4, <2>2, WithRunQueue DEF Acquire, StoreOK, Owner
  <1>5. ASSUME NEW r \in Run, Renew(r)
        PROVE  QueueOK(pending') /\ StoreOK'
    BY <1>0, <1>5, WithRunQueue DEF Renew, StoreOK, Owner
  <1>6. ASSUME NEW r \in Owner, NEW units \in SUBSET Unit, Release(r, units)
        PROVE  QueueOK(pending') /\ StoreOK'
    BY <1>0, <1>6, WithRunQueue DEF Release, StoreOK, Owner
  <1>7. ASSUME NEW r \in Owner, NEW units \in SUBSET Unit, NEW exact \in BOOLEAN,
               NEW saved \in BOOLEAN, Trained(r, units, exact, saved)
        PROVE  QueueOK(pending') /\ StoreOK'
    <2>1. Accepted(r, units, exact) \subseteq Unit
      BY DEF Accepted
    <2>2. registry' \subseteq [unit : Unit, content : Content]
      BY <1>0, <1>7, <2>1, NewRecordsOK DEF Trained, StoreOK
    <2> QED BY <1>0, <1>7, <2>2, WithoutQueue DEF Trained, StoreOK
  <1>8. ASSUME NEW m \in Assignee, NEW units \in SUBSET Unit, Assign(m, units)
        PROVE  QueueOK(pending') /\ StoreOK'
    BY <1>0, <1>8, WithModelQueue DEF Assign, StoreOK
  <1>9. ASSUME NEW m \in Assignee, NEW units \in SUBSET Unit, NEW force \in BOOLEAN,
               Unassign(m, units, force)
        PROVE  QueueOK(pending') /\ StoreOK'
    BY <1>0, <1>9, WithModelQueue DEF Unassign, StoreOK, Assignee
  <1>10. ASSUME NEW targets \in SUBSET Unit, NEW force \in ForceRequests,
                NEW unlink \in UnlinkRequests, NEW saves \in 0..2,
                Delete(targets, force, unlink, saves)
         PROVE  QueueOK(pending') /\ StoreOK'
    <2>1. bytes' \in [Path -> Content]
      BY <1>0, <1>10, BoundAssumption DEF Delete, StoreOK
    <2>2. /\ registry' \subseteq registry /\ owed' \subseteq owed
          /\ UNCHANGED <<writes, fetching, seen>>
      BY <1>10 DEF Delete
    <2>4. disturbed' \subseteq Unit
      BY <1>0, <1>10 DEF Delete, StoreOK, Claimed, QueueOK, Queued
    <2>3. PICK S : pending' = Without(S) \/ pending' = pending
      BY <1>10 DEF Delete
    <2> QED BY <1>0, <2>1, <2>2, <2>3, <2>4, WithoutQueue DEF StoreOK
  <1>11. ASSUME NEW paths \in SUBSET Path, NEW m \in Assignee, NEW saved \in BOOLEAN,
                Requeue(paths, m, saved)
         PROVE  QueueOK(pending') /\ StoreOK'
    <2>1. {u \in Recorded : u.path \in paths} \subseteq Unit
      BY <1>0, RecordedUnits
    <2> QED BY <1>0, <1>11, <2>1, WithNewQueue DEF Requeue, StoreOK
  <1>12. ASSUME Tick
         PROVE  QueueOK(pending') /\ StoreOK'
    <2>1. \A e \in Entry : e.age < Lease => [e EXCEPT !.age = @ + 1] \in Entry
      BY BoundAssumption DEF Entry
    <2>2. \A u \in Queued : pending[u] \in Entry
      BY <1>0 DEF QueueOK, Queued
    <2> QED BY <1>0, <1>12, <2>1, <2>2 DEF Tick, QueueOK, StoreOK, Queued
  <1>13. ASSUME RestartServer
         PROVE  QueueOK(pending') /\ StoreOK'
    BY <1>0, <1>13 DEF RestartServer, StoreOK
  <1>14. CASE UNCHANGED vars
    BY <1>0, <1>14 DEF vars, StoreOK
  <1> QED
    BY <1>1, <1>2, <1>2a, <1>3, <1>4, <1>5, <1>6, <1>7, <1>8, <1>9, <1>10, <1>11, <1>12,
       <1>13, <1>14
    DEF ServerStep

\* Every variable keeps its shape through every request: in particular a claim's
\* owner is always a run, and no unit outside the declared ones is ever queued.
THEOREM TypeCorrect == Spec => []TypeOK
  BY NextIsServerStep, InitType, NextType, PTL DEF Spec

-----------------------------------------------------------------------------
(* No work is lost *)

LEMMA InitOwed == Init => NoWorkLost
  BY DEF Init, NoWorkLost

\* A step that only adds queue entries or records keeps every unit covered.
LEMMA GrowthKeepsCover ==
    ASSUME NoWorkLost, Queued \subseteq Queued', registry \subseteq registry',
           \A u \in owed' \ owed : u \in Queued'
    PROVE  NoWorkLost'
  <1>1. Recorded \subseteq Recorded'
    BY DEF Recorded
  <1> QED BY <1>1 DEF NoWorkLost, Covered

\* What trained takes off the queue is recorded, as itself or as its whole file.
LEMMA FinishedIsRecorded ==
    ASSUME NEW r \in Owner, NEW units \in SUBSET Unit, NEW exact \in BOOLEAN,
           NEW saved \in BOOLEAN, Trained(r, units, exact, saved), QueueOK(pending),
           NEW u \in Finished(r, units, exact)
    PROVE  {u, WholeOf(u.path)} \cap Recorded' # {} /\ (u.seg = Whole => u \in Recorded')
  <1>1. PICK v \in units : Matches(u, v, exact)
    BY DEF Finished
  <1>2. u \in Unit /\ v \in Unit /\ u \in Queued /\ r \in {NoRun, pending[u].run}
    BY DEF Finished, QueueOK, Queued
  <1>3. v \in Recorded'
    <2>1. CASE r = NoRun /\ v \in Recorded
      BY <2>1 DEF Trained, Recorded
    <2>2. CASE v \in Accepted(r, units, exact)
      <3>1. [unit |-> v, content |-> bytes[v.path]] \in registry'
        BY <2>2 DEF Trained, NewRecords
      <3> QED BY <3>1 DEF Recorded
    <2> QED BY <1>1, <1>2, <2>1, <2>2 DEF Accepted, HeldBy
  <1>4. v = u \/ v = WholeOf(u.path)
    <2>1. CASE exact
      BY <1>1, <2>1 DEF Matches
    <2>2. CASE ~exact
      <3>1. v.path = u.path /\ v.seg = Whole
        BY <1>1, <2>2 DEF Matches, Trained
      <3> QED BY <1>2, <3>1, UnitAssumption DEF WholeOf
    <2> QED BY <2>1, <2>2
  <1>5. u.seg = Whole => u = WholeOf(u.path)
    BY <1>2, UnitAssumption DEF WholeOf
  <1> QED BY <1>3, <1>4, <1>5

\* A delete that spares a unit and its whole file spares what covers it.
LEMMA DeleteSpares ==
    ASSUME NEW targets \in SUBSET Unit, NEW u \in Unit, u \notin targets,
           WholeOf(u.path) \notin targets, StoreOK,
           NEW c \in {u, WholeOf(u.path)} \cap Recorded,
           NEW t \in targets
    PROVE  c \notin PurgedBy(t, Recorded)
  <1>1. c \in Unit /\ t \in Unit /\ WholeOf(u.path).path = u.path
    BY UnitAssumption DEF WholeOf
  <1>2. c.path = u.path
    BY <1>1
  <1>3. CASE t.seg = Whole
    <2>1. t = WholeOf(t.path)
      BY <1>1, <1>3, UnitAssumption DEF WholeOf
    <2> QED BY <1>2, <1>3, <2>1 DEF PurgedBy
  <1>4. CASE t.seg # Whole
    BY <1>4 DEF PurgedBy
  <1> QED BY <1>3, <1>4

LEMMA NextOwed ==
    ASSUME TypeOK, NoWorkLost, [ServerStep]_vars
    PROVE  NoWorkLost'
  <1>0. QueueOK(pending) /\ StoreOK
    BY TypeParts
  <1>1. ASSUME NEW u \in Unit, PendingAdd(u)
        PROVE  NoWorkLost'
    <2>1. Queued' = Queued \cup {u} /\ owed' = owed \cup {u} /\ UNCHANGED registry
      BY <1>0, <1>1, WithNewQueue DEF PendingAdd, Queued, Assignee
    <2> QED BY <2>1, GrowthKeepsCover
  <1>2. ASSUME NEW p \in Path, NEW saved \in BOOLEAN,
               \/ QueueFetchedSlice(p, saved)
               \/ \E overwrite \in BOOLEAN : Upload(p, overwrite, saved)
        PROVE  NoWorkLost'
    <2>1. /\ \/ pending' = WithNew({WholeOf(p)}, NoModel) /\ owed' = owed \cup {WholeOf(p)}
             \/ UNCHANGED <<pending, owed>>
          /\ WholeOf(p) \in Unit
          /\ UNCHANGED registry
      BY <1>0, <1>2, FetchedSlice, SlicesOK DEF Upload, StoreOK
    <2>2. \/ Queued' = Queued \cup {WholeOf(p)} /\ owed' = owed \cup {WholeOf(p)}
          \/ Queued' = Queued /\ owed' = owed
      BY <1>0, <2>1, WithNewQueue DEF Queued, Assignee
    <2> QED BY <2>1, <2>2, GrowthKeepsCover
  <1>3. ASSUME UNCHANGED <<registry, owed>>, Queued' = Queued
        PROVE  NoWorkLost'
    BY <1>3, GrowthKeepsCover
  <1>4. ASSUME NEW r \in Run, NEW m \in Assignee, NEW limit \in Nat,
               NEW taken \in SUBSET Unit, Acquire(r, m, limit, taken)
        PROVE  NoWorkLost'
    BY <1>0, <1>3, <1>4, WithRunQueue DEF Acquire, Queued, Owner
  <1>5. ASSUME NEW r \in Run, Renew(r)
        PROVE  NoWorkLost'
    BY <1>0, <1>3, <1>5, WithRunQueue DEF Renew, Queued, Owner
  <1>6. ASSUME NEW r \in Owner, NEW units \in SUBSET Unit, Release(r, units)
        PROVE  NoWorkLost'
    BY <1>0, <1>3, <1>6, WithRunQueue DEF Release, Queued, Owner
  <1>7. ASSUME NEW r \in Owner, NEW units \in SUBSET Unit, NEW exact \in BOOLEAN,
               NEW saved \in BOOLEAN, Trained(r, units, exact, saved)
        PROVE  NoWorkLost'
    <2>1. Recorded \subseteq Recorded' /\ owed' = owed
      BY <1>7 DEF Trained, Recorded
    <2>2. Queued \ Finished(r, units, exact) \subseteq Queued'
      BY <1>0, <1>7, WithoutQueue DEF Trained, Queued
    <2>3. SUFFICES ASSUME NEW u \in owed PROVE Covered(u)'
      BY <2>1 DEF NoWorkLost
    <2>4. PICK c \in {u, WholeOf(u.path)} : c \in Queued \cup Recorded
      BY DEF NoWorkLost, Covered
    <2>5. CASE c \in Recorded \/ c \in Queued \ Finished(r, units, exact)
      BY <2>1, <2>2, <2>4, <2>5 DEF Covered
    <2>6. CASE c \in Finished(r, units, exact)
      <3>1. CASE c = u
        BY <1>0, <1>7, <2>6, <3>1, FinishedIsRecorded DEF Covered
      <3>2. CASE c = WholeOf(u.path)
        <4>1. c.seg = Whole
          BY <3>2 DEF WholeOf
        <4> QED BY <1>0, <1>7, <2>6, <3>2, <4>1, FinishedIsRecorded DEF Covered
      <3> QED BY <3>1, <3>2
    <2> QED BY <2>4, <2>5, <2>6
  <1>8. ASSUME NEW m \in Assignee, NEW units \in SUBSET Unit, Assign(m, units)
        PROVE  NoWorkLost'
    BY <1>0, <1>3, <1>8, WithModelQueue DEF Assign, Queued
  <1>9. ASSUME NEW m \in Assignee, NEW units \in SUBSET Unit, NEW force \in BOOLEAN,
               Unassign(m, units, force)
        PROVE  NoWorkLost'
    BY <1>0, <1>3, <1>9, WithModelQueue DEF Unassign, Queued, Assignee
  <1>10. ASSUME NEW targets \in SUBSET Unit, NEW force \in ForceRequests,
                NEW unlink \in UnlinkRequests, NEW saves \in 0..2,
                Delete(targets, force, unlink, saves)
         PROVE  NoWorkLost'
    <2>1. CASE saves = 0
      <3>1. UNCHANGED <<registry, owed, pending>>
        BY <1>10, <2>1 DEF Delete
      <3> QED BY <1>3, <3>1 DEF Queued
    <2>2. CASE saves # 0
      <3>1. Queued \ targets \subseteq Queued'
        BY <1>0, <1>10, <2>2, WithoutQueue DEF Delete, Queued
      <3>2. SUFFICES ASSUME NEW u \in owed' PROVE Covered(u)'
        BY DEF NoWorkLost
      <3>3. u \in Unit /\ u \in owed
        BY <1>0, <1>10, <2>2 DEF Delete, StoreOK
      <3>4. CASE u \in Queued'
        BY <3>4 DEF Covered
      <3>5. CASE u \notin targets /\ WholeOf(u.path) \notin targets
        <4>1. PICK c \in {u, WholeOf(u.path)} : c \in Queued \cup Recorded
          BY <3>3 DEF NoWorkLost, Covered
        <4>2. CASE c \in Queued
          BY <3>1, <3>5, <4>1, <4>2 DEF Covered
        <4>3. CASE c \in Recorded
          <5>1. PICK rec \in registry : rec.unit = c
            BY <4>3 DEF Recorded
          <5>2. c \notin UNION {PurgedBy(t, Recorded) : t \in targets}
            BY <1>0, <3>3, <3>5, <4>1, <4>3, DeleteSpares
          <5>3. rec \in registry'
            BY <1>10, <5>1, <5>2 DEF Delete
          <5> QED BY <4>1, <5>1, <5>3 DEF Covered, Recorded
        <4> QED BY <4>1, <4>2, <4>3
      <3> QED BY <1>10, <2>2, <3>3, <3>4, <3>5 DEF Delete, Queued
    <2> QED BY <2>1, <2>2
  <1>11. ASSUME NEW paths \in SUBSET Path, NEW m \in Assignee, NEW saved \in BOOLEAN,
                Requeue(paths, m, saved)
         PROVE  NoWorkLost'
    <2> DEFINE back == {u \in Recorded : u.path \in paths}
    <2>1. back \subseteq Unit
      BY <1>0, RecordedUnits
    <2>2. Queued' = Queued \cup back /\ owed' = owed \cup back
      BY <1>0, <1>11, <2>1, WithNewQueue DEF Requeue, Queued
    <2>3. Recorded \ back \subseteq Recorded'
      BY <1>11 DEF Requeue, Recorded
    <2> QED BY <2>2, <2>3 DEF NoWorkLost, Covered
  <1>12. ASSUME Tick
         PROVE  NoWorkLost'
    BY <1>3, <1>12 DEF Tick, Queued
  <1>13. ASSUME NEW p \in Path, WriteSlice(p) \/ EmptySlice(p)
         PROVE  NoWorkLost'
    BY <1>3, <1>13 DEF WriteSlice, EmptySlice, DropSlice, Queued
  <1>14. CASE UNCHANGED vars \/ RestartServer
    BY <1>3, <1>14 DEF vars, RestartServer, Queued
  <1> QED
    BY <1>1, <1>2, <1>4, <1>5, <1>6, <1>7, <1>8, <1>9, <1>10, <1>11, <1>12, <1>13, <1>14
    DEF ServerStep

\* No queued unit is forgotten, whichever of the two saves of trained, requeue
\* and delete fails: the order of those saves is what makes it true.
THEOREM WorkIsKept == Spec => []NoWorkLost
  BY NextIsServerStep, InitType, NextType, InitOwed, NextOwed, PTL DEF Spec

-----------------------------------------------------------------------------
(* A claimed file keeps its bytes *)

LEMMA InitBytes == Init => ClaimedBytesKept
  BY DEF Init, ClaimedBytesKept, Claimed, Queued

\* Only an acquire or a renewal makes a claim: queueing, removing and releasing
\* leave at most the claims there were.
LEMMA NoNewClaims ==
    ASSUME QueueOK(pending),
           \/ UNCHANGED pending
           \/ \E S : pending' = Without(S)
           \/ \E S \in SUBSET Unit, m \in Assignee : pending' = WithNew(S, m)
           \/ \E S : pending' = WithRun(S, NoRun)
    PROVE  Claimed' \subseteq Claimed
  <1>1. CASE UNCHANGED pending
    BY <1>1 DEF Claimed, Queued
  <1>2. ASSUME NEW S, pending' = Without(S)
        PROVE  Claimed' \subseteq Claimed
    BY <1>2, WithoutQueue DEF Claimed, Queued
  <1>3. ASSUME NEW S \in SUBSET Unit, NEW m \in Assignee, pending' = WithNew(S, m)
        PROVE  Claimed' \subseteq Claimed
    BY <1>3, WithNewQueue DEF Claimed, Queued
  <1>4. ASSUME NEW S, pending' = WithRun(S, NoRun)
        PROVE  Claimed' \subseteq Claimed
    BY <1>4, WithRunQueue DEF Claimed, Queued, Owner
  <1> QED BY <1>1, <1>2, <1>3, <1>4

\* A claim of run r is made on the units of S only.
LEMMA ClaimsMade ==
    ASSUME QueueOK(pending), NEW S, NEW r \in Owner, pending' = WithRun(S, r)
    PROVE  Claimed' \subseteq Claimed \cup S
  BY WithRunQueue DEF Claimed, Queued

\* Claiming nothing new and touching no claimed file, but those the step names
\* as disturbed, keeps the property.
LEMMA UntouchedBytes ==
    ASSUME ClaimedBytesKept, UNCHANGED seen, Claimed' \subseteq Claimed,
           disturbed \subseteq disturbed',
           \A u \in Claimed' \ disturbed' : bytes'[u.path] = bytes[u.path]
    PROVE  ClaimedBytesKept'
  BY DEF ClaimedBytesKept

LEMMA NextBytes ==
    ASSUME TypeOK, ClaimedBytesKept, [ServerStep]_vars
    PROVE  ClaimedBytesKept'
  <1>0. QueueOK(pending) /\ StoreOK
    BY TypeParts
  <1>1. ASSUME NEW u \in Unit, PendingAdd(u)
        PROVE  ClaimedBytesKept'
    <2>1. Claimed' \subseteq Claimed
      BY <1>0, <1>1, NoNewClaims DEF PendingAdd, Assignee
    <2> QED BY <1>1, <2>1, UntouchedBytes DEF PendingAdd
  <1>a. Claimed \subseteq Unit
    BY <1>0 DEF Claimed, QueueOK, Queued
  <1>b. ASSUME NEW p \in Path, DropSlice(p) \/ UNCHANGED <<bytes, disturbed>>
        PROVE  /\ disturbed \subseteq disturbed'
               /\ \A u \in Claimed \ disturbed' : bytes'[u.path] = bytes[u.path]
    BY <1>0, <1>a, <1>b, UnitPath DEF DropSlice, ClaimsOn, StoreOK
  <1>2. ASSUME NEW p \in Path, NEW saved \in BOOLEAN, QueueFetchedSlice(p, saved)
        PROVE  ClaimedBytesKept'
    <2>1. p \in Slices
      BY <1>0, <1>2, FetchedSlice DEF StoreOK
    <2>2. Claimed' \subseteq Claimed
      BY <1>0, <1>2, <2>1, FetchedSlice, SlicesOK, NoNewClaims DEF Assignee
    <2> QED BY <1>2, <1>b, <2>2, FetchedSlice, UntouchedBytes
  <1>2a. ASSUME NEW p \in Path, WriteSlice(p) \/ EmptySlice(p)
         PROVE  ClaimedBytesKept'
    <2>1. Claimed' = Claimed /\ UNCHANGED seen
      BY <1>2a DEF WriteSlice, EmptySlice, DropSlice, Claimed, Queued
    <2>2. CASE WriteSlice(p)
      BY <1>0, <2>1, <2>2, UntouchedBytes DEF WriteSlice, Write, ClaimsOn, StoreOK
    <2>3. CASE EmptySlice(p)
      BY <1>b, <2>1, <2>3, UntouchedBytes DEF EmptySlice
    <2> QED BY <1>2a, <2>2, <2>3
  <1>3. ASSUME NEW p \in Path, NEW overwrite \in BOOLEAN, NEW saved \in BOOLEAN,
               Upload(p, overwrite, saved)
        PROVE  ClaimedBytesKept'
    <2>1. /\ \/ pending' = WithNew({WholeOf(p)}, NoModel)
             \/ UNCHANGED pending
          /\ WholeOf(p) \in Unit
          /\ UNCHANGED <<seen, disturbed>>
      BY <1>3 DEF Upload
    <2>2. Claimed' \subseteq Claimed
      BY <1>0, <2>1, NoNewClaims DEF Assignee
    <2>3. \A u \in Claimed : u.path # p
      BY <1>3 DEF Upload, Claimed
    <2>4. \A u \in Claimed' : bytes'[u.path] = bytes[u.path]
      BY <1>0, <1>3, <2>2, <2>3 DEF Upload, Write, StoreOK
    <2> QED BY <2>1, <2>2, <2>4, UntouchedBytes
  <1>4. ASSUME NEW r \in Run, NEW m \in Assignee, NEW limit \in Nat,
               NEW taken \in SUBSET Unit, Acquire(r, m, limit, taken)
        PROVE  ClaimedBytesKept'
    <2>1. Claimed' \subseteq Claimed \cup taken
      BY <1>0, <1>4, ClaimsMade DEF Acquire, Owner
    <2> QED BY <1>4, <1>a, <2>1 DEF Acquire, ClaimedBytesKept
  <1>5. ASSUME NEW r \in Run, Renew(r)
        PROVE  ClaimedBytesKept'
    <2>1. Claimed' \subseteq Claimed \cup HeldBy(r)
      BY <1>0, <1>5, ClaimsMade DEF Renew, Owner
    <2>2. HeldBy(r) \subseteq Claimed
      BY NameAssumption DEF HeldBy, Claimed
    <2> QED BY <1>5, <2>1, <2>2, UntouchedBytes DEF Renew
  <1>6. ASSUME NEW r \in Owner, NEW units \in SUBSET Unit, Release(r, units)
        PROVE  ClaimedBytesKept'
    <2>1. Claimed' \subseteq Claimed
      BY <1>0, <1>6, NoNewClaims DEF Release
    <2> QED BY <1>6, <2>1, UntouchedBytes DEF Release
  <1>7. ASSUME NEW r \in Owner, NEW units \in SUBSET Unit, NEW exact \in BOOLEAN,
               NEW saved \in BOOLEAN, Trained(r, units, exact, saved)
        PROVE  ClaimedBytesKept'
    <2>1. Claimed' \subseteq Claimed
      BY <1>0, <1>7, NoNewClaims DEF Trained
    <2> QED BY <1>7, <2>1, UntouchedBytes DEF Trained
  <1>8a. ASSUME NEW m \in Assignee, NEW units \in SUBSET Unit, Assign(m, units)
         PROVE  ClaimedBytesKept'
    <2>1. Claimed' \subseteq Claimed
      BY <1>0, <1>8a, WithModelQueue DEF Assign, Claimed, Queued
    <2> QED BY <1>8a, <2>1, UntouchedBytes DEF Assign
  <1>8b. ASSUME NEW m \in Assignee, NEW units \in SUBSET Unit, NEW force \in BOOLEAN,
                Unassign(m, units, force)
         PROVE  ClaimedBytesKept'
    <2> DEFINE cleared == {u \in units \cap Queued : /\ m # NoModel => pending[u].model = m
                                                     /\ force \/ u \notin Claimed}
    <2>1. pending' = WithModel(cleared, NoModel) /\ UNCHANGED <<bytes, seen, disturbed>>
      BY <1>8b DEF Unassign
    <2>2. NoModel \in Assignee
      BY DEF Assignee
    <2> HIDE DEF cleared
    <2>3. Claimed' \subseteq Claimed
      BY <1>0, <2>1, <2>2, WithModelQueue DEF Claimed, Queued
    <2> QED BY <2>1, <2>3, UntouchedBytes
  <1>9. ASSUME NEW targets \in SUBSET Unit, NEW force \in ForceRequests,
               NEW unlink \in UnlinkRequests, NEW saves \in 0..2,
               Delete(targets, force, unlink, saves)
        PROVE  ClaimedBytesKept'
    <2>1. (\E S : pending' = Without(S)) \/ UNCHANGED pending
      BY <1>9 DEF Delete
    <2>2. Claimed' \subseteq Claimed /\ UNCHANGED seen /\ disturbed \subseteq disturbed'
      BY <1>0, <1>9, <2>1, NoNewClaims DEF Delete
    <2>3. ASSUME NEW u \in Claimed, bytes'[u.path] # bytes[u.path], u.seg = Whole, ~force
          PROVE  FALSE
      <3>1. u \in Unit /\ u.path \in Path
        BY <1>a, UnitPath
      <3>2. PICK t \in targets : /\ t \notin targets \cap Claimed
                                 /\ t.seg = Whole /\ t.path = u.path
        BY <1>0, <1>9, <2>3, <3>1 DEF Delete, StoreOK
      <3>3. t = u
        BY <2>3, <3>1, <3>2, UnitAssumption
      <3> QED BY <2>3, <3>2, <3>3
    <2>4. ASSUME NEW u \in Claimed, bytes'[u.path] # bytes[u.path]
          PROVE  u \in disturbed'
      <3>1. u.path \in Path
        BY <1>a, UnitPath
      <3>2. force \/ u.seg # Whole
        BY <2>3, <2>4
      <3> QED BY <1>0, <1>9, <2>4, <3>1, <3>2 DEF Delete, StoreOK
    <2> QED BY <2>2, <2>4, UntouchedBytes
  <1>10. ASSUME NEW paths \in SUBSET Path, NEW m \in Assignee, NEW saved \in BOOLEAN,
                Requeue(paths, m, saved)
         PROVE  ClaimedBytesKept'
    <2>1. {u \in Recorded : u.path \in paths} \subseteq Unit
      BY <1>0, RecordedUnits
    <2>2. Claimed' \subseteq Claimed
      BY <1>0, <1>10, <2>1, NoNewClaims DEF Requeue
    <2> QED BY <1>10, <2>2, UntouchedBytes DEF Requeue
  <1>11. ASSUME Tick
         PROVE  ClaimedBytesKept'
    <2>1. \A e \in Entry : [e EXCEPT !.age = @ + 1].run = e.run
      BY DEF Entry
    <2>2. \A u \in Queued : pending[u] \in Entry
      BY <1>0 DEF QueueOK, Queued
    <2>3. Claimed' \subseteq Claimed
      BY <1>11, <2>1, <2>2 DEF Tick, Claimed, Queued
    <2> QED BY <1>11, <2>3, UntouchedBytes DEF Tick
  <1>12. CASE UNCHANGED vars \/ RestartServer
    BY <1>12 DEF vars, RestartServer, ClaimedBytesKept, Claimed, Queued
  <1> QED
    BY <1>1, <1>2, <1>2a, <1>3, <1>4, <1>5, <1>6, <1>7, <1>8a, <1>8b, <1>9, <1>10, <1>11, <1>12
    DEF ServerStep

\* Whatever requests come, a claimed file only changes by the races disturbed
\* names: an upload of it is refused, an unforced delete leaves the file of a
\* unit that is claimed whole, and a fetch writes and removes its own slice only.
THEOREM ClaimedFilesAreStable == Spec => []ClaimedBytesKept
  BY NextIsServerStep, InitType, NextType, InitBytes, NextBytes, PTL DEF Spec

-----------------------------------------------------------------------------
(* The trainers *)

PoolStep == PoolNext \/ Manage

PoolTypes ==
    /\ pc \in [Run -> Phase]
    /\ batch \in [Run -> SUBSET Unit]
    /\ read \in [Run -> [Unit -> Content]]
    /\ wake \in [Run -> 0..RenewEvery]
    /\ missed \in [Run -> Nat]

PoolOK == TypeOK /\ PoolTypes

\* A working run that missed no renewal holds its batch, and no claim of it can
\* grow older than one renewal period before the next renewal; after one missed
\* renewal it is two periods, still less than the lease.
BatchIsFresh(r) ==
    missed[r] <= 1 =>
        \A u \in batch[r] :
            /\ u \in HeldBy(r)
            /\ pending[u].age + wake[r] <= IF missed[r] = 0 THEN RenewEvery
                                                            ELSE 2 * RenewEvery

ClaimsAreFresh == \A r \in Working : BatchIsFresh(r)

\* What a run read of a file is what the file holds, while it has a claim there.
ReadIsCurrent(r) ==
    pc[r] \in {"training", "reporting"} =>
        \A u \in HeldBy(r), v \in batch[r] : u.path = v.path => bytes[v.path] = read[r][v]

\* A pass that is about to report has trained all of its batch.
TrainedBeforeReport(r) ==
    pc[r] = "reporting" =>
        \A v \in batch[r] : [unit |-> v, content |-> read[r][v]] \in worked

EarnedInv ==
    /\ \A r \in Run : ReadIsCurrent(r) /\ TrainedBeforeReport(r)
    /\ RecordsAreEarned

\* An unmanaged queue assigns no unit, and only what FTP can serve gets claimed.
UnitsAreOpen ==
    \A u \in Queued : /\ pending[u].model = NoModel
                      /\ u \in Claimed /\ FtpActive => u.path \in Deliverable

\* Without a limit a pass takes everything its run still holds.
PassIsWhole(r) == pc[r] \notin {"idle", "down"} => HeldBy(r) \subseteq batch[r]

WholePasses ==
    /\ UnitsAreOpen
    /\ MaxFiles = 0 => \A r \in Run : PassIsWhole(r)

-----------------------------------------------------------------------------
(* What the requests of a trainer do to the queue *)

LEMMA RunIsOwner == \A r \in Run : r \in Owner /\ r # NoRun
  BY NameAssumption DEF Owner

\* Acquire: the claims on what was taken start anew, nothing else changes.
LEMMA AcquireQueue ==
    ASSUME TypeOK, NEW r \in Run, NEW m, NEW limit, NEW taken, Acquire(r, m, limit, taken)
    PROVE  /\ Queued' = Queued /\ taken \subseteq Queued
           /\ \A u \in Queued :
                 /\ pending'[u].run = IF u \in taken THEN r ELSE pending[u].run
                 /\ pending'[u].age = IF u \in taken THEN 0 ELSE pending[u].age
                 /\ pending'[u].model = pending[u].model
           /\ UNCHANGED <<registry, bytes>>
  <1>1. QueueOK(pending) /\ r \in Owner
    BY TypeParts, RunIsOwner
  <1>2. pending' = WithRun(taken, r) /\ taken \subseteq Queued /\ UNCHANGED <<registry, bytes>>
    BY DEF Acquire, Claimable
  <1>3. \A u \in Queued : pending[u] \in Entry
    BY <1>1 DEF QueueOK, Queued
  <1>4. \A u \in Queued : WithRun(taken, r)[u].model = pending[u].model
    BY <1>3 DEF WithRun, Entry
  <1> QED BY <1>1, <1>2, <1>4, WithRunQueue DEF Queued

\* Renew: only the ages of the run's own claims change.
LEMMA RenewQueue ==
    ASSUME TypeOK, NEW r \in Run, Renew(r)
    PROVE  /\ Queued' = Queued
           /\ \A u \in Queued :
                 /\ pending'[u].run = pending[u].run
                 /\ pending'[u].age = IF u \in HeldBy(r) THEN 0 ELSE pending[u].age
                 /\ pending'[u].model = pending[u].model
           /\ UNCHANGED <<registry, bytes>>
  <1>1. QueueOK(pending) /\ r \in Owner
    BY TypeParts, RunIsOwner
  <1>2. pending' = WithRun(HeldBy(r), r) /\ UNCHANGED <<registry, bytes>>
    BY DEF Renew
  <1>3. \A u \in Queued : pending[u] \in Entry
    BY <1>1 DEF QueueOK, Queued
  <1>4. \A u \in Queued : WithRun(HeldBy(r), r)[u].model = pending[u].model
    BY <1>3 DEF WithRun, Entry
  <1>5. \A u \in HeldBy(r) : pending[u].run = r
    BY DEF HeldBy
  <1> QED BY <1>1, <1>2, <1>4, <1>5, WithRunQueue DEF Queued

\* Release: what the run gives back of its units is unclaimed.
LEMMA ReleaseQueue ==
    ASSUME TypeOK, NEW r \in Run, NEW units, Release(r, units)
    PROVE  /\ Queued' = Queued
           /\ \A u \in Queued :
                 /\ pending'[u].run = IF u \in units \cap HeldBy(r) THEN NoRun ELSE pending[u].run
                 /\ u \notin units \cap HeldBy(r) => pending'[u].age = pending[u].age
                 /\ pending'[u].model = pending[u].model
           /\ UNCHANGED <<registry, bytes>>
  <1>1. QueueOK(pending) /\ NoRun \in Owner /\ r # NoRun
    BY TypeParts, RunIsOwner DEF Owner
  <1>2. {u \in units \cap Queued : r \in {NoRun, pending[u].run}} = units \cap HeldBy(r)
    BY <1>1 DEF HeldBy
  <1>3. pending' = WithRun(units \cap HeldBy(r), NoRun) /\ UNCHANGED <<registry, bytes>>
    BY <1>2 DEF Release
  <1>4. \A u \in Queued : pending[u] \in Entry
    BY <1>1 DEF QueueOK, Queued
  <1>5. \A u \in Queued : WithRun(units \cap HeldBy(r), NoRun)[u].model = pending[u].model
    BY <1>4 DEF WithRun, Entry
  <1>6. \A S : /\ DOMAIN WithRun(S, NoRun) = Queued
               /\ \A u \in Queued :
                     /\ WithRun(S, NoRun)[u].run = IF u \in S THEN NoRun ELSE pending[u].run
                     /\ WithRun(S, NoRun)[u].age = IF u \in S THEN 0 ELSE pending[u].age
    BY <1>1, WithRunQueue
  <1> DEFINE back == units \cap HeldBy(r)
  <1>7. /\ Queued' = Queued
        /\ \A u \in Queued : /\ pending'[u].run = IF u \in back THEN NoRun ELSE pending[u].run
                             /\ pending'[u].age = IF u \in back THEN 0 ELSE pending[u].age
                             /\ pending'[u].model = pending[u].model
    BY <1>3, <1>5, <1>6 DEF Queued
  <1> HIDE DEF back
  <1> QED BY <1>3, <1>7 DEF back

\* Trained: only units the run holds leave the queue, if any.
LEMMA TrainedQueue ==
    ASSUME TypeOK, NEW r \in Run, NEW units, NEW exact, NEW saved \in BOOLEAN,
           Trained(r, units, exact, saved)
    PROVE  /\ Queued' = IF saved THEN Queued \ Finished(r, units, exact) ELSE Queued
           /\ Finished(r, units, exact) \subseteq HeldBy(r)
           /\ \A u \in Queued' : pending'[u] = pending[u]
           /\ UNCHANGED bytes
  <1>1. QueueOK(pending) /\ r # NoRun
    BY TypeParts, RunIsOwner
  <1>2. Finished(r, units, exact) \subseteq HeldBy(r)
    BY <1>1 DEF Finished, HeldBy
  <1>3. CASE saved
    BY <1>1, <1>2, <1>3, WithoutQueue DEF Trained, Queued
  <1>4. CASE ~saved
    BY <1>1, <1>2, <1>4 DEF Trained, Queued
  <1> QED BY <1>3, <1>4

\* A step that touches no claim, and no file with a claim.
ClaimsUntouched ==
    /\ Queued \subseteq Queued'
    /\ \A u \in Queued : pending'[u].run = pending[u].run /\ pending'[u].age = pending[u].age
    /\ \A u \in Queued' \ Queued : pending'[u].run = NoRun
    /\ \A u \in Claimed : bytes'[u.path] = bytes[u.path]
    /\ registry' \subseteq registry

\* Feeding and managing the queue is such a step.
LEMMA FedQueue ==
    ASSUME TypeOK, Feed \/ Manage
    PROVE  ClaimsUntouched
  <1>0. QueueOK(pending) /\ StoreOK /\ NoModel \in Assignee /\ Model \subseteq Assignee
    BY TypeParts DEF Assignee
  <1>1. ASSUME NEW S \in SUBSET Unit, pending' = WithNew(S, NoModel)
        PROVE  /\ Queued' = Queued \cup S
               /\ \A u \in Queued : pending'[u] = pending[u]
               /\ \A u \in S \ Queued : pending'[u].run = NoRun
    BY <1>0, <1>1, WithNewQueue DEF Queued
  <1>2. ASSUME NEW S, NEW m \in Assignee, pending' = WithModel(S, m)
        PROVE  /\ Queued' = Queued
               /\ \A u \in Queued : pending'[u].run = pending[u].run /\ pending'[u].age = pending[u].age
    BY <1>0, <1>2, WithModelQueue DEF Queued
  <1>3. ASSUME NEW u \in Unit, PendingAdd(u)
        PROVE  ClaimsUntouched
    <2>1. pending' = WithNew({u}, NoModel) /\ UNCHANGED <<registry, bytes>>
      BY <1>3 DEF PendingAdd
    <2> QED BY <1>1, <2>1 DEF ClaimsUntouched
  <1>4. ASSUME NEW p \in Path, NEW overwrite \in BOOLEAN, Upload(p, overwrite, TRUE)
        PROVE  ClaimsUntouched
    <2>1. /\ pending' = WithNew({WholeOf(p)}, NoModel) \/ UNCHANGED pending
          /\ WholeOf(p) \in Unit /\ UNCHANGED registry
      BY <1>4 DEF Upload
    <2>2. \A u \in Claimed : u.path # p
      BY <1>4 DEF Upload, Claimed
    <2>3. \A u \in Claimed : bytes'[u.path] = bytes[u.path]
      BY <1>0, <1>4, <2>2 DEF Upload, Write, StoreOK
    <2>4. CASE UNCHANGED pending
      BY <2>1, <2>3, <2>4 DEF ClaimsUntouched, Queued
    <2>5. CASE pending' = WithNew({WholeOf(p)}, NoModel)
      BY <1>1, <2>1, <2>3, <2>5 DEF ClaimsUntouched
    <2> QED BY <2>1, <2>4, <2>5
  <1>5. ASSUME NEW m \in Model, NEW u \in Unit, Assign(m, {u})
        PROVE  ClaimsUntouched
    BY <1>0, <1>2, <1>5 DEF Assign, ClaimsUntouched
  <1>6. ASSUME NEW u \in Unit, Unassign(NoModel, {u}, FALSE)
        PROVE  ClaimsUntouched
    <2>1. (\E S : pending' = WithModel(S, NoModel)) /\ UNCHANGED <<registry, bytes>>
      BY <1>6 DEF Unassign
    <2> QED BY <1>0, <1>2, <2>1 DEF ClaimsUntouched
  <1>7. ASSUME NEW p \in Path, Requeue({p}, NoModel, TRUE)
        PROVE  ClaimsUntouched
    <2> DEFINE back == {u \in Recorded : u.path \in {p}}
    <2>1. back \in SUBSET Unit
      BY <1>0, RecordedUnits
    <2>2. pending' = WithNew(back, NoModel) /\ registry' \subseteq registry /\ UNCHANGED bytes
      BY <1>7 DEF Requeue
    <2> HIDE DEF back
    <2> QED BY <1>1, <2>1, <2>2 DEF ClaimsUntouched
  <1> QED BY <1>3, <1>4, <1>5, <1>6, <1>7 DEF Feed, Manage

\* Time changes nothing but the ages of claims, each by one at most.
LEMMA TickQueue ==
    ASSUME TypeOK, Tick
    PROVE  /\ Queued' = Queued
           /\ \A u \in Queued : /\ pending'[u].run = pending[u].run
                                /\ pending'[u].model = pending[u].model
                                /\ pending'[u].age \in {pending[u].age, pending[u].age + 1}
           /\ UNCHANGED <<registry, bytes>>
  <1>1. \A u \in Queued : pending[u] \in Entry
    BY TypeParts DEF QueueOK, Queued
  <1>2. \A e \in Entry : LET f == [e EXCEPT !.age = @ + 1]
                         IN  f.run = e.run /\ f.model = e.model /\ f.age = e.age + 1
    BY DEF Entry
  <1> QED BY <1>1, <1>2 DEF Tick, Queued

-----------------------------------------------------------------------------
(* The trainers only make requests that the server knows *)

LEMMA PoolServerStep ==
    ASSUME PoolTypes, [PoolStep]_poolVars
    PROVE  [ServerStep]_vars
  <1>1. ASSUME NEW r \in Run, NEW taken \in SUBSET Unit, Acquire(r, ModelOf[r], MaxFiles, taken)
        PROVE  ServerStep
    <2>1. ModelOf[r] \in Assignee /\ MaxFiles \in Nat
      BY PoolAssumption
    <2> QED BY <1>1, <2>1, Zenon DEF ServerStep
  <1>2. ASSUME NEW r \in Run, Report(r)
        PROVE  ServerStep
    <2>1. PICK saved \in BOOLEAN : Trained(r, batch[r], ExactReport(r), saved)
      BY <1>2 DEF Report
    <2>2. batch[r] \in SUBSET Unit /\ ExactReport(r) \in BOOLEAN /\ r \in Owner
      BY RunIsOwner DEF PoolTypes, ExactReport
    <2> QED BY <2>1, <2>2, Zenon DEF ServerStep
  <1>3. ASSUME NEW r \in Run, GiveBack(r)
        PROVE  ServerStep
    <2>1. Release(r, batch[r])
      BY <1>3 DEF GiveBack
    <2>2. batch[r] \in SUBSET Unit /\ r \in Owner
      BY RunIsOwner DEF PoolTypes
    <2> QED BY <2>1, <2>2, Zenon DEF ServerStep
  <1>4. ASSUME NEW r \in Run, RenewClaims(r)
        PROVE  ServerStep \/ UNCHANGED vars
    BY <1>4, Zenon DEF RenewClaims, ServerStep
  <1>5. ASSUME Feed
        PROVE  ServerStep
    <2>1. TRUE \in BOOLEAN
      OBVIOUS
    <2> QED BY <1>5, <2>1, Zenon DEF Feed, ServerStep
  <1>6. ASSUME Manage
        PROVE  ServerStep
    <2>1. /\ Model \subseteq Assignee /\ NoModel \in Assignee
          /\ TRUE \in BOOLEAN /\ FALSE \in BOOLEAN
          /\ \A u \in Unit : {u} \in SUBSET Unit
          /\ \A p \in Path : {p} \in SUBSET Path
      BY DEF Assignee
    <2>2. ASSUME NEW m \in Model, NEW u \in Unit, Assign(m, {u})
          PROVE  ServerStep
      BY <2>1, <2>2, Zenon DEF ServerStep
    <2>3. ASSUME NEW u \in Unit, Unassign(NoModel, {u}, FALSE)
          PROVE  ServerStep
      BY <2>1, <2>3, Zenon DEF ServerStep
    <2>4. ASSUME NEW p \in Path, Requeue({p}, NoModel, TRUE)
          PROVE  ServerStep
      BY <2>1, <2>4, Zenon DEF ServerStep
    <2>5. ASSUME NEW u \in Unit, PendingAdd(u)
          PROVE  ServerStep
      BY <2>5, Zenon DEF ServerStep
    <2> QED BY <1>6, <2>2, <2>3, <2>4, <2>5, Zenon DEF Manage
  <1>7. ASSUME PoolTick
        PROVE  ServerStep
    BY <1>7 DEF PoolTick, ServerStep
  <1>8. ASSUME NEW r \in Run,
               \/ Download(r) \/ DownloadMissing(r) \/ PassFails(r) \/ PassSucceeds(r)
               \/ LastRequestLost(r) \/ Crash(r) \/ Restart(r) \/ RenewLost(r)
        PROVE  UNCHANGED vars
    BY <1>8 DEF Download, DownloadMissing, PassFails, PassSucceeds, StopWorking,
       LastRequestLost, Crash, Restart, RenewLost, vars
  <1>9. ASSUME NEW r \in Run, AcquirePass(r) \/ AcquireReplyLost(r)
        PROVE  ServerStep
    BY <1>1, <1>9 DEF AcquirePass, AcquireReplyLost
  <1>10. CASE UNCHANGED poolVars
    BY <1>10 DEF poolVars
  <1> QED BY <1>2, <1>3, <1>4, <1>5, <1>6, <1>7, <1>8, <1>9, <1>10, Zenon
          DEF PoolStep, PoolNext, PassStep, FaultStep

-----------------------------------------------------------------------------
(* Type correctness *)

LEMMA InitPool == PoolInit => PoolOK
  <1>1. PoolInit => TypeOK
    BY InitType DEF PoolInit
  <1>2. PoolInit => PoolTypes
    BY PoolAssumption, BoundAssumption DEF PoolInit, PoolTypes, Phase, Content
  <1> QED BY <1>1, <1>2 DEF PoolOK

\* Where a pass ends its variables are empty again.
LEMMA EndPassTypes ==
    ASSUME PoolTypes, NEW r \in Run, NEW phase \in Phase, EndPass(r, phase)
    PROVE  PoolTypes'
  BY PoolAssumption, BoundAssumption DEF PoolTypes, EndPass, Content

LEMMA NextPoolTypes ==
    ASSUME TypeOK, PoolTypes, [PoolStep]_poolVars
    PROVE  PoolTypes'
  <1>1. ASSUME NEW r \in Run, AcquirePass(r)
        PROVE  PoolTypes'
    BY <1>1, PoolAssumption DEF AcquirePass, PoolTypes, Phase, Content, Acquire
  <1>2. ASSUME NEW r \in Run, Download(r)
        PROVE  PoolTypes'
    <2>1. \A u \in Unit : bytes[u.path] \in Content
      BY UnitPath DEF TypeOK
    <2>2. read' \in [Run -> [Unit -> Content]]
      BY <1>2, <2>1, BoundAssumption DEF Download, PoolTypes, Content
    <2> QED BY <1>2, <2>2 DEF Download, PoolTypes, Phase, Content, vars
  <1>3. ASSUME NEW r \in Run, NEW phase \in Phase, StopWorking(r, phase)
        PROVE  PoolTypes'
    BY <1>3, PoolAssumption DEF StopWorking, PoolTypes, Content, vars
  <1>4. ASSUME NEW r \in Run, DownloadMissing(r) \/ PassFails(r) \/ PassSucceeds(r)
        PROVE  PoolTypes'
    BY <1>3, <1>4 DEF DownloadMissing, PassFails, PassSucceeds, Phase
  <1>5. ASSUME NEW r \in Run, Report(r) \/ GiveBack(r) \/ LastRequestLost(r) \/ Crash(r)
        PROVE  PoolTypes'
    BY <1>5, EndPassTypes DEF Report, GiveBack, LastRequestLost, Crash, Phase
  <1>6. ASSUME NEW r \in Run, Restart(r)
        PROVE  PoolTypes'
    BY <1>6 DEF Restart, PoolTypes, Phase, Content, vars
  <1>7. ASSUME NEW r \in Run, RenewClaims(r)
        PROVE  PoolTypes'
    BY <1>7, PoolAssumption DEF RenewClaims, PoolTypes, Content
  <1>8. ASSUME NEW r \in Run, RenewLost(r)
        PROVE  PoolTypes'
    BY <1>8, PoolAssumption DEF RenewLost, PoolTypes, Content, vars
  <1>9. CASE PoolTick
    BY <1>9, PoolAssumption DEF PoolTick, PoolTypes, Content
  <1>10. ASSUME UNCHANGED trainerVars
         PROVE  PoolTypes'
    BY <1>10 DEF trainerVars, PoolTypes, Content
  <1> QED BY <1>1, <1>2, <1>4, <1>5, <1>6, <1>7, <1>8, <1>9, <1>10
          DEF PoolStep, PoolNext, PassStep, FaultStep, Feed, Manage, AcquireReplyLost, poolVars

LEMMA NextPool ==
    ASSUME PoolOK, [PoolStep]_poolVars
    PROVE  PoolOK'
  BY PoolServerStep, NextType, NextPoolTypes DEF PoolOK

\* Every step of the runs, the network and the server keeps the shape of the
\* server's state and of what each run holds, waits for and missed.
THEOREM PoolTypeCorrect == ManagedPoolSpec => []PoolOK
  BY InitPool, NextPool, PTL DEF ManagedPoolSpec, PoolStep

\* No trainer, however it fails, makes the server forget a queued unit: the
\* requests of the pool are requests that the proof of the server allows.
THEOREM PoolWorkIsKept == ManagedPoolSpec => []NoWorkLost
  <1>1. PoolInit => NoWorkLost
    BY InitOwed DEF PoolInit
  <1>2. PoolOK /\ NoWorkLost /\ [PoolStep]_poolVars => NoWorkLost'
    BY PoolServerStep, NextOwed DEF PoolOK
  <1> QED BY <1>1, <1>2, PoolTypeCorrect, PTL DEF ManagedPoolSpec, PoolStep

-----------------------------------------------------------------------------
(* A run holds its batch *)

\* While fresh, no claim of a working run has expired.
LEMMA FreshClaims ==
    ASSUME PoolOK, NEW r \in Working, BatchIsFresh(r), missed[r] <= 1, NEW u \in batch[r]
    PROVE  u \in Queued /\ pending[u].run = r /\ ~Expired(u)
  <1>1. /\ u \in Queued /\ pending[u].run = r
        /\ pending[u].age + wake[r] <= IF missed[r] = 0 THEN RenewEvery ELSE 2 * RenewEvery
    BY DEF BatchIsFresh, HeldBy
  <1>2. pending[u].age \in Nat /\ wake[r] \in Nat
    BY <1>1, BoundAssumption, PoolAssumption
    DEF PoolOK, TypeOK, PoolTypes, Entry, Queued, Working
  <1> QED BY <1>1, <1>2, PoolAssumption, BoundAssumption DEF Expired

\* A step that leaves a run's claims and its renewer alone keeps them fresh.
LEMMA StaysFresh ==
    ASSUME NEW r \in Run, BatchIsFresh(r),
           batch'[r] = batch[r], wake'[r] = wake[r], missed'[r] = missed[r],
           HeldBy(r) \subseteq Queued',
           \A u \in HeldBy(r) : pending'[u].run = r /\ pending'[u].age = pending[u].age
    PROVE  BatchIsFresh(r)'
  BY DEF BatchIsFresh, HeldBy

LEMMA NextFresh ==
    ASSUME PoolOK, ClaimsAreFresh, [PoolStep]_poolVars
    PROVE  ClaimsAreFresh'
  <1> USE DEF PoolOK
  <1>1. ASSUME NEW r \in Run, NEW taken, Acquire(r, ModelOf[r], MaxFiles, taken),
               NEW q \in Working, q # r,
               batch'[q] = batch[q], wake'[q] = wake[q], missed'[q] = missed[q]
        PROVE  BatchIsFresh(q)'
    <2>1. BatchIsFresh(q) /\ q \in Run
      BY DEF ClaimsAreFresh, Working
    <2>2. CASE missed[q] <= 1
      <3>1. \A u \in batch[q] : u \in Queued /\ u \notin taken
        BY <1>1, <2>1, <2>2, FreshClaims, RunIsOwner DEF Acquire, Claimable
      <3> QED BY <1>1, <2>1, <3>1, AcquireQueue DEF BatchIsFresh, HeldBy
    <2>3. CASE ~(missed[q] <= 1)
      BY <1>1, <2>3 DEF BatchIsFresh
    <2> QED BY <2>2, <2>3
  <1>2. ASSUME NEW r \in Run, AcquirePass(r)
        PROVE  ClaimsAreFresh'
    <2>1. PICK taken \in SUBSET Unit : /\ Acquire(r, ModelOf[r], MaxFiles, taken)
                                       /\ batch' = [batch EXCEPT ![r] = taken]
      BY <1>2 DEF AcquirePass
    <2>2. r \notin Working /\ Working' = Working \cup {r}
      BY <1>2 DEF AcquirePass, Working, PoolTypes
    <2>3. \A q \in Working : batch'[q] = batch[q] /\ wake'[q] = wake[q] /\ missed'[q] = missed[q]
      BY <1>2, <2>1, <2>2 DEF AcquirePass, Working, PoolTypes
    <2>4. \A q \in Working : BatchIsFresh(q)'
      BY <1>1, <2>1, <2>2, <2>3
    <2>5. BatchIsFresh(r)'
      <3>1. batch'[r] = taken /\ wake'[r] = RenewEvery
        BY <1>2, <2>1 DEF AcquirePass, PoolTypes
      <3> QED BY <2>1, <3>1, AcquireQueue, PoolAssumption DEF BatchIsFresh, HeldBy
    <2> QED BY <2>2, <2>4, <2>5 DEF ClaimsAreFresh
  <1>3. ASSUME NEW r \in Run, AcquireReplyLost(r)
        PROVE  ClaimsAreFresh'
    <2>1. PICK taken \in SUBSET Unit : Acquire(r, ModelOf[r], MaxFiles, taken)
      BY <1>3 DEF AcquireReplyLost
    <2>2. r \notin Working /\ Working' = Working
      BY <1>3 DEF AcquireReplyLost, Working, trainerVars
    <2>3. UNCHANGED <<batch, wake, missed>>
      BY <1>3 DEF AcquireReplyLost, trainerVars
    <2> QED BY <1>1, <2>1, <2>2, <2>3 DEF ClaimsAreFresh
  <1>4. ASSUME NEW r \in Run, Download(r)
        PROVE  ClaimsAreFresh'
    <2>1. Working' = Working /\ UNCHANGED <<pending, batch, wake, missed>>
      BY <1>4 DEF Download, Working, PoolTypes, vars
    <2> QED BY <2>1 DEF ClaimsAreFresh, BatchIsFresh, HeldBy, Queued
  <1>5. ASSUME NEW r \in Run, UNCHANGED pending, Working' \subseteq Working \ {r},
               \A q \in Run \ {r} : /\ batch'[q] = batch[q] /\ wake'[q] = wake[q]
                                    /\ missed'[q] = missed[q]
        PROVE  ClaimsAreFresh'
    <2>1. ASSUME NEW q \in Working' PROVE BatchIsFresh(q)'
      BY <1>5, <2>1 DEF ClaimsAreFresh, BatchIsFresh, Working, HeldBy, Queued
    <2> QED BY <2>1 DEF ClaimsAreFresh
  <1>6. ASSUME NEW r \in Run, NEW phase \in Phase \ {"fetching", "training"},
               StopWorking(r, phase) \/ (EndPass(r, phase) /\ UNCHANGED vars)
        PROVE  ClaimsAreFresh'
    <2>1. Working' \subseteq Working \ {r} /\ UNCHANGED pending
      BY <1>6 DEF StopWorking, EndPass, Working, PoolTypes, vars
    <2>2. \A q \in Run \ {r} : /\ batch'[q] = batch[q] /\ wake'[q] = wake[q]
                               /\ missed'[q] = missed[q]
      BY <1>6 DEF StopWorking, EndPass, PoolTypes
    <2> QED BY <1>5, <2>1, <2>2
  <1>7. ASSUME NEW r \in Run, Report(r) \/ GiveBack(r)
        PROVE  ClaimsAreFresh'
    <2>1. Working' = Working /\ r \notin Working
      BY <1>7 DEF Report, GiveBack, EndPass, Working, PoolTypes
    <2>2. \A q \in Run \ {r} : /\ batch'[q] = batch[q] /\ wake'[q] = wake[q]
                               /\ missed'[q] = missed[q]
      BY <1>7 DEF Report, GiveBack, EndPass, PoolTypes
    <2>3. \A u \in Queued \ HeldBy(r) : /\ u \in Queued' /\ pending'[u].run = pending[u].run
                                        /\ pending'[u].age = pending[u].age
      <3>1. CASE Report(r)
        BY <3>1, TrainedQueue DEF Report
      <3>2. CASE GiveBack(r)
        BY <3>2, ReleaseQueue DEF GiveBack
      <3> QED BY <1>7, <3>1, <3>2
    <2>4. ASSUME NEW q \in Working PROVE BatchIsFresh(q)'
      <3>1. q \in Run /\ q # r /\ HeldBy(q) \subseteq Queued \ HeldBy(r)
        BY <2>1 DEF Working, HeldBy
      <3>2. \A u \in HeldBy(q) : /\ u \in Queued' /\ pending'[u].run = q
                                 /\ pending'[u].age = pending[u].age
        BY <2>3, <3>1 DEF HeldBy
      <3> QED BY <2>2, <3>1, <3>2, StaysFresh DEF ClaimsAreFresh
    <2> QED BY <2>1, <2>4 DEF ClaimsAreFresh
  <1>8. ASSUME NEW r \in Run, Restart(r)
        PROVE  ClaimsAreFresh'
    <2>1. Working' = Working /\ UNCHANGED <<pending, batch, wake, missed>>
      BY <1>8 DEF Restart, Working, PoolTypes, vars
    <2> QED BY <2>1 DEF ClaimsAreFresh, BatchIsFresh, HeldBy, Queued
  <1>9. ASSUME NEW r \in Run, RenewClaims(r)
        PROVE  ClaimsAreFresh'
    <2>1. /\ Queued' = Queued
          /\ \A u \in Queued : /\ pending'[u].run = pending[u].run
                               /\ pending'[u].age = IF u \in HeldBy(r) THEN 0
                                                    ELSE pending[u].age
      BY <1>9, RenewQueue DEF RenewClaims, vars, Queued
    <2>2. /\ Working' = Working /\ UNCHANGED batch /\ r \in Working
          /\ wake'[r] = RenewEvery /\ missed'[r] = IF missed[r] <= 1 THEN 0 ELSE missed[r]
          /\ \A q \in Run \ {r} : wake'[q] = wake[q] /\ missed'[q] = missed[q]
      BY <1>9 DEF RenewClaims, Working, PoolTypes
    <2>3. BatchIsFresh(r)'
      BY <2>1, <2>2, PoolAssumption DEF ClaimsAreFresh, BatchIsFresh, HeldBy
    <2>4. ASSUME NEW q \in Working \ {r} PROVE BatchIsFresh(q)'
      <3>1. \A u \in HeldBy(q) : u \notin HeldBy(r) /\ u \in Queued
        BY DEF HeldBy
      <3>2. q \in Run /\ BatchIsFresh(q)
        BY DEF Working, ClaimsAreFresh
      <3>3. \A u \in HeldBy(q) : /\ u \in Queued' /\ pending'[u].run = q
                                 /\ pending'[u].age = pending[u].age
        BY <2>1, <3>1 DEF HeldBy
      <3> QED BY <2>2, <3>2, <3>3, StaysFresh
    <2> QED BY <2>2, <2>3, <2>4 DEF ClaimsAreFresh
  <1>10. ASSUME NEW r \in Run, RenewLost(r)
         PROVE  ClaimsAreFresh'
    <2>1. /\ Working' = Working /\ UNCHANGED <<pending, batch>> /\ r \in Working
          /\ wake[r] = 0 /\ wake'[r] = RenewEvery /\ missed'[r] = missed[r] + 1
          /\ \A q \in Run \ {r} : wake'[q] = wake[q] /\ missed'[q] = missed[q]
      BY <1>10 DEF RenewLost, Working, PoolTypes, vars
    <2>2. BatchIsFresh(r)'
      <3>1. SUFFICES ASSUME missed'[r] <= 1, NEW u \in batch[r]
                     PROVE  /\ u \in HeldBy(r)
                            /\ pending[u].age + wake'[r] <=
                                  IF missed'[r] = 0 THEN RenewEvery ELSE 2 * RenewEvery
        BY <2>1 DEF BatchIsFresh, HeldBy, Queued
      <3>2. missed[r] = 0 /\ missed'[r] = 1
        BY <2>1, <3>1 DEF PoolTypes
      <3>3. u \in HeldBy(r) /\ pending[u].age + wake[r] <= RenewEvery
        BY <2>1, <3>1, <3>2 DEF ClaimsAreFresh, BatchIsFresh
      <3>4. pending[u].age \in Nat
        BY <3>3, BoundAssumption DEF TypeOK, Entry, HeldBy
      <3> QED BY <2>1, <3>2, <3>3, <3>4, PoolAssumption
    <2>3. ASSUME NEW q \in Working \ {r} PROVE BatchIsFresh(q)'
      BY <2>1 DEF ClaimsAreFresh, BatchIsFresh, Working, HeldBy, Queued
    <2> QED BY <2>1, <2>2, <2>3 DEF ClaimsAreFresh
  <1>11. ASSUME Feed \/ Manage
         PROVE  ClaimsAreFresh'
    <2>1. /\ ClaimsUntouched /\ Working' = Working
          /\ UNCHANGED <<batch, wake, missed>>
      BY <1>11, FedQueue DEF Feed, Manage, trainerVars, Working
    <2>2. ASSUME NEW q \in Working PROVE BatchIsFresh(q)'
      BY <2>1, StaysFresh DEF ClaimsAreFresh, ClaimsUntouched, HeldBy, Working
    <2> QED BY <2>1, <2>2 DEF ClaimsAreFresh
  <1>12. CASE PoolTick
    <2>1. /\ Queued' = Queued
          /\ \A u \in Queued : /\ pending'[u].run = pending[u].run
                               /\ pending'[u].age \in {pending[u].age, pending[u].age + 1}
      BY <1>12, TickQueue DEF PoolTick
    <2>2. /\ Working' = Working /\ UNCHANGED <<batch, missed>>
          /\ \A q \in Working : wake[q] > 0 /\ wake'[q] = wake[q] - 1
      BY <1>12 DEF PoolTick, Working
    <2>3. ASSUME NEW q \in Working, missed[q] <= 1, NEW u \in batch[q]
          PROVE  /\ u \in Queued /\ pending'[u].run = q
                 /\ pending'[u].age + wake'[q] <=
                       IF missed[q] = 0 THEN RenewEvery ELSE 2 * RenewEvery
      <3>1. /\ u \in Queued /\ pending[u].run = q
            /\ pending[u].age + wake[q] <= IF missed[q] = 0 THEN RenewEvery
                                                           ELSE 2 * RenewEvery
        BY <2>3 DEF ClaimsAreFresh, BatchIsFresh, HeldBy
      <3>2. pending[u].age \in Nat /\ wake[q] \in Nat
        BY <3>1, BoundAssumption, PoolAssumption DEF TypeOK, PoolTypes, Entry, Queued, Working
      <3> QED BY <2>1, <2>2, <3>1, <3>2, PoolAssumption
    <2> QED BY <2>1, <2>2, <2>3 DEF ClaimsAreFresh, BatchIsFresh, HeldBy
  <1>13. CASE UNCHANGED poolVars
    BY <1>13 DEF poolVars, vars, trainerVars, ClaimsAreFresh, BatchIsFresh, Working,
       HeldBy, Queued
  <1>14. ASSUME NEW r \in Run,
                DownloadMissing(r) \/ PassFails(r) \/ PassSucceeds(r)
                \/ LastRequestLost(r) \/ Crash(r)
         PROVE  ClaimsAreFresh'
    BY <1>6, <1>14 DEF DownloadMissing, PassFails, PassSucceeds, LastRequestLost, Crash, Phase
  <1> QED BY <1>2, <1>3, <1>4, <1>7, <1>8, <1>9, <1>10, <1>11, <1>12, <1>13, <1>14
          DEF PoolStep, PoolNext, PassStep, FaultStep

\* The lease, three renewal periods, outlives one missed renewal: no other run
\* takes a unit from a run that works on it (TD-494), for any lease longer than
\* two periods and with operators reassigning and requeueing meanwhile.
THEOREM RunsHoldTheirBatch == ManagedPoolSpec => []HoldsItsBatch
  <1>1. PoolInit => ClaimsAreFresh
    BY DEF PoolInit, ClaimsAreFresh, Working
  <1>2. ClaimsAreFresh => HoldsItsBatch
    BY DEF ClaimsAreFresh, BatchIsFresh, HoldsItsBatch
  <1> QED BY <1>1, <1>2, NextFresh, PoolTypeCorrect, PTL DEF ManagedPoolSpec, PoolStep

\* A unit has one holder, so two runs that hold their batches share no unit.
THEOREM WorkIsNotShared == ManagedPoolSpec => []NoSharedWork
  <1>1. HoldsItsBatch => NoSharedWork
    BY DEF HoldsItsBatch, NoSharedWork, HeldBy
  <1> QED BY <1>1, RunsHoldTheirBatch, PTL

-----------------------------------------------------------------------------
(* Records are earned *)

\* A step keeps what a run has read current when the run claims nothing new and
\* its claimed files keep their content.
LEMMA StaysCurrent ==
    ASSUME NEW q \in Run, ReadIsCurrent(q) /\ TrainedBeforeReport(q),
           pc'[q] = pc[q], batch'[q] = batch[q], read'[q] = read[q], worked \subseteq worked',
           \A u \in HeldBy(q)' : u \in HeldBy(q) /\ bytes'[u.path] = bytes[u.path]
    PROVE  ReadIsCurrent(q)' /\ TrainedBeforeReport(q)'
  <1>1. ReadIsCurrent(q)'
    BY DEF ReadIsCurrent
  <1>2. TrainedBeforeReport(q)'
    BY DEF TrainedBeforeReport
  <1> QED BY <1>1, <1>2

\* A run that is neither training nor reporting has nothing to keep current.
LEMMA NothingToKeep ==
    ASSUME NEW r \in Run, pc'[r] \notin {"training", "reporting"}
    PROVE  ReadIsCurrent(r)' /\ TrainedBeforeReport(r)'
  BY DEF ReadIsCurrent, TrainedBeforeReport

LEMMA NextEarned ==
    ASSUME PoolOK, EarnedInv, [PoolStep]_poolVars
    PROVE  EarnedInv'
  <1> USE DEF PoolOK
  <1>1. ASSUME NEW r \in Run, NEW taken, Acquire(r, ModelOf[r], MaxFiles, taken),
               pc'[r] \notin {"training", "reporting"},
               \A q \in Run \ {r} : pc'[q] = pc[q] /\ batch'[q] = batch[q],
               UNCHANGED <<read, worked>>
        PROVE  EarnedInv'
    <2>1. ReadIsCurrent(r)' /\ TrainedBeforeReport(r)'
      BY <1>1, NothingToKeep
    <2>2. ASSUME NEW q \in Run \ {r}
          PROVE  ReadIsCurrent(q)' /\ TrainedBeforeReport(q)'
      <3>1. \A u \in HeldBy(q)' : u \in HeldBy(q) /\ bytes'[u.path] = bytes[u.path]
        BY <1>1, AcquireQueue DEF HeldBy
      <3> QED BY <1>1, <3>1, StaysCurrent DEF EarnedInv
    <2>3. RecordsAreEarned'
      BY <1>1 DEF Acquire, EarnedInv, RecordsAreEarned
    <2> QED BY <2>1, <2>2, <2>3 DEF EarnedInv
  <1>2. ASSUME NEW r \in Run, AcquirePass(r)
        PROVE  EarnedInv'
    <2>1. /\ \E taken \in SUBSET Unit : Acquire(r, ModelOf[r], MaxFiles, taken)
          /\ pc'[r] \notin {"training", "reporting"}
          /\ \A q \in Run \ {r} : pc'[q] = pc[q] /\ batch'[q] = batch[q]
          /\ UNCHANGED <<read, worked>>
      BY <1>2 DEF AcquirePass, PoolTypes
    <2> QED BY <1>1, <2>1
  <1>3. ASSUME NEW r \in Run, AcquireReplyLost(r)
        PROVE  EarnedInv'
    BY <1>1, <1>3 DEF AcquireReplyLost, trainerVars
  <1>4. ASSUME NEW r \in Run, Download(r)
        PROVE  EarnedInv'
    <2>1. /\ UNCHANGED <<pending, registry, bytes, batch, worked>> /\ pc'[r] = "training"
          /\ \A q \in Run \ {r} : pc'[q] = pc[q] /\ read'[q] = read[q]
          /\ \A v \in batch[r] : read'[r][v] = bytes[v.path]
      BY <1>4 DEF Download, PoolTypes, vars
    <2>2. ReadIsCurrent(r)' /\ TrainedBeforeReport(r)'
      BY <2>1 DEF ReadIsCurrent, TrainedBeforeReport
    <2>3. ASSUME NEW q \in Run \ {r}
          PROVE  ReadIsCurrent(q)' /\ TrainedBeforeReport(q)'
      BY <2>1, StaysCurrent DEF EarnedInv, HeldBy, Queued
    <2>4. RecordsAreEarned'
      BY <2>1 DEF EarnedInv, RecordsAreEarned
    <2> QED BY <2>2, <2>3, <2>4 DEF EarnedInv
  <1>5. ASSUME NEW r \in Run, PassSucceeds(r)
        PROVE  EarnedInv'
    <2>1. /\ UNCHANGED <<pending, registry, bytes, batch, read>>
          /\ pc[r] = "training" /\ pc'[r] = "reporting"
          /\ \A q \in Run \ {r} : pc'[q] = pc[q]
          /\ worked' = worked \cup {[unit |-> u, content |-> read[r][u]] : u \in batch[r]}
      BY <1>5 DEF PassSucceeds, StopWorking, PoolTypes, vars
    <2>2. ReadIsCurrent(r)' /\ TrainedBeforeReport(r)'
      BY <2>1 DEF EarnedInv, ReadIsCurrent, TrainedBeforeReport, HeldBy, Queued
    <2>3. ASSUME NEW q \in Run \ {r}
          PROVE  ReadIsCurrent(q)' /\ TrainedBeforeReport(q)'
      BY <2>1, StaysCurrent DEF EarnedInv, HeldBy, Queued
    <2>4. RecordsAreEarned'
      BY <2>1 DEF EarnedInv, RecordsAreEarned
    <2> QED BY <2>2, <2>3, <2>4 DEF EarnedInv
  <1>6. ASSUME NEW r \in Run, pc'[r] \notin {"training", "reporting"},
               UNCHANGED <<pending, registry, bytes, worked>>,
               \A q \in Run \ {r} : /\ pc'[q] = pc[q] /\ batch'[q] = batch[q]
                                    /\ read'[q] = read[q]
        PROVE  EarnedInv'
    <2>1. ReadIsCurrent(r)' /\ TrainedBeforeReport(r)'
      BY <1>6, NothingToKeep
    <2>2. ASSUME NEW q \in Run \ {r}
          PROVE  ReadIsCurrent(q)' /\ TrainedBeforeReport(q)'
      BY <1>6, StaysCurrent DEF EarnedInv, HeldBy, Queued
    <2>3. RecordsAreEarned'
      BY <1>6 DEF EarnedInv, RecordsAreEarned
    <2> QED BY <2>1, <2>2, <2>3 DEF EarnedInv
  <1>7. ASSUME NEW r \in Run,
               DownloadMissing(r) \/ PassFails(r) \/ LastRequestLost(r) \/ Crash(r) \/ Restart(r)
        PROVE  EarnedInv'
    BY <1>6, <1>7 DEF DownloadMissing, PassFails, LastRequestLost, Crash, Restart,
       StopWorking, EndPass, PoolTypes, vars
  <1>8. ASSUME NEW r \in Run, Report(r)
        PROVE  EarnedInv'
    <2>1. PICK saved \in BOOLEAN : Trained(r, batch[r], ExactReport(r), saved)
      BY <1>8 DEF Report
    <2>2. /\ pc[r] = "reporting" /\ pc'[r] = "idle" /\ UNCHANGED worked
          /\ \A q \in Run \ {r} : /\ pc'[q] = pc[q] /\ batch'[q] = batch[q]
                                  /\ read'[q] = read[q]
      BY <1>8 DEF Report, EndPass, PoolTypes
    <2>3. ReadIsCurrent(r)' /\ TrainedBeforeReport(r)'
      BY <2>2, NothingToKeep
    <2>4. ASSUME NEW q \in Run \ {r}
          PROVE  ReadIsCurrent(q)' /\ TrainedBeforeReport(q)'
      <3>1. \A u \in HeldBy(q)' : u \in HeldBy(q) /\ bytes'[u.path] = bytes[u.path]
        BY <2>1, TrainedQueue DEF HeldBy
      <3> QED BY <2>2, <3>1, StaysCurrent DEF EarnedInv
    <2>5. ASSUME NEW v \in Accepted(r, batch[r], ExactReport(r))
          PROVE  [unit |-> v, content |-> bytes[v.path]] \in worked
      <3>1. PICK u \in HeldBy(r) : Matches(u, v, ExactReport(r))
        BY RunIsOwner DEF Accepted
      <3>2. v \in batch[r] /\ u.path = v.path
        BY <3>1, RunIsOwner DEF Accepted, Matches
      <3>3. bytes[v.path] = read[r][v] /\ [unit |-> v, content |-> read[r][v]] \in worked
        BY <2>2, <3>2 DEF EarnedInv, ReadIsCurrent, TrainedBeforeReport
      <3> QED BY <3>3
    <2>6. registry' = registry \cup NewRecords(Accepted(r, batch[r], ExactReport(r)))
      BY <2>1 DEF Trained
    <2>7. RecordsAreEarned'
      BY <2>2, <2>5, <2>6 DEF EarnedInv, RecordsAreEarned, NewRecords
    <2> QED BY <2>3, <2>4, <2>7 DEF EarnedInv
  <1>9. ASSUME NEW r \in Run, GiveBack(r)
        PROVE  EarnedInv'
    <2>1. Release(r, batch[r])
      BY <1>9 DEF GiveBack
    <2>2. /\ pc'[r] = "idle" /\ UNCHANGED worked
          /\ \A q \in Run \ {r} : /\ pc'[q] = pc[q] /\ batch'[q] = batch[q]
                                  /\ read'[q] = read[q]
      BY <1>9 DEF GiveBack, EndPass, PoolTypes
    <2>3. ReadIsCurrent(r)' /\ TrainedBeforeReport(r)'
      BY <2>2, NothingToKeep
    <2>4. ASSUME NEW q \in Run \ {r}
          PROVE  ReadIsCurrent(q)' /\ TrainedBeforeReport(q)'
      <3>1. \A u \in HeldBy(q)' : u \in HeldBy(q) /\ bytes'[u.path] = bytes[u.path]
        BY <2>1, ReleaseQueue, RunIsOwner DEF HeldBy
      <3> QED BY <2>2, <3>1, StaysCurrent DEF EarnedInv
    <2>5. RecordsAreEarned'
      BY <2>1, <2>2, ReleaseQueue DEF EarnedInv, RecordsAreEarned
    <2> QED BY <2>3, <2>4, <2>5 DEF EarnedInv
  <1>10. ASSUME \A q \in Run : \A u \in HeldBy(q)' : u \in HeldBy(q) /\ bytes'[u.path] = bytes[u.path],
                registry' \subseteq registry, UNCHANGED <<pc, batch, read, worked>>
         PROVE  EarnedInv'
    <2>1. \A q \in Run : ReadIsCurrent(q)' /\ TrainedBeforeReport(q)'
      BY <1>10, StaysCurrent DEF EarnedInv
    <2>2. RecordsAreEarned'
      BY <1>10 DEF EarnedInv, RecordsAreEarned
    <2> QED BY <2>1, <2>2 DEF EarnedInv
  <1>11. ASSUME NEW r \in Run, RenewClaims(r)
         PROVE  EarnedInv'
    <2>1. CASE Renew(r)
      BY <1>10, <1>11, <2>1, RenewQueue DEF RenewClaims, HeldBy
    <2>2. CASE UNCHANGED vars
      BY <1>10, <1>11, <2>2 DEF RenewClaims, HeldBy, Queued, vars
    <2> QED BY <1>11, <2>1, <2>2 DEF RenewClaims
  <1>12. ASSUME NEW r \in Run, RenewLost(r)
         PROVE  EarnedInv'
    BY <1>10, <1>12 DEF RenewLost, HeldBy, Queued, vars
  <1>13. ASSUME Feed \/ Manage
         PROVE  EarnedInv'
    <2>1. ClaimsUntouched /\ UNCHANGED <<pc, batch, read, worked>>
      BY <1>13, FedQueue DEF Feed, Manage, trainerVars
    <2>2. \A q \in Run : \A u \in HeldBy(q)' : u \in HeldBy(q) /\ bytes'[u.path] = bytes[u.path]
      BY <2>1, RunIsOwner DEF ClaimsUntouched, HeldBy, Claimed
    <2> QED BY <1>10, <2>1, <2>2 DEF ClaimsUntouched
  <1>14. CASE PoolTick
    BY <1>10, <1>14, TickQueue DEF PoolTick, HeldBy
  <1>15. CASE UNCHANGED poolVars
    BY <1>10, <1>15 DEF poolVars, vars, trainerVars, HeldBy, Queued
  <1> QED BY <1>2, <1>3, <1>4, <1>5, <1>7, <1>8, <1>9, <1>11, <1>12, <1>13, <1>14, <1>15
          DEF PoolStep, PoolNext, PassStep, FaultStep

\* Every trained record is of a unit and a content that a run really trained
\* on: a claim protects the file from uploads for as long as the server would
\* accept a report of it, whatever was lost, crashed or expired.
THEOREM TrainedMeansTrained == ManagedPoolSpec => []RecordsAreEarned
  <1>1. PoolInit => EarnedInv
    BY DEF PoolInit, Init, EarnedInv, ReadIsCurrent, TrainedBeforeReport, RecordsAreEarned
  <1>2. EarnedInv => RecordsAreEarned
    BY DEF EarnedInv
  <1> QED BY <1>1, <1>2, NextEarned, PoolTypeCorrect, PTL DEF ManagedPoolSpec, PoolStep

-----------------------------------------------------------------------------
(* The pool implements the abstract work queue *)

\* Feeding queues at most one unit, which nobody claims and no model has.
LEMMA FeedAddsOpenUnits ==
    ASSUME TypeOK, Feed
    PROVE  /\ Queued' = Queued \/ \E v \in Unit \ Queued : Queued' = Queued \cup {v}
           /\ \A u \in Queued : pending'[u] = pending[u]
           /\ \A u \in Queued' \ Queued : pending'[u] = FreshEntry(NoModel)
           /\ UNCHANGED <<registry, trainerVars>>
  <1>1. \/ UNCHANGED pending
        \/ \E v \in Unit \ Queued : pending' = WithNew({v}, NoModel)
    <2>1. ASSUME NEW p \in Path, NEW overwrite \in BOOLEAN, Upload(p, overwrite, TRUE)
          PROVE  \/ UNCHANGED pending
                 \/ WholeOf(p) \in Unit \ Queued /\ pending' = WithNew({WholeOf(p)}, NoModel)
      BY <2>1 DEF Upload, WholeOf
    <2> QED BY <2>1 DEF Feed, PendingAdd
  <1>2. UNCHANGED <<registry, trainerVars>>
    BY DEF Feed, PendingAdd, Upload
  <1>3. CASE UNCHANGED pending
    BY <1>2, <1>3 DEF Queued
  <1>4. CASE \E v \in Unit \ Queued : pending' = WithNew({v}, NoModel)
    BY <1>2, <1>4 DEF WithNew, Queued
  <1> QED BY <1>1, <1>3, <1>4

\* A pass without limit takes what the run already holds.
LEMMA TakesWhatItHolds ==
    ASSUME UnitsAreOpen, MaxFiles = 0, NEW r \in Run, NEW taken,
           Acquire(r, ModelOf[r], MaxFiles, taken)
    PROVE  HeldBy(r) \subseteq taken
  <1>1. HeldBy(r) \subseteq Claimable(r, ModelOf[r])
    BY RunIsOwner DEF HeldBy, Claimable, UnitsAreOpen, Claimed
  <1> QED BY <1>1 DEF Acquire

\* A step that claims nothing new for a run keeps its pass whole.
LEMMA StaysWhole ==
    ASSUME NEW q \in Run, PassIsWhole(q), HeldBy(q)' \subseteq HeldBy(q),
           batch'[q] = batch[q], pc[q] \in {"idle", "down"} => pc'[q] \in {"idle", "down"}
    PROVE  PassIsWhole(q)'
  BY DEF PassIsWhole

LEMMA NextOpen ==
    ASSUME PoolOK, UnitsAreOpen, [PoolNext]_poolVars
    PROVE  UnitsAreOpen'
  <1> USE DEF PoolOK
  <1>1. ASSUME Queued' \subseteq Queued,
               \A u \in Queued' : /\ pending'[u].model = pending[u].model
                                  /\ pending'[u].run \in {pending[u].run, NoRun}
        PROVE  UnitsAreOpen'
    BY <1>1 DEF UnitsAreOpen, Claimed
  <1>2. ASSUME NEW r \in Run, NEW taken, Acquire(r, ModelOf[r], MaxFiles, taken)
        PROVE  UnitsAreOpen'
    <2>1. \A u \in taken : FtpActive => u.path \in Deliverable
      BY <1>2 DEF Acquire, Claimable
    <2> QED BY <1>2, <2>1, AcquireQueue DEF UnitsAreOpen, Claimed
  <1>3. ASSUME NEW r \in Run, AcquirePass(r) \/ AcquireReplyLost(r)
        PROVE  UnitsAreOpen'
    BY <1>2, <1>3 DEF AcquirePass, AcquireReplyLost
  <1>4. ASSUME NEW r \in Run, Report(r)
        PROVE  UnitsAreOpen'
    <2>1. PICK saved \in BOOLEAN : Trained(r, batch[r], ExactReport(r), saved)
      BY <1>4 DEF Report
    <2>2. Queued' \subseteq Queued /\ \A u \in Queued' : pending'[u] = pending[u]
      BY <2>1, TrainedQueue
    <2> QED BY <1>1, <2>2
  <1>5. ASSUME NEW r \in Run, GiveBack(r)
        PROVE  UnitsAreOpen'
    BY <1>1, <1>5, ReleaseQueue DEF GiveBack
  <1>6. ASSUME NEW r \in Run, Renew(r)
        PROVE  UnitsAreOpen'
    BY <1>1, <1>6, RenewQueue
  <1>7. CASE Feed
    BY <1>7, FeedAddsOpenUnits DEF UnitsAreOpen, FreshEntry, Claimed
  <1>8. CASE PoolTick
    BY <1>1, <1>8, TickQueue DEF PoolTick
  <1>9. CASE UNCHANGED pending
    BY <1>9 DEF UnitsAreOpen, Claimed, Queued
  <1>10. ASSUME NEW r \in Run,
                \/ Download(r) \/ DownloadMissing(r) \/ PassFails(r) \/ PassSucceeds(r)
                \/ LastRequestLost(r) \/ Crash(r) \/ Restart(r) \/ RenewLost(r)
         PROVE  UNCHANGED pending
    BY <1>10 DEF Download, DownloadMissing, PassFails, PassSucceeds, StopWorking,
       LastRequestLost, Crash, Restart, RenewLost, vars
  <1>11. ASSUME NEW r \in Run, RenewClaims(r)
         PROVE  UnitsAreOpen'
    BY <1>6, <1>9, <1>11 DEF RenewClaims, vars
  <1>12. CASE UNCHANGED poolVars
    BY <1>9, <1>12 DEF poolVars, vars
  <1> QED BY <1>3, <1>4, <1>5, <1>7, <1>8, <1>9, <1>10, <1>11, <1>12
          DEF PoolNext, PassStep, FaultStep

LEMMA NextWhole ==
    ASSUME PoolOK, WholePasses, [PoolNext]_poolVars
    PROVE  WholePasses'
  <1> USE DEF PoolOK
  <1> SUFFICES ASSUME MaxFiles = 0, NEW q \in Run
               PROVE  PassIsWhole(q)'
    BY NextOpen DEF WholePasses
  <1>0. UnitsAreOpen /\ PassIsWhole(q)
    BY DEF WholePasses
  <1>1. ASSUME NEW r \in Run, AcquirePass(r)
        PROVE  PassIsWhole(q)'
    <2>1. PICK taken \in SUBSET Unit : /\ Acquire(r, ModelOf[r], MaxFiles, taken)
                                       /\ batch' = [batch EXCEPT ![r] = taken]
      BY <1>1 DEF AcquirePass
    <2>2. CASE q = r
      <3>1. HeldBy(r)' = HeldBy(r) \cup taken
        BY <2>1, AcquireQueue DEF HeldBy
      <3>2. HeldBy(r) \subseteq taken /\ batch'[r] = taken
        BY <1>0, <2>1, TakesWhatItHolds DEF PoolTypes
      <3> QED BY <2>2, <3>1, <3>2 DEF PassIsWhole
    <2>3. CASE q # r
      <3>1. HeldBy(q)' \subseteq HeldBy(q)
        BY <2>1, <2>3, AcquireQueue DEF HeldBy
      <3>2. batch'[q] = batch[q] /\ pc'[q] = pc[q]
        BY <1>1, <2>1, <2>3 DEF AcquirePass, PoolTypes
      <3> QED BY <1>0, <3>1, <3>2, StaysWhole
    <2> QED BY <2>2, <2>3
  <1>2. ASSUME NEW r \in Run, AcquireReplyLost(r)
        PROVE  PassIsWhole(q)'
    <2>1. PICK taken \in SUBSET Unit : Acquire(r, ModelOf[r], MaxFiles, taken)
      BY <1>2 DEF AcquireReplyLost
    <2>2. UNCHANGED <<pc, batch>> /\ pc[r] = "idle"
      BY <1>2 DEF AcquireReplyLost, trainerVars
    <2>3. q # r => HeldBy(q)' \subseteq HeldBy(q)
      BY <2>1, AcquireQueue DEF HeldBy
    <2> QED BY <1>0, <2>2, <2>3 DEF PassIsWhole
  <1>3. ASSUME NEW r \in Run, Report(r) \/ GiveBack(r)
        PROVE  PassIsWhole(q)'
    <2>1. pc'[r] = "idle" /\ (q # r => pc'[q] = pc[q] /\ batch'[q] = batch[q])
      BY <1>3 DEF Report, GiveBack, EndPass, PoolTypes
    <2>2. HeldBy(q)' \subseteq HeldBy(q)
      <3>1. CASE Report(r)
        BY <3>1, TrainedQueue DEF Report, HeldBy
      <3>2. CASE GiveBack(r)
        BY <3>2, ReleaseQueue, RunIsOwner DEF GiveBack, HeldBy
      <3> QED BY <1>3, <3>1, <3>2
    <2> QED BY <1>0, <2>1, <2>2, StaysWhole DEF PassIsWhole
  <1>4. ASSUME HeldBy(q)' \subseteq HeldBy(q), UNCHANGED <<pc, batch>>
        PROVE  PassIsWhole(q)'
    BY <1>0, <1>4, StaysWhole
  <1>5. ASSUME NEW r \in Run, RenewClaims(r)
        PROVE  PassIsWhole(q)'
    <2>1. CASE Renew(r)
      BY <1>4, <1>5, <2>1, RenewQueue DEF RenewClaims, HeldBy
    <2>2. CASE UNCHANGED vars
      BY <1>4, <1>5, <2>2 DEF RenewClaims, HeldBy, Queued, vars
    <2> QED BY <1>5, <2>1, <2>2 DEF RenewClaims
  <1>6. CASE Feed
    BY <1>4, <1>6, FeedAddsOpenUnits, RunIsOwner DEF FreshEntry, HeldBy, trainerVars
  <1>7. CASE PoolTick
    BY <1>4, <1>7, TickQueue DEF PoolTick, HeldBy
  <1>8. ASSUME NEW r \in Run,
               \/ Download(r) \/ DownloadMissing(r) \/ PassFails(r) \/ PassSucceeds(r)
               \/ LastRequestLost(r) \/ Crash(r) \/ Restart(r) \/ RenewLost(r)
        PROVE  PassIsWhole(q)'
    <2>1. HeldBy(q)' = HeldBy(q)
      BY <1>8 DEF Download, DownloadMissing, PassFails, PassSucceeds, StopWorking,
         LastRequestLost, Crash, Restart, RenewLost, vars, HeldBy, Queued
    <2>2. \/ pc'[q] \in {"idle", "down"}
          \/ /\ batch'[q] = batch[q]
             /\ pc[q] \in {"idle", "down"} => pc'[q] \in {"idle", "down"}
      BY <1>8 DEF Download, DownloadMissing, PassFails, PassSucceeds, StopWorking, EndPass,
         LastRequestLost, Crash, Restart, RenewLost, Working, PoolTypes
    <2> QED BY <1>0, <2>1, <2>2, StaysWhole DEF PassIsWhole
  <1>9. CASE UNCHANGED poolVars
    BY <1>4, <1>9 DEF poolVars, vars, trainerVars, HeldBy, Queued
  <1> QED BY <1>1, <1>2, <1>3, <1>5, <1>6, <1>7, <1>8, <1>9 DEF PoolNext, PassStep, FaultStep

\* The abstract holder of a unit, as ImplementsWorkQueue maps it.
Holder == [u \in Unit |-> IF u \in Queued THEN pending[u].run ELSE "out"]

\* A report names exactly what the run holds when a pass takes everything its
\* run holds, or when no unit is a row range.
PassesAreExact == MaxFiles = 0 \/ \A u \in Unit : u.seg = Whole

\* The abstract steps in terms of Holder and Recorded.
LEMMA AbstractEnqueue ==
    ASSUME NEW v \in Unit \ Queued,
           Holder' = [u \in Unit |-> IF u = v THEN NoRun ELSE Holder[u]],
           Recorded' = Recorded
    PROVE  WQ!WQNext
  <1>1. WQ!Enqueue(v)
    BY DEF WQ!Enqueue, WQ!Set, Holder
  <1> QED BY <1>1 DEF WQ!WQNext

LEMMA AbstractClaim ==
    ASSUME NEW r \in Run, NEW S \in SUBSET Unit, \A u \in S : Holder[u] # "out",
           Holder' = [u \in Unit |-> IF u \in S THEN r ELSE Holder[u]],
           Recorded' = Recorded
    PROVE  WQ!WQNext
  <1>1. WQ!Claim(r, S)
    BY DEF WQ!Claim, WQ!Set, Holder
  <1> QED BY <1>1 DEF WQ!WQNext

LEMMA AbstractReturn ==
    ASSUME NEW r \in Run, NEW S \in SUBSET Unit, \A u \in S : Holder[u] = r,
           Holder' = [u \in Unit |-> IF u \in S THEN NoRun ELSE Holder[u]],
           Recorded' = Recorded
    PROVE  WQ!WQNext
  <1>1. WQ!Return(r, S)
    BY DEF WQ!Return, WQ!HeldUnits, WQ!Set, Holder
  <1> QED BY <1>1 DEF WQ!WQNext

LEMMA AbstractStutter ==
    ASSUME Holder' = Holder, Recorded' = Recorded
    PROVE  UNCHANGED WQ!wqVars
  BY DEF WQ!wqVars, Holder

\* A report records the units it is accepted for.
LEMMA RecordsAdded ==
    ASSUME NEW T, registry' = registry \cup NewRecords(T)
    PROVE  Recorded' = Recorded \cup T
  <1>1. \A u \in T : [unit |-> u, content |-> bytes[u.path]] \in registry'
    BY DEF NewRecords
  <1>2. ASSUME NEW u \in T
        PROVE  u \in Recorded'
    <2>1. PICK rec \in registry' : rec.unit = u
      BY <1>1
    <2> QED BY <2>1 DEF Recorded
  <1>3. \A rec \in NewRecords(T) : rec.unit \in T
    BY DEF NewRecords
  <1> QED BY <1>2, <1>3 DEF Recorded

\* What a run reports of its exact pass it holds, and what leaves the queue is
\* part of it.
LEMMA ReportIsHeld ==
    ASSUME PoolOK, WholePasses, PassesAreExact, NEW r \in Run, pc[r] = "reporting"
    PROVE  LET T == Accepted(r, batch[r], ExactReport(r))
               S == Finished(r, batch[r], ExactReport(r))
           IN  /\ T \subseteq HeldBy(r) /\ S \subseteq HeldBy(r)
               /\ \A u \in S : \E t \in T : u = t \/ (t.seg = Whole /\ u.path = t.path)
  <1> DEFINE T == Accepted(r, batch[r], ExactReport(r))
             S == Finished(r, batch[r], ExactReport(r))
  <1>1. r # NoRun /\ HeldBy(r) \subseteq Unit /\ batch[r] \subseteq Unit
    BY RunIsOwner DEF HeldBy, PoolOK, TypeOK, PoolTypes
  <1>2. /\ T = {v \in batch[r] : \E u \in HeldBy(r) : Matches(u, v, ExactReport(r))}
        /\ S = {u \in HeldBy(r) : \E v \in batch[r] : Matches(u, v, ExactReport(r))}
    BY <1>1 DEF Accepted, Finished, HeldBy
  <1>3. ASSUME NEW v \in T
        PROVE  v \in HeldBy(r)
    <2>1. PICK u \in HeldBy(r) : Matches(u, v, ExactReport(r))
      BY <1>2
    <2>2. CASE ExactReport(r)
      BY <2>1, <2>2 DEF Matches
    <2>3. CASE ~ExactReport(r)
      <3>1. u.path = v.path /\ v.seg = Whole
        BY <1>2, <2>1, <2>3 DEF Matches, ExactReport
      <3>2. u.seg = Whole
        BY <1>1, <2>3 DEF PassesAreExact, WholePasses, PassIsWhole, ExactReport
      <3> QED BY <1>1, <1>2, <2>1, <3>1, <3>2, UnitAssumption
    <2> QED BY <2>2, <2>3
  <1>4. ASSUME NEW u \in S
        PROVE  \E t \in T : u = t \/ (t.seg = Whole /\ u.path = t.path)
    <2>1. PICK v \in batch[r] : Matches(u, v, ExactReport(r))
      BY <1>2
    <2>2. v \in T
      BY <1>2, <2>1
    <2>3. u = v \/ (v.seg = Whole /\ u.path = v.path)
      BY <2>1 DEF Matches, ExactReport
    <2> QED BY <2>2, <2>3
  <1>5. S \subseteq HeldBy(r)
    BY <1>2
  <1> HIDE DEF T, S
  <1>6. /\ T \subseteq HeldBy(r) /\ S \subseteq HeldBy(r)
        /\ \A u \in S : \E t \in T : u = t \/ (t.seg = Whole /\ u.path = t.path)
    BY <1>3, <1>4, <1>5
  <1> QED BY <1>6 DEF T, S

LEMMA PoolImplementsStep ==
    ASSUME "out" \notin Owner, PassesAreExact, PoolOK, WholePasses, [PoolNext]_poolVars
    PROVE  [WQ!WQNext]_(WQ!wqVars)
  <1> USE DEF PoolOK
  <1>0. /\ Queued \subseteq Unit
        /\ \A u \in Queued : pending[u].run # "out"
    BY DEF TypeOK, Entry
  <1>1. ASSUME Queued' = Queued, \A u \in Queued : pending'[u].run = pending[u].run,
               UNCHANGED registry
        PROVE  UNCHANGED WQ!wqVars
    BY <1>1, AbstractStutter DEF Holder, Recorded
  <1>2. ASSUME NEW r \in Run, NEW taken \in SUBSET Unit,
               Acquire(r, ModelOf[r], MaxFiles, taken)
        PROVE  WQ!WQNext
    <2>1. \A u \in taken : Holder[u] # "out"
      BY <1>0, <1>2, AcquireQueue DEF Holder
    <2>2. Holder' = [u \in Unit |-> IF u \in taken THEN r ELSE Holder[u]]
      BY <1>0, <1>2, AcquireQueue DEF Holder
    <2>3. Recorded' = Recorded
      BY <1>2, AcquireQueue DEF Recorded
    <2> QED BY <2>1, <2>2, <2>3, AbstractClaim
  <1>3. ASSUME NEW r \in Run, AcquirePass(r) \/ AcquireReplyLost(r)
        PROVE  WQ!WQNext
    BY <1>2, <1>3 DEF AcquirePass, AcquireReplyLost
  <1>4. ASSUME NEW r \in Run, Report(r)
        PROVE  WQ!WQNext
    <2>1. PICK saved \in BOOLEAN : Trained(r, batch[r], ExactReport(r), saved)
      BY <1>4 DEF Report
    <2>2. pc[r] = "reporting"
      BY <1>4 DEF Report
    <2> DEFINE T == Accepted(r, batch[r], ExactReport(r))
               F == Finished(r, batch[r], ExactReport(r))
               S == IF saved THEN F ELSE {}
    <2>3. /\ T \subseteq HeldBy(r) /\ F \subseteq HeldBy(r)
          /\ \A u \in F : \E t \in T : u = t \/ (t.seg = Whole /\ u.path = t.path)
      BY <2>2, ReportIsHeld
    <2>4. /\ Queued' = Queued \ S
          /\ \A u \in Queued' : pending'[u] = pending[u]
      BY <2>1, TrainedQueue
    <2>5. registry' = registry \cup NewRecords(T)
      BY <2>1 DEF Trained
    <2> HIDE DEF T, F
    <2>6. T \in SUBSET Unit /\ S \in SUBSET Unit /\ \A u \in T \cup S : Holder[u] = r
      BY <1>0, <2>3 DEF Holder, HeldBy
    <2>7. Holder' = [u \in Unit |-> IF u \in S THEN "out" ELSE Holder[u]]
      BY <1>0, <2>4 DEF Holder
    <2>8. Recorded' = Recorded \cup T
      BY <2>5, RecordsAdded
    <2>9. \A u \in S : \E t \in T : u = t \/ (t.seg = Whole /\ u.path = t.path)
      BY <2>3
    <2> HIDE DEF S
    <2>10. PICK T1 \in SUBSET Unit, S1 \in SUBSET Unit : T1 = T /\ S1 = S
      BY <2>6
    <2>11. /\ \A u \in T1 \cup S1 : Holder[u] = r
           /\ \A u \in S1 : \E t \in T1 : u = t \/ (t.seg = Whole /\ u.path = t.path)
           /\ Holder' = [u \in Unit |-> IF u \in S1 THEN "out" ELSE Holder[u]]
           /\ Recorded' = Recorded \cup T1
      BY <2>6, <2>7, <2>8, <2>9, <2>10
    <2>12. WQ!Finish(r, T1, S1)
      BY <2>11 DEF WQ!Finish, WQ!HeldUnits, WQ!Set, Holder
    <2> QED BY <2>12 DEF WQ!WQNext
  <1>5. ASSUME NEW r \in Run, GiveBack(r)
        PROVE  WQ!WQNext
    <2> DEFINE S == batch[r] \cap HeldBy(r)
    <2>1. /\ Queued' = Queued /\ UNCHANGED registry
          /\ \A u \in Queued : pending'[u].run = IF u \in S THEN NoRun ELSE pending[u].run
      BY <1>5, ReleaseQueue DEF GiveBack
    <2>2. S \in SUBSET Unit /\ \A u \in S : Holder[u] = r
      BY <1>0 DEF Holder, HeldBy
    <2>3. S \subseteq Queued
      BY DEF HeldBy
    <2> HIDE DEF S
    <2>4. Holder' = [u \in Unit |-> IF u \in S THEN NoRun ELSE Holder[u]]
      BY <1>0, <2>1, <2>3 DEF Holder
    <2>5. Recorded' = Recorded
      BY <2>1 DEF Recorded
    <2> QED BY <2>2, <2>4, <2>5, AbstractReturn
  <1>6. ASSUME NEW r \in Run, RenewClaims(r)
        PROVE  UNCHANGED WQ!wqVars
    <2>1. CASE Renew(r)
      BY <1>1, <2>1, RenewQueue
    <2>2. CASE UNCHANGED vars
      BY <1>1, <2>2 DEF vars, Queued
    <2> QED BY <1>6, <2>1, <2>2 DEF RenewClaims
  <1>7. CASE Feed
    <2>1. /\ Queued' = Queued \/ \E v \in Unit \ Queued : Queued' = Queued \cup {v}
          /\ \A u \in Queued : pending'[u] = pending[u]
          /\ \A u \in Queued' \ Queued : pending'[u].run = NoRun
          /\ UNCHANGED registry
      BY <1>7, FeedAddsOpenUnits DEF FreshEntry
    <2>2. CASE Queued' = Queued
      <3>1. \A u \in Queued : pending'[u].run = pending[u].run
        BY <2>1
      <3> QED BY <1>1, <2>1, <2>2, <3>1
    <2>3. ASSUME NEW v \in Unit \ Queued, Queued' = Queued \cup {v}
          PROVE  WQ!WQNext
      <3>1. Holder' = [u \in Unit |-> IF u = v THEN NoRun ELSE Holder[u]]
        BY <2>1, <2>3 DEF Holder
      <3>2. Recorded' = Recorded
        BY <2>1 DEF Recorded
      <3> QED BY <3>1, <3>2, AbstractEnqueue
    <2> QED BY <2>1, <2>2, <2>3
  <1>8. CASE PoolTick
    BY <1>1, <1>8, TickQueue DEF PoolTick
  <1>9. ASSUME UNCHANGED vars
        PROVE  UNCHANGED WQ!wqVars
    BY <1>1, <1>9 DEF vars, Queued
  <1>10. ASSUME NEW r \in Run,
                \/ Download(r) \/ DownloadMissing(r) \/ PassFails(r) \/ PassSucceeds(r)
                \/ LastRequestLost(r) \/ Crash(r) \/ Restart(r) \/ RenewLost(r)
         PROVE  UNCHANGED vars
    BY <1>10 DEF Download, DownloadMissing, PassFails, PassSucceeds, StopWorking,
       LastRequestLost, Crash, Restart, RenewLost, vars
  <1>11. CASE UNCHANGED poolVars
    BY <1>9, <1>11 DEF poolVars
  <1> QED BY <1>3, <1>4, <1>5, <1>6, <1>7, <1>8, <1>9, <1>10, <1>11
          DEF PoolNext, PassStep, FaultStep

\* The server with its trainers, leases, lost messages and crashes is the
\* abstract queue: a unit leaves it only because a run that held it reported it
\* as trained, as long as no other unit can stand in for it in a report.
THEOREM PoolIsWorkQueue ==
    ASSUME "out" \notin Owner, PassesAreExact
    PROVE  PoolSpec => ImplementsWorkQueue
  <1>1. PoolInit => WQ!WQInit
    BY DEF PoolInit, Init, WQ!WQInit, Queued, Recorded
  <1>2. PoolInit => WholePasses
    BY DEF PoolInit, Init, WholePasses, UnitsAreOpen, PassIsWhole, Queued
  <1>3. [PoolNext]_poolVars => [PoolStep]_poolVars
    BY DEF PoolStep
  <1>4. PoolOK /\ WholePasses /\ [PoolNext]_poolVars => [WQ!WQNext]_(WQ!wqVars)
    BY PoolImplementsStep
  <1> QED BY <1>1, <1>2, <1>3, <1>4, InitPool, NextPool, NextWhole, PTL
          DEF PoolSpec, ImplementsWorkQueue, WQ!WQSpec
=============================================================================
