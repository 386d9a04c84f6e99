--------------------------- MODULE RegistryServer ---------------------------
(***************************************************************************)
(* The dataset registry of one group, as registry_server keeps it: the     *)
(* pending queue (pending_files.txt), the trained registry                 *)
(* (data_registry.txt) and the data files below the group's directory.     *)
(* Every handler runs under the group's mutex, loads the two files,        *)
(* changes them and saves them back, so a handler is one action; what can  *)
(* come apart is the sequence of its saves, each an atomic file replace    *)
(* that may fail (HTTP 500), or be cut off by a crash, on its own.  A      *)
(* failed only save leaves the files as they were: that is a stutter.      *)
(* Only fetch/* works outside that mutex: it writes its slice file under a *)
(* lock of the cursor, and takes the group's to queue it.  Nothing else    *)
(* survives in memory between two requests, so a restart only ends those   *)
(* fetches.                                                                *)
(*                                                                         *)
(* Abstracted: the order of the queue (it only decides which eligible      *)
(* entries a limited acquire or assign-by-count picks, a choice here), the *)
(* metadata columns of an entry, JSON and HTTP.  A claim's claimed_unix is *)
(* its age in lease ticks, counted up to Lease.  Claims made before leases *)
(* existed (claimed_unix = 0) are not modelled.                            *)
(***************************************************************************)
EXTENDS DatasetUnits

CONSTANTS
    Managed,            \* files below data_dir/<group>: uploads, fetches, unlinks
    Slices,             \* those that fetch/* names; uploads have their own directory
    Deliverable,        \* files below data_dir: what the FTP server can serve
    FtpActive,          \* --ftp-enabled: claims need a deliverable file
    Lease,              \* claim lease in ticks; 0 = claims never expire
    UnlinkRequests,     \* the delete_files values that clients send
    ForceRequests,      \* the force values that clients send
    MaxWrites           \* bound: how often a data file is written

ASSUME BoundAssumption ==
    /\ Managed \subseteq Deliverable /\ Deliverable \subseteq Path
    /\ Slices \subseteq Managed /\ \A p \in Slices : WholeOf(p) \in Unit
    /\ Lease \in Nat
    /\ MaxWrites \in Nat
    /\ FtpActive \in BOOLEAN
    /\ UnlinkRequests \subseteq BOOLEAN /\ ForceRequests \subseteq BOOLEAN

VARIABLES
    pending,    \* the queue: queued unit |-> its run, model and claim age
    registry,   \* the trained records: unit and the content it was trained on
    bytes,      \* content of each file, 0 = not on disk
    writes,     \* number of writes so far: names each new content
    fetching,   \* slice files that a fetch is writing and has not queued
    owed,       \* history: units queued and not deleted by an operator since
    seen,       \* history: content of a unit's file when it was last claimed
    disturbed   \* history: claims whose file a fetch, a forced delete or the
                \* delete of the whole file of a claimed range changed

vars == <<pending, registry, bytes, writes, fetching, owed, seen, disturbed>>

-----------------------------------------------------------------------------
(* Vocabulary of the handlers *)

Content == 0..MaxWrites
Entry == [run : Owner, model : Assignee, age : 0..Lease]

Queued == DOMAIN pending
Recorded == {r.unit : r \in registry}
Claimed == {u \in Queued : pending[u].run # NoRun}
HeldBy(r) == {u \in Queued : pending[u].run = r}
ClaimsOn(p) == {u \in Claimed : u.path = p}

FreshEntry(m) == [run |-> NoRun, model |-> m, age |-> 0]

\* Variants: claims never expire (before TD-494), or one tick too early.
NeverExpired(u) == FALSE
ExpiredEarly(u) == Lease > 0 /\ u \in Claimed /\ pending[u].age + 1 >= Lease

Expired(u) == Lease > 0 /\ u \in Claimed /\ pending[u].age >= Lease

\* The queue without the units of S, and with the units of S added for m.
Without(S) == [u \in Queued \ S |-> pending[u]]
WithNew(S, m) == [u \in Queued \cup S |->
                     IF u \in Queued THEN pending[u] ELSE FreshEntry(m)]

\* Variant: the model is written to the run column.
WithModelInRun(S, m) == [u \in Queued |->
    IF u \in S THEN [pending[u] EXCEPT !.run = m] ELSE pending[u]]

\* The queue with the entries of S changed by assigning run, or model.
WithRun(S, r) == [u \in Queued |->
    IF u \in S THEN [run |-> r, model |-> pending[u].model, age |-> 0] ELSE pending[u]]
WithModel(S, m) == [u \in Queued |->
    IF u \in S THEN [pending[u] EXCEPT !.model = m] ELSE pending[u]]

-----------------------------------------------------------------------------
(* Files enter the queue *)

\* POST pending/add: refused when the same unit is already queued.
PendingAdd(u) ==
    /\ u \in Unit \ Queued
    /\ pending' = WithNew({u}, NoModel)
    /\ owed' = owed \cup {u}
    /\ UNCHANGED <<registry, bytes, writes, seen, fetching, disturbed>>

\* A data file gets new content.
Write(p) ==
    /\ writes < MaxWrites
    /\ writes' = writes + 1
    /\ bytes' = [bytes EXCEPT ![p] = writes']

\* POST fetch/*, under the mutex of its cursor only: a slice is written to a
\* path that is not on disk, piece by piece.  A slice file that is unlinked
\* while it is written stays away.
WriteSlice(p) ==
    /\ p \in Slices /\ (p \in fetching <=> bytes[p] # 0)
    /\ Write(p)
    /\ fetching' = fetching \cup {p}
    /\ disturbed' = disturbed \cup ClaimsOn(p)
    /\ UNCHANGED <<pending, registry, owed, seen>>

\* The slice file goes again: it has no pairs (502), or is queued already (409).
DropSlice(p) ==
    /\ bytes' = [bytes EXCEPT ![p] = 0]
    /\ disturbed' = disturbed \cup ClaimsOn(p)
    /\ UNCHANGED <<pending, owed>>

EmptySlice(p) ==
    /\ p \in fetching
    /\ DropSlice(p)
    /\ fetching' = fetching \ {p}
    /\ UNCHANGED <<registry, writes, seen>>

\* The slice is queued under the group's mutex, unless the path is queued by
\* now, claimed or not.  The save of the queue may fail, which leaves the file
\* without an entry.
QueueFetchedSlice(p, saved) ==
    /\ p \in fetching
    /\ fetching' = fetching \ {p}
    /\ IF WholeOf(p) \in Queued
       THEN DropSlice(p)
       ELSE /\ IF saved
               THEN /\ pending' = WithNew({WholeOf(p)}, NoModel)
                    /\ owed' = owed \cup {WholeOf(p)}
               ELSE UNCHANGED <<pending, owed>>
            /\ UNCHANGED <<bytes, disturbed>>
    /\ UNCHANGED <<registry, writes, seen>>

\* The server restarts: what was fetched and not queued stays on disk.
RestartServer ==
    /\ fetching # {}
    /\ fetching' = {}
    /\ UNCHANGED <<pending, registry, bytes, writes, owed, seen, disturbed>>

\* Variant: the upload does not look at claims (before TD-492).
UploadOverClaims(p, overwrite, saved) ==
    /\ p \in Managed \ Slices /\ WholeOf(p) \in Unit /\ overwrite
    /\ Write(p)
    /\ UNCHANGED <<pending, registry, owed, seen, fetching, disturbed>>

\* POST upload: the body replaces the file only when no unit of it is claimed,
\* and, unless overwrite is set, none is trained or queued; a file queued in
\* segments is never replaced.  An entry that is already queued stays (only its
\* metadata is refreshed), else the file is queued.
Upload(p, overwrite, saved) ==
    LET queued == {u \in Queued : u.path = p}
        trained == {u \in Recorded : u.path = p}
    IN  /\ p \in Managed \ Slices /\ WholeOf(p) \in Unit
        /\ queued \cap Claimed = {}
        /\ overwrite \/ (trained = {} /\ queued = {})
        /\ queued \subseteq {WholeOf(p)}
        /\ Write(p)
        /\ IF queued = {} /\ saved
           THEN /\ pending' = WithNew({WholeOf(p)}, NoModel)
                /\ owed' = owed \cup {WholeOf(p)}
           ELSE UNCHANGED <<pending, owed>>
        /\ UNCHANGED <<registry, seen, fetching, disturbed>>

-----------------------------------------------------------------------------
(* Runs claim, renew, release and commit *)

\* Variant: an acquire takes claimed units, too.
ClaimableByAnyone(r, m) ==
    {u \in Queued : /\ pending[u].model \in {NoModel, m}
                    /\ FtpActive => u.path \in Deliverable}

\* What an acquire of run r for model m may take: units that are unclaimed, its
\* own or whose lease ran out, not assigned to another model, and deliverable.
Claimable(r, m) ==
    {u \in Queued :
        /\ pending[u].run \in {NoRun, r} \/ Expired(u)
        /\ pending[u].model \in {NoModel, m}
        /\ FtpActive => u.path \in Deliverable}

\* POST acquire: takes limit of them (0 = all).
Acquire(r, m, limit, taken) ==
    /\ r \in Run
    /\ taken # {} /\ taken \subseteq Claimable(r, m)
    /\ IF limit = 0 \/ Cardinality(Claimable(r, m)) <= limit
       THEN taken = Claimable(r, m)
       ELSE Cardinality(taken) = limit
    /\ pending' = WithRun(taken, r)
    /\ seen' = [u \in Unit |-> IF u \in taken THEN bytes[u.path] ELSE seen[u]]
    /\ disturbed' = disturbed \ taken
    /\ UNCHANGED <<registry, bytes, writes, owed, fetching>>

\* POST renew: restarts the lease of everything the run still holds.
Renew(r) ==
    /\ r \in Run /\ HeldBy(r) # {}
    /\ pending' = WithRun(HeldBy(r), r)
    /\ UNCHANGED <<registry, bytes, writes, owed, seen, fetching, disturbed>>

\* POST release: gives back the listed units that the run holds; an empty run
\* id releases them whoever holds them.
Release(r, units) ==
    /\ r \in Owner
    /\ pending' = WithRun({u \in units \cap Queued : r \in {NoRun, pending[u].run}},
                          NoRun)
    /\ UNCHANGED <<registry, bytes, writes, owed, seen, fetching, disturbed>>

\* Variant: any run's report is recorded (before TD-493).
AcceptedFromAnyone(r, units, exact) == units

\* The reported units that POST trained records for run r (TD-493).
Accepted(r, units, exact) ==
    IF r = NoRun
    THEN units \ Recorded
    ELSE {v \in units : \E u \in HeldBy(r) : Matches(u, v, exact)}

\* The queue entries that POST trained removes.
Finished(r, units, exact) ==
    {u \in Queued : /\ r \in {NoRun, pending[u].run}
                    /\ \E v \in units : Matches(u, v, exact)}

NewRecords(S) == {[unit |-> u, content |-> bytes[u.path]] : u \in S}

\* Variant: the queue is saved first, then the registry.
TrainedQueueFirst(r, units, exact, saved) ==
    /\ r \in Owner
    /\ exact \/ \A u \in units : u.seg = Whole
    /\ pending' = Without(Finished(r, units, exact))
    /\ registry' = IF saved THEN registry \cup NewRecords(Accepted(r, units, exact))
                   ELSE registry
    /\ UNCHANGED <<bytes, writes, owed, seen, fetching, disturbed>>

\* POST trained: the registry is saved first, then the queue (saved = FALSE:
\* that second save failed).
Trained(r, units, exact, saved) ==
    /\ r \in Owner
    /\ exact \/ \A u \in units : u.seg = Whole
    /\ registry' = registry \cup NewRecords(Accepted(r, units, exact))
    /\ pending' = IF saved THEN Without(Finished(r, units, exact)) ELSE pending
    /\ UNCHANGED <<bytes, writes, owed, seen, fetching, disturbed>>

-----------------------------------------------------------------------------
(* Operators manage the queue *)

\* POST assign: by segments, by paths, by count or everything.
Assign(m, units) ==
    /\ m \in Model /\ units # {} /\ units \subseteq Queued
    /\ pending' = WithModel(units, m)
    /\ UNCHANGED <<registry, bytes, writes, owed, seen, fetching, disturbed>>

\* POST unassign: a claimed unit is skipped unless force is set; a model name
\* restricts it to that model's units.
Unassign(m, units, force) ==
    LET cleared == {u \in units \cap Queued :
                       /\ m # NoModel => pending[u].model = m
                       /\ force \/ u \notin Claimed}
    IN  /\ cleared # {}
        /\ pending' = WithModel(cleared, NoModel)
        /\ UNCHANGED <<registry, bytes, writes, owed, seen, fetching, disturbed>>

\* POST delete: a claimed entry stays unless force is set, trained records of
\* the target go in any case (every record of the file for a whole-file
\* target).  delete_files unlinks the file of a whole-file target that was
\* found and not blocked, before the queue and then the registry are saved.
\* saves says how far that came: 0, 1 or 2 saves done.
Delete(targets, force, unlink, saves) ==
    LET blocked == IF force THEN {} ELSE targets \cap Claimed
        erased == (targets \cap Queued) \ blocked
        gone == UNION {PurgedBy(t, Recorded) : t \in targets}
        unlinked == {t.path : t \in {t \in targets \ blocked :
                                        /\ unlink /\ t.seg = Whole /\ t.path \in Managed
                                        /\ t \in Queued \/ PurgedBy(t, Recorded) # {}}}
        hit == targets \cup {u \in Unit : WholeOf(u.path) \in targets}
    IN  /\ targets # {} /\ targets \subseteq Unit
        /\ erased \cup gone # {}
        /\ bytes' = [p \in Path |-> IF p \in unlinked THEN 0 ELSE bytes[p]]
        /\ pending' = IF saves > 0 THEN Without(erased) ELSE pending
        /\ registry' = IF saves > 1 \/ (saves = 1 /\ erased = {})
                       THEN {r \in registry : r.unit \notin gone} ELSE registry
        /\ owed' = IF saves = 0 THEN owed ELSE owed \ (hit \ DOMAIN pending')
        /\ disturbed' = disturbed \cup
               {u \in Claimed : u.path \in unlinked /\ (force \/ u.seg # Whole)}
        /\ UNCHANGED <<writes, seen, fetching>>

\* POST requeue: every trained record of the files goes back to the queue as
\* the unit it was; the queue is saved first, then the registry.
Requeue(paths, m, saved) ==
    LET back == {u \in Recorded : u.path \in paths}
    IN  /\ back # {}
        /\ pending' = WithNew(back, m)
        /\ registry' = IF saved THEN {r \in registry : r.unit \notin back} ELSE registry
        /\ owed' = owed \cup back
        /\ UNCHANGED <<bytes, writes, seen, fetching, disturbed>>

\* One tick of the lease clock passes for every claim.
Tick ==
    /\ \E u \in Claimed : pending[u].age < Lease
    /\ pending' = [u \in Queued |->
                      IF u \in Claimed /\ pending[u].age < Lease
                      THEN [pending[u] EXCEPT !.age = @ + 1] ELSE pending[u]]
    /\ UNCHANGED <<registry, bytes, writes, owed, seen, fetching, disturbed>>

-----------------------------------------------------------------------------
Init ==
    /\ pending = [u \in {} |-> FreshEntry(NoModel)]
    /\ registry = {}
    /\ bytes = [p \in Path |-> 0]
    /\ writes = 0
    /\ fetching = {}
    /\ owed = {}
    /\ seen = [u \in Unit |-> 0]
    /\ disturbed = {}

RunRequest ==
    \E r \in Run :
        \/ \E m \in Assignee, limit \in 0..1, taken \in SUBSET Unit :
              Acquire(r, m, limit, taken)
        \/ Renew(r)

ReleaseOrCommit ==
    \E r \in Owner, units \in SUBSET Unit \ {{}} :
        \/ Release(r, units)
        \/ \E exact, saved \in BOOLEAN : Trained(r, units, exact, saved)

OperatorRequest ==
    \/ \E u \in Unit : PendingAdd(u)
    \/ \E p \in Path : WriteSlice(p) \/ EmptySlice(p)
    \/ \E p \in Path, saved \in BOOLEAN :
          \/ QueueFetchedSlice(p, saved)
          \/ \E overwrite \in BOOLEAN : Upload(p, overwrite, saved)
    \/ \E m \in Assignee, units \in SUBSET Unit :
          \/ Assign(m, units)
          \/ \E force \in ForceRequests : Unassign(m, units, force)
    \/ \E targets \in SUBSET Unit, force \in ForceRequests, unlink \in UnlinkRequests,
          saves \in 0..2 : Delete(targets, force, unlink, saves)
    \/ \E paths \in SUBSET Path, m \in Assignee, saved \in BOOLEAN :
          Requeue(paths, m, saved)

Next == RunRequest \/ ReleaseOrCommit \/ OperatorRequest \/ Tick \/ RestartServer

Spec == Init /\ [][Next]_vars

-----------------------------------------------------------------------------
(* Properties *)

\* Every variable keeps its shape: a queue entry is a unit with an owner, an
\* assignee and an age within the lease.
TypeOK ==
    /\ Queued \subseteq Unit
    /\ pending \in [Queued -> Entry]
    /\ registry \subseteq [unit : Unit, content : Content]
    /\ bytes \in [Path -> Content]
    /\ writes \in Content
    /\ fetching \subseteq Slices
    /\ owed \subseteq Unit
    /\ seen \in [Unit -> Content]
    /\ disturbed \subseteq Unit

\* Queued or recorded, as itself or as part of the whole file.
Covered(u) == {u, WholeOf(u.path)} \cap (Queued \cup Recorded) # {}

\* No unit that was queued is ever forgotten: until an operator deletes it, it
\* is in the queue or recorded as trained (itself or the whole file it is part
\* of), whichever saves of trained, requeue and delete failed.
NoWorkLost == \A u \in owed : Covered(u)

\* While a run holds a unit, the file keeps the content it had when the run
\* claimed it (TD-492): no upload replaces it, and no delete_files unlinks it
\* below a claim of the whole file unless it is forced.  What does change a
\* claimed file is named by disturbed: the slice of a fetch whose path was
\* queued before the fetch queued it, a forced delete whose save failed, and
\* the delete of a whole file of which a range is claimed.
ClaimedBytesKept ==
    \A u \in Claimed \ disturbed : seen[u] # 0 => bytes[u.path] = seen[u]
=============================================================================
