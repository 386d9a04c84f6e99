--------------------------- MODULE MetricsSessions ---------------------------
(***************************************************************************)
(* The live sessions of the metrics server (MetricsSessionRegistry) and the *)
(* HTTP threads that start, feed and end them.  A session is one            *)
(* TrainingMetricsService under a key.  A start refuses a key whose session *)
(* is training; it takes a finished or stale session out of the map and     *)
(* archives it after giving up the registry's lock: the service is retired  *)
(* (its last flush, then no more writes), its rows and files are renamed,   *)
(* the key is released.  A sweep does the same with sessions older than     *)
(* their time to live.  Events find their session by its key only and may   *)
(* still hold it when it is archived.                                       *)
(*                                                                         *)
(* Requests come from any client, in any order, with any key: retries,      *)
(* late trainers and two trainers of one key are all among them.            *)
(*                                                                         *)
(* On disk a session has its records, appended to, and its summary, written *)
(* over.  Events reach the disk at intervals; any write may fail, which is   *)
(* only logged.  A service writes under its own mutex and not once it is     *)
(* retired, but for flush_to_disk: it looks whether it may write, and then   *)
(* writes the summary whatever happened since.                              *)
(*                                                                         *)
(* Abstracted: the metrics themselves; JSONL file and database are one      *)
(* place on disk per key, summary and Prometheus file another; limits on    *)
(* what is kept in memory and on disk; which finished session makes room    *)
(* (the least recently updated) is any; "0-default", which takes no slot.   *)
(***************************************************************************)
EXTENDS Naturals, FiniteSets

CONSTANTS
    Key,            \* session keys
    NoKey,
    Thread,         \* HTTP threads
    Sweeper,        \* the sweep thread
    MaxLive,        \* max_live_sessions_
    MaxSessions,    \* bound: starts that may make a session
    MaxFaults       \* bound: crashes of the server, failed renames

ASSUME MetricsSessionsAssumption ==
    /\ Sweeper \notin Thread /\ NoKey \notin Key
    /\ MaxLive \in Nat \ {0} /\ MaxSessions \in Nat \ {0} /\ MaxFaults \in Nat

VARIABLES
    live,       \* sessions_: the session of each key, or None
    archiving,  \* archiving_keys_
    session,    \* every TrainingMetricsService made so far
    made,       \* their number
    job,        \* what each thread is doing
    rows,       \* the sessions that have records on disk under each key
    archived,   \* the same for each archived key
    summary,    \* the session whose summary is on disk under each key
    strays,     \* history: sessions that wrote a summary after their retirement
    faults      \* faults so far

disk == <<rows, archived, summary>>
vars == <<live, archiving, session, made, job, disk, strays, faults>>

None == 0
Session == 1..MaxSessions
Worker == Thread \cup {Sweeper}

\* has_started, is_training, is_stale, past the time to live, claimed, flushed
\* for the last time, retired, some record is not on disk;
\* begun, saved, lost and fresh are history: start_session ran; some record was
\* written; what is not on disk was not written by the last flush or came after
\* it; nothing was known of the key when it was made nor told to it before it
\* began.
Unmade == [key |-> NoKey, started |-> FALSE, training |-> FALSE, stale |-> FALSE,
           old |-> FALSE, claimed |-> FALSE,
           flushed |-> FALSE, retired |-> FALSE, unsaved |-> FALSE,
           begun |-> FALSE, saved |-> FALSE, lost |-> FALSE, fresh |-> FALSE]

\* pending: the sessions left to archive; detached: their keys; then: what
\* follows; own: the session a start was given or an event goes to.
Resting == [pc |-> "idle", key |-> NoKey, pending |-> {}, detached |-> {},
            then |-> "idle", own |-> None]

Live == {live[k] : k \in Key} \ {None}

\* Variant: has_started is not asked.
ReplaceableUnstarted(s) == ~session[s].training \/ session[s].stale

\* should_replace_completed_session, is_completed_and_stale.
Replaceable(s) == session[s].started /\ (~session[s].training \/ session[s].stale)

Expired == {s \in Live : Replaceable(s) /\ session[s].old}

\* The keys of the sessions some thread has still to archive.
BeingArchived == UNION {{session[s].key : s \in job[w].pending} : w \in Worker}

-----------------------------------------------------------------------------
(* Taking sessions out of the map, and archiving them *)

Without(gone) == [k \in Key |-> IF live[k] \in gone THEN None ELSE live[k]]

\* detach_locked of each, under the lock; the thread archives them next.
Detach(w, gone, map, next) ==
    /\ live' = map
    /\ archiving' = archiving \cup {session[s].key : s \in gone}
    /\ job' = [job EXCEPT ![w] =
           IF gone = {} THEN [next EXCEPT !.pc = next.then]
           ELSE [next EXCEPT !.pc = "archive", !.pending = gone,
                             !.detached = {session[s].key : s \in gone}]]

\* Variant: retirement is not asked.
AppendRetired(s, ok) ==
    rows' = IF ok THEN [rows EXCEPT ![session[s].key] = @ \cup {s}] ELSE rows

\* persist_metrics: nothing once the service is retired.
AppendRows(s, ok) ==
    rows' = IF ok /\ ~session[s].retired
            THEN [rows EXCEPT ![session[s].key] = @ \cup {s}] ELSE rows

\* persist_summary_with_data, and the same for Prometheus.
WriteSummary(s, ok) ==
    summary' = IF ok THEN [summary EXCEPT ![session[s].key] = s] ELSE summary

\* persist_summary, persist_prometheus.
PersistSummary(s, ok) == WriteSummary(s, ok /\ ~session[s].retired)

\* The service after a persist_metrics that went well or not.
After(service, ok) ==
    IF ok /\ ~service.retired
    THEN [service EXCEPT !.saved = TRUE, !.unsaved = FALSE, !.lost = FALSE]
    ELSE service

\* flush_to_disk, once it found that it may write.
flush_to_disk(s, summaryOk, rowsOk) ==
    /\ rowsOk => session[s].unsaved
    /\ WriteSummary(s, summaryOk)
    /\ AppendRows(s, rowsOk)

\* Variant: the last flush is left out.
FlushNothing(w) == \E s \in job[w].pending :
    /\ job[w].pc = "archive" /\ \A r \in job[w].pending : ~session[r].flushed
    /\ session' = [session EXCEPT ![s].flushed = TRUE]
    /\ UNCHANGED <<live, archiving, made, job, disk, strays, faults>>

\* TrainingMetricsService::retire, first half: the last flush.
Flush(w) == \E s \in job[w].pending : \E summaryOk, rowsOk \in BOOLEAN :
    /\ job[w].pc = "archive" /\ \A r \in job[w].pending : ~session[r].flushed
    /\ flush_to_disk(s, summaryOk, rowsOk)
    /\ session' = [session EXCEPT ![s] = After(
           [@ EXCEPT !.flushed = TRUE, !.lost = session[s].unsaved], rowsOk)]
    /\ UNCHANGED <<live, archiving, made, job, archived, strays, faults>>

\* Second half: from now on nothing is written.  Its age is of no more use.
Retire(w) == \E s \in job[w].pending :
    /\ job[w].pc = "archive" /\ session[s].flushed /\ ~session[s].retired
    /\ session' = [session EXCEPT ![s] = [@ EXCEPT
           !.retired = TRUE, !.stale = FALSE, !.old = FALSE]]
    /\ UNCHANGED <<live, archiving, made, job, disk, strays, faults>>

\* archive_session and archive_session_files: whatever is under the key moves, or
\* stays there when that fails, which is only logged.
Rename(w) == \E s \in job[w].pending : \E rowsOk, summaryOk \in BOOLEAN :
    LET k == session[s].key IN
    /\ job[w].pc = "archive" /\ session[s].retired
    /\ IF rowsOk /\ summaryOk THEN UNCHANGED faults
       ELSE faults < MaxFaults /\ faults' = faults + 1
    /\ archived' = IF rowsOk THEN archived \cup ({rows[k]} \ {{}}) ELSE archived
    /\ rows' = IF rowsOk THEN [rows EXCEPT ![k] = {}] ELSE rows
    /\ summary' = IF summaryOk THEN [summary EXCEPT ![k] = None] ELSE summary
    /\ job' = [job EXCEPT ![w].pending = @ \ {s}]
    /\ UNCHANGED <<live, archiving, session, made, strays>>

\* Variant: only the key the request was for is released.
ReleaseOwn(w) ==
    /\ job[w].pc = "archive" /\ job[w].pending = {}
    /\ archiving' = archiving \ {job[w].key}
    /\ job' = [job EXCEPT ![w] = [@ EXCEPT !.pc = job[w].then, !.detached = {}]]
    /\ UNCHANGED <<live, session, made, disk, strays, faults>>

\* The keys are released and waiting starts woken up.
Release(w) ==
    /\ job[w].pc = "archive" /\ job[w].pending = {}
    /\ archiving' = archiving \ job[w].detached
    /\ job' = [job EXCEPT ![w] = [@ EXCEPT !.pc = job[w].then, !.detached = {}]]
    /\ UNCHANGED <<live, session, made, disk, strays, faults>>

-----------------------------------------------------------------------------
(* POST /start *)

StartRequest(t, k) ==
    /\ job[t].pc = "idle"
    /\ made < MaxSessions
    /\ job' = [job EXCEPT ![t] = [Resting EXCEPT !.pc = "start", !.key = k]]
    /\ UNCHANGED <<live, archiving, session, made, disk, strays, faults>>

\* The key's session is finished or stale: it goes, and the start tries again.
Replace(t, k) ==
    /\ live[k] \notin Expired \cup {None} /\ Replaceable(live[k])
    /\ Detach(t, Expired \cup {live[k]}, Without(Expired \cup {live[k]}),
              [job[t] EXCEPT !.then = "start"])
    /\ UNCHANGED <<session, made>>

\* Variant: a session given to a start that has not begun is given again.
RefuseStarted(t, k) ==
    /\ live[k] \notin Expired \cup {None} /\ ~Replaceable(live[k])
    /\ Detach(t, Expired, Without(Expired),
              IF session[live[k]].started THEN Resting
              ELSE [job[t] EXCEPT !.then = "begin", !.own = live[k]])
    /\ UNCHANGED <<session, made>>

\* It is training, or another start was given it: 409.
Refuse(t, k) ==
    /\ live[k] \notin Expired \cup {None} /\ ~Replaceable(live[k])
    /\ session[live[k]].started \/ session[live[k]].claimed
    /\ Detach(t, Expired, Without(Expired), Resting)
    /\ UNCHANGED <<session, made>>

\* Variant: one session too many.
RoomOneMore(k) ==
    LET rest == Live \ Expired IN
    IF Cardinality(rest) <= MaxLive THEN {{}}
    ELSE {{v} : v \in {s \in rest : Replaceable(s)}}

\* make_room_locked: a finished or stale session goes when the map is full.
Room(k) ==
    LET rest == Live \ Expired IN
    IF Cardinality(rest) < MaxLive THEN {{}}
    ELSE {{v} : v \in {s \in rest : Replaceable(s)}}

\* A new service restores what it finds under its key, in the database or a summary.
Create(t, k) ==
    LET s == made + 1 IN
    /\ made < MaxSessions
    /\ live[k] \in Expired \cup {None}
    /\ \E victim \in Room(k), restored \in BOOLEAN :
         LET gone == Expired \cup victim IN
         /\ restored => rows[k] # {} \/ summary[k] # None
         /\ Detach(t, gone, [Without(gone) EXCEPT ![k] = s],
                   [job[t] EXCEPT !.then = "begin", !.own = s])
         /\ made' = s
         /\ session' = [session EXCEPT ![s] = [Unmade EXCEPT
                !.key = k, !.started = restored, !.claimed = TRUE,
                !.fresh = /\ rows[k] = {} /\ summary[k] = None
                          /\ k \notin BeingArchived
                          /\ \A g \in gone : session[g].key # k]]

\* Every slot is taken by a live session: 503.
Full(t, k) ==
    /\ live[k] \in Expired \cup {None} /\ Room(k) = {}
    /\ Detach(t, Expired, Without(Expired), Resting)
    /\ UNCHANGED <<session, made>>

\* start_session_or_conflict: one look at the map under the lock.
Decide(t) ==
    LET k == job[t].key IN
    /\ job[t].pc = "start" /\ k \notin archiving
    /\ Replace(t, k) \/ Refuse(t, k) \/ Create(t, k) \/ Full(t, k)
    /\ UNCHANGED <<disk, strays, faults>>

\* start_session of the service, outside the registry's lock; the answer is 200.
\* With a database it writes the session's row.
Begin(t) == \E rowsOk \in BOOLEAN :
    LET s == job[t].own IN
    /\ job[t].pc = "begin"
    /\ session' = [session EXCEPT ![s] = [@ EXCEPT
           !.started = TRUE, !.training = TRUE, !.stale = FALSE, !.old = FALSE, !.begun = TRUE]]
    /\ AppendRows(s, rowsOk)
    /\ job' = [job EXCEPT ![t] = Resting]
    /\ UNCHANGED <<live, archiving, made, archived, summary, strays, faults>>

-----------------------------------------------------------------------------
(* Events, heartbeats and POST /end *)

\* get_session: a thread gets hold of the service; 404 without one.
Resolve(t, k) ==
    /\ job[t].pc = "idle" /\ live[k] # None
    /\ job' = [job EXCEPT ![t] = [Resting EXCEPT !.pc = "apply", !.own = live[k]]]
    /\ UNCHANGED <<live, archiving, session, made, disk, strays, faults>>

\* A sample or an epoch, written at once or not.
Record(t) == \E rowsOk, summaryOk \in BOOLEAN :
    LET s == job[t].own IN
    /\ job[t].pc = "apply"
    /\ session' = [session EXCEPT ![s] = After([@ EXCEPT
           !.started = TRUE, !.stale = FALSE, !.old = FALSE,
           !.unsaved = session[s].unsaved \/ ~session[s].retired,
           !.lost = session[s].lost \/ (session[s].flushed /\ ~session[s].retired),
           !.fresh = session[s].fresh /\ session[s].begun], rowsOk)]
    /\ AppendRows(s, rowsOk) /\ PersistSummary(s, summaryOk)
    /\ job' = [job EXCEPT ![t] = Resting]
    /\ UNCHANGED <<live, archiving, made, archived, strays, faults>>

Heartbeat(t) ==
    LET s == job[t].own IN
    /\ job[t].pc = "apply" /\ session[s].training
    /\ session' = [session EXCEPT ![s].stale = FALSE, ![s].old = FALSE]
    /\ job' = [job EXCEPT ![t] = Resting]
    /\ UNCHANGED <<live, archiving, made, disk, strays, faults>>

End(t) == \E rowsOk, summaryOk \in BOOLEAN :
    LET s == job[t].own IN
    /\ job[t].pc = "apply"
    /\ session' = [session EXCEPT ![s] = After([@ EXCEPT !.training = FALSE], rowsOk)]
    /\ AppendRows(s, rowsOk) /\ PersistSummary(s, summaryOk)
    /\ job' = [job EXCEPT ![t] = Resting]
    /\ UNCHANGED <<live, archiving, made, archived, strays, faults>>

-----------------------------------------------------------------------------
(* POST /control/flush and /control/clear *)

\* flush_to_disk reads enable_persistence without the lock.
MayFlush(t) ==
    /\ job[t].pc = "apply" /\ ~session[job[t].own].retired
    /\ job' = [job EXCEPT ![t].pc = "flush"]
    /\ UNCHANGED <<live, archiving, session, made, disk, strays, faults>>

\* The service may have been retired since: its records stay out, its summary does
\* not.
ControlFlush(t) == \E summaryOk, rowsOk \in BOOLEAN :
    LET s == job[t].own IN
    /\ job[t].pc = "flush"
    /\ flush_to_disk(s, summaryOk, rowsOk)
    /\ session' = [session EXCEPT ![s] = After(@, rowsOk)]
    /\ strays' = IF summaryOk /\ session[s].retired THEN strays \cup {s} ELSE strays
    /\ job' = [job EXCEPT ![t] = Resting]
    /\ UNCHANGED <<live, archiving, made, archived, faults>>

\* clear_history: what was not written is given up.
ControlClear(t) == \E summaryOk \in BOOLEAN :
    LET s == job[t].own IN
    /\ job[t].pc = "apply"
    /\ session' = [session EXCEPT ![s].unsaved = FALSE, ![s].lost = FALSE]
    /\ PersistSummary(s, summaryOk)
    /\ job' = [job EXCEPT ![t] = Resting]
    /\ UNCHANGED <<live, archiving, made, rows, archived, strays, faults>>

-----------------------------------------------------------------------------
(* Time, the sweep, faults *)

\* No event for staleness_threshold_seconds, or for the time to live.
GoStale(s) ==
    /\ s \in Live /\ session[s].training /\ ~session[s].stale
    /\ session' = [session EXCEPT ![s].stale = TRUE]
    /\ UNCHANGED <<live, archiving, made, job, disk, strays, faults>>

Age(s) ==
    /\ s \in Live /\ Replaceable(s) /\ ~session[s].old
    /\ session' = [session EXCEPT ![s].old = TRUE]
    /\ UNCHANGED <<live, archiving, made, job, disk, strays, faults>>

Sweep ==
    /\ job[Sweeper].pc = "idle" /\ Expired # {}
    /\ Detach(Sweeper, Expired, Without(Expired), Resting)
    /\ UNCHANGED <<session, made, disk, strays, faults>>

\* The disk stays; the sessions are gone.
Crash ==
    /\ faults < MaxFaults /\ faults' = faults + 1
    /\ live' = [k \in Key |-> None]
    /\ archiving' = {}
    /\ job' = [w \in Worker |-> Resting]
    /\ session' = [s \in Session |->
           [Unmade EXCEPT !.key = session[s].key, !.saved = session[s].saved,
                          !.fresh = session[s].fresh]]
    /\ UNCHANGED <<made, disk, strays>>

-----------------------------------------------------------------------------
Init ==
    /\ live = [k \in Key |-> None]
    /\ archiving = {}
    /\ session = [s \in Session |-> Unmade]
    /\ made = 0
    /\ job = [w \in Worker |-> Resting]
    /\ rows = [k \in Key |-> {}]
    /\ archived = {}
    /\ summary = [k \in Key |-> None]
    /\ strays = {}
    /\ faults = 0

Archive(w) == Flush(w) \/ Retire(w) \/ Rename(w) \/ Release(w)

Request(t) == \E k \in Key : StartRequest(t, k) \/ Resolve(t, k)

Serve(t) ==
    \/ Decide(t) \/ Begin(t) \/ Record(t) \/ Heartbeat(t) \/ End(t)
    \/ MayFlush(t) \/ ControlFlush(t) \/ ControlClear(t)

Next ==
    \/ \E t \in Thread : Request(t) \/ Serve(t)
    \/ \E w \in Worker : Archive(w)
    \/ \E s \in Session : GoStale(s) \/ Age(s)
    \/ Sweep
    \/ Crash

Spec == Init /\ [][Next]_vars

-----------------------------------------------------------------------------
(* Properties *)

\* The map, the keys being archived and the threads fit together: no more than
\* MaxLive sessions, each under its own key, and a session that is being archived
\* is in no thread's hands twice.
TypeOK ==
    /\ made \in 0..MaxSessions
    /\ Cardinality(Live) <= MaxLive
    /\ \A k \in Key : live[k] # None => session[live[k]].key = k
    /\ \A v, w \in Worker : v # w => job[v].pending \cap job[w].pending = {}
    /\ \A w \in Worker : job[w].pending \cap Live = {}

Starting(t) == job[t].pc = "begin" \/ job[t].then = "begin"

\* Two starts are never given the same session, however they race with each
\* other, with the sweep and with archiving (SessionEntry.claimed).
GivenOnce == \A t, u \in Thread :
    t # u /\ Starting(t) /\ Starting(u) => job[t].own # job[u].own

\* The session a start was given stays in the map until the start is answered,
\* whatever other starts, the sweep or a full map do meanwhile; unless the key
\* had data of an earlier session, or an event for the key came in between.
GivenIsLive == \A t \in Thread :
    Starting(t) /\ session[job[t].own].fresh =>
        live[session[job[t].own].key] = job[t].own

\* Records that were written are never lost: they are under the session's key or
\* an archived one.  Nothing recorded is left in memory by a retirement, whichever
\* earlier writes failed, but what its own last flush failed to write and what was
\* recorded between that flush and the retirement.
RecordsAreKept == \A s \in Session :
    /\ session[s].saved => s \in rows[session[s].key] \cup UNION archived
    /\ session[s].retired /\ session[s].unsaved => session[s].lost

\* A new session does not mix its records with those of the session before it,
\* unless it began with that session's data (after a restart, or see
\* NeverSharesFiles): late events and flushes of the old one land nowhere else.
\* Nor is an older session's summary found under its key, unless a flush that
\* was under way when that session was retired put it there.
DataStaysApart ==
    /\ \A place \in archived \cup {rows[k] : k \in Key} :
         Cardinality(place) > 1 => \E s \in place : ~session[s].fresh
    /\ \A k \in Key : live[k] # None /\ session[live[k]].fresh =>
         summary[k] \in {None, live[k]} \cup strays

\* A key that is being archived is in the hands of a thread that will release
\* it: no start waits for ever for a key (wait_until_not_archiving has no limit).
KeysComeBack == \A k \in archiving : \E w \in Worker :
    job[w].pc = "archive" /\ k \in job[w].detached

\* Without a restart, a session that reuses a key never shares rows or files
\* with the dead run before it (the comment on make_archived_key); here for its
\* records.
NeverSharesFiles == \A place \in archived \cup {rows[k] : k \in Key} :
    Cardinality(place) <= 1
=============================================================================
