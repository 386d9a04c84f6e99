----------------------- MODULE MetricsSessions_proofs -----------------------
(***************************************************************************)
(* Proofs about the live sessions of the metrics server, for any keys, HTTP *)
(* threads, slots, starts and faults.                                       *)
(***************************************************************************)
EXTENDS MetricsSessions, FiniteSetTheorems, TLAPS

-----------------------------------------------------------------------------
(* The shape of the state *)

Fields == {"key", "started", "training", "stale", "old", "claimed", "flushed",
           "retired", "unsaved", "begun", "saved", "lost", "fresh"}

Job(j) ==
    /\ DOMAIN j = {"pc", "key", "pending", "detached", "then", "own"}
    /\ j.pc \in {"idle", "start", "archive", "begin", "apply", "flush"}
    /\ j.then \in {"idle", "start", "begin"}
    /\ j.pending \subseteq Session /\ j.detached \subseteq Key

\* The keys of the sessions in S.
Keys(S) == {session[s].key : s \in S}

Sessions ==
    /\ DOMAIN session = Session
    /\ \A s \in Session : DOMAIN session[s] = Fields /\ session[s].key \in Key \cup {NoKey}

\* A thread holds sessions to archive, and owns keys, only while it archives; who
\* is given a session, or resolved one, has one that was made.
Jobs ==
    /\ DOMAIN job = Worker
    /\ \A w \in Worker :
          /\ Job(job[w])
          /\ job[w].pending # {} \/ job[w].detached # {} => job[w].pc = "archive"
          /\ job[w].pending \subseteq 1..made
          /\ job[w].then = "begin" => job[w].pc \in {"archive", "begin"}
          /\ job[w].pc = "begin" => job[w].then = "begin"
          /\ job[w].then = "begin" \/ job[w].pc \in {"apply", "flush"} => job[w].own \in 1..made
          /\ job[w].pc = "start" \/ job[w].then = "start" => job[w].key \in Key

Places ==
    /\ made \in 0..MaxSessions
    /\ live \in [Key -> 0..made]
    /\ archiving \subseteq Key
    /\ rows \in [Key -> SUBSET (1..made)]
    /\ archived \subseteq SUBSET (1..made)
    /\ summary \in [Key -> 0..made]

\* A session keeps its key: it is live under it, and writes under it; the live
\* one is the last that was made.
KeyInv ==
    /\ \A s \in 1..made : session[s].key \in Key
    /\ \A k \in Key : live[k] # None => session[live[k]].key = k
    /\ \A k \in Key : live[k] # None =>
          \A r \in 1..made : session[r].key = k => r <= live[k]
    /\ \A k \in Key : \A s \in rows[k] : session[s].key = k
    /\ \A k \in Key : summary[k] # None => session[summary[k]].key = k

Base == Sessions /\ Jobs /\ Places /\ KeyInv

-----------------------------------------------------------------------------
(* The steps that take sessions out of the map *)

\* A start that is refused or tries again, and the sweep: finished and stale
\* sessions go, and the thread has them to archive.
Dropping(w, gone) ==
    /\ gone \subseteq Live /\ \A g \in gone : Replaceable(g)
    /\ job[w].pc \in {"idle", "start"}
    /\ live' = Without(gone)
    /\ archiving' = archiving \cup Keys(gone)
    /\ job' = [job EXCEPT ![w] = job'[w]] /\ Job(job'[w])
    /\ job'[w].pending = gone /\ job'[w].detached = Keys(gone)
    /\ job'[w].pc = IF gone = {} THEN job'[w].then ELSE "archive"
    /\ job'[w].then # "begin"
    /\ job'[w].then = "start" => job'[w].key \in Key
    /\ UNCHANGED <<session, made, disk, strays, faults>>

\* A start that makes a session under k.
Creating(w, k, gone) ==
    /\ gone \subseteq Live /\ \A g \in gone : Replaceable(g)
    /\ live[k] \in gone \cup {None}
    /\ job[w].pc \in {"idle", "start"}
    /\ Expired \subseteq gone /\ gone \ Expired \in Room(k)
    /\ made < MaxSessions /\ made' = made + 1
    /\ live' = [Without(gone) EXCEPT ![k] = made + 1]
    /\ archiving' = archiving \cup Keys(gone)
    /\ job' = [job EXCEPT ![w] = job'[w]] /\ Job(job'[w])
    /\ job'[w].pending = gone /\ job'[w].detached = Keys(gone)
    /\ job'[w].pc = IF gone = {} THEN "begin" ELSE "archive"
    /\ job'[w].then = "begin" /\ job'[w].own = made + 1
    /\ session' = [session EXCEPT ![made + 1] = session'[made + 1]]
    /\ DOMAIN session'[made + 1] = Fields
    /\ session'[made + 1].key = k
    /\ session'[made + 1].begun = FALSE /\ session'[made + 1].saved = FALSE
    /\ session'[made + 1].unsaved = FALSE
    /\ session'[made + 1].retired = FALSE /\ session'[made + 1].flushed = FALSE
    /\ session'[made + 1].fresh =>
          /\ session'[made + 1].started = FALSE
          /\ rows[k] = {} /\ summary[k] = None
          /\ k \notin BeingArchived /\ k \notin Keys(gone)
    /\ UNCHANGED <<disk, strays, faults>>

\* What is live was made.
LEMMA SessionIn == ASSUME Places PROVE
        /\ made \in Nat /\ 1..made \subseteq Session /\ Live \subseteq 1..made
        /\ \A n \in 0..made : n \in 0..MaxSessions
  BY MetricsSessionsAssumption DEF Places, Session, Live, None

\* Live sessions have keys.
LEMMA LiveKeys ==
    ASSUME Base, NEW gone, gone \subseteq Live
    PROVE  Keys(gone) \subseteq Key
  BY SessionIn DEF Base, KeyInv, Keys

\* One look of a start at the map takes sessions out, or makes one as well.
LEMMA DecideIs ==
    ASSUME Base, NEW t \in Thread, Decide(t)
    PROVE  \E gone : Dropping(t, gone) \/ \E k \in Key : Creating(t, k, gone)
  <1> DEFINE k == job[t].key
  <1> USE MetricsSessionsAssumption
  <1>1. /\ t \in Worker /\ k \in Key /\ Job(job[t])
        /\ job[t].pending = {} /\ job[t].detached = {} /\ job[t].then # "begin"
        /\ job[t].pc = "start"
    BY DEF Decide, Base, Sessions, Jobs, Places, Worker
  <1>2. Expired \subseteq Live /\ \A g \in Expired : Replaceable(g)
    BY DEF Expired
  <1>3. live[k] \in Live \cup {None} /\ live[k] \in 0..made
    BY <1>1 DEF Live, Base, Sessions, Jobs, Places
  <1>4. CASE Replace(t, k)
    <2> DEFINE gone == Expired \cup {live[k]}
               next == [job[t] EXCEPT !.then = "start"]
    <2>1. gone \subseteq Live /\ (\A g \in gone : Replaceable(g)) /\ gone # {}
      BY <1>2, <1>3, <1>4 DEF Replace
    <2>2. Keys(gone) \subseteq Key /\ gone \subseteq Session
      BY <2>1, LiveKeys, SessionIn DEF Base
    <2>3. /\ live' = Without(gone)
          /\ archiving' = archiving \cup Keys(gone)
          /\ job' = [job EXCEPT ![t] = [next EXCEPT !.pc = "archive", !.pending = gone,
                                                    !.detached = Keys(gone)]]
          /\ UNCHANGED <<session, made, disk, strays, faults>>
      BY <1>4, <2>1 DEF Replace, Detach, Keys, Decide
    <2>4. Dropping(t, gone)
      BY <1>1, <2>1, <2>2, <2>3 DEF Dropping, Job, Base, Sessions, Jobs, Places
    <2> QED BY <2>4
  <1>5. CASE Refuse(t, k) \/ Full(t, k)
    <2> DEFINE gone == Expired
    <2>2. Keys(gone) \subseteq Key /\ gone \subseteq Session
      BY <1>2, LiveKeys, SessionIn DEF Base
    <2>3. /\ live' = Without(gone)
          /\ archiving' = archiving \cup Keys(gone)
          /\ job' = [job EXCEPT ![t] =
               IF gone = {} THEN [Resting EXCEPT !.pc = "idle"]
               ELSE [Resting EXCEPT !.pc = "archive", !.pending = gone, !.detached = Keys(gone)]]
          /\ UNCHANGED <<session, made, disk, strays, faults>>
      BY <1>5 DEF Refuse, Full, Detach, Keys, Decide, Resting
    <2>4. /\ job' = [job EXCEPT ![t] = job'[t]] /\ Job(job'[t])
          /\ job'[t].pending = gone /\ job'[t].detached = Keys(gone)
          /\ job'[t].pc = IF gone = {} THEN job'[t].then ELSE "archive"
          /\ job'[t].then = "idle"
      <3>1. CASE gone = {}
        <4>1. Keys(gone) = {}
          BY <3>1 DEF Keys
        <4>2. job' = [job EXCEPT ![t] = [Resting EXCEPT !.pc = "idle"]]
          BY <2>3, <3>1
        <4> HIDE DEF gone
        <4> QED BY <1>1, <3>1, <4>1, <4>2 DEF Job, Base, Sessions, Jobs, Places, Resting, None
      <3>2. CASE gone # {}
        <4>1. job' = [job EXCEPT ![t] =
                 [Resting EXCEPT !.pc = "archive", !.pending = gone, !.detached = Keys(gone)]]
          BY <2>3, <3>2
        <4> HIDE DEF gone
        <4>2. job'[t] = [Resting EXCEPT !.pc = "archive", !.pending = gone, !.detached = Keys(gone)]
          BY <1>1, <4>1 DEF Base, Sessions, Jobs, Places
        <4> QED BY <1>1, <2>2, <3>2, <4>1, <4>2 DEF Job, Base, Sessions, Jobs, Places, Resting
      <3> QED BY <3>1, <3>2
    <2>5. Dropping(t, gone)
      BY <1>1, <1>2, <2>3, <2>4 DEF Dropping
    <2> QED BY <2>5
  <1>6. CASE Create(t, k)
    <2> DEFINE next == [job[t] EXCEPT !.then = "begin", !.own = made + 1]
    <2>1. PICK victim \in Room(k), restored \in BOOLEAN :
            LET gone == Expired \cup victim IN
            /\ restored => rows[k] # {} \/ summary[k] # None
            /\ Detach(t, gone, [Without(gone) EXCEPT ![k] = made + 1], next)
            /\ session' = [session EXCEPT ![made + 1] = [Unmade EXCEPT
                !.key = k, !.started = restored, !.claimed = TRUE,
                !.fresh = /\ rows[k] = {} /\ summary[k] = None
                          /\ k \notin BeingArchived
                          /\ \A g \in gone : session[g].key # k]]
      BY <1>6 DEF Create
    <2> DEFINE gone == Expired \cup victim
    <2>2. /\ gone \subseteq Live /\ \A g \in gone : Replaceable(g)
          /\ victim \cap Expired = {}
      BY <1>2 DEF Room
    <2>3. Keys(gone) \subseteq Key /\ gone \subseteq Session
      BY <2>2, LiveKeys, SessionIn DEF Base
    <2>4. /\ made < MaxSessions /\ made' = made + 1 /\ live[k] \in gone \cup {None}
          /\ made + 1 \in Session /\ made + 1 \in 0..MaxSessions
          /\ UNCHANGED <<disk, strays, faults>>
      <3>1. made < MaxSessions /\ made' = made + 1 /\ live[k] \in gone \cup {None}
        BY <1>6 DEF Create
      <3> QED BY <3>1, SessionIn DEF Decide, Base, Session
    <2>5. /\ live' = [Without(gone) EXCEPT ![k] = made + 1]
          /\ archiving' = archiving \cup Keys(gone)
          /\ job' = [job EXCEPT ![t] =
               IF gone = {} THEN [next EXCEPT !.pc = "begin"]
               ELSE [next EXCEPT !.pc = "archive", !.pending = gone, !.detached = Keys(gone)]]
      BY <1>1, <2>1 DEF Detach, Keys, Job
    <2>6. /\ session' = [session EXCEPT ![made + 1] = session'[made + 1]]
          /\ DOMAIN session'[made + 1] = Fields
          /\ session'[made + 1].key = k
          /\ session'[made + 1].begun = FALSE /\ session'[made + 1].saved = FALSE
          /\ session'[made + 1].unsaved = FALSE
          /\ session'[made + 1].retired = FALSE /\ session'[made + 1].flushed = FALSE
          /\ session'[made + 1].fresh =>
                /\ session'[made + 1].started = FALSE
                /\ rows[k] = {} /\ summary[k] = None
                /\ k \notin BeingArchived /\ k \notin Keys(gone)
      BY <2>1, <2>4 DEF Unmade, Base, Sessions, Jobs, Places, Fields, Keys
    <2>7. /\ job' = [job EXCEPT ![t] = job'[t]] /\ Job(job'[t])
          /\ job'[t].pending = gone /\ job'[t].detached = Keys(gone)
          /\ job'[t].pc = IF gone = {} THEN "begin" ELSE "archive"
          /\ job'[t].then = "begin" /\ job'[t].own = made + 1
      <3>1. CASE gone = {}
        <4>1. Keys(gone) = {}
          BY <3>1 DEF Keys
        <4>2. job' = [job EXCEPT ![t] = [next EXCEPT !.pc = "begin"]]
          BY <2>5, <3>1
        <4> HIDE DEF gone
        <4> QED BY <1>1, <2>4, <3>1, <4>1, <4>2 DEF Job, Base, Sessions, Jobs, Places
      <3>2. CASE gone # {}
        BY <1>1, <2>3, <2>4, <2>5, <3>2 DEF Job, Base, Sessions, Jobs, Places
      <3> QED BY <3>1, <3>2
    <2>8. Creating(t, k, gone)
      BY <1>1, <2>2, <2>4, <2>5, <2>6, <2>7 DEF Creating
    <2> QED BY <1>1, <2>8
  <1> QED BY <1>4, <1>5, <1>6 DEF Decide

\* The steps by which a thread is done with the service it holds.
Answering(t) ==
    \/ Begin(t) \/ Record(t) \/ Heartbeat(t) \/ End(t)
    \/ ControlFlush(t) \/ ControlClear(t)

\* The steps of Next that take no session out of the map.
Quiet ==
    \/ \E w \in Worker : Archive(w)
    \/ \E t \in Thread : Request(t) \/ MayFlush(t) \/ Answering(t)
    \/ \E s \in Session : GoStale(s) \/ Age(s)
    \/ UNCHANGED vars

\* Every step is one of these.
LEMMA StepIs ==
    ASSUME Base, [Next]_vars
    PROVE  \/ \E w \in Worker : \E gone : Dropping(w, gone)
           \/ \E w \in Thread, k \in Key : \E gone : Creating(w, k, gone)
           \/ Quiet
           \/ Crash
  <1>1. CASE \E t \in Thread : Decide(t)
    BY <1>1, DecideIs DEF Worker
  <1>2. CASE Sweep
    <2> DEFINE gone == Expired
    <2>1. gone \subseteq Live /\ (\A g \in gone : Replaceable(g)) /\ gone # {}
      BY <1>2 DEF Expired, Sweep
    <2>2. Keys(gone) \subseteq Key /\ gone \subseteq Session
      BY <2>1, LiveKeys, SessionIn DEF Base
    <2>3. /\ live' = Without(gone)
          /\ archiving' = archiving \cup Keys(gone)
          /\ job' = [job EXCEPT ![Sweeper] = [Resting EXCEPT !.pc = "archive", !.pending = gone,
                                                    !.detached = Keys(gone)]]
          /\ job[Sweeper].pc \in {"idle", "start"}
          /\ UNCHANGED <<session, made, disk, strays, faults>>
      BY <1>2, <2>1 DEF Sweep, Detach, Keys
    <2>4. Dropping(Sweeper, gone)
      <3> HIDE DEF gone
      <3>1. job'[Sweeper] = [Resting EXCEPT !.pc = "archive", !.pending = gone, !.detached = Keys(gone)]
        BY <2>3 DEF Base, Sessions, Jobs, Places, Worker
      <3>2. /\ Job(job'[Sweeper])
            /\ job'[Sweeper].pending = gone /\ job'[Sweeper].detached = Keys(gone)
            /\ job'[Sweeper].pc = "archive" /\ job'[Sweeper].then = "idle"
        BY <2>2, <3>1 DEF Job, Resting
      <3> QED BY <2>1, <2>3, <3>1, <3>2 DEF Dropping
    <2> QED BY <2>4 DEF Worker
  <1> QED BY <1>1, <1>2 DEF Next, Quiet, Serve, Answering

-----------------------------------------------------------------------------
(* What a step does to the service it is about *)

\* persist_metrics touches only what is written of the records.
LEMMA AfterIs ==
    ASSUME NEW v, DOMAIN v = Fields, NEW ok \in BOOLEAN
    PROVE  /\ DOMAIN After(v, ok) = Fields
           /\ \A f \in Fields \ {"saved", "unsaved", "lost"} : After(v, ok)[f] = v[f]
           /\ After(v, ok).saved => v.saved \/ (ok /\ ~v.retired)
           /\ (v.unsaved => v.lost) => (After(v, ok).unsaved => After(v, ok).lost)
  BY DEF After, Fields

\* What a write may have done.
Appended(s) == /\ rows' = [k \in Key |-> rows'[k]]
               /\ \A k \in Key : \/ rows'[k] = rows[k]
                                  \/ /\ k = session[s].key /\ ~session[s].retired
                                     /\ rows'[k] = rows[k] \cup {s}

Summed(s) == \/ summary' = summary
             \/ summary' = [summary EXCEPT ![session[s].key] = s]

\* A service that is told something keeps its key, its retirement and its last
\* flush; it writes under its key, its records only before it is retired.
LEMMA AnsweringIs ==
    ASSUME Base, NEW t \in Thread, Answering(t)
    PROVE  LET s == job[t].own IN
           /\ t \in Worker /\ s \in 1..made /\ s \in Session
           /\ job[t].pc \in {"begin", "apply", "flush"}
           /\ job' = [job EXCEPT ![t] = Resting]
           /\ UNCHANGED <<live, archiving, made, archived, faults>>
           /\ DOMAIN session' = Session /\ DOMAIN session'[s] = Fields
           /\ \A r \in Session : r # s => session'[r] = session[r]
           /\ \A f \in {"key", "flushed", "retired"} : session'[s][f] = session[s][f]
           /\ session'[s].fresh => session[s].fresh
           /\ job[t].pc = "begin" \/ session'[s].begun = session[s].begun
           /\ \/ job[t].pc = "begin" \/ session'[s].started = session[s].started
              \/ session'[s].fresh => session[s].begun
           /\ (session[s].flushed /\ session[s].unsaved => session[s].lost) =>
                 (session[s].flushed /\ session'[s].unsaved => session'[s].lost)
           /\ session'[s].saved => session[s].saved \/ s \in rows'[session[s].key]
           /\ Appended(s) /\ Summed(s)
           /\ strays \subseteq strays'
           /\ session[s].retired => summary' = summary \/ s \in strays'
  <1> DEFINE s == job[t].own
  <1> USE SessionIn DEF Base
  <1>1. /\ t \in Worker /\ s \in 1..made /\ s \in Session
        /\ job[t].pc \in {"begin", "apply", "flush"}
    BY DEF Answering, Begin, Record, Heartbeat, End, ControlFlush, ControlClear, Jobs, Worker
  <1>2. DOMAIN session = Session /\ DOMAIN session[s] = Fields /\ session[s].key \in Key
    BY <1>1 DEF Sessions, KeyInv
  <1>3. rows \in [Key -> SUBSET (1..made)] /\ summary \in [Key -> 0..made]
    BY DEF Places
  <1> HIDE DEF Base
  <1>4. ASSUME NEW ok \in BOOLEAN, AppendRows(s, ok)
        PROVE  Appended(s) /\ (ok /\ ~session[s].retired => s \in rows'[session[s].key])
    BY <1>2, <1>3, <1>4 DEF AppendRows, Appended
  <1>5. rows' = rows => Appended(s)
    BY <1>3 DEF Appended
  <1>6. ASSUME NEW ok \in BOOLEAN, PersistSummary(s, ok)
        PROVE  Summed(s) /\ (session[s].retired => summary' = summary)
    BY <1>6 DEF PersistSummary, WriteSummary, Summed
  <1>7. summary' = summary => Summed(s)
    BY DEF Summed
  <1>8. ASSUME NEW v, DOMAIN v = Fields, session' = [session EXCEPT ![s] = v]
        PROVE  /\ DOMAIN session' = Session /\ session'[s] = v
               /\ \A r \in Session : r # s => session'[r] = session[r]
    BY <1>1, <1>2, <1>8
  <1>10. CASE Begin(t)
    <2> DEFINE v == [session[s] EXCEPT !.started = TRUE, !.training = TRUE, !.stale = FALSE,
                                       !.old = FALSE, !.begun = TRUE]
    <2>1. PICK ok \in BOOLEAN : AppendRows(s, ok)
      BY <1>10 DEF Begin
    <2>2. /\ DOMAIN v = Fields
          /\ \A f \in {"key", "flushed", "retired", "fresh", "unsaved", "lost", "saved"} :
                v[f] = session[s][f]
      BY <1>2 DEF Fields
    <2>3. /\ job[t].pc = "begin" /\ session' = [session EXCEPT ![s] = v]
          /\ job' = [job EXCEPT ![t] = Resting]
          /\ UNCHANGED <<live, archiving, made, archived, summary, strays, faults>>
      BY <1>10 DEF Begin
    <2> HIDE DEF v
    <2> QED BY <1>1, <1>4, <1>7, <1>8, <2>1, <2>2, <2>3
  <1>11. CASE Record(t)
    <2>1. PICK rowsOk \in BOOLEAN, summaryOk \in BOOLEAN :
            /\ AppendRows(s, rowsOk) /\ PersistSummary(s, summaryOk)
            /\ session' = [session EXCEPT ![s] = After([session[s] EXCEPT
                  !.started = TRUE, !.stale = FALSE, !.old = FALSE,
                  !.unsaved = session[s].unsaved \/ ~session[s].retired,
                  !.lost = session[s].lost \/ (session[s].flushed /\ ~session[s].retired),
                  !.fresh = session[s].fresh /\ session[s].begun], rowsOk)]
      BY <1>11 DEF Record
    <2> DEFINE v == [session[s] EXCEPT
                  !.started = TRUE, !.stale = FALSE, !.old = FALSE,
                  !.unsaved = session[s].unsaved \/ ~session[s].retired,
                  !.lost = session[s].lost \/ (session[s].flushed /\ ~session[s].retired),
                  !.fresh = session[s].fresh /\ session[s].begun]
    <2>2. /\ DOMAIN v = Fields
          /\ \A f \in {"key", "flushed", "retired", "begun", "saved"} : v[f] = session[s][f]
          /\ v.fresh => session[s].fresh /\ session[s].begun
          /\ (session[s].flushed /\ session[s].unsaved => session[s].lost) =>
                (session[s].flushed /\ v.unsaved => v.lost)
      BY <1>2 DEF Fields
    <2>3. /\ session' = [session EXCEPT ![s] = After(v, rowsOk)]
          /\ job' = [job EXCEPT ![t] = Resting]
          /\ UNCHANGED <<live, archiving, made, archived, strays, faults>>
      BY <1>11, <2>1 DEF Record
    <2> HIDE DEF v
    <2>4. /\ DOMAIN After(v, rowsOk) = Fields
          /\ \A f \in {"key", "flushed", "retired", "begun", "fresh"} : After(v, rowsOk)[f] = v[f]
          /\ After(v, rowsOk).saved => v.saved \/ (rowsOk /\ ~v.retired)
          /\ (v.unsaved => v.lost) => (After(v, rowsOk).unsaved => After(v, rowsOk).lost)
      BY <2>2, AfterIs DEF Fields
    <2>5. /\ DOMAIN session' = Session /\ session'[s] = After(v, rowsOk)
          /\ \A r \in Session : r # s => session'[r] = session[r]
      BY <1>8, <2>3, <2>4
    <2>6. /\ Appended(s) /\ Summed(s)
          /\ rowsOk /\ ~session[s].retired => s \in rows'[session[s].key]
          /\ session[s].retired => summary' = summary
      BY <1>4, <1>6, <2>1
    <2>7. \A f \in {"key", "flushed", "retired", "begun"} : session'[s][f] = session[s][f]
      BY <2>2, <2>4, <2>5
    <2>8. session'[s].fresh => session[s].fresh /\ session[s].begun
      BY <2>2, <2>4, <2>5
    <2>9. session'[s].saved => session[s].saved \/ s \in rows'[session[s].key]
      BY <2>2, <2>4, <2>5, <2>6
    <2>10. (session[s].flushed /\ session[s].unsaved => session[s].lost) =>
                (session[s].flushed /\ session'[s].unsaved => session'[s].lost)
      BY <2>2, <2>4, <2>5
    <2> QED BY <1>1, <2>3, <2>4, <2>5, <2>6, <2>7, <2>8, <2>9, <2>10
  <1>12. CASE Heartbeat(t)
    <2> DEFINE v == [session[s] EXCEPT !.stale = FALSE, !.old = FALSE]
    <2>1. /\ DOMAIN v = Fields
          /\ \A f \in Fields \ {"stale", "old"} : v[f] = session[s][f]
      BY <1>2 DEF Fields
    <2>2. /\ session' = [session EXCEPT ![s] = v]
          /\ job' = [job EXCEPT ![t] = Resting]
          /\ UNCHANGED <<live, archiving, made, rows, summary, archived, strays, faults>>
      BY <1>12, <1>1, <1>2 DEF Heartbeat, disk
    <2> HIDE DEF v
    <2> QED BY <1>1, <1>5, <1>7, <1>8, <2>1, <2>2 DEF Fields
  <1>13. CASE End(t)
    <2>1. PICK rowsOk \in BOOLEAN, summaryOk \in BOOLEAN :
            /\ AppendRows(s, rowsOk) /\ PersistSummary(s, summaryOk)
            /\ session' = [session EXCEPT ![s] = After([session[s] EXCEPT !.training = FALSE], rowsOk)]
      BY <1>13 DEF End
    <2> DEFINE v == [session[s] EXCEPT !.training = FALSE]
    <2>2. /\ DOMAIN v = Fields
          /\ \A f \in Fields \ {"training"} : v[f] = session[s][f]
      BY <1>2 DEF Fields
    <2>3. /\ session' = [session EXCEPT ![s] = After(v, rowsOk)]
          /\ job' = [job EXCEPT ![t] = Resting]
          /\ UNCHANGED <<live, archiving, made, archived, strays, faults>>
      BY <1>13, <2>1 DEF End
    <2> HIDE DEF v
    <2>4. /\ DOMAIN After(v, rowsOk) = Fields
          /\ \A f \in Fields \ {"saved", "unsaved", "lost"} : After(v, rowsOk)[f] = v[f]
          /\ After(v, rowsOk).saved => v.saved \/ (rowsOk /\ ~v.retired)
          /\ (v.unsaved => v.lost) => (After(v, rowsOk).unsaved => After(v, rowsOk).lost)
      BY <2>2, AfterIs
    <2> QED BY <1>1, <1>4, <1>6, <1>8, <2>1, <2>2, <2>3, <2>4 DEF Fields
  <1>14. CASE ControlFlush(t)
    <2>1. PICK summaryOk \in BOOLEAN, rowsOk \in BOOLEAN :
            /\ flush_to_disk(s, summaryOk, rowsOk)
            /\ session' = [session EXCEPT ![s] = After(session[s], rowsOk)]
            /\ strays' = IF summaryOk /\ session[s].retired THEN strays \cup {s} ELSE strays
      BY <1>14 DEF ControlFlush
    <2>2. /\ job' = [job EXCEPT ![t] = Resting]
          /\ UNCHANGED <<live, archiving, made, archived, faults>>
      BY <1>14 DEF ControlFlush
    <2>3. /\ AppendRows(s, rowsOk) /\ Summed(s) /\ strays \subseteq strays'
          /\ session[s].retired => summary' = summary \/ s \in strays'
      BY <2>1 DEF flush_to_disk, WriteSummary, Summed
    <2>4. /\ DOMAIN After(session[s], rowsOk) = Fields
          /\ \A f \in Fields \ {"saved", "unsaved", "lost"} :
                After(session[s], rowsOk)[f] = session[s][f]
          /\ After(session[s], rowsOk).saved => session[s].saved \/ (rowsOk /\ ~session[s].retired)
          /\ (session[s].unsaved => session[s].lost) =>
                (After(session[s], rowsOk).unsaved => After(session[s], rowsOk).lost)
      BY <1>2, AfterIs
    <2> QED BY <1>1, <1>4, <1>8, <2>1, <2>2, <2>3, <2>4 DEF Fields
  <1>15. CASE ControlClear(t)
    <2> DEFINE v == [session[s] EXCEPT !.unsaved = FALSE, !.lost = FALSE]
    <2>1. PICK summaryOk \in BOOLEAN : PersistSummary(s, summaryOk)
      BY <1>15 DEF ControlClear
    <2>2. /\ DOMAIN v = Fields /\ v.unsaved = FALSE
          /\ \A f \in Fields \ {"unsaved", "lost"} : v[f] = session[s][f]
      BY <1>2 DEF Fields
    <2>3. /\ session' = [session EXCEPT ![s] = v]
          /\ job' = [job EXCEPT ![t] = Resting]
          /\ UNCHANGED <<live, archiving, made, rows, archived, strays, faults>>
      BY <1>15, <1>1, <1>2 DEF ControlClear
    <2> HIDE DEF v
    <2> QED BY <1>1, <1>5, <1>6, <1>8, <2>1, <2>2, <2>3 DEF Fields
  <1> QED BY <1>10, <1>11, <1>12, <1>13, <1>14, <1>15 DEF Answering

\* The last flush, of a session that is not retired yet.
LEMMA FlushIs ==
    ASSUME Base, NEW w \in Worker, Flush(w)
    PROVE  \E s \in job[w].pending :
           /\ s \in 1..made /\ s \in Session /\ ~session[s].flushed
           /\ UNCHANGED <<live, archiving, made, job, archived, strays, faults>>
           /\ DOMAIN session' = Session /\ DOMAIN session'[s] = Fields
           /\ \A r \in Session : r # s => session'[r] = session[r]
           /\ \A f \in {"key", "retired", "fresh", "begun", "started"} :
                 session'[s][f] = session[s][f]
           /\ session'[s].flushed
           /\ session'[s].unsaved => session'[s].lost
           /\ session'[s].saved => session[s].saved \/ s \in rows'[session[s].key]
           /\ Appended(s) /\ Summed(s)
  <1> USE SessionIn DEF Base
  <1>1. PICK s \in job[w].pending : \E summaryOk, rowsOk \in BOOLEAN :
          /\ ~session[s].flushed /\ flush_to_disk(s, summaryOk, rowsOk)
          /\ session' = [session EXCEPT ![s] = After([session[s] EXCEPT
                !.flushed = TRUE, !.lost = session[s].unsaved], rowsOk)]
          /\ UNCHANGED <<live, archiving, made, job, archived, strays, faults>>
    BY DEF Flush
  <1>2. PICK summaryOk \in BOOLEAN, rowsOk \in BOOLEAN :
          /\ flush_to_disk(s, summaryOk, rowsOk)
          /\ session' = [session EXCEPT ![s] = After([session[s] EXCEPT
                !.flushed = TRUE, !.lost = session[s].unsaved], rowsOk)]
    BY <1>1
  <1>3. /\ s \in 1..made /\ s \in Session /\ session[s].key \in Key
        /\ DOMAIN session = Session /\ DOMAIN session[s] = Fields
    BY DEF Jobs, Sessions, KeyInv
  <1> DEFINE v == [session[s] EXCEPT !.flushed = TRUE, !.lost = session[s].unsaved]
  <1>4. /\ DOMAIN v = Fields /\ v.flushed /\ (v.unsaved => v.lost)
        /\ \A f \in Fields \ {"flushed", "lost"} : v[f] = session[s][f]
    BY <1>3 DEF Fields
  <1>5. session' = [session EXCEPT ![s] = After(v, rowsOk)]
    BY <1>2
  <1> HIDE DEF v
  <1>6. /\ DOMAIN After(v, rowsOk) = Fields
        /\ \A f \in Fields \ {"saved", "unsaved", "lost"} : After(v, rowsOk)[f] = v[f]
        /\ After(v, rowsOk).saved => v.saved \/ (rowsOk /\ ~v.retired)
        /\ After(v, rowsOk).unsaved => After(v, rowsOk).lost
    BY <1>4, AfterIs
  <1>7. /\ Appended(s) /\ Summed(s)
        /\ rowsOk /\ ~session[s].retired => s \in rows'[session[s].key]
    BY <1>2, <1>3 DEF flush_to_disk, AppendRows, WriteSummary, Appended, Summed, Places
  <1>8. /\ DOMAIN session' = Session /\ session'[s] = After(v, rowsOk)
        /\ \A r \in Session : r # s => session'[r] = session[r]
    BY <1>3, <1>5
  <1> QED BY <1>1, <1>3, <1>4, <1>6, <1>7, <1>8 DEF Fields

\* Both change the disk under one session's key, and nothing but its thread.
LEMMA WritingIs ==
    ASSUME Base, NEW w \in Worker, Flush(w) \/ (w \in Thread /\ Answering(w))
    PROVE  /\ \E s \in 1..made : Appended(s) /\ Summed(s)
           /\ UNCHANGED <<made, live, archiving, archived>>
           /\ \/ UNCHANGED job
              \/ /\ job' = [job EXCEPT ![w] = Resting]
                 /\ w \in Thread /\ job[w].pc \in {"begin", "apply", "flush"}
  <1>1. CASE Flush(w)
    BY <1>1, FlushIs
  <1>2. CASE w \in Thread /\ Answering(w)
    BY <1>2, AnsweringIs
  <1> QED BY <1>1, <1>2

-----------------------------------------------------------------------------
(* The shape is kept *)

\* The server starts without sessions.
LEMMA BaseInit == Init => Base
  BY MetricsSessionsAssumption
     DEF Init, Base, Sessions, Jobs, Places, KeyInv, Job, Resting, Unmade, Fields, Session, None

\* No step changes the key of a session that was made.
LEMMA SessionsStep ==
    ASSUME Base, [Next]_vars
    PROVE  Sessions' /\ \A s \in 1..made : session'[s].key = session[s].key
  <1> USE SessionIn DEF Base, Sessions, Fields
  <1>1. CASE session' = session
    BY <1>1
  <1>2. ASSUME NEW w \in Thread, NEW k \in Key, NEW gone, Creating(w, k, gone)
        PROVE Sessions' /\ \A s \in 1..made : session'[s].key = session[s].key
    BY <1>2 DEF Creating, Places
  <1>3. ASSUME NEW s \in Session, DOMAIN session' = Session, DOMAIN session'[s] = Fields,
               session'[s].key = session[s].key,
               \A r \in Session : r # s => session'[r] = session[r]
        PROVE Sessions' /\ \A r \in 1..made : session'[r].key = session[r].key
    BY <1>3
  <1>4. ASSUME NEW w \in Worker, Flush(w)
        PROVE Sessions' /\ \A s \in 1..made : session'[s].key = session[s].key
    BY <1>3, <1>4, FlushIs
  <1>5. ASSUME NEW w \in Worker, Retire(w)
        PROVE Sessions' /\ \A s \in 1..made : session'[s].key = session[s].key
    BY <1>5 DEF Retire
  <1>6. ASSUME NEW t \in Thread, Answering(t)
        PROVE Sessions' /\ \A s \in 1..made : session'[s].key = session[s].key
    BY <1>3, <1>6, AnsweringIs
  <1>7. ASSUME NEW s \in Session, GoStale(s) \/ Age(s)
        PROVE Sessions' /\ \A r \in 1..made : session'[r].key = session[r].key
    BY <1>7 DEF GoStale, Age
  <1>8. CASE Crash
    BY <1>8 DEF Crash, Unmade
  <1>9. CASE Quiet
    <2>1. ASSUME NEW w \in Worker, Rename(w) \/ Release(w)
          PROVE session' = session
      BY <2>1 DEF Rename, Release
    <2>2. ASSUME NEW t \in Thread, Request(t) \/ MayFlush(t)
          PROVE session' = session
      BY <2>2 DEF Request, StartRequest, Resolve, MayFlush
    <2>3. CASE UNCHANGED vars
      BY <2>3 DEF vars
    <2> QED BY <1>1, <1>3, <1>4, <1>5, <1>6, <1>7, <1>9, <2>1, <2>2, <2>3 DEF Quiet, Archive
  <1> QED BY <1>1, <1>2, <1>8, <1>9, StepIs DEF Dropping

\* Threads keep their shape.
LEMMA JobsStep ==
    ASSUME Base, [Next]_vars
    PROVE  Jobs'
  <1> USE SessionIn DEF Base, Jobs
  <1>1. ASSUME NEW w \in Worker, NEW gone, Dropping(w, gone)
        PROVE  Jobs'
    <2>1. /\ DOMAIN job' = Worker /\ made' = made
          /\ \A v \in Worker : v # w => job'[v] = job[v]
      BY <1>1 DEF Dropping
    <2>2. gone \subseteq 1..made
      BY <1>1 DEF Dropping
    <2>3. gone = {} => Keys(gone) = {}
      BY DEF Keys
    <2>4. /\ Job(job'[w]) /\ job'[w].pending = gone /\ job'[w].detached = Keys(gone)
          /\ job'[w].pc = (IF gone = {} THEN job'[w].then ELSE "archive")
          /\ job'[w].then \in {"idle", "start"}
          /\ job'[w].then = "start" => job'[w].key \in Key
      BY <1>1 DEF Dropping, Job
    <2> QED BY <2>1, <2>2, <2>3, <2>4
  <1>2. ASSUME NEW w \in Thread, NEW k \in Key, NEW gone, Creating(w, k, gone)
        PROVE  Jobs'
    <2>1. /\ DOMAIN job' = Worker /\ made' = made + 1 /\ w \in Worker
          /\ \A v \in Worker : v # w => job'[v] = job[v]
      BY <1>2 DEF Creating, Worker
    <2>2. gone \subseteq 1..made' /\ 1..made \subseteq 1..made' /\ made' \in 1..made'
      BY <1>2, <2>1 DEF Creating
    <2>3. \A v \in Worker : v # w => job[v].pending \subseteq 1..made'
      BY <2>2
    <2>4. \A v \in Worker : v # w /\ job[v].own \in 1..made => job[v].own \in 1..made'
      BY <2>2
    <2>5. /\ Job(job'[w]) /\ job'[w].pending = gone /\ job'[w].detached = Keys(gone)
          /\ job'[w].pc = (IF gone = {} THEN "begin" ELSE "archive")
          /\ job'[w].then = "begin" /\ job'[w].own = made'
      BY <1>2 DEF Creating
    <2> HIDE SessionIn
    <2> SUFFICES ASSUME NEW v \in Worker
                 PROVE  /\ Job(job'[v])
                        /\ job'[v].pending # {} \/ job'[v].detached # {} => job'[v].pc = "archive"
                        /\ job'[v].pending \subseteq 1..made'
                        /\ job'[v].then = "begin" => job'[v].pc \in {"archive", "begin"}
                        /\ job'[v].pc = "begin" => job'[v].then = "begin"
                        /\ job'[v].then = "begin" \/ job'[v].pc \in {"apply", "flush"}
                             => job'[v].own \in 1..made'
                        /\ job'[v].pc = "start" \/ job'[v].then = "start" => job'[v].key \in Key
      BY <2>1
    <2>6. CASE v = w
      <3>1. gone = {} => Keys(gone) = {}
        BY DEF Keys
      <3> QED BY <2>2, <2>5, <2>6, <3>1
    <2>7. CASE v # w
      BY <2>1, <2>3, <2>4, <2>7
    <2> QED BY <2>6, <2>7
  <1>3. ASSUME NEW w \in Worker, Rename(w)
        PROVE  Jobs'
    BY <1>3 DEF Rename, Job
  <1>4. ASSUME NEW w \in Worker, Release(w)
        PROVE  Jobs'
    BY <1>4 DEF Release, Job
  <1>5. ASSUME NEW t \in Thread, NEW k \in Key, StartRequest(t, k)
        PROVE  Jobs'
    BY <1>5 DEF StartRequest, Job, Resting, Worker
  <1>6. ASSUME NEW t \in Thread, NEW k \in Key, Resolve(t, k)
        PROVE  Jobs'
    BY <1>6 DEF Resolve, Job, Resting, Worker, Places, None
  <1>7. ASSUME NEW t \in Thread, job' = [job EXCEPT ![t] = Resting], made' = made
        PROVE  Jobs'
    BY <1>7 DEF Job, Resting, Worker, None
  <1>8. CASE Crash
    BY <1>8 DEF Crash, Job, Resting, None
  <1>9. CASE UNCHANGED <<job, made>>
    BY <1>9
  <1>10. CASE Quiet
    <2>1. ASSUME NEW w \in Worker, Flush(w) \/ Retire(w)
          PROVE UNCHANGED <<job, made>>
      BY <2>1 DEF Flush, Retire
    <2>2. ASSUME NEW t \in Thread, Answering(t)
          PROVE job' = [job EXCEPT ![t] = Resting] /\ made' = made
      BY <2>2, AnsweringIs
    <2>5. ASSUME NEW t \in Thread, MayFlush(t)
          PROVE Jobs'
      BY <2>5 DEF MayFlush, Job, Worker
    <2>3. ASSUME NEW s \in Session, GoStale(s) \/ Age(s)
          PROVE UNCHANGED <<job, made>>
      BY <2>3 DEF GoStale, Age
    <2>4. CASE UNCHANGED vars
      BY <2>4 DEF vars
    <2> QED BY <1>3, <1>4, <1>5, <1>6, <1>7, <1>9, <1>10, <2>1, <2>2, <2>3, <2>4, <2>5
            DEF Quiet, Archive, Request
  <1> QED BY <1>1, <1>2, <1>8, <1>10, StepIs

\* The map, the keys being archived and the disk keep their shape.
LEMMA PlacesStep ==
    ASSUME Base, [Next]_vars
    PROVE  Places'
  <1>9. ASSUME NEW w \in Worker, Flush(w) \/ (w \in Thread /\ Answering(w))
        PROVE  /\ \E s \in 1..made : Appended(s) /\ Summed(s)
               /\ UNCHANGED <<made, live, archiving, archived>>
    BY <1>9, WritingIs
  <1> USE SessionIn, MetricsSessionsAssumption DEF Base, Places, None, disk
  <1>1. ASSUME NEW w \in Worker, NEW gone, Dropping(w, gone)
        PROVE  Places'
    <2>1. Keys(gone) \subseteq Key
      BY <1>1, LiveKeys DEF Dropping
    <2> QED BY <1>1, <2>1 DEF Dropping, Without
  <1>2. ASSUME NEW w \in Thread, NEW k \in Key, NEW gone, Creating(w, k, gone)
        PROVE  Places'
    <2>1. Keys(gone) \subseteq Key
      BY <1>2, LiveKeys DEF Creating
    <2>2. made' \in 0..MaxSessions /\ archiving' \subseteq Key /\ 1..made \subseteq 1..made'
      BY <1>2, <2>1 DEF Creating
    <2>3. rows' \in [Key -> SUBSET (1..made')] /\ archived' \subseteq SUBSET (1..made')
      BY <1>2, <2>2 DEF Creating
    <2>4. live' \in [Key -> 0..made']
      BY <1>2 DEF Creating, Without
    <2>5. summary' \in [Key -> 0..made']
      BY <1>2 DEF Creating
    <2> QED BY <2>2, <2>3, <2>4, <2>5
  <1>3. ASSUME NEW s \in 1..made, Appended(s), Summed(s),
               UNCHANGED <<made, live, archiving, archived>>
        PROVE  Places'
    <2>1. session[s].key \in Key
      BY DEF KeyInv
    <2>2. rows' \in [Key -> SUBSET (1..made)]
      BY <1>3, <2>1 DEF Appended
    <2>3. summary' \in [Key -> 0..made]
      BY <1>3, <2>1 DEF Summed
    <2> QED BY <1>3, <2>2, <2>3
  <1>4. ASSUME NEW w \in Worker, Rename(w)
        PROVE  Places'
    BY <1>4 DEF Rename, KeyInv, Jobs
  <1>5. ASSUME NEW w \in Worker, Release(w)
        PROVE  Places'
    BY <1>5 DEF Release
  <1>6. CASE Crash
    <2>1. 0 \in 0..made
      OBVIOUS
    <2> QED BY <1>6, <2>1 DEF Crash
  <1>7. CASE UNCHANGED <<made, live, archiving, rows, archived, summary>>
    BY <1>7
  <1>8. CASE Quiet
    <2>1. ASSUME NEW w \in Worker, Flush(w) \/ (w \in Thread /\ Answering(w))
          PROVE  Places'
      BY <1>3, <1>9, <2>1
    <2>2. Thread \subseteq Worker
      BY DEF Worker
    <2>3. ASSUME NEW s \in Session, GoStale(s) \/ Age(s)
          PROVE  Places'
      BY <1>7, <2>3 DEF GoStale, Age
    <2>4. ASSUME NEW w \in Worker, Retire(w)
          PROVE  Places'
      BY <1>7, <2>4 DEF Retire
    <2>5. ASSUME NEW t \in Thread, Request(t) \/ MayFlush(t)
          PROVE  Places'
      BY <1>7, <2>5 DEF Request, StartRequest, Resolve, MayFlush, disk
    <2>6. CASE UNCHANGED vars
      BY <1>7, <2>6 DEF vars
    <2> QED BY <1>4, <1>5, <1>8, <2>1, <2>2, <2>3, <2>4, <2>5, <2>6 DEF Quiet, Archive
  <1> QED BY <1>1, <1>2, <1>6, <1>8, StepIs

\* A session writes under its own key, and a rename leaves nothing there.
LEMMA KeyStep ==
    ASSUME Base, [Next]_vars
    PROVE  KeyInv'
  <1>9. ASSUME NEW w \in Worker, Flush(w) \/ (w \in Thread /\ Answering(w))
        PROVE  /\ \E s \in 1..made : Appended(s) /\ Summed(s)
               /\ UNCHANGED <<made, live>>
    BY <1>9, WritingIs
  <1> USE SessionIn DEF Base, KeyInv, Places, None, disk
  <1>0. \A s \in 1..made : session'[s].key = session[s].key
    BY SessionsStep
  <1>1. ASSUME NEW w \in Worker, NEW gone, Dropping(w, gone)
        PROVE  KeyInv'
    BY <1>0, <1>1 DEF Dropping, Without
  <1>2. ASSUME NEW w \in Thread, NEW k \in Key, NEW gone, Creating(w, k, gone)
        PROVE  KeyInv'
    <2>1. /\ made' = made + 1 /\ session'[made'].key = k
          /\ live' = [Without(gone) EXCEPT ![k] = made'] /\ rows' = rows
          /\ summary' = summary
      BY <1>2 DEF Creating, disk
    <2>2. \A s \in 1..made' : session'[s].key \in Key
      BY <1>0, <2>1
    <2>3. \A j \in Key : live'[j] # None => session'[live'[j]].key = j
      BY <1>0, <2>1 DEF Without
    <2>4. \A j \in Key : \A s \in rows'[j] : session'[s].key = j
      BY <1>0, <2>1
    <2>5. \A j \in Key : summary'[j] # None => session'[summary'[j]].key = j
      BY <1>0, <2>1
    <2>6. \A j \in Key : live'[j] # None =>
             \A r \in 1..made' : session'[r].key = j => r <= live'[j]
      <3> SUFFICES ASSUME NEW j \in Key, live'[j] # None,
                          NEW r \in 1..made', session'[r].key = j
                   PROVE  r <= live'[j]
        OBVIOUS
      <3>1. CASE j = k
        <4>1. live'[k] = made'
          BY <2>1 DEF Without
        <4> QED BY <3>1, <4>1
      <3>2. CASE j # k
        <4>1. r \in 1..made /\ session[r].key = j
          BY <1>0, <2>1, <3>2
        <4>2. live'[j] = live[j]
          BY <2>1, <3>2 DEF Without
        <4> QED BY <4>1, <4>2
      <3> QED BY <3>1, <3>2
    <2> QED BY <2>2, <2>3, <2>4, <2>5, <2>6
  <1>3. ASSUME NEW s \in 1..made, Appended(s), Summed(s), UNCHANGED <<made, live>>
        PROVE  KeyInv'
    <2>1. session[s].key \in Key
      OBVIOUS
    <2>2. \A k \in Key : \A r \in rows'[k] : session'[r].key = k
      BY <1>0, <1>3, <2>1 DEF Appended
    <2>3. \A k \in Key : summary'[k] # None => session'[summary'[k]].key = k
      BY <1>0, <1>3, <2>1 DEF Summed
    <2> QED BY <1>0, <1>3, <2>2, <2>3
  <1>4. ASSUME NEW w \in Worker, Rename(w)
        PROVE  KeyInv'
    <2>1. /\ UNCHANGED <<made, live>>
          /\ \A k \in Key : rows'[k] \subseteq rows[k] /\ summary'[k] \in {summary[k], None}
      BY <1>4 DEF Rename
    <2> QED BY <1>0, <2>1
  <1>6. CASE Crash
    <2>1. UNCHANGED <<made, rows, summary>> /\ \A k \in Key : live'[k] = None
      BY <1>6 DEF Crash
    <2> QED BY <1>0, <2>1
  <1>7. CASE UNCHANGED <<made, live, rows, summary>>
    BY <1>0, <1>7
  <1>8. CASE Quiet
    <2>1. ASSUME NEW w \in Worker, Flush(w) \/ (w \in Thread /\ Answering(w))
          PROVE  KeyInv'
      BY <1>3, <1>9, <2>1
    <2>2. Thread \subseteq Worker
      BY DEF Worker
    <2>3. ASSUME NEW s \in Session, GoStale(s) \/ Age(s)
          PROVE  KeyInv'
      BY <1>7, <2>3 DEF GoStale, Age
    <2>4. ASSUME NEW w \in Worker, Retire(w) \/ Release(w)
          PROVE  KeyInv'
      BY <1>7, <2>4 DEF Retire, Release
    <2>5. ASSUME NEW t \in Thread, Request(t) \/ MayFlush(t)
          PROVE  KeyInv'
      BY <1>7, <2>5 DEF Request, StartRequest, Resolve, MayFlush, disk
    <2>6. CASE UNCHANGED vars
      BY <1>7, <2>6 DEF vars
    <2> QED BY <1>4, <1>8, <2>1, <2>2, <2>3, <2>4, <2>5, <2>6 DEF Quiet, Archive
  <1> QED BY <1>1, <1>2, <1>6, <1>8, StepIs

\* The whole shape is inductive.
LEMMA BaseStep ==
    ASSUME Base, [Next]_vars
    PROVE  Base'
  BY SessionsStep, JobsStep, PlacesStep, KeyStep DEF Base

-----------------------------------------------------------------------------
(* One pair of hands for each session and each key *)

\* No session is in two threads' hands, or in the map and in a thread's, no two
\* starts were given the same one, and a key being archived has its thread.
HandsInv ==
    /\ \A v, w \in Worker : v # w => job[v].pending \cap job[w].pending = {}
    /\ \A w \in Worker : job[w].pending \cap Live = {}
    /\ \A v, w \in Worker : v # w /\ job[v].then = "begin" /\ job[w].then = "begin"
          => job[v].own # job[w].own
    /\ KeysComeBack

\* Sessions pass from the map to the thread that takes them out, under the lock;
\* a new session is nobody else's.
LEMMA HandsStep ==
    ASSUME Base, HandsInv, [Next]_vars
    PROVE  HandsInv'
  <1>9. ASSUME NEW t \in Thread, Answering(t)
        PROVE  /\ UNCHANGED <<live, archiving>> /\ job[t].pc # "archive"
               /\ job' = [job EXCEPT ![t] = Resting]
    BY <1>9, AnsweringIs
  <1> USE SessionIn DEF Base, HandsInv, Jobs, KeysComeBack
  <1>1. ASSUME NEW w \in Worker, NEW gone, Dropping(w, gone)
        PROVE  HandsInv'
    <2>1. /\ \A v \in Worker : v # w => job'[v] = job[v]
          /\ job'[w].pending = gone /\ job'[w].detached = Keys(gone)
          /\ job'[w].then # "begin" /\ job[w].pc # "archive"
          /\ archiving' = archiving \cup Keys(gone)
          /\ gone # {} => job'[w].pc = "archive"
          /\ gone \subseteq Live
      BY <1>1 DEF Dropping
    <2>2. Live' \subseteq Live \ gone
      BY <1>1 DEF Dropping, Live, Without, Places
    <2>3. gone = {} => Keys(gone) = {}
      BY DEF Keys
    <2> QED BY <2>1, <2>2, <2>3
  <1>2. ASSUME NEW w \in Thread, NEW k \in Key, NEW gone, Creating(w, k, gone)
        PROVE  HandsInv'
    <2>1. /\ \A v \in Worker : v # w => job'[v] = job[v]
          /\ job'[w].pending = gone /\ job'[w].detached = Keys(gone)
          /\ job'[w].own = made + 1 /\ job[w].pc # "archive"
          /\ archiving' = archiving \cup Keys(gone)
          /\ gone # {} => job'[w].pc = "archive"
          /\ gone \subseteq Live /\ w \in Worker
      BY <1>2 DEF Creating, Worker
    <2>2. Live' \subseteq (Live \ gone) \cup {made + 1}
      <3>1. \A j \in Key : \/ live'[j] \in {None, made + 1}
                           \/ live'[j] = live[j] /\ live[j] \notin gone
        BY <1>2 DEF Creating, Without
      <3> QED BY <3>1 DEF Live
    <2>3. gone = {} => Keys(gone) = {}
      BY DEF Keys
    <2>4. made + 1 \notin 1..made /\ Live \subseteq 1..made
      OBVIOUS
    <2>5. \A v \in Worker : made + 1 \notin job[v].pending /\ (job[v].then = "begin" => job[v].own # made + 1)
      BY <2>4
    <2>6. \A v, u \in Worker : v # u => job'[v].pending \cap job'[u].pending = {}
      BY <2>1
    <2>7. \A v \in Worker : job'[v].pending \cap Live' = {}
      <3>1. \A v \in Worker : v # w => job'[v].pending \cap Live' = {}
        BY <2>1, <2>2, <2>5
      <3>2. gone \cap Live' = {}
        BY <2>1, <2>2, <2>4
      <3> QED BY <2>1, <3>1, <3>2
    <2>8. \A v, u \in Worker : v # u /\ job'[v].then = "begin" /\ job'[u].then = "begin"
              => job'[v].own # job'[u].own
      BY <2>1, <2>5
    <2>9. KeysComeBack'
      BY <2>1, <2>3
    <2> QED BY <2>6, <2>7, <2>8, <2>9
  <1>3. ASSUME NEW w \in Worker, Rename(w)
        PROVE  HandsInv'
    BY <1>3 DEF Rename, Live, Job
  <1>4. ASSUME NEW w \in Worker, Release(w)
        PROVE  HandsInv'
    BY <1>4 DEF Release, Live, Job
  <1>5. ASSUME NEW t \in Thread, job' = [job EXCEPT ![t] = job'[t]], job'[t].pending = {},
               job'[t].then = "idle", job[t].pc # "archive", UNCHANGED <<live, archiving>>
        PROVE  HandsInv'
    <2>1. t \in Worker /\ \A v \in Worker : v # t => job'[v] = job[v]
      BY <1>5 DEF Worker
    <2> QED BY <1>5, <2>1 DEF Live
  <1>6. CASE UNCHANGED <<job, live, archiving>>
    BY <1>6 DEF Live
  <1>7. CASE Crash
    BY <1>7 DEF Crash, Live, Resting
  <1>8. CASE Quiet
    <2>1. ASSUME NEW w \in Worker, Flush(w) \/ Retire(w)
          PROVE  HandsInv'
      BY <1>6, <2>1 DEF Flush, Retire
    <2>2. ASSUME NEW t \in Thread, Answering(t)
          PROVE  HandsInv'
      <3>1. /\ job' = [job EXCEPT ![t] = job'[t]] /\ job'[t].pending = {}
            /\ job'[t].then = "idle" /\ job[t].pc # "archive" /\ UNCHANGED <<live, archiving>>
        <4>1. job'[t] = Resting /\ job' = [job EXCEPT ![t] = Resting]
          BY <1>9, <2>2 DEF Worker
        <4> QED BY <1>9, <2>2, <4>1 DEF Resting
      <3> QED BY <1>5, <3>1
    <2>7. ASSUME NEW t \in Thread, MayFlush(t)
          PROVE  HandsInv'
      BY <2>7 DEF MayFlush, Live, Job, Worker
    <2>3. ASSUME NEW t \in Thread, NEW k \in Key, StartRequest(t, k)
          PROVE  HandsInv'
      <3>1. /\ job' = [job EXCEPT ![t] = job'[t]] /\ job'[t].pending = {}
            /\ job'[t].then = "idle" /\ job[t].pc # "archive" /\ UNCHANGED <<live, archiving>>
        BY <2>3 DEF StartRequest, Resting, Worker
      <3> QED BY <1>5, <3>1
    <2>4. ASSUME NEW t \in Thread, NEW k \in Key, Resolve(t, k)
          PROVE  HandsInv'
      <3>1. /\ job' = [job EXCEPT ![t] = job'[t]] /\ job'[t].pending = {}
            /\ job'[t].then = "idle" /\ job[t].pc # "archive" /\ UNCHANGED <<live, archiving>>
        BY <2>4 DEF Resolve, Resting, Worker
      <3> QED BY <1>5, <3>1
    <2>5. ASSUME NEW s \in Session, GoStale(s) \/ Age(s)
          PROVE  HandsInv'
      BY <1>6, <2>5 DEF GoStale, Age
    <2>6. CASE UNCHANGED vars
      BY <1>6, <2>6 DEF vars
    <2> QED BY <1>3, <1>4, <1>8, <2>1, <2>2, <2>3, <2>4, <2>5, <2>6, <2>7
            DEF Quiet, Archive, Request
  <1> QED BY <1>1, <1>2, <1>7, <1>8, StepIs

\* A start that finds no free slot takes a session out before it adds its own.
LEMMA RoomStep ==
    ASSUME Base, Cardinality(Live) <= MaxLive, [Next]_vars
    PROVE  Cardinality(Live') <= MaxLive
  <1> USE MetricsSessionsAssumption
  <1>0. IsFiniteSet(Live)
    <2>1. IsFiniteSet(1..made) /\ Live \in SUBSET (1..made)
      BY SessionIn, FS_Interval DEF Base
    <2> QED BY <2>1, FS_Subset
  <1>1. ASSUME Live' \subseteq Live
        PROVE  Cardinality(Live') <= MaxLive
    BY <1>0, <1>1, FS_Subset, FS_CardinalityType
  <1>2. ASSUME NEW w \in Worker, NEW gone, Dropping(w, gone)
        PROVE  Live' \subseteq Live
    BY <1>2 DEF Dropping, Live, Without, Base, Places
  <1>3. ASSUME NEW w \in Thread, NEW k \in Key, NEW gone, Creating(w, k, gone)
        PROVE  Cardinality(Live') <= MaxLive
    <2>1. Live' \subseteq (Live \ gone) \cup {made + 1}
      <3>1. \A j \in Key : \/ live'[j] \in {None, made + 1}
                           \/ live'[j] = live[j] /\ live[j] \notin gone
        BY <1>3 DEF Creating, Without, Base, Places
      <3> QED BY <3>1 DEF Live
    <2>2. Cardinality(Live \ gone) < MaxLive
      <3> DEFINE rest == Live \ Expired
      <3>1. IsFiniteSet(rest) /\ Cardinality(rest) <= MaxLive /\ Cardinality(rest) \in Nat
        BY <1>0, FS_Subset, FS_CardinalityType
      <3>2. gone \subseteq Live /\ Expired \subseteq gone /\ gone \ Expired \in Room(k)
        BY <1>3 DEF Creating
      <3>3. CASE gone \ Expired = {} /\ Cardinality(rest) < MaxLive
        <4>1. Live \ gone = rest
          BY <3>2, <3>3
        <4> QED BY <3>3, <4>1
      <3>4. ASSUME NEW v \in rest, gone \ Expired = {v}
            PROVE  Cardinality(Live \ gone) < MaxLive
        <4>1. Live \ gone = rest \ {v}
          BY <3>2, <3>4
        <4>2. Cardinality(rest \ {v}) = Cardinality(rest) - 1
          BY <3>1, <3>4, FS_RemoveElement
        <4> HIDE DEF rest
        <4> QED BY <3>1, <4>1, <4>2
      <3> QED BY <3>2, <3>3, <3>4 DEF Room
    <2>3. IsFiniteSet(Live \ gone) /\ Cardinality(Live \ gone) \in Nat
      BY <1>0, FS_Subset, FS_CardinalityType
    <2>4. /\ IsFiniteSet((Live \ gone) \cup {made + 1})
          /\ Cardinality((Live \ gone) \cup {made + 1}) <= Cardinality(Live \ gone) + 1
          /\ Cardinality((Live \ gone) \cup {made + 1}) \in Nat
      <3> DEFINE left == Live \ gone
      <3>1. /\ IsFiniteSet(left \cup {made + 1})
            /\ Cardinality(left \cup {made + 1}) \in {Cardinality(left), Cardinality(left) + 1}
        BY <2>3, FS_AddElement
      <3>2. Cardinality(left \cup {made + 1}) \in Nat
        BY <3>1, FS_CardinalityType
      <3>3. Cardinality(left) \in Nat
        BY <2>3
      <3> HIDE DEF left
      <3>4. Cardinality(left \cup {made + 1}) <= Cardinality(left) + 1
        BY <3>1, <3>2, <3>3
      <3> QED BY <3>1, <3>2, <3>4 DEF left
    <2>5. Cardinality(Live') <= Cardinality((Live \ gone) \cup {made + 1}) /\ Cardinality(Live') \in Nat
      BY <2>1, <2>4, FS_Subset, FS_CardinalityType
    <2> QED BY <2>2, <2>3, <2>4, <2>5
  <1>4. CASE Quiet
    <2>1. live' = live
      BY <1>4 DEF Quiet, Archive, Request, Flush, Retire, Rename, Release, StartRequest, Resolve,
                  MayFlush, Answering, Begin, Record, Heartbeat, End, ControlFlush, ControlClear,
                  GoStale, Age, vars
    <2> QED BY <1>1, <2>1 DEF Live
  <1>5. CASE Crash
    BY <1>1, <1>5 DEF Crash, Live
  <1> QED BY <1>1, <1>2, <1>3, <1>4, <1>5, StepIs

\* However starts, ends, the sweep, archiving and restarts interleave: no more
\* than max_live_sessions_ sessions, each under its own key and in one thread's
\* hands at most, no session given to two starts, and no key is left archiving
\* without a thread that releases it.
THEOREM SessionsFitTogether == Spec => [](TypeOK /\ GivenOnce /\ KeysComeBack)
  <1> DEFINE Inv == Base /\ HandsInv /\ Cardinality(Live) <= MaxLive
  <1>1. Init => Inv
    <2>1. Init => HandsInv /\ Live = {}
      BY MetricsSessionsAssumption DEF Init, HandsInv, KeysComeBack, Live, Resting
    <2> QED BY <2>1, BaseInit, FS_EmptySet, MetricsSessionsAssumption
  <1>2. Inv /\ [Next]_vars => Inv'
    BY BaseStep, HandsStep, RoomStep
  <1>3. Inv => TypeOK /\ GivenOnce /\ KeysComeBack
    <2>1. Inv => TypeOK /\ KeysComeBack
      BY DEF Base, HandsInv, TypeOK, Places, KeyInv
    <2>2. Inv => GivenOnce
      BY DEF Base, HandsInv, GivenOnce, Starting, Jobs, Worker
    <2> QED BY <2>1, <2>2
  <1> QED BY <1>1, <1>2, <1>3, PTL DEF Spec

-----------------------------------------------------------------------------
(* A start keeps the session it was given *)

\* has_started is false until start_session runs, unless old data was restored
\* or an event came in: no other start, no sweep and no full map takes it.
FreshInv == \A w \in Worker :
    job[w].then = "begin" /\ session[job[w].own].fresh =>
        /\ ~session[job[w].own].begun /\ ~session[job[w].own].started
        /\ live[session[job[w].own].key] = job[w].own

\* Only sessions that have started are taken out, and only the thread that was
\* given a session begins it.
LEMMA FreshStep ==
    ASSUME Base, HandsInv, FreshInv, [Next]_vars
    PROVE  FreshInv'
  <1> USE SessionIn DEF Base, FreshInv, Jobs
  <1>1. ASSUME NEW w \in Worker, NEW gone, Dropping(w, gone)
        PROVE  FreshInv'
    <2>1. /\ \A v \in Worker : v # w => job'[v] = job[v]
          /\ job'[w].then # "begin" /\ session' = session
          /\ \A k \in Key : live[k] \notin gone => live'[k] = live[k]
          /\ \A g \in gone : session[g].started
      BY <1>1 DEF Dropping, Without, Replaceable
    <2> QED BY <2>1 DEF KeyInv
  <1>2. ASSUME NEW w \in Thread, NEW k \in Key, NEW gone, Creating(w, k, gone)
        PROVE  FreshInv'
    <2>1. /\ \A v \in Worker : v # w => job'[v] = job[v]
          /\ job'[w].own = made + 1
          /\ session'[made + 1].key = k /\ session'[made + 1].begun = FALSE
          /\ session'[made + 1].fresh => session'[made + 1].started = FALSE
      BY <1>2 DEF Creating, Worker
    <2>2. \A s \in 1..made : session'[s] = session[s]
      BY <1>2 DEF Creating, Sessions
    <2>4. \A g \in gone : session[g].started
      BY <1>2 DEF Creating, Replaceable
    <2>5. /\ live'[k] = made + 1
          /\ \A j \in Key : live[j] \notin gone \cup {None} => live'[j] = live[j]
      BY <1>2 DEF Creating, Without, Places
    <2>3. ASSUME NEW v \in Worker, v # w, job'[v].then = "begin", session'[job'[v].own].fresh
          PROVE  /\ ~session'[job'[v].own].begun /\ ~session'[job'[v].own].started
                 /\ live'[session'[job'[v].own].key] = job'[v].own
      BY <2>1, <2>2, <2>3, <2>4, <2>5 DEF KeyInv, None
    <2> QED BY <2>1, <2>3, <2>5
  <1>3. ASSUME NEW w \in Worker, Flush(w)
        PROVE  FreshInv'
    <2>1. PICK s \in Session :
            /\ UNCHANGED <<live, job>>
            /\ \A r \in Session : r # s => session'[r] = session[r]
            /\ \A f \in {"key", "retired", "fresh", "begun", "started"} :
                  session'[s][f] = session[s][f]
      BY <1>3, FlushIs
    <2> QED BY <2>1
  <1>4. ASSUME NEW w \in Worker, Retire(w)
        PROVE  FreshInv'
    BY <1>4 DEF Retire, Sessions, Fields
  <1>5. ASSUME NEW w \in Worker, Rename(w) \/ Release(w)
        PROVE  FreshInv'
    <2>1. /\ \A v \in Worker : job'[v].then = job[v].then /\ job'[v].own = job[v].own
          /\ UNCHANGED <<session, live>>
      <3>1. CASE Rename(w)
        BY <3>1 DEF Rename, Job
      <3>2. CASE Release(w)
        BY <3>2 DEF Release, Job
      <3> QED BY <1>5, <3>1, <3>2
    <2> QED BY <2>1
  <1>13. ASSUME NEW t \in Thread, MayFlush(t)
         PROVE  FreshInv'
    <2>1. /\ \A v \in Worker : job'[v].then = job[v].then /\ job'[v].own = job[v].own
          /\ UNCHANGED <<session, live>>
      BY <1>13 DEF MayFlush, Job, Worker
    <2> QED BY <2>1
  <1>6. ASSUME NEW t \in Thread, NEW k \in Key, StartRequest(t, k) \/ Resolve(t, k)
        PROVE  FreshInv'
    <2>1. /\ \A v \in Worker : v # t => job'[v] = job[v]
          /\ t \in Worker /\ job'[t].then = "idle" /\ UNCHANGED <<session, live>>
      <3>1. CASE StartRequest(t, k)
        BY <3>1 DEF StartRequest, Resting, Worker
      <3>2. CASE Resolve(t, k)
        BY <3>2 DEF Resolve, Resting, Worker
      <3> QED BY <1>6, <3>1, <3>2
    <2> QED BY <2>1
  <1>7. ASSUME NEW t \in Thread, Answering(t)
        PROVE  FreshInv'
    <2> DEFINE s == job[t].own
    <2>1. /\ t \in Worker /\ s \in Session /\ job' = [job EXCEPT ![t] = Resting]
          /\ live' = live /\ job[t].pc \in {"begin", "apply", "flush"}
          /\ \A r \in Session : r # s => session'[r] = session[r]
          /\ session'[s].key = session[s].key
          /\ session'[s].fresh => session[s].fresh
          /\ job[t].pc = "begin" \/ session'[s].begun = session[s].begun
          /\ \/ job[t].pc = "begin" \/ session'[s].started = session[s].started
             \/ session'[s].fresh => session[s].begun
      BY <1>7, AnsweringIs
    <2>2. /\ \A v \in Worker : v # t => job'[v] = job[v]
          /\ job'[t].then = "idle"
      BY <2>1 DEF Resting
    <2>3. CASE job[t].pc = "begin"
      <3>1. \A v \in Worker : v # t /\ job[v].then = "begin" => job[v].own # s
        BY <2>1, <2>3 DEF HandsInv
      <3> QED BY <2>1, <2>2, <3>1
    <2>4. CASE job[t].pc # "begin"
      BY <2>1, <2>2, <2>4
    <2> QED BY <2>3, <2>4
  <1>10. ASSUME NEW s \in Session, GoStale(s) \/ Age(s)
        PROVE  FreshInv'
    BY <1>10 DEF GoStale, Age, Sessions, Fields
  <1>11. CASE Crash
    BY <1>11 DEF Crash, Resting
  <1>12. CASE UNCHANGED vars
    BY <1>12 DEF vars
  <1> QED BY <1>1, <1>2, <1>3, <1>4, <1>5, <1>6, <1>7, <1>10, <1>11, <1>12, <1>13, StepIs
          DEF Quiet, Archive, Request

\* A start that was given a fresh session still finds it in the map when it is
\* answered (SessionEntry.claimed and has_started), for any number of threads.
THEOREM StartsKeepTheirSession == Spec => []GivenIsLive
  <1> DEFINE Inv == Base /\ HandsInv /\ FreshInv
  <1>1. Init => Inv
    BY BaseInit, MetricsSessionsAssumption DEF Init, HandsInv, KeysComeBack, FreshInv, Live, Resting
  <1>2. Inv /\ [Next]_vars => Inv'
    BY BaseStep, HandsStep, FreshStep
  <1>3. Inv => GivenIsLive
    BY DEF Base, FreshInv, GivenIsLive, Starting, Jobs, Worker
  <1> QED BY <1>1, <1>2, <1>3, PTL DEF Spec

-----------------------------------------------------------------------------
(* What was written stays on disk, and the last flush writes the rest *)

OnDisk(s) == s \in rows[session[s].key] \/ \E place \in archived : s \in place

\* A session is retired after its last flush; what was written stays on disk, under
\* its key or where a rename moved it; from the last flush on, what is not on disk
\* is known to be lost.
FlushedInv == \A s \in Session :
    /\ session[s].retired => session[s].flushed
    /\ session[s].saved => s \in 1..made /\ OnDisk(s)
    /\ session[s].flushed /\ session[s].unsaved => session[s].lost

\* A rename moves a key's data as a whole, a failed one leaves it.
LEMMA FlushedStep ==
    ASSUME Base, FlushedInv, [Next]_vars
    PROVE  FlushedInv'
  <1> USE SessionIn DEF Base, FlushedInv
  <1>0. \A s \in 1..made : session[s].key \in Key
    BY DEF KeyInv
  <1>9. CASE UNCHANGED <<session, rows, archived, made>>
    <2>1. \A s \in Session : OnDisk(s)' <=> OnDisk(s)
      BY <1>9 DEF OnDisk
    <2> QED BY <1>9, <2>1
  <1>1. ASSUME NEW w \in Worker, NEW gone, Dropping(w, gone)
        PROVE  FlushedInv'
    <2>1. \A s \in Session : OnDisk(s)' <=> OnDisk(s)
      BY <1>1 DEF Dropping, OnDisk, disk
    <2> QED BY <1>1, <2>1 DEF Dropping
  <1>2. ASSUME NEW w \in Thread, NEW k \in Key, NEW gone, Creating(w, k, gone)
        PROVE  FlushedInv'
    <2>1. /\ \A s \in Session : s # made + 1 => session'[s] = session[s]
          /\ session'[made + 1].retired = FALSE /\ session'[made + 1].flushed = FALSE
          /\ session'[made + 1].saved = FALSE
          /\ UNCHANGED <<rows, archived>> /\ 1..made \subseteq 1..made'
      BY <1>2 DEF Creating, Sessions, disk
    <2>2. \A s \in Session : s # made + 1 => (OnDisk(s)' <=> OnDisk(s))
      BY <2>1 DEF OnDisk
    <2> QED BY <2>1, <2>2
  <1>13. ASSUME NEW s \in 1..made, Appended(s), UNCHANGED <<archived, made>>,
                \A r \in Session : r # s => session'[r] = session[r],
                session'[s].key = session[s].key,
                session'[s].retired => session'[s].flushed,
                session'[s].saved => session[s].saved \/ s \in rows'[session[s].key],
                session'[s].flushed /\ session'[s].unsaved => session'[s].lost
         PROVE  FlushedInv'
    <2>1. \A k \in Key : rows[k] \subseteq rows'[k]
      BY <1>13 DEF Appended
    <2>2. ASSUME NEW r \in 1..made, OnDisk(r)
          PROVE  OnDisk(r)'
      BY <1>0, <1>13, <2>1, <2>2 DEF OnDisk
    <2>3. session'[s].saved => OnDisk(s)'
      BY <1>13, <2>2 DEF OnDisk
    <2> QED BY <1>13, <2>2, <2>3
  <1>3. ASSUME NEW w \in Worker, Flush(w)
        PROVE  FlushedInv'
    <2>1. PICK s \in job[w].pending :
           /\ s \in 1..made /\ s \in Session
           /\ UNCHANGED <<archived, made>>
           /\ \A r \in Session : r # s => session'[r] = session[r]
           /\ session'[s].key = session[s].key
           /\ session'[s].flushed
           /\ session'[s].unsaved => session'[s].lost
           /\ session'[s].saved => session[s].saved \/ s \in rows'[session[s].key]
           /\ Appended(s)
      BY <1>3, FlushIs
    <2> QED BY <1>13, <2>1
  <1>4. ASSUME NEW w \in Worker, Retire(w)
        PROVE  FlushedInv'
    <2>1. PICK s \in job[w].pending :
            /\ session[s].flushed
            /\ session' = [session EXCEPT ![s] = [session[s] EXCEPT
                  !.retired = TRUE, !.stale = FALSE, !.old = FALSE]]
            /\ UNCHANGED <<rows, archived, made>>
      BY <1>4 DEF Retire, disk
    <2>2. s \in Session
      BY DEF Jobs
    <2>3. /\ \A r \in Session : r # s => session'[r] = session[r]
          /\ \A f \in {"key", "flushed", "saved", "unsaved", "lost"} : session'[s][f] = session[s][f]
      BY <2>1, <2>2 DEF Sessions, Fields
    <2>4. \A r \in Session : OnDisk(r)' <=> OnDisk(r)
      BY <2>1, <2>3 DEF OnDisk
    <2> QED BY <2>1, <2>3, <2>4
  <1>5. ASSUME NEW w \in Worker, Rename(w)
        PROVE  FlushedInv'
    <2>1. \/ UNCHANGED <<archived, rows>>
          \/ \E s \in job[w].pending :
                /\ archived' = archived \cup ({rows[session[s].key]} \ {{}})
                /\ rows' = [rows EXCEPT ![session[s].key] = {}]
      BY <1>5 DEF Rename
    <2>2. session' = session /\ made' = made
      BY <1>5 DEF Rename
    <2>3. ASSUME NEW k \in Key, archived' = archived \cup ({rows[k]} \ {{}}),
                 rows' = [rows EXCEPT ![k] = {}]
          PROVE  FlushedInv'
      <3>1. /\ \A place \in archived : place \in archived'
            /\ rows[k] # {} => rows[k] \in archived'
        BY <2>3
      <3>2. \A j \in Key : j # k => rows'[j] = rows[j]
        BY <2>3 DEF Places
      <3>3. ASSUME NEW s \in 1..made, OnDisk(s)
            PROVE  OnDisk(s)'
        BY <1>0, <2>2, <3>1, <3>2, <3>3 DEF OnDisk
      <3> QED BY <2>2, <3>3
    <2>4. \A s \in job[w].pending : session[s].key \in Key
      BY DEF Jobs, KeyInv
    <2> QED BY <1>9, <2>1, <2>2, <2>3, <2>4
  <1>6. ASSUME NEW t \in Thread, Answering(t)
        PROVE  FlushedInv'
    <2> DEFINE s == job[t].own
    <2>1. /\ s \in 1..made /\ s \in Session
          /\ UNCHANGED <<archived, made>>
          /\ \A r \in Session : r # s => session'[r] = session[r]
          /\ session'[s].key = session[s].key
          /\ session'[s].retired = session[s].retired /\ session'[s].flushed = session[s].flushed
          /\ (session[s].flushed /\ session[s].unsaved => session[s].lost) =>
                (session[s].flushed /\ session'[s].unsaved => session'[s].lost)
          /\ session'[s].saved => session[s].saved \/ s \in rows'[session[s].key]
          /\ Appended(s)
      BY <1>6, AnsweringIs
    <2> HIDE DEF s
    <2> QED BY <1>13, <2>1
  <1>7. ASSUME NEW s \in Session, GoStale(s) \/ Age(s)
        PROVE  FlushedInv'
    <2>1. /\ \A r \in Session : \A f \in {"key", "flushed", "retired", "saved", "unsaved", "lost"} :
                session'[r][f] = session[r][f]
          /\ UNCHANGED <<rows, archived, made>>
      BY <1>7 DEF GoStale, Age, Sessions, Fields, disk
    <2>2. \A r \in Session : OnDisk(r)' <=> OnDisk(r)
      BY <2>1 DEF OnDisk
    <2> QED BY <2>1, <2>2
  <1>8. CASE Crash
    <2>1. /\ \A s \in Session : /\ session'[s].retired = FALSE /\ session'[s].flushed = FALSE
                                 /\ session'[s].key = session[s].key
                                 /\ session'[s].saved = session[s].saved
          /\ UNCHANGED <<rows, archived, made>>
      BY <1>8 DEF Crash, Unmade, disk
    <2>2. \A s \in Session : OnDisk(s)' <=> OnDisk(s)
      BY <2>1 DEF OnDisk
    <2> QED BY <2>1, <2>2
  <1>10. ASSUME NEW w \in Worker, Release(w)
         PROVE  UNCHANGED <<session, rows, archived, made>>
    BY <1>10 DEF Release, disk
  <1>11. ASSUME NEW t \in Thread, Request(t) \/ MayFlush(t)
         PROVE  UNCHANGED <<session, rows, archived, made>>
    BY <1>11 DEF Request, StartRequest, Resolve, MayFlush, disk
  <1>12. CASE UNCHANGED vars
    BY <1>9, <1>12 DEF vars, disk
  <1> QED BY <1>1, <1>2, <1>3, <1>4, <1>5, <1>6, <1>7, <1>8, <1>9, <1>10, <1>11, <1>12, StepIs
          DEF Quiet, Archive

\* What a session wrote is never lost: not by archiving, nor by a failed rename, nor
\* by a restart.  What it had not written when it was retired is only what its last
\* flush failed to write, or what came between that flush and the retirement
\* (persist_metrics, retire, archive_session).
THEOREM RetiredRecordsAreOnDisk == Spec => []RecordsAreKept
  <1>1. Init => Base /\ FlushedInv
    BY BaseInit DEF Init, FlushedInv, Unmade
  <1>2. Base /\ FlushedInv /\ [Next]_vars => (Base /\ FlushedInv)'
    BY BaseStep, FlushedStep
  <1>3. Base /\ FlushedInv => RecordsAreKept
    <2>1. ASSUME NEW s \in Session, OnDisk(s)
          PROVE  s \in rows[session[s].key] \cup UNION archived
      <3>1. ASSUME NEW place \in archived, s \in place
            PROVE  s \in UNION archived
        BY <3>1
      <3>2. s \in UNION archived \/ s \in rows[session[s].key]
        BY <2>1, <3>1 DEF OnDisk
      <3> QED BY <3>2
    <2> QED BY <2>1 DEF FlushedInv, RecordsAreKept
  <1> QED BY <1>1, <1>2, <1>3, PTL DEF Spec

-----------------------------------------------------------------------------
(* A new session does not mix with the one before it *)

\* A session somebody may still write through.
Reach(s) == s \in Live \/ \E w \in Worker : s \in job[w].pending

\* A thread with an old reference to a session holds one that is in the map or
\* being archived, or one that writes no more.
HeldInv == \A w \in Worker :
    job[w].pc \in {"apply", "flush"} \/ job[w].then = "begin"
        => session[job[w].own].retired \/ Reach(job[w].own)

\* Before a fresh session was made, the older ones of its key were renamed away,
\* and can write no more, but for the summary of a flush that was under way.
ApartInv ==
    /\ \A r, s \in 1..made :
          r < s /\ session[r].key = session[s].key /\ session[s].fresh =>
              /\ r \notin rows[session[s].key]
              /\ summary[session[s].key] = r => r \in strays
              /\ session[r].retired \/ ~Reach(r)
    /\ \A place \in archived : \A r, s \in place : r < s => ~session[s].fresh

\* No step brings an old session back into reach, and only the thread that has
\* retired it lets go of it.
LEMMA ReachStep ==
    ASSUME Base, [Next]_vars, NEW s \in 1..made
    PROVE  /\ Reach(s)' => Reach(s)
           /\ Reach(s) /\ ~session[s].retired => Reach(s)' \/ Crash
  <1> USE SessionIn DEF Base
  <1>1. ASSUME NEW w \in Worker, NEW gone, Dropping(w, gone)
        PROVE  Reach(s)' <=> Reach(s)
    <2>1. /\ \A v \in Worker : v # w => job'[v] = job[v]
          /\ job'[w].pending = gone /\ job[w].pending = {}
          /\ gone \subseteq Live
      BY <1>1 DEF Dropping, Jobs
    <2>2. Live' = Live \ gone
      BY <1>1 DEF Dropping, Live, Without, Places
    <2> QED BY <2>1, <2>2 DEF Reach
  <1>2. ASSUME NEW w \in Thread, NEW k \in Key, NEW gone, Creating(w, k, gone)
        PROVE  Reach(s)' <=> Reach(s)
    <2>1. /\ \A v \in Worker : v # w => job'[v] = job[v]
          /\ job'[w].pending = gone /\ job[w].pending = {}
          /\ gone \subseteq Live /\ w \in Worker
      BY <1>2 DEF Creating, Jobs, Worker
    <2>2. \A r \in 1..made : r \in Live' <=> r \in Live \ gone
      <3>1. /\ \A j \in Key : j # k => live'[j] = IF live[j] \in gone THEN None ELSE live[j]
            /\ live'[k] = made + 1 /\ live[k] \in gone \cup {None}
        BY <1>2 DEF Creating, Without, Places
      <3> QED BY <3>1 DEF Live, Places, None
    <2> QED BY <2>1, <2>2 DEF Reach
  <1>3. ASSUME NEW w \in Worker, Rename(w)
        PROVE  /\ Reach(s)' => Reach(s)
               /\ Reach(s) /\ ~session[s].retired => Reach(s)'
    <2>1. PICK r \in job[w].pending :
              session[r].retired /\ job' = [job EXCEPT ![w].pending = job[w].pending \ {r}]
      BY <1>3 DEF Rename
    <2>2. /\ \A v \in Worker : v # w => job'[v] = job[v]
          /\ job'[w].pending = job[w].pending \ {r} /\ Live' = Live
      BY <1>3, <2>1 DEF Rename, Jobs, Job, Live
    <2> QED BY <2>1, <2>2 DEF Reach
  <1>4. CASE /\ Live' = Live
             /\ \A w \in Worker : job'[w].pending = job[w].pending
    BY <1>4 DEF Reach
  <1>5. ASSUME NEW w \in Worker, Release(w)
        PROVE  Live' = Live /\ \A v \in Worker : job'[v].pending = job[v].pending
    BY <1>5 DEF Release, Live, Jobs, Job
  <1>6. ASSUME NEW w \in Worker, Flush(w) \/ Retire(w)
        PROVE  Live' = Live /\ \A v \in Worker : job'[v].pending = job[v].pending
    <2>1. UNCHANGED <<live, job>>
      BY <1>6 DEF Flush, Retire
    <2> QED BY <2>1 DEF Live
  <1>7. ASSUME NEW t \in Thread, job' = [job EXCEPT ![t] = job'[t]], job'[t].pending = {},
               job[t].pc # "archive", live' = live
        PROVE  Live' = Live /\ \A v \in Worker : job'[v].pending = job[v].pending
    <2>1. /\ \A v \in Worker : v # t => job'[v] = job[v]
          /\ job[t].pending = {} /\ Live' = Live
      BY <1>7 DEF Live, Jobs, Worker
    <2> QED BY <1>7, <2>1
  <1>14. ASSUME NEW t \in Thread, MayFlush(t)
         PROVE  Live' = Live /\ \A v \in Worker : job'[v].pending = job[v].pending
    BY <1>14 DEF MayFlush, Live, Jobs, Job, Worker
  <1>8. ASSUME NEW t \in Thread, Answering(t)
        PROVE  Live' = Live /\ \A v \in Worker : job'[v].pending = job[v].pending
    <2>1. /\ job' = [job EXCEPT ![t] = Resting] /\ job[t].pc # "archive" /\ live' = live
      BY <1>8, AnsweringIs
    <2>2. job' = [job EXCEPT ![t] = job'[t]] /\ job'[t].pending = {}
      BY <2>1 DEF Resting, Jobs, Worker
    <2> QED BY <1>7, <2>1, <2>2
  <1>9. ASSUME NEW t \in Thread, NEW k \in Key, StartRequest(t, k)
        PROVE  Live' = Live /\ \A v \in Worker : job'[v].pending = job[v].pending
    BY <1>7, <1>9 DEF StartRequest, Resting, Jobs, Worker
  <1>10. ASSUME NEW t \in Thread, NEW k \in Key, Resolve(t, k)
         PROVE  Live' = Live /\ \A v \in Worker : job'[v].pending = job[v].pending
    BY <1>7, <1>10 DEF Resolve, Resting, Jobs, Worker
  <1>11. ASSUME NEW r \in Session, GoStale(r) \/ Age(r)
         PROVE  Live' = Live /\ \A v \in Worker : job'[v].pending = job[v].pending
    BY <1>11 DEF GoStale, Age, Live
  <1>12. CASE UNCHANGED vars
    BY <1>4, <1>12 DEF vars, Live
  <1>13. ASSUME Crash
         PROVE  ~Reach(s)'
    BY <1>13 DEF Crash, Reach, Live, Resting
  <1> QED BY <1>1, <1>2, <1>3, <1>4, <1>5, <1>6, <1>8, <1>9, <1>10, <1>11, <1>12, <1>13, <1>14, StepIs
          DEF Quiet, Archive, Request

\* An event resolves a session of the map; a start is given one.
LEMMA HeldStep ==
    ASSUME Base, HeldInv, [Next]_vars
    PROVE  HeldInv'
  <1> USE SessionIn DEF Base, HeldInv, Jobs
  <1>0. ASSUME NEW s \in 1..made, ~Crash, session[s].retired => session'[s].retired,
               session[s].retired \/ Reach(s)
        PROVE  session'[s].retired \/ Reach(s)'
    BY <1>0, ReachStep DEF Base
  <1>1. ASSUME NEW w \in Worker, NEW gone, Dropping(w, gone), ~Crash
        PROVE  HeldInv'
    <2>1. /\ \A v \in Worker : v # w => job'[v] = job[v]
          /\ job'[w].pc \notin {"apply", "flush"} /\ job'[w].then # "begin" /\ session' = session
      BY <1>1 DEF Dropping, Job
    <2> QED BY <1>0, <1>1, <2>1
  <1>2. ASSUME NEW w \in Thread, NEW k \in Key, NEW gone, Creating(w, k, gone), ~Crash
        PROVE  HeldInv'
    <2>1. /\ \A v \in Worker : v # w => job'[v] = job[v]
          /\ job'[w].own = made + 1 /\ live'[k] = made + 1
      BY <1>2 DEF Creating, Worker, Without, Places
    <2>2. \A s \in 1..made : session'[s] = session[s]
      BY <1>2 DEF Creating, Sessions
    <2>3. ASSUME NEW s, s = made + 1
          PROVE  Reach(s)'
      <3>1. s # None /\ s = live'[k]
        BY <2>1, <2>3 DEF None, Places
      <3>2. s \in Live'
        BY <3>1 DEF Live
      <3> QED BY <3>2 DEF Reach
    <2>4. ASSUME NEW v \in Worker, job'[v].pc \in {"apply", "flush"} \/ job'[v].then = "begin"
          PROVE  (session[job[v].own].retired \/ Reach(job[v].own))'
      <3>1. CASE v = w
        BY <2>1, <2>3, <3>1
      <3>2. CASE v # w
        BY <1>0, <1>2, <2>1, <2>2, <2>4, <3>2
      <3> QED BY <3>1, <3>2
    <2> QED BY <2>4
  <1>3. ASSUME NEW t \in Thread, NEW k \in Key, Resolve(t, k), ~Crash
        PROVE  HeldInv'
    <2>1. /\ \A v \in Worker : v # t => job'[v] = job[v]
          /\ job'[t].own = live[k] /\ live[k] \in Live /\ session' = session /\ Live' = Live
      BY <1>3 DEF Resolve, Resting, Worker, Live
    <2>2. ASSUME NEW v \in Worker, job'[v].pc \in {"apply", "flush"} \/ job'[v].then = "begin"
          PROVE  (session[job[v].own].retired \/ Reach(job[v].own))'
      <3>1. CASE v = t
        BY <2>1, <3>1 DEF Reach
      <3>2. CASE v # t
        BY <1>0, <1>3, <2>1, <2>2, <3>2
      <3> QED BY <3>1, <3>2
    <2> QED BY <2>2
  <1>4. ASSUME NEW t \in Thread, job' = [job EXCEPT ![t] = job'[t]], job'[t].then = "idle", ~Crash,
               job'[t].pc \notin {"apply", "flush"}, \A s \in 1..made : session'[s].retired = session[s].retired
        PROVE  HeldInv'
    <2>1. \A v \in Worker : v # t => job'[v] = job[v]
      BY <1>4
    <2> QED BY <1>0, <1>4, <2>1
  <1>5. ASSUME NEW t \in Thread, NEW k \in Key, StartRequest(t, k), ~Crash
        PROVE  HeldInv'
    BY <1>4, <1>5 DEF StartRequest, Resting, Worker
  <1>6. ASSUME NEW t \in Thread, Answering(t), ~Crash
        PROVE  HeldInv'
    <2>1. /\ t \in Worker /\ job' = [job EXCEPT ![t] = Resting] /\ job[t].own \in Session
          /\ \A r \in Session : r # job[t].own => session'[r] = session[r]
          /\ session'[job[t].own].retired = session[job[t].own].retired
      BY <1>6, AnsweringIs
    <2>2. /\ job' = [job EXCEPT ![t] = job'[t]] /\ job'[t].then = "idle"
          /\ job'[t].pc \notin {"apply", "flush"}
      BY <2>1 DEF Resting
    <2>3. \A s \in 1..made : session'[s].retired = session[s].retired
      BY <2>1
    <2> QED BY <1>4, <1>6, <2>2, <2>3
  <1>7. ASSUME ~Crash, \A s \in 1..made : session[s].retired => session'[s].retired,
               \A w \in Worker : job'[w].own = job[w].own /\ job'[w].then = job[w].then
                                /\ (job'[w].pc \in {"apply", "flush"} => job[w].pc \in {"apply", "flush"})
        PROVE  HeldInv'
    BY <1>0, <1>7
  <1>8. ASSUME NEW w \in Worker, Archive(w), ~Crash
        PROVE  HeldInv'
    <2>1. CASE Flush(w)
      <3>1. \A s \in 1..made : session[s].retired => session'[s].retired
        BY <2>1, FlushIs
      <3>2. job' = job
        BY <2>1 DEF Flush
      <3> QED BY <1>7, <1>8, <3>1, <3>2
    <2>2. CASE Retire(w)
      <3>1. \A s \in 1..made : session[s].retired => session'[s].retired
        BY <2>2 DEF Retire, Sessions, Fields
      <3>2. job' = job
        BY <2>2 DEF Retire
      <3> QED BY <1>7, <1>8, <3>1, <3>2
    <2>3. CASE Rename(w)
      <3>1. \A v \in Worker : job'[v].own = job[v].own /\ job'[v].then = job[v].then
                               /\ job'[v].pc = job[v].pc
        BY <2>3 DEF Rename, Job
      <3>2. session' = session
        BY <2>3 DEF Rename
      <3> QED BY <1>7, <1>8, <3>1, <3>2
    <2>4. CASE Release(w)
      <3>1. \A v \in Worker : job'[v].own = job[v].own /\ job'[v].then = job[v].then
                               /\ (job'[v].pc \in {"apply", "flush"} => job[v].pc \in {"apply", "flush"})
        BY <2>4 DEF Release, Job
      <3>2. session' = session
        BY <2>4 DEF Release
      <3> QED BY <1>7, <1>8, <3>1, <3>2
    <2> QED BY <1>8, <2>1, <2>2, <2>3, <2>4 DEF Archive
  <1>9. ASSUME NEW s \in Session, GoStale(s) \/ Age(s), ~Crash
        PROVE  HeldInv'
    <2>1. job' = job /\ \A r \in 1..made : session'[r].retired = session[r].retired
      BY <1>9 DEF GoStale, Age, Sessions, Fields
    <2> QED BY <1>7, <1>9, <2>1
  <1>10. CASE Crash
    BY <1>10 DEF Crash, Resting
  <1>11. CASE UNCHANGED vars /\ ~Crash
    BY <1>7, <1>11 DEF vars
  <1>12. ASSUME NEW t \in Thread, MayFlush(t), ~Crash
         PROVE  HeldInv'
    <2>1. /\ session' = session
          /\ \A v \in Worker : job'[v].own = job[v].own /\ job'[v].then = job[v].then
                                /\ (job'[v].pc \in {"apply", "flush"} => job[v].pc \in {"apply", "flush"})
      BY <1>12 DEF MayFlush, Job, Worker
    <2> QED BY <1>7, <1>12, <2>1
  <1> QED BY <1>1, <1>2, <1>3, <1>5, <1>6, <1>8, <1>9, <1>10, <1>11, <1>12, StepIs
          DEF Quiet, Request

\* What a step may do to the sessions made before it.
OldStep(s) ==
    /\ session'[s].key = session[s].key
    /\ session'[s].fresh => session[s].fresh
    /\ session[s].retired => session'[s].retired \/ Crash
    /\ \A k \in Key : s \in rows'[k] => s \in rows[k] \/ (Reach(s) /\ ~session[s].retired)
    /\ \A k \in Key : summary'[k] = s =>
          summary[k] = s \/ s \in strays' \/ (Reach(s) /\ ~session[s].retired)
    /\ strays \subseteq strays'

\* Only a session within reach, and not retired, gets records under its key, or a
\* summary that is no stray.
LEMMA OldSessions ==
    ASSUME Base, FlushedInv, HeldInv, [Next]_vars, NEW s \in 1..made
    PROVE  OldStep(s)
  <1> USE SessionIn DEF Base, OldStep
  <1>1. session[s].key \in Key /\ session'[s].key = session[s].key
    BY SessionsStep DEF KeyInv
  <1>2. CASE session' = session /\ UNCHANGED <<disk, strays>>
    BY <1>2 DEF disk
  <1>3. ASSUME NEW w \in Worker, NEW gone, Dropping(w, gone)
        PROVE  OldStep(s)
    BY <1>2, <1>3 DEF Dropping
  <1>4. ASSUME NEW w \in Thread, NEW k \in Key, NEW gone, Creating(w, k, gone)
        PROVE  OldStep(s)
    <2>1. session'[s] = session[s] /\ UNCHANGED <<rows, summary, strays>>
      BY <1>4 DEF Creating, Sessions, disk
    <2> QED BY <2>1
  <1>14. ASSUME NEW r \in 1..made, Appended(r), Summed(r), strays \subseteq strays',
                Reach(r) \/ session[r].retired,
                session[r].retired => summary' = summary \/ r \in strays',
                session'[s].fresh => session[s].fresh,
                session[s].retired => session'[s].retired
         PROVE  OldStep(s)
    <2>1. session[r].key \in Key
      BY DEF KeyInv
    <2>2. \A k \in Key : s \in rows'[k] => s \in rows[k] \/ (s = r /\ ~session[r].retired)
      BY <1>14, <2>1 DEF Appended
    <2>3. \A k \in Key : summary'[k] = s => summary[k] = s \/ (s = r /\ summary' # summary)
      BY <1>14, <2>1 DEF Summed, Places
    <2> QED BY <1>1, <1>14, <2>2, <2>3
  <1>5. ASSUME NEW w \in Worker, Flush(w)
        PROVE  OldStep(s)
    <2>1. PICK r \in job[w].pending :
            /\ r \in 1..made /\ r \in Session /\ ~session[r].flushed
            /\ \A q \in Session : q # r => session'[q] = session[q]
            /\ session'[r].fresh = session[r].fresh /\ session'[r].retired = session[r].retired
            /\ Appended(r) /\ Summed(r) /\ strays' = strays
      BY <1>5, FlushIs
    <2>2. ~session[r].retired /\ Reach(r)
      BY <2>1 DEF FlushedInv, Reach
    <2> QED BY <1>14, <2>1, <2>2
  <1>6. ASSUME NEW w \in Worker, Retire(w)
        PROVE  OldStep(s)
    <2>1. /\ UNCHANGED <<rows, summary, strays>> /\ session'[s].fresh = session[s].fresh
          /\ session[s].retired => session'[s].retired
      BY <1>6 DEF Retire, Sessions, Fields, disk
    <2> QED BY <1>1, <2>1
  <1>7. ASSUME NEW w \in Worker, Rename(w)
        PROVE  OldStep(s)
    <2>1. session' = session /\ strays' = strays
      BY <1>7 DEF Rename
    <2>2. \A k \in Key : rows'[k] \subseteq rows[k] /\ summary'[k] \in {summary[k], None}
      BY <1>7 DEF Rename, Places
    <2> QED BY <2>1, <2>2 DEF None
  <1>8. ASSUME NEW t \in Thread, Answering(t)
        PROVE  OldStep(s)
    <2> DEFINE r == job[t].own
    <2>1. /\ t \in Worker /\ r \in 1..made /\ r \in Session
          /\ job[t].pc \in {"begin", "apply", "flush"}
          /\ \A q \in Session : q # r => session'[q] = session[q]
          /\ session'[r].fresh => session[r].fresh
          /\ session'[r].retired = session[r].retired
          /\ Appended(r) /\ Summed(r) /\ strays \subseteq strays'
          /\ session[r].retired => summary' = summary \/ r \in strays'
      BY <1>8, AnsweringIs
    <2>2. session[r].retired \/ Reach(r)
      BY <2>1 DEF Jobs, HeldInv
    <2> HIDE DEF r
    <2> QED BY <1>14, <2>1, <2>2
  <1>9. ASSUME NEW r \in Session, GoStale(r) \/ Age(r)
        PROVE  OldStep(s)
    <2>1. /\ UNCHANGED <<rows, summary, strays>> /\ session'[s].fresh = session[s].fresh
          /\ session'[s].retired = session[s].retired
      BY <1>9 DEF GoStale, Age, Sessions, Fields, disk
    <2> QED BY <1>1, <2>1
  <1>10. CASE Crash
    <2>1. UNCHANGED <<rows, summary, strays>> /\ session'[s].fresh = session[s].fresh
      BY <1>10 DEF Crash, Unmade, disk
    <2> QED BY <1>1, <1>10, <2>1
  <1>11. ASSUME NEW w \in Worker, Release(w)
         PROVE  OldStep(s)
    BY <1>2, <1>11 DEF Release
  <1>12. ASSUME NEW t \in Thread, Request(t) \/ MayFlush(t)
         PROVE  OldStep(s)
    BY <1>2, <1>12 DEF Request, StartRequest, Resolve, MayFlush
  <1>13. CASE UNCHANGED vars
    BY <1>2, <1>13 DEF vars
  <1> QED BY <1>3, <1>4, <1>5, <1>6, <1>7, <1>8, <1>9, <1>10, <1>11, <1>12, <1>13, StepIs
          DEF Quiet, Archive

\* One pair of sessions of ApartInv.
Apart(r, s) ==
    r < s /\ session[r].key = session[s].key /\ session[s].fresh =>
        /\ r \notin rows[session[s].key]
        /\ summary[session[s].key] = r => r \in strays
        /\ session[r].retired \/ ~Reach(r)

\* A start makes a fresh session only where nothing of the key is live, being
\* archived or on disk.
LEMMA NewIsApart ==
    ASSUME Base, [Next]_vars, NEW w \in Thread, NEW k \in Key, NEW gone,
           Creating(w, k, gone), NEW r \in 1..made, NEW s, s = made + 1
    PROVE  Apart(r, s)'
  <1> USE SessionIn DEF Base
  <1>1. /\ session'[s].key = k /\ session'[r] = session[r]
        /\ UNCHANGED <<rows, summary, strays>> /\ r # None
        /\ session'[s].fresh => rows[k] = {} /\ summary[k] = None /\ k \notin BeingArchived /\ k \notin Keys(gone)
        /\ live[k] \in gone \cup {None}
    BY DEF Creating, Sessions, disk, None
  <1>2. Reach(r)' => Reach(r)
    BY ReachStep
  <1>3. ASSUME session'[s].fresh, session[r].key = k, r \in Live
        PROVE  FALSE
    <2>1. PICK j \in Key : live[j] = r /\ r # None
      BY <1>3 DEF Live
    <2>2. j = k
      BY <1>3, <2>1 DEF KeyInv
    <2>3. r \in gone
      BY <1>1, <2>1, <2>2
    <2> QED BY <1>1, <1>3, <2>3 DEF Keys
  <1>4. ASSUME session'[s].fresh, session[r].key = k, NEW v \in Worker, r \in job[v].pending
        PROVE  FALSE
    <2>1. k \in {session[p].key : p \in job[v].pending}
      BY <1>4
    <2> QED BY <1>1, <1>4, <2>1 DEF BeingArchived
  <1> QED BY <1>1, <1>2, <1>3, <1>4 DEF Apart, Reach

\* Older pairs stay apart, and a rename moves one run's data only.
LEMMA ApartStep ==
    ASSUME Base, FlushedInv, HeldInv, ApartInv, [Next]_vars
    PROVE  ApartInv'
  <1> USE SessionIn DEF Base
  <1>1. \A r, s \in 1..made : Apart(r, s)
    BY DEF ApartInv, Apart
  <1>2. ASSUME NEW r \in 1..made, NEW s \in 1..made
        PROVE  Apart(r, s)'
    <2>1. OldStep(r) /\ OldStep(s) /\ Apart(r, s)
      BY <1>1, OldSessions
    <2>2. Reach(r)' => Reach(r)
      BY ReachStep
    <2>4. ASSUME Crash
          PROVE  ~Reach(r)'
      BY <2>4 DEF Crash, Reach, Live, Resting
    <2>3. session[s].key \in Key
      BY DEF KeyInv
    <2> QED BY <2>1, <2>2, <2>3, <2>4 DEF Apart, OldStep
  <1>3. ASSUME NEW r \in 1..made', NEW s \in 1..made', r < s
        PROVE  Apart(r, s)'
    <2>1. CASE made' = made
      BY <1>2, <2>1
    <2>2. ASSUME NEW w \in Thread, NEW k \in Key, NEW gone, Creating(w, k, gone)
          PROVE  Apart(r, s)'
      <3>1. made' = made + 1
        BY <2>2 DEF Creating
      <3>2. r \in 1..made /\ (s \in 1..made \/ s = made + 1)
        BY <1>3, <3>1
      <3> QED BY <1>2, <2>2, <3>2, NewIsApart DEF Base
    <2>3. made' = made \/ \E w \in Thread, k \in Key : \E gone : Creating(w, k, gone)
      BY StepIs DEF Dropping, Quiet, Crash, Archive, Request, Flush, Retire, Rename, Release,
                    StartRequest, Resolve, MayFlush, Answering, Begin, Record, Heartbeat, End,
                    ControlFlush, ControlClear, GoStale, Age, vars
    <2> QED BY <2>1, <2>2, <2>3
  <1>4. ASSUME NEW place \in archived', NEW r \in place, NEW s \in place, r < s
        PROVE  ~session'[s].fresh
    <2>1. CASE place \in archived
      <3>1. s \in 1..made /\ ~session[s].fresh
        BY <1>4, <2>1 DEF Places, ApartInv
      <3> QED BY <3>1, OldSessions DEF OldStep
    <2>2. CASE \E k \in Key : place = rows[k]
      <3>1. PICK k \in Key : place = rows[k]
        BY <2>2
      <3>2. /\ r \in 1..made /\ s \in 1..made /\ r \in rows[session[s].key]
            /\ session[r].key = session[s].key
        BY <3>1 DEF Places, KeyInv
      <3>3. ~session[s].fresh
        BY <1>1, <1>4, <3>2 DEF Apart
      <3> QED BY <3>2, <3>3, OldSessions DEF OldStep
    <2>3. archived' = archived \/ \E w \in Worker : Rename(w)
      BY StepIs DEF Dropping, Creating, Quiet, Crash, Archive, Request, Flush, Retire, Release,
                    StartRequest, Resolve, MayFlush, Answering, Begin, Record, Heartbeat, End,
                    ControlFlush, ControlClear, GoStale, Age, vars, disk
    <2>4. ASSUME NEW w \in Worker, Rename(w)
          PROVE  place \in archived \/ \E k \in Key : place = rows[k]
      BY <1>4, <2>4 DEF Rename, Jobs, KeyInv
    <2> QED BY <1>4, <2>1, <2>2, <2>3, <2>4
  <1> QED BY <1>3, <1>4 DEF ApartInv, Apart

\* The records of two runs of one key are never in one place, except where a run
\* began with the data before it: whichever late events, flushes, failed renames
\* and restarts come between (make_archived_key, archive_detached).  No summary of
\* an older run is under the key of a new one, but for that of a flush that found
\* its service not yet retired and wrote after it was (flush_to_disk).
THEOREM RunsAreApart == Spec => []DataStaysApart
  <1> DEFINE Inv == Base /\ FlushedInv /\ HeldInv /\ ApartInv
  <1>1. Init => Inv
    BY BaseInit DEF Init, FlushedInv, HeldInv, ApartInv, Unmade, Resting
  <1>2. Inv /\ [Next]_vars => Inv'
    BY BaseStep, FlushedStep, HeldStep, ApartStep
  <1>3. ASSUME Inv, NEW k \in Key, live[k] # None, session[live[k]].fresh
        PROVE  summary[k] \in {None, live[k]} \cup strays
    <2>1. /\ live[k] \in 1..made /\ session[live[k]].key = k
          /\ \A r \in 1..made : session[r].key = k => r <= live[k]
          /\ summary[k] \in 0..made /\ made \in Nat
          /\ summary[k] # None => session[summary[k]].key = k
      BY <1>3, SessionIn DEF Base, Places, KeyInv, None
    <2>2. ASSUME summary[k] # None, summary[k] # live[k]
          PROVE  summary[k] \in strays
      <3>1. summary[k] \in 1..made /\ summary[k] < live[k]
        BY <2>1, <2>2 DEF None
      <3> QED BY <1>3, <2>1, <2>2, <3>1 DEF ApartInv
    <2> QED BY <2>2
  <1>4. ASSUME Inv, NEW place \in archived \cup {rows[k] : k \in Key},
               \A s \in place : session[s].fresh
        PROVE  ~(Cardinality(place) > 1)
    <2> USE <1>4
    <2>1. place \subseteq 1..made /\ made \in Nat
      BY SessionIn DEF Base, Places
    <2>2. \A r, s \in place : ~(r < s)
      <3>1. CASE place \in archived
        BY <3>1 DEF ApartInv
      <3>2. ASSUME NEW k \in Key, place = rows[k]
            PROVE  \A r, s \in place : ~(r < s)
        BY <2>1, <3>2 DEF ApartInv, Base, KeyInv
      <3> QED BY <3>1, <3>2
    <2>3. ASSUME NEW s \in place
          PROVE  ~(Cardinality(place) > 1)
      <3>1. \A r \in place : r = s
        BY <2>1, <2>2
      <3>2. place = {s}
        BY <3>1
      <3>3. Cardinality(place) = 1
        BY <3>2, FS_Singleton
      <3> QED BY <3>3
    <2>4. CASE place = {}
      <3>1. Cardinality(place) = 0
        BY <2>4, FS_EmptySet
      <3> QED BY <3>1
    <2> QED BY <2>3, <2>4
  <1>5. Inv => DataStaysApart
    BY <1>3, <1>4 DEF DataStaysApart
  <1> QED BY <1>1, <1>2, <1>5, PTL DEF Spec
=============================================================================
