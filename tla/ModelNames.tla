----------------------------- MODULE ModelNames -----------------------------
(***************************************************************************)
(* The model name service: the lifecycle of registered models (initializing, *)
(* training, candidate, production, retired), the run each is trained in,   *)
(* and the production model of each role.  Everything is kept in memory     *)
(* under one lock and copied to SQLite.  A handler changes memory and then  *)
(* writes, still under the lock and before it answers: the model's row, its *)
(* history (cleared and inserted again), the roles (one transaction).  A    *)
(* failing write is only logged.  The service may crash between two writes  *)
(* and restarts from the disk.                                              *)
(*                                                                         *)
(* Its clients are trainers: begin_run asks for a run id, then the registry *)
(* for a session id (it trains without one if that fails), every epoch      *)
(* pushes progress, the end of a pass sets the candidate.  A request that   *)
(* gets no answer is sent again (ModelNameClient::http_put), executed or    *)
(* not; errors are only logged.                                             *)
(*                                                                         *)
(* The progress of a row is its last report: an epoch, counted from 0, and  *)
(* a session id.  Epoch 0 without a session id cannot be told from nothing. *)
(*                                                                         *)
(* Abstracted: architecture, tags, run groups and world-model links (static *)
(* data of a row), the artifact's location, losses and times; of a report   *)
(* only whether it can be told from nothing; a history entry is the number  *)
(* of its run.  The role of a registration is only a label until a          *)
(* promotion.                                                               *)
(***************************************************************************)
EXTENDS Naturals, Sequences

CONSTANTS
    Name,           \* model names
    NoName,
    Role,
    NoRole,
    Trainer,        \* trainer processes
    ModelOf,        \* the model a trainer trains
    NoTrainer,
    Attempts,       \* how often a request is sent (3)
    MaxRuns,        \* bound: runs of a model
    MaxHistory,     \* bound: history entries of a model
    MaxFaults       \* bound: crashes, failed writes, lost requests and
                    \*   answers, begun runs without a session id

ASSUME ModelNamesAssumption ==
    /\ NoName \notin Name /\ NoRole \notin Role /\ NoTrainer \notin Trainer
    /\ ModelOf \in [Trainer -> Name]
    /\ Attempts \in Nat \ {0} /\ MaxRuns \in Nat \ {0}
    /\ MaxHistory \in Nat /\ MaxFaults \in Nat

VARIABLES
    mem,        \* models_ and roles_
    disk,       \* the tables models, training_history and roles
    todo,       \* the writes left of the request being served
    serving,    \* the trainer that waits for the answer to it
    trainer,    \* what each trainer is doing
    faults,     \* faults so far
    reported,   \* history: the runs whose last report can be told from nothing
    unsaved,    \* history: what a failed write left stale on disk
    torn        \* history: promotions a crash cut in two

stores == <<mem, disk>>
ghosts == <<reported, unsaved, torn>>
vars == <<stores, todo, serving, trainer, faults, ghosts>>

Run == 1..MaxRuns
NoRun == 0
States == {"unregistered", "initializing", "training", "candidate", "production", "retired"}
Row == [state : States, number : 0..MaxRuns, run : 0..MaxRuns, progress : BOOLEAN,
        role : Role \cup {NoRole}]
Unregistered == [state |-> "unregistered", number |-> 0, run |-> NoRun,
                 progress |-> FALSE, role |-> NoRole]

EmptyStore == [rows    |-> [n \in Name |-> Unregistered],
               history |-> [n \in Name |-> <<>>],
               roles   |-> [r \in Role |-> NoName]]

\* The writes of persist_model and persist_roles, and of a deletion.
WriteRow(n)      == [op |-> "row", name |-> n]
ClearHistory(n)  == [op |-> "clear", name |-> n]
WriteEntry(n, e) == [op |-> "entry", name |-> n, entry |-> e]
DeleteRows(n)    == [op |-> "delete", name |-> n]
WriteRoles       == [op |-> "roles", name |-> NoName]

\* Variant: the row of an existing model is only written when its state changes.
persist_modelOnChange(store, n) ==
    (IF store.rows[n].state # mem.rows[n].state THEN <<WriteRow(n)>> ELSE <<>>)
        \o (IF disk.history[n] = <<>> THEN <<>> ELSE <<ClearHistory(n)>>)
        \o [i \in DOMAIN store.history[n] |-> WriteEntry(n, store.history[n][i])]

\* A clearing that finds no rows is no write.
persist_model(store, n) ==
    <<WriteRow(n)>>
        \o (IF disk.history[n] = <<>> THEN <<>> ELSE <<ClearHistory(n)>>)
        \o [i \in DOMAIN store.history[n] |-> WriteEntry(n, store.history[n][i])]

State(n) == mem.rows[n].state
Registered(n) == State(n) # "unregistered"
\* The lock is free and the last request was answered.
Free == todo = <<>> /\ serving = NoTrainer

Fault == faults < MaxFaults /\ faults' = faults + 1

\* A request on n: memory becomes store, then the writes ws follow.
Serve(store, ws) == Free /\ mem' = store /\ todo' = ws /\ UNCHANGED disk

\* History: the standing of the trainers of n.  "current": n was given to this
\* one last; "displaced": something happened to n since; "superseded": n was
\* retrained since; "unknown": n was deleted or restored from an old copy.
Standing(n, new) == [t \in Trainer |->
    IF ModelOf[t] = n /\ trainer[t].standing \in DOMAIN new
    THEN [trainer[t] EXCEPT !.standing = new[@]] ELSE trainer[t]]
Disturbed(n) == Standing(n, [current |-> "displaced"])
Superseded(n) == Standing(n, [current |-> "superseded", displaced |-> "superseded"])
Unknown(n) == Standing(n, [s \in {"current", "displaced", "superseded"} |-> "unknown"])

-----------------------------------------------------------------------------
(* Memory after each request *)

With(n, row, history) ==
    [mem EXCEPT !.rows[n] = row, !.history[n] = history]

\* "training": archives the progress of a run that never reached candidate,
\* and allocates the run.
Number(row, new) ==
    IF row.number = 0 THEN 1 ELSE IF new THEN row.number + 1 ELSE row.number
Archived(n) ==
    LET row == mem.rows[n] IN
    IF row.state = "training" /\ row.progress
    THEN Append(mem.history[n], row.run)
    ELSE mem.history[n]

\* Variant: the progress of the abandoned run is dropped.
TrainingUnarchived(n, new) ==
    LET row == mem.rows[n]
        num == Number(row, new)
    IN  With(n, [row EXCEPT !.state = "training", !.number = num, !.run = num,
                            !.progress = FALSE],
             mem.history[n])

Training(n, new) ==
    LET row == mem.rows[n]
        num == Number(row, new)
    IN  With(n, [row EXCEPT !.state = "training", !.number = num, !.run = num,
                            !.progress = FALSE],
             Archived(n))

MayTrain(n) == State(n) \in {"initializing", "candidate", "training"}

\* Variant: the run is not cleared.
CandidateKeepsRun(n, r) ==
    LET run == IF r = NoRun THEN mem.rows[n].run ELSE r
    IN  With(n, [mem.rows[n] EXCEPT !.state = "candidate", !.progress = FALSE],
             IF run = NoRun THEN mem.history[n] ELSE Append(mem.history[n], run))

\* "candidate" with run id r (NoRun: none given).
Candidate(n, r) ==
    LET row == mem.rows[n]
        run == IF r = NoRun THEN row.run ELSE r
    IN  With(n, [row EXCEPT !.state = "candidate", !.run = NoRun, !.progress = FALSE],
             IF run = NoRun THEN mem.history[n]
             ELSE Append(mem.history[n], run))

\* Variant: any run lands.
MayBecomeCandidateUnchecked(n, r) ==
    State(n) \in {"training", "initializing", "retired"}

MayBecomeCandidate(n, r) ==
    \/ State(n) = "training" /\ r # NoRun /\ r = mem.rows[n].run
    \/ State(n) \in {"initializing", "retired"}

\* Variant: the model that had the role before stays in production.
PromotedBeside(n, r) ==
    [store  |-> [mem EXCEPT !.rows[n] = [@ EXCEPT !.state = "production", !.role = r],
                            !.roles[r] = n],
     writes |-> persist_model(mem, n) \o <<WriteRoles>>]

\* Retires the model that had the role, if it is in production.
Promoted(n, r) ==
    LET prev == mem.roles[r]
        retires == prev \in Name \ {n} /\ State(prev) = "production"
    IN  [store |-> [mem EXCEPT
             !.rows = [m \in Name |->
                 IF m = n THEN [mem.rows[m] EXCEPT !.state = "production", !.role = r]
                 ELSE IF retires /\ m = prev THEN [mem.rows[m] EXCEPT !.state = "retired"]
                 ELSE mem.rows[m]],
             !.roles[r] = n],
         writes |-> (IF retires THEN persist_model(mem, prev) ELSE <<>>)
                        \o persist_model(mem, n) \o <<WriteRoles>>]

-----------------------------------------------------------------------------
(* Requests of operators: their answers change nothing *)

Register(n) ==
    /\ ~Registered(n)
    /\ LET store == With(n, [Unregistered EXCEPT !.state = "initializing"], <<>>)
       IN  Serve(store, persist_model(store, n))
    /\ UNCHANGED <<serving, trainer, faults, ghosts>>

\* An imported model, or a retired one taken back; no run id.
SetCandidate(n) ==
    /\ MayBecomeCandidate(n, NoRun)
    /\ mem.rows[n].run = NoRun \/ Len(mem.history[n]) < MaxHistory
    /\ Serve(Candidate(n, NoRun), persist_model(Candidate(n, NoRun), n))
    /\ trainer' = Disturbed(n)
    /\ UNCHANGED <<serving, faults, ghosts>>

Retire(n) ==
    /\ Registered(n) /\ State(n) # "retired"
    /\ LET store == [mem EXCEPT !.rows[n].state = "retired"]
       IN  Serve(store, persist_model(store, n))
    /\ trainer' = Disturbed(n)
    /\ torn' = torn \ {n}
    /\ UNCHANGED <<serving, faults, reported, unsaved>>

\* run_group and link-world-model: write the row and the history again; no step
\* where that writes what the disk holds anyway and no history is cleared.
UpdateData(n) ==
    /\ Registered(n)
    /\ disk.rows[n] # mem.rows[n] \/ disk.history[n] # <<>>
    /\ Serve(mem, persist_model(mem, n))
    /\ UNCHANGED <<serving, trainer, faults, ghosts>>

Promote(n, r) ==
    /\ State(n) = "candidate"
    /\ Serve(Promoted(n, r).store, Promoted(n, r).writes)
    /\ trainer' = Disturbed(n)
    /\ torn' = torn \ {n, mem.roles[r]}
    /\ UNCHANGED <<serving, faults, reported, unsaved>>

Delete(n) ==
    /\ State(n) \in {"initializing", "retired"}
    /\ Serve([mem EXCEPT !.rows[n] = Unregistered, !.history[n] = <<>>,
                         !.roles = [r \in Role |-> IF @[r] = n THEN NoName ELSE @[r]]],
             <<DeleteRows(n), WriteRoles>>)
    /\ trainer' = Unknown(n)
    /\ reported' = [reported EXCEPT ![n] = {}]
    /\ torn' = torn \ {n}
    /\ UNCHANGED <<serving, faults, unsaved>>

-----------------------------------------------------------------------------
(* Trainers: begin_run, the epochs, the end of a pass *)

\* tells: its reports can be told from nothing.
AtRest == [pc |-> "idle", new |-> FALSE, run |-> NoRun, tries |-> 0,
           tells |-> FALSE, standing |-> "unknown"]

\* The request of begin_run reaches the service; a refused trainer trains
\* without a run id.
BeginRun(t, new) ==
    LET n == ModelOf[t] IN
    /\ \/ trainer[t].pc = "idle"
       \/ trainer[t].pc = "asking" /\ trainer[t].new = new
    /\ \/ /\ MayTrain(n)
          /\ Number(mem.rows[n], new) \in Run
          /\ Len(mem.history[n]) < MaxHistory
          /\ Serve(Training(n, new), persist_model(Training(n, new), n))
          /\ serving' = t
          /\ trainer' = [Disturbed(n) EXCEPT ![t].pc = "asking", ![t].new = new,
                                             ![t].standing = "current"]
       \/ /\ ~MayTrain(n) /\ Free
          /\ trainer' = [trainer EXCEPT ![t] = AtRest]
          /\ UNCHANGED <<stores, todo, serving>>
    /\ UNCHANGED <<faults, ghosts>>

\* The request was executed and answered; after begin_run's, next_session may
\* fail.
Answered(t) ==
    LET n == ModelOf[t] IN
    /\ serving = t /\ todo = <<>>
    /\ \/ /\ trainer[t].pc = "asking"
          /\ \E session \in BOOLEAN :
               /\ IF session THEN UNCHANGED faults ELSE Fault
               /\ trainer' = [(IF trainer[t].new THEN Superseded(n) ELSE trainer) EXCEPT
                     ![t] = [AtRest EXCEPT !.pc = "training", !.standing = "current",
                                           !.run = mem.rows[n].run, !.tells = session]]
       \/ /\ trainer[t].pc # "asking"
          /\ trainer' = [trainer EXCEPT ![t] = AtRest]
          /\ UNCHANGED faults
    /\ serving' = NoTrainer
    /\ UNCHANGED <<stores, todo, ghosts>>

\* It is sent again until the attempts are used up; then the trainer goes on
\* without a run id, or without a candidate.
SentAgain(told) ==
    IF told.tries + 1 < Attempts THEN [told EXCEPT !.tries = @ + 1] ELSE AtRest

\* The answer is lost.
AnswerLost(t) ==
    /\ serving = t /\ todo = <<>> /\ Fault
    /\ trainer' = [trainer EXCEPT ![t] = SentAgain(@)]
    /\ serving' = NoTrainer
    /\ UNCHANGED <<stores, todo, ghosts>>

\* The request is lost, or the service is down.  (Like Abandon, the same between
\* the writes of another request as after them.)
RequestLost(t) ==
    /\ todo = <<>> /\ serving # t /\ Fault
    /\ \E new \in BOOLEAN :
         trainer' = [trainer EXCEPT ![t] =
             CASE trainer[t].pc = "idle"     -> SentAgain([@ EXCEPT !.pc = "asking", !.new = new])
               [] trainer[t].pc = "training" -> SentAgain([@ EXCEPT !.pc = "landing"])
               [] OTHER                      -> SentAgain(@)]
    /\ UNCHANGED <<stores, todo, serving, ghosts>>

\* The end of an epoch: its number and the session id replace what was reported
\* before.  A refusal is only logged.
push_progress(t) ==
    LET n == ModelOf[t]
        run == trainer[t].run
        store == [mem EXCEPT !.rows[n].progress = trainer[t].tells]
    IN  /\ trainer[t].pc = "training"
        /\ State(n) = "training" /\ run = mem.rows[n].run
        /\ Serve(store, persist_model(store, n))
        /\ reported' = [reported EXCEPT ![n] =
               IF trainer[t].tells THEN @ \cup {run} ELSE @ \ {run}]
        /\ UNCHANGED <<serving, trainer, faults, unsaved, torn>>

\* The second epoch begins, whatever became of the first one's report.
NextEpoch(t) ==
    /\ todo = <<>> /\ trainer[t].pc = "training" /\ ~trainer[t].tells
    /\ trainer' = [trainer EXCEPT ![t].tells = TRUE]
    /\ UNCHANGED <<stores, todo, serving, faults, ghosts>>

\* The pass is over: set_candidate reaches the service.
Land(t) ==
    LET n == ModelOf[t]
        run == trainer[t].run
    IN  /\ trainer[t].pc \in {"training", "landing"} /\ serving # t
        /\ \/ /\ MayBecomeCandidate(n, run)
              /\ Len(mem.history[n]) < MaxHistory
              /\ Serve(Candidate(n, run), persist_model(Candidate(n, run), n))
              /\ serving' = t
              /\ trainer' = [Disturbed(n) EXCEPT ![t].pc = "landing"]
              /\ reported' = [reported EXCEPT ![n] =
                     IF State(n) = "retired" /\ mem.rows[n].run # run
                     THEN @ \ {mem.rows[n].run} ELSE @]
           \/ /\ ~MayBecomeCandidate(n, run) /\ Free
              /\ trainer' = [trainer EXCEPT ![t] = AtRest]
              /\ UNCHANGED <<stores, todo, serving, reported>>
        /\ UNCHANGED <<faults, unsaved, torn>>

\* The pass aborts, fails or dies.
Abandon(t) ==
    /\ todo = <<>> /\ trainer[t].pc # "idle" /\ serving # t
    /\ trainer' = [trainer EXCEPT ![t] = AtRest]
    /\ UNCHANGED <<stores, todo, serving, faults, ghosts>>

-----------------------------------------------------------------------------
(* The disk *)

Written(w) ==
    CASE w.op = "row"    -> [disk EXCEPT !.rows[w.name] = mem.rows[w.name]]
      [] w.op = "clear"  -> [disk EXCEPT !.history[w.name] = <<>>]
      [] w.op = "entry"  -> [disk EXCEPT !.history[w.name] = Append(@, w.entry)]
      [] w.op = "delete" -> [disk EXCEPT !.rows[w.name] = Unregistered,
                                         !.history[w.name] = <<>>]
      [] w.op = "roles"  -> [disk EXCEPT !.roles = mem.roles]

Write ==
    LET w == Head(todo) IN
    /\ todo # <<>> /\ todo' = Tail(todo)
    /\ disk' = Written(w)
    /\ unsaved' = IF w.op \in {"row", "delete", "roles"} THEN unsaved \ {w.name} ELSE unsaved
    /\ UNCHANGED <<mem, serving, trainer, faults, reported, torn>>

\* A write that would change nothing may as well succeed.
WriteFails ==
    /\ todo # <<>> /\ todo' = Tail(todo) /\ Fault
    /\ Written(Head(todo)) # disk
    /\ unsaved' = unsaved \cup {Head(todo).name}
    /\ UNCHANGED <<stores, serving, trainer, reported, torn>>

\* What the disk holds of a model or of the roles may be old at a crash.
Old == unsaved \cup {todo[i].name : i \in DOMAIN todo}

\* History rows of a model that has no row are skipped.
load_from_disk == [disk EXCEPT !.history = [n \in Name |->
    IF disk.rows[n].state = "unregistered" THEN <<>> ELSE @[n]]]

\* The service dies and restarts with what the disk holds.
Crash ==
    /\ Fault
    /\ mem' = load_from_disk
    /\ todo' = <<>>
    /\ serving' = NoTrainer
    /\ trainer' = [t \in Trainer |->
           LET told == IF ModelOf[t] \in Old
                       THEN Unknown(ModelOf[t])[t]
                       ELSE trainer[t]
           IN  IF serving = t THEN SentAgain(told) ELSE told]
    /\ reported' = [n \in Name |-> IF n \in Old THEN {} ELSE reported[n]]
    /\ unsaved' = {}
    /\ torn' = torn \cup IF Old = {} THEN {}
                         ELSE {n \in Name : disk.rows[n].role \in Role
                                            /\ disk.roles[disk.rows[n].role] # n}
    /\ UNCHANGED disk

-----------------------------------------------------------------------------
Init ==
    /\ mem = EmptyStore
    /\ disk = EmptyStore
    /\ todo = <<>>
    /\ serving = NoTrainer
    /\ trainer = [t \in Trainer |-> AtRest]
    /\ faults = 0
    /\ reported = [n \in Name |-> {}]
    /\ unsaved = {}
    /\ torn = {}

OperatorNext == \E n \in Name :
    \/ Register(n) \/ SetCandidate(n) \/ Retire(n) \/ UpdateData(n) \/ Delete(n)
    \/ \E r \in Role : Promote(n, r)

TrainerNext == \E t \in Trainer :
    \/ \E new \in BOOLEAN : BeginRun(t, new)
    \/ Answered(t) \/ AnswerLost(t) \/ RequestLost(t)
    \/ push_progress(t) \/ NextEpoch(t) \/ Land(t) \/ Abandon(t)

DiskNext == Write \/ WriteFails \/ Crash

Next == OperatorNext \/ TrainerNext \/ DiskNext

Spec == Init /\ [][Next]_vars

-----------------------------------------------------------------------------
(* Properties *)

StoreOK(s) ==
    /\ s.rows \in [Name -> Row]
    /\ s.roles \in [Role -> Name \cup {NoName}]
    /\ DOMAIN s.history = Name
    /\ \A n \in Name : s.history[n] \in Seq(Run)

\* Memory and disk hold well-formed rows and a run is under way exactly where
\* the state says so, unless a retirement cut it short: only training and
\* retired models have a run id.
TypeOK ==
    /\ StoreOK(mem) /\ StoreOK(disk)
    /\ serving \in Trainer \cup {NoTrainer}
    /\ faults \in 0..MaxFaults
    /\ \A n \in Name :
         /\ (State(n) = "training") => mem.rows[n].run \in Run
         /\ (mem.rows[n].run # NoRun) => State(n) \in {"training", "retired"}
         /\ mem.rows[n].run \in {NoRun, mem.rows[n].number}

\* The run a trainer was given stays the active run of its model, through
\* failed writes of other data and crashes of the service, until another
\* trainer or an operator takes the model: a pass is not lost because the
\* service restarted.
AnswerOutlivesCrash == \A t \in Trainer :
    trainer[t].pc \in {"training", "landing"} /\ trainer[t].standing = "current" =>
        /\ State(ModelOf[t]) = "training"
        /\ mem.rows[ModelOf[t]].run = trainer[t].run

\* A run whose last report can be told from nothing is the model's run or has a
\* history entry, whether it reached candidate, was abandoned, retried or
\* retired; only a late trainer that takes a retired model back replaces the run
\* it was retired in.  (A run that reported its first epoch only, without a
\* session id, leaves nothing the service could archive.)
NoRunForgotten == \A n \in Name : \A run \in reported[n] :
    \/ mem.rows[n].run = run
    \/ \E i \in DOMAIN mem.history[n] : mem.history[n][i] = run

\* A model in production is the one its role resolves to (so a role has at most
\* one), unless a crash or a failed write cut its promotion in two.
ProductionIsServed == \A n \in Name \ torn :
    State(n) = "production" =>
        /\ mem.rows[n].role \in Role
        /\ mem.roles[mem.rows[n].role] = n

\* A trainer whose model was retrained by another one since changes nothing any
\* more while that model is in training: neither its progress nor its late or
\* repeated candidate reaches the new run's record.
SupersededStaysOut == [][\A t \in Trainer :
    trainer[t].standing = "superseded" /\ State(ModelOf[t]) = "training" =>
        /\ ~(serving = NoTrainer /\ serving' = t /\ trainer[t].pc \in {"training", "landing"})
        /\ ~(push_progress(t) /\ mem' # mem)]_vars
=============================================================================
