------------------------- MODULE ModelNames_proofs -------------------------
(***************************************************************************)
(* Proofs about the model name service, for any models, roles, trainers,   *)
(* attempts, runs and faults.                                              *)
(***************************************************************************)
EXTENDS ModelNames, SequenceTheorems, TLAPS

(* The writes still to do, and what the disk holds *)

Writes == [op : {"row", "clear", "delete"}, name : Name]
            \cup [op : {"entry"}, name : Name, entry : Run]
            \cup [op : {"roles"}, name : {NoName}]

\* A write of kind op to n waits in s; entry e of n waits, with no clearing after
\* it; the row of a model is the first of its writes.
Waits(s, op, n) == \E i \in 1..Len(s) : s[i].op = op /\ s[i].name = n
EntryWaits(s, n, e) ==
    \E i \in 1..Len(s) :
        /\ s[i].op = "entry" /\ s[i].name = n /\ s[i].entry = e
        /\ \A j \in i..Len(s) : ~(s[j].op = "clear" /\ s[j].name = n)
RowFirst(s) ==
    \A i \in 1..Len(s) : s[i].op = "row" => \A j \in 1..(i - 1) : s[j].name # s[i].name

Holds(h, e) == \E i \in 1..Len(h) : h[i] = e

\* A row is on disk, waits to be written, or a failed write left it old.
RowSaved(n) ==
    \/ n \in unsaved \/ Waits(todo, "row", n) \/ Waits(todo, "delete", n)
    \/ disk.rows[n] = mem.rows[n]

RolesSaved ==
    NoName \in unsaved \/ Waits(todo, "roles", NoName) \/ disk.roles = mem.roles

\* The same for the history, whose entries are written after the row.
HistorySaved(n) ==
    n \notin unsaved \/ Waits(todo, "row", n) =>
        \A i \in 1..Len(mem.history[n]) :
            \/ EntryWaits(todo, n, mem.history[n][i])
            \/ ~Waits(todo, "clear", n) /\ Holds(disk.history[n], mem.history[n][i])

Deletes(n) ==
    Waits(todo, "delete", n) => mem.rows[n] = Unregistered /\ mem.history[n] = <<>>

DiskInv ==
    /\ RowFirst(todo) /\ RolesSaved
    /\ \A n \in Name : RowSaved(n) /\ HistorySaved(n) /\ Deletes(n)

-----------------------------------------------------------------------------
\* What is true of every row, in memory and on disk.
RowOK(row) ==
    /\ row \in Row
    /\ row.state = "unregistered" => row = Unregistered
    /\ row.state = "training" => row.run \in Run
    /\ row.run # NoRun => row.state \in {"training", "retired"}
    /\ row.run \in {NoRun, row.number}
    /\ row.state = "production" => row.role \in Role

Store(s) ==
    /\ s \in [rows    : [Name -> Row],
             history : [Name -> Seq(Run)],
             roles   : [Role -> Name \cup {NoName}]]
    /\ \A n \in Name : RowOK(s.rows[n])

TrainerState == [pc : {"idle", "asking", "training", "landing"}, new : BOOLEAN, run : 0..MaxRuns,
                 tries : Nat, tells : BOOLEAN,
                 standing : {"current", "displaced", "superseded", "unknown"}]

Types ==
    /\ Store(mem) /\ Store(disk)
    /\ todo \in Seq(Writes)
    /\ serving \in Trainer \cup {NoTrainer}
    /\ trainer \in [Trainer -> TrainerState]
    /\ faults \in 0..MaxFaults
    /\ reported \in [Name -> SUBSET Run]
    /\ unsaved \subseteq Name \cup {NoName}
    /\ torn \subseteq Name

-----------------------------------------------------------------------------
\* A run whose report can be told from nothing is in the history, or it is the model's run and
\* leaves a mark in its row as long as it trains.
ReportedInv ==
    \A n \in Name :
        /\ State(n) = "unregistered" => reported[n] = {}
        /\ \A run \in reported[n] :
              \/ Holds(mem.history[n], run)
              \/ /\ mem.rows[n].run = run
                 /\ mem.rows[n].progress \/ State(n) # "training"

\* The request being answered gave its model a run.
ServedInv ==
    serving \in Trainer =>
        /\ trainer[serving].pc \in {"asking", "landing"}
        /\ trainer[serving].pc = "asking" => State(ModelOf[serving]) = "training"

\* Run numbers of a model only grow while the trainers that have them are known.
Retrained(t) ==
    \/ trainer[t].standing = "superseded"
    \/ /\ trainer[t].standing \in {"current", "displaced"}
       /\ serving \in Trainer /\ ModelOf[serving] = ModelOf[t]
       /\ trainer[serving].pc = "asking" /\ trainer[serving].new
NumbersOf(t) ==
    trainer[t].pc \in {"training", "landing"} =>
        /\ trainer[t].standing # "unknown" => trainer[t].run <= mem.rows[ModelOf[t]].number
        /\ Retrained(t) => trainer[t].run < mem.rows[ModelOf[t]].number
NumbersInv == \A t \in Trainer : NumbersOf(t)

NamesInv == /\ Types /\ DiskInv /\ ReportedInv /\ ServedInv /\ NumbersInv
            /\ AnswerOutlivesCrash /\ ProductionIsServed
-----------------------------------------------------------------------------
(* Facts about sequences of writes *)

LEMMA TailSeq ==
    ASSUME NEW S, NEW s \in Seq(S), s # <<>>
    PROVE  /\ Len(s) \in Nat /\ Len(s) > 0 /\ Head(s) = s[1] /\ Head(s) \in S
           /\ Tail(s) \in Seq(S) /\ Len(Tail(s)) = Len(s) - 1
           /\ \A i \in 1..Len(Tail(s)) : Tail(s)[i] = s[i + 1]
  OBVIOUS

LEMMA ConcatSeq ==
    ASSUME NEW S, NEW a \in Seq(S), NEW b \in Seq(S)
    PROVE  /\ a \o b \in Seq(S) /\ Len(a \o b) = Len(a) + Len(b)
           /\ Len(a) \in Nat /\ Len(b) \in Nat
           /\ \A i \in 1..Len(a) : (a \o b)[i] = a[i]
           /\ \A i \in 1..Len(b) : (a \o b)[Len(a) + i] = b[i]
  OBVIOUS

\* Where an element of a concatenation comes from.
LEMMA ConcatPart ==
    ASSUME NEW S, NEW a \in Seq(S), NEW b \in Seq(S), NEW i \in 1..Len(a \o b)
    PROVE  \/ i \in 1..Len(a) /\ (a \o b)[i] = a[i]
           \/ i - Len(a) \in 1..Len(b) /\ (a \o b)[i] = b[i - Len(a)]
  <1>1. /\ Len(a \o b) = Len(a) + Len(b)
        /\ Len(a) \in Nat /\ Len(b) \in Nat
    BY ConcatSeq
  <1>2. CASE i <= Len(a)
    BY <1>1, <1>2
  <1>3. CASE i > Len(a)
    BY <1>1, <1>3
  <1> QED BY <1>1, <1>2, <1>3

LEMMA WaitsTail ==
    ASSUME NEW S, NEW s \in Seq(S), s # <<>>, NEW op, NEW n
    PROVE  Waits(s, op, n) <=> \/ Head(s).op = op /\ Head(s).name = n
                               \/ Waits(Tail(s), op, n)
  <1> USE TailSeq DEF Waits
  <1>1. ASSUME NEW i \in 1..Len(s), s[i].op = op, s[i].name = n, i # 1
        PROVE  Waits(Tail(s), op, n)
    <2>1. i - 1 \in 1..Len(Tail(s)) /\ (i - 1) + 1 = i
      BY <1>1
    <2>2. Tail(s)[i - 1] = s[i]
      BY <2>1
    <2> QED BY <1>1, <2>1, <2>2
  <1>2. ASSUME NEW i \in 1..Len(Tail(s)), Tail(s)[i].op = op, Tail(s)[i].name = n
        PROVE  Waits(s, op, n)
    <2>1. i + 1 \in 1..Len(s) /\ Tail(s)[i] = s[i + 1]
      OBVIOUS
    <2> QED BY <1>2, <2>1
  <1>3. 1 \in 1..Len(s)
    OBVIOUS
  <1> QED BY <1>1, <1>2, <1>3

LEMMA EntryTail ==
    ASSUME NEW S, NEW s \in Seq(S), s # <<>>, NEW n, NEW e, EntryWaits(s, n, e)
    PROVE  \/ EntryWaits(Tail(s), n, e)
           \/ /\ Head(s).op = "entry" /\ Head(s).name = n /\ Head(s).entry = e
              /\ ~Waits(Tail(s), "clear", n)
  <1> USE TailSeq
  <1>1. PICK i \in 1..Len(s) : /\ s[i].op = "entry" /\ s[i].name = n /\ s[i].entry = e
                               /\ \A j \in i..Len(s) : ~(s[j].op = "clear" /\ s[j].name = n)
    BY DEF EntryWaits
  <1>2. ASSUME NEW j \in 1..Len(Tail(s)), j >= i - 1
        PROVE  ~(Tail(s)[j].op = "clear" /\ Tail(s)[j].name = n)
    <2>1. j + 1 \in i..Len(s) /\ Tail(s)[j] = s[j + 1]
      BY <1>2
    <2> QED BY <1>1, <2>1
  <1>3. CASE i = 1
    <2>1. ~Waits(Tail(s), "clear", n)
      BY <1>2, <1>3 DEF Waits
    <2> QED BY <1>1, <1>3, <2>1
  <1>4. CASE i # 1
    <2>1. i - 1 \in 1..Len(Tail(s)) /\ (i - 1) + 1 = i
      BY <1>4
    <2>2. Tail(s)[i - 1] = s[i]
      BY <2>1
    <2>3. \A j \in (i - 1)..Len(Tail(s)) : ~(Tail(s)[j].op = "clear" /\ Tail(s)[j].name = n)
      BY <1>2, <2>1
    <2> QED BY <1>1, <2>1, <2>2, <2>3 DEF EntryWaits
  <1> QED BY <1>3, <1>4

LEMMA RowFirstTail ==
    ASSUME NEW S, NEW s \in Seq(S), s # <<>>, RowFirst(s)
    PROVE  /\ RowFirst(Tail(s))
           /\ \A n : Waits(Tail(s), "row", n) => Head(s).name # n
  <1> USE TailSeq
  <1>1. ASSUME NEW i \in 1..Len(Tail(s)), Tail(s)[i].op = "row", NEW j \in 0..(i - 1)
        PROVE  s[j + 1].name # Tail(s)[i].name
    <2>1. i + 1 \in 1..Len(s) /\ Tail(s)[i] = s[i + 1] /\ j + 1 \in 1..((i + 1) - 1)
      OBVIOUS
    <2> QED BY <1>1, <2>1 DEF RowFirst
  <1>2. RowFirst(Tail(s))
    <2> SUFFICES ASSUME NEW i \in 1..Len(Tail(s)), Tail(s)[i].op = "row", NEW j \in 1..(i - 1)
                 PROVE  Tail(s)[j].name # Tail(s)[i].name
      BY DEF RowFirst
    <2>1. j \in 1..Len(Tail(s)) /\ j \in 0..(i - 1)
      OBVIOUS
    <2> QED BY <1>1, <2>1
  <1>3. ASSUME NEW n, Waits(Tail(s), "row", n)
        PROVE  Head(s).name # n
    <2>1. PICK i \in 1..Len(Tail(s)) : Tail(s)[i].op = "row" /\ Tail(s)[i].name = n
      BY <1>3 DEF Waits
    <2>2. 0 \in 0..(i - 1) /\ 0 + 1 = 1
      OBVIOUS
    <2> QED BY <1>1, <2>1, <2>2
  <1> QED BY <1>2, <1>3
LEMMA WaitsConcat ==
    ASSUME NEW S, NEW a \in Seq(S), NEW b \in Seq(S), NEW op, NEW n
    PROVE  Waits(a \o b, op, n) <=> Waits(a, op, n) \/ Waits(b, op, n)
  <1>1. ASSUME NEW i \in 1..Len(a \o b), (a \o b)[i].op = op, (a \o b)[i].name = n
        PROVE  Waits(a, op, n) \/ Waits(b, op, n)
    BY <1>1, ConcatPart DEF Waits
  <1>2. ASSUME NEW i \in 1..Len(a), a[i].op = op, a[i].name = n
        PROVE  Waits(a \o b, op, n)
    <2>1. i \in 1..Len(a \o b) /\ (a \o b)[i] = a[i]
      BY ConcatSeq
    <2> QED BY <1>2, <2>1 DEF Waits
  <1>3. ASSUME NEW i \in 1..Len(b), b[i].op = op, b[i].name = n
        PROVE  Waits(a \o b, op, n)
    <2>1. Len(a) + i \in 1..Len(a \o b) /\ (a \o b)[Len(a) + i] = b[i]
      BY ConcatSeq
    <2> QED BY <1>3, <2>1 DEF Waits
  <1> QED BY <1>1, <1>2, <1>3 DEF Waits

LEMMA EntryConcat ==
    ASSUME NEW S, NEW a \in Seq(S), NEW b \in Seq(S), NEW n, NEW e,
           EntryWaits(b, n, e) \/ (EntryWaits(a, n, e) /\ ~Waits(b, "clear", n))
    PROVE  EntryWaits(a \o b, n, e)
  <1>1. CASE EntryWaits(b, n, e)
    <2>1. PICK i \in 1..Len(b) : /\ b[i].op = "entry" /\ b[i].name = n /\ b[i].entry = e
                                 /\ \A j \in i..Len(b) : ~(b[j].op = "clear" /\ b[j].name = n)
      BY <1>1 DEF EntryWaits
    <2>2. Len(a) + i \in 1..Len(a \o b) /\ (a \o b)[Len(a) + i] = b[i]
      BY ConcatSeq
    <2>3. ASSUME NEW j \in (Len(a) + i)..Len(a \o b)
          PROVE  ~((a \o b)[j].op = "clear" /\ (a \o b)[j].name = n)
      <3>1. j - Len(a) \in i..Len(b) /\ j - Len(a) \in 1..Len(b) /\ j = Len(a) + (j - Len(a))
        BY ConcatSeq
      <3>2. (a \o b)[j] = b[j - Len(a)]
        BY <3>1, ConcatSeq
      <3> QED BY <2>1, <3>1, <3>2
    <2> QED BY <2>1, <2>2, <2>3 DEF EntryWaits
  <1>2. CASE EntryWaits(a, n, e) /\ ~Waits(b, "clear", n)
    <2>1. PICK i \in 1..Len(a) : /\ a[i].op = "entry" /\ a[i].name = n /\ a[i].entry = e
                                 /\ \A j \in i..Len(a) : ~(a[j].op = "clear" /\ a[j].name = n)
      BY <1>2 DEF EntryWaits
    <2>2. i \in 1..Len(a \o b) /\ (a \o b)[i] = a[i]
      BY ConcatSeq
    <2>3. ASSUME NEW j \in i..Len(a \o b)
          PROVE  ~((a \o b)[j].op = "clear" /\ (a \o b)[j].name = n)
      <3>1. j \in 1..Len(a \o b)
        BY ConcatSeq
      <3>2. CASE j \in 1..Len(a) /\ (a \o b)[j] = a[j]
        <4>1. j \in i..Len(a)
          BY <3>2
        <4> QED BY <2>1, <3>2, <4>1
      <3>3. CASE j - Len(a) \in 1..Len(b) /\ (a \o b)[j] = b[j - Len(a)]
        BY <1>2, <3>3 DEF Waits
      <3> QED BY <3>1, <3>2, <3>3, ConcatPart
    <2> QED BY <2>1, <2>2, <2>3 DEF EntryWaits
  <1> QED BY <1>1, <1>2

LEMMA RowFirstConcat ==
    ASSUME NEW S, NEW a \in Seq(S), NEW b \in Seq(S), RowFirst(a), RowFirst(b),
           \A i \in 1..Len(a), j \in 1..Len(b) : b[j].op = "row" => a[i].name # b[j].name
    PROVE  RowFirst(a \o b)
  <1> DEFINE c == a \o b
  <1> SUFFICES ASSUME NEW i \in 1..Len(c), c[i].op = "row", NEW j \in 1..(i - 1)
               PROVE  c[j].name # c[i].name
    BY DEF RowFirst
  <1>1. i \in Nat /\ j \in Nat /\ j < i /\ j \in 1..Len(c) /\ Len(a) \in Nat /\ Len(b) \in Nat
    BY ConcatSeq
  <1>2. \/ i \in 1..Len(a) /\ c[i] = a[i]
        \/ i - Len(a) \in 1..Len(b) /\ c[i] = b[i - Len(a)]
    BY ConcatPart
  <1>3. \/ j \in 1..Len(a) /\ c[j] = a[j]
        \/ j - Len(a) \in 1..Len(b) /\ c[j] = b[j - Len(a)]
    BY <1>1, ConcatPart
  <1> HIDE DEF c
  <1>4. CASE i \in 1..Len(a) /\ c[i] = a[i]
    <2>1. j \in 1..Len(a) /\ c[j] = a[j] /\ j \in 1..(i - 1)
      BY <1>1, <1>3, <1>4
    <2> QED BY <1>4, <2>1 DEF RowFirst
  <1>5. CASE i - Len(a) \in 1..Len(b) /\ c[i] = b[i - Len(a)]
    <2>1. CASE j \in 1..Len(a) /\ c[j] = a[j]
      BY <1>5, <2>1
    <2>2. CASE j - Len(a) \in 1..Len(b) /\ c[j] = b[j - Len(a)]
      <3>1. j - Len(a) \in 1..((i - Len(a)) - 1)
        BY <1>1, <2>2
      <3> QED BY <1>5, <2>2, <3>1 DEF RowFirst
    <2> QED BY <1>3, <2>1, <2>2
  <1> QED BY <1>2, <1>4, <1>5

-----------------------------------------------------------------------------
(* What persist_model lays out *)

\* The writes ws bring the row of n to disk, then a history with the entries of h.
Persists(ws, n, h) ==
    /\ ws \in Seq(Writes) /\ RowFirst(ws)
    /\ \A i \in 1..Len(ws) : ws[i].name = n /\ ws[i].op \in {"row", "clear", "entry"}
    /\ Waits(ws, "row", n)
    /\ \A i \in 1..Len(h) : EntryWaits(ws, n, h[i])

LEMMA PersistsAll ==
    ASSUME NEW n \in Name, NEW store, store.history[n] \in Seq(Run)
    PROVE  Persists(persist_model(store, n), n, store.history[n])
  <1> DEFINE h == store.history[n]
             a == <<WriteRow(n)>>
             b == IF disk.history[n] = <<>> THEN <<>> ELSE <<ClearHistory(n)>>
             c == [i \in DOMAIN h |-> WriteEntry(n, h[i])]
  <1>1. /\ a \in Seq(Writes) /\ Len(a) = 1 /\ a[1] = WriteRow(n)
        /\ WriteRow(n).op = "row" /\ WriteRow(n).name = n
    BY DEF WriteRow, Writes
  <1>2. ClearHistory(n) \in Writes /\ ClearHistory(n).op = "clear" /\ ClearHistory(n).name = n
    BY DEF ClearHistory, Writes
  <1>3. b \in Seq(Writes) /\ \A i \in 1..Len(b) : b[i] = ClearHistory(n)
    BY <1>2
  <1>4. ASSUME NEW i \in 1..Len(h)
        PROVE  /\ WriteEntry(n, h[i]) \in Writes /\ WriteEntry(n, h[i]).op = "entry"
               /\ WriteEntry(n, h[i]).name = n /\ WriteEntry(n, h[i]).entry = h[i]
    BY DEF WriteEntry, Writes
  <1>5. /\ c \in Seq(Writes) /\ Len(c) = Len(h) /\ Len(h) \in Nat
        /\ \A i \in 1..Len(h) : c[i] = WriteEntry(n, h[i])
    <2>1. DOMAIN h = 1..Len(h) /\ Len(h) \in Nat
      OBVIOUS
    <2>2. c = [i \in 1..Len(h) |-> WriteEntry(n, h[i])]
      BY <2>1
    <2> HIDE DEF h, c
    <2> QED BY <1>4, <2>1, <2>2
  <1>6. persist_model(store, n) = (a \o b) \o c
    BY DEF persist_model
  <1> HIDE DEF a, b, c, h
  <1> DEFINE ab == a \o b
             ws == ab \o c
  <1>7. ab \in Seq(Writes) /\ ws \in Seq(Writes)
    BY <1>1, <1>3, <1>5, ConcatSeq
  <1>8. RowFirst(a) /\ RowFirst(b) /\ RowFirst(c)
    BY <1>1, <1>2, <1>3, <1>4, <1>5 DEF RowFirst
  <1>9. RowFirst(ab)
    BY <1>1, <1>2, <1>3, <1>8, RowFirstConcat
  <1>10. RowFirst(ws)
    <2>1. \A j \in 1..Len(c) : c[j].op # "row"
      BY <1>4, <1>5
    <2> HIDE DEF ab
    <2> QED BY <1>5, <1>7, <1>8, <1>9, <2>1, RowFirstConcat
  <1>11. Waits(ws, "row", n)
    <2>1. Waits(a, "row", n)
      BY <1>1 DEF Waits
    <2>2. Waits(ab, "row", n)
      BY <1>1, <1>3, <2>1, WaitsConcat
    <2> HIDE DEF ab
    <2> QED BY <1>5, <1>7, <2>2, WaitsConcat
  <1>12. ASSUME NEW i \in 1..Len(ws)
         PROVE  ws[i].name = n /\ ws[i].op \in {"row", "clear", "entry"}
    <2>1. \A k \in 1..Len(ab) : ab[k].name = n /\ ab[k].op \in {"row", "clear", "entry"}
      BY <1>1, <1>2, <1>3, ConcatPart
    <2> HIDE DEF ab
    <2>2. \A k \in 1..Len(c) : c[k].name = n /\ c[k].op \in {"row", "clear", "entry"}
      BY <1>4, <1>5
    <2> QED BY <1>5, <1>7, <2>1, <2>2, ConcatPart
  <1>13. ASSUME NEW i \in 1..Len(h)
         PROVE  EntryWaits(ws, n, h[i])
    <2>1. EntryWaits(c, n, h[i])
      <3>1. i \in 1..Len(c) /\ c[i].op = "entry" /\ c[i].name = n /\ c[i].entry = h[i]
        BY <1>4, <1>5
      <3>2. \A j \in i..Len(c) : c[j].op # "clear"
        <4> SUFFICES ASSUME NEW j \in i..Len(c) PROVE c[j].op # "clear"
          OBVIOUS
        <4>1. j \in 1..Len(h)
          BY <1>5
        <4> QED BY <1>4, <1>5, <4>1
      <3> QED BY <3>1, <3>2 DEF EntryWaits
    <2> HIDE DEF ab
    <2> QED BY <1>5, <1>7, <2>1, EntryConcat
  <1> HIDE DEF ws
  <1>14. Persists(ws, n, h)
    BY <1>7, <1>10, <1>11, <1>12, <1>13 DEF Persists
  <1> QED BY <1>6, <1>14 DEF ws, ab, h

-----------------------------------------------------------------------------
(* Memory and disk *)

LEMMA NothingWaits ==
    /\ RowFirst(<<>>)
    /\ \A op, n : ~Waits(<<>>, op, n)
    /\ \A n, e : ~EntryWaits(<<>>, n, e)
  BY DEF RowFirst, Waits, EntryWaits

LEMMA DiskQuiet ==
    ASSUME DiskInv, UNCHANGED <<mem, disk, todo, unsaved>>
    PROVE  DiskInv'
  BY DEF DiskInv, RolesSaved, RowSaved, HistorySaved, Deletes

\* A request lays out the writes of all that it changed in memory.
LaidOut(m) ==
    /\ Waits(todo', "row", m) /\ ~Waits(todo', "delete", m)
    /\ \A i \in 1..Len(mem'.history[m]) : EntryWaits(todo', m, mem'.history[m][i])
Untouched(m) ==
    /\ \A op : ~Waits(todo', op, m)
    /\ mem'.rows[m] = mem.rows[m] /\ mem'.history[m] = mem.history[m]
Deleted(m) ==
    /\ Waits(todo', "delete", m)
    /\ mem'.rows[m] = Unregistered /\ mem'.history[m] = <<>>

LEMMA DiskServe ==
    ASSUME DiskInv, todo = <<>>, UNCHANGED <<disk, unsaved>>, RowFirst(todo'),
           \A m \in Name : LaidOut(m) \/ Untouched(m) \/ Deleted(m),
           Waits(todo', "roles", NoName) \/ mem'.roles = mem.roles
    PROVE  DiskInv'
  <1>1. RolesSaved'
    BY NothingWaits DEF DiskInv, RolesSaved
  <1>2. ASSUME NEW m \in Name
        PROVE  RowSaved(m)' /\ HistorySaved(m)' /\ Deletes(m)'
    <2>1. CASE LaidOut(m)
      BY <2>1 DEF LaidOut, RowSaved, HistorySaved, Deletes
    <2>2. CASE Untouched(m)
      <3>1. RowSaved(m) /\ HistorySaved(m) /\ \A op : ~Waits(todo, op, m)
        BY NothingWaits DEF DiskInv
      <3>2. RowSaved(m)'
        BY <2>2, <3>1 DEF Untouched, RowSaved
      <3>3. HistorySaved(m)'
        BY <2>2, <3>1, NothingWaits DEF Untouched, HistorySaved
      <3> QED BY <2>2, <3>2, <3>3 DEF Untouched, Deletes
    <2>3. CASE Deleted(m)
      <3>1. Len(mem'.history[m]) = 0
        BY <2>3 DEF Deleted
      <3> QED BY <2>3, <3>1 DEF Deleted, RowSaved, HistorySaved, Deletes
    <2> QED BY <1>2, <2>1, <2>2, <2>3
  <1> QED BY <1>1, <1>2 DEF DiskInv

\* The parts of a store.
LEMMA StoreParts ==
    ASSUME NEW s, Store(s)
    PROVE  /\ s.rows \in [Name -> Row] /\ s.history \in [Name -> Seq(Run)]
           /\ s.roles \in [Role -> Name \cup {NoName}]
           /\ s = [rows |-> s.rows, history |-> s.history, roles |-> s.roles]
  BY DEF Store

LEMMA HoldsMore ==
    ASSUME NEW S, NEW h \in Seq(S), NEW x \in S
    PROVE  /\ Holds(Append(h, x), x)
           /\ \A e : Holds(h, e) => Holds(Append(h, x), e)
  <1>1. /\ Len(Append(h, x)) = Len(h) + 1 /\ Append(h, x)[Len(h) + 1] = x /\ Len(h) \in Nat
        /\ \A i \in 1..Len(h) : Append(h, x)[i] = h[i]
    OBVIOUS
  <1>2. Len(h) + 1 \in 1..Len(Append(h, x)) /\ \A i \in 1..Len(h) : i \in 1..Len(Append(h, x))
    BY <1>1
  <1> QED BY <1>1, <1>2 DEF Holds

LEMMA DiskWrite ==
    ASSUME Types, DiskInv, Write
    PROVE  DiskInv'
  <1> DEFINE w == Head(todo)
  <1>1. /\ todo \in Seq(Writes) /\ todo # <<>> /\ todo' = Tail(todo) /\ disk' = Written(w)
        /\ unsaved' = (IF w.op \in {"row", "delete", "roles"} THEN unsaved \ {w.name} ELSE unsaved)
        /\ mem' = mem
    BY DEF Write, Types
  <1>2. w \in Writes
    BY <1>1, TailSeq
  <1>3. \A op, n : Waits(todo, op, n) <=> (w.op = op /\ w.name = n) \/ Waits(todo', op, n)
    BY <1>1, WaitsTail
  <1>4. \A n, e : EntryWaits(todo, n, e) =>
                     \/ EntryWaits(todo', n, e)
                     \/ w.op = "entry" /\ w.name = n /\ w.entry = e /\ ~Waits(todo', "clear", n)
    BY <1>1, EntryTail
  <1>5. RowFirst(todo') /\ \A n : Waits(todo', "row", n) => w.name # n
    BY <1>1, RowFirstTail DEF DiskInv
  <1>6. /\ disk \in [rows : [Name -> Row], history : [Name -> Seq(Run)],
                     roles : [Role -> Name \cup {NoName}]]
        /\ NoName \notin Name
    BY ModelNamesAssumption DEF Types, Store
  <1> HIDE DEF w
  <1>7. CASE w.op = "row"
    <2>1. w.name \in Name /\ disk' = [disk EXCEPT !.rows[w.name] = mem.rows[w.name]]
      BY <1>1, <1>2, <1>7 DEF Writes, Written
    <2>2. /\ disk'.history = disk.history /\ disk'.roles = disk.roles
          /\ disk'.rows = [disk.rows EXCEPT ![w.name] = mem.rows[w.name]]
      BY <1>6, <2>1
    <2>3. unsaved' = unsaved \ {w.name}
      BY <1>1, <1>7
    <2>4. RolesSaved'
      BY <1>1, <1>3, <1>6, <1>7, <2>1, <2>2, <2>3 DEF DiskInv, RolesSaved
    <2>5. ASSUME NEW n \in Name
          PROVE  RowSaved(n)' /\ HistorySaved(n)' /\ Deletes(n)'
      <3>1. RowSaved(n) /\ HistorySaved(n) /\ Deletes(n)
        BY DEF DiskInv
      <3>2. RowSaved(n)'
        BY <1>1, <1>3, <1>6, <1>7, <2>2, <2>3, <3>1 DEF RowSaved
      <3>3. HistorySaved(n)'
        BY <1>1, <1>3, <1>4, <1>7, <2>2, <2>3, <3>1 DEF HistorySaved
      <3>4. Deletes(n)'
        BY <1>1, <1>3, <3>1 DEF Deletes
      <3> QED BY <3>2, <3>3, <3>4
    <2> QED BY <1>5, <2>4, <2>5 DEF DiskInv
  <1>8. CASE w.op = "clear"
    <2>1. w.name \in Name /\ disk' = [disk EXCEPT !.history[w.name] = <<>>]
      BY <1>1, <1>2, <1>8 DEF Writes, Written
    <2>2. /\ disk'.rows = disk.rows /\ disk'.roles = disk.roles
          /\ disk'.history = [disk.history EXCEPT ![w.name] = <<>>]
      BY <1>6, <2>1
    <2>3. unsaved' = unsaved
      BY <1>1, <1>8
    <2>4. RolesSaved'
      BY <1>1, <1>3, <1>6, <1>8, <2>1, <2>2, <2>3 DEF DiskInv, RolesSaved
    <2>5. ASSUME NEW n \in Name
          PROVE  RowSaved(n)' /\ HistorySaved(n)' /\ Deletes(n)'
      <3>1. RowSaved(n) /\ HistorySaved(n) /\ Deletes(n)
        BY DEF DiskInv
      <3>2. RowSaved(n)'
        BY <1>1, <1>3, <1>6, <1>8, <2>2, <2>3, <3>1 DEF RowSaved
      <3>3. HistorySaved(n)'
        BY <1>1, <1>3, <1>4, <1>6, <1>8, <2>2, <2>3, <3>1 DEF HistorySaved
      <3>4. Deletes(n)'
        BY <1>1, <1>3, <3>1 DEF Deletes
      <3> QED BY <3>2, <3>3, <3>4
    <2> QED BY <1>5, <2>4, <2>5 DEF DiskInv
  <1>9. CASE w.op = "entry"
    <2>1. /\ w.name \in Name /\ w.entry \in Run
          /\ disk' = [disk EXCEPT !.history[w.name] = Append(@, w.entry)]
      BY <1>1, <1>2, <1>9 DEF Writes, Written
    <2>2. /\ disk'.rows = disk.rows /\ disk'.roles = disk.roles
          /\ disk'.history = [disk.history EXCEPT ![w.name] = Append(disk.history[w.name], w.entry)]
      BY <1>6, <2>1
    <2>3. unsaved' = unsaved
      BY <1>1, <1>9
    <2>4. RolesSaved'
      BY <1>1, <1>3, <1>6, <1>9, <2>1, <2>2, <2>3 DEF DiskInv, RolesSaved
    <2>5. ASSUME NEW n \in Name
          PROVE  RowSaved(n)' /\ HistorySaved(n)' /\ Deletes(n)'
      <3>1. RowSaved(n) /\ HistorySaved(n) /\ Deletes(n)
        BY DEF DiskInv
      <3>2. RowSaved(n)'
        BY <1>1, <1>3, <1>6, <1>9, <2>2, <2>3, <3>1 DEF RowSaved
      <3>3. HistorySaved(n)'
        <4>1. /\ \A e : Holds(disk.history[n], e) => Holds(disk'.history[n], e)
              /\ w.name = n => Holds(disk'.history[n], w.entry)
          BY <1>6, <2>1, <2>2, HoldsMore
        <4> QED BY <1>1, <1>3, <1>4, <1>9, <2>3, <3>1, <4>1 DEF HistorySaved
      <3>4. Deletes(n)'
        BY <1>1, <1>3, <3>1 DEF Deletes
      <3> QED BY <3>2, <3>3, <3>4
    <2> QED BY <1>5, <2>4, <2>5 DEF DiskInv
  <1>10. CASE w.op = "delete"
    <2>1. w.name \in Name /\ disk' = [disk EXCEPT !.rows[w.name] = Unregistered,
                                                   !.history[w.name] = <<>>]
      BY <1>1, <1>2, <1>10 DEF Writes, Written
    <2>2. /\ disk'.rows = [disk.rows EXCEPT ![w.name] = Unregistered]
          /\ disk'.roles = disk.roles
          /\ disk'.history = [disk.history EXCEPT ![w.name] = <<>>]
      BY <1>6, <2>1
    <2>3. unsaved' = unsaved \ {w.name}
      BY <1>1, <1>10
    <2>4. RolesSaved'
      BY <1>1, <1>3, <1>6, <1>10, <2>1, <2>2, <2>3 DEF DiskInv, RolesSaved
    <2>5. ASSUME NEW n \in Name
          PROVE  RowSaved(n)' /\ HistorySaved(n)' /\ Deletes(n)'
      <3>1. RowSaved(n) /\ HistorySaved(n) /\ Deletes(n)
        BY DEF DiskInv
      <3>5. w.name = n => mem.rows[n] = Unregistered /\ Len(mem.history[n]) = 0
        BY <1>3, <1>10, <3>1 DEF Deletes
      <3>2. RowSaved(n)'
        BY <1>1, <1>3, <1>6, <1>10, <2>2, <2>3, <3>1, <3>5 DEF RowSaved
      <3>3. HistorySaved(n)'
        <4>1. CASE w.name = n
          BY <1>1, <3>5, <4>1 DEF HistorySaved
        <4>2. CASE w.name # n
          BY <1>1, <1>3, <1>4, <1>6, <1>10, <2>2, <2>3, <3>1, <4>2 DEF HistorySaved
        <4> QED BY <4>1, <4>2
      <3>4. Deletes(n)'
        BY <1>1, <1>3, <3>1 DEF Deletes
      <3> QED BY <3>2, <3>3, <3>4
    <2> QED BY <1>5, <2>4, <2>5 DEF DiskInv
  <1>11. CASE w.op = "roles"
    <2>1. w.name = NoName /\ disk' = [disk EXCEPT !.roles = mem.roles]
      BY <1>1, <1>2, <1>11 DEF Writes, Written
    <2>2. disk'.rows = disk.rows /\ disk'.roles = mem.roles /\ disk'.history = disk.history
      BY <1>6, <2>1
    <2>3. unsaved' = unsaved \ {NoName}
      BY <1>1, <1>11, <2>1
    <2>4. RolesSaved'
      BY <1>1, <2>2 DEF RolesSaved
    <2>5. ASSUME NEW n \in Name
          PROVE  RowSaved(n)' /\ HistorySaved(n)' /\ Deletes(n)'
      <3>1. RowSaved(n) /\ HistorySaved(n) /\ Deletes(n)
        BY DEF DiskInv
      <3>2. RowSaved(n)'
        BY <1>1, <1>3, <1>6, <1>11, <2>2, <2>3, <3>1 DEF RowSaved
      <3>3. HistorySaved(n)'
        BY <1>1, <1>3, <1>4, <1>6, <1>11, <2>2, <2>3, <3>1 DEF HistorySaved
      <3>4. Deletes(n)'
        BY <1>1, <1>3, <3>1 DEF Deletes
      <3> QED BY <3>2, <3>3, <3>4
    <2> QED BY <1>5, <2>4, <2>5 DEF DiskInv
  <1> QED BY <1>2, <1>7, <1>8, <1>9, <1>10, <1>11 DEF Writes

LEMMA DiskFails ==
    ASSUME Types, DiskInv, WriteFails
    PROVE  DiskInv'
  <1> DEFINE w == Head(todo)
  <1>1. /\ todo \in Seq(Writes) /\ todo # <<>> /\ todo' = Tail(todo)
        /\ unsaved' = unsaved \cup {w.name} /\ mem' = mem /\ disk' = disk
    BY DEF WriteFails, Types, stores
  <1>2. \A op, n : Waits(todo, op, n) <=> (w.op = op /\ w.name = n) \/ Waits(todo', op, n)
    BY <1>1, WaitsTail
  <1>3. \A n, e : EntryWaits(todo, n, e) =>
                     \/ EntryWaits(todo', n, e)
                     \/ w.op = "entry" /\ w.name = n /\ w.entry = e /\ ~Waits(todo', "clear", n)
    BY <1>1, EntryTail
  <1>4. RowFirst(todo') /\ \A n : Waits(todo', "row", n) => w.name # n
    BY <1>1, RowFirstTail DEF DiskInv
  <1> HIDE DEF w
  <1>5. RolesSaved'
    BY <1>1, <1>2 DEF DiskInv, RolesSaved
  <1>6. ASSUME NEW n \in Name
        PROVE  RowSaved(n)' /\ HistorySaved(n)' /\ Deletes(n)'
    <2>1. RowSaved(n) /\ HistorySaved(n) /\ Deletes(n)
      BY DEF DiskInv
    <2>2. RowSaved(n)'
      BY <1>1, <1>2, <2>1 DEF RowSaved
    <2>3. HistorySaved(n)'
      BY <1>1, <1>2, <1>3, <1>4, <2>1 DEF HistorySaved
    <2>4. Deletes(n)'
      BY <1>1, <1>2, <2>1 DEF Deletes
    <2> QED BY <2>2, <2>3, <2>4
  <1> QED BY <1>4, <1>5, <1>6 DEF DiskInv

\* What a restarted service holds.
LEMMA Loaded ==
    ASSUME Store(disk)
    PROVE  /\ load_from_disk.rows = disk.rows /\ load_from_disk.roles = disk.roles
           /\ load_from_disk.history \in [Name -> Seq(Run)]
           /\ \A n \in Name : load_from_disk.history[n] =
                 IF disk.rows[n].state = "unregistered" THEN <<>> ELSE disk.history[n]
           /\ Store(load_from_disk)
  <1>1. /\ disk \in [rows : [Name -> Row], history : [Name -> Seq(Run)],
                     roles : [Role -> Name \cup {NoName}]]
        /\ \A n \in Name : RowOK(disk.rows[n])
    BY DEF Store
  <1> DEFINE h == [n \in Name |-> IF disk.rows[n].state = "unregistered" THEN <<>>
                                  ELSE disk.history[n]]
  <1>2. h \in [Name -> Seq(Run)]
    BY <1>1
  <1>3. load_from_disk = [disk EXCEPT !.history = h]
    BY DEF load_from_disk
  <1> HIDE DEF h
  <1>4. /\ load_from_disk \in [rows : [Name -> Row], history : [Name -> Seq(Run)],
                               roles : [Role -> Name \cup {NoName}]]
        /\ load_from_disk.rows = disk.rows /\ load_from_disk.roles = disk.roles
        /\ load_from_disk.history = h
    BY <1>1, <1>2, <1>3
  <1> QED BY <1>1, <1>2, <1>4 DEF Store, h

LEMMA DiskCrash ==
    ASSUME Types, Crash
    PROVE  DiskInv'
  <1>1. mem' = load_from_disk /\ todo' = <<>> /\ unsaved' = {} /\ disk' = disk
    BY DEF Crash
  <1>2. Store(disk) /\ NoName \notin Name
    BY ModelNamesAssumption DEF Types
  <1>3. RolesSaved'
    BY <1>1, <1>2, Loaded DEF RolesSaved
  <1>4. ASSUME NEW n \in Name
        PROVE  RowSaved(n)' /\ HistorySaved(n)' /\ Deletes(n)'
    <2>1. RowSaved(n)'
      BY <1>1, <1>2, Loaded DEF RowSaved
    <2>2. HistorySaved(n)'
      <3>1. ASSUME NEW i \in 1..Len(mem'.history[n])
            PROVE  Holds(disk'.history[n], mem'.history[n][i])
        <4>1. mem'.history[n] = IF disk.rows[n].state = "unregistered" THEN <<>>
                                ELSE disk.history[n]
          BY <1>1, <1>2, Loaded
        <4> QED BY <1>1, <3>1, <4>1 DEF Holds
      <3> QED BY <1>1, <3>1, NothingWaits DEF HistorySaved
    <2>3. Deletes(n)'
      BY <1>1, NothingWaits DEF Deletes
    <2> QED BY <2>1, <2>2, <2>3
  <1> QED BY <1>1, <1>3, <1>4, NothingWaits DEF DiskInv

\* A request that writes one model.
LEMMA DiskOne ==
    ASSUME DiskInv, todo = <<>>, UNCHANGED <<disk, unsaved>>, NEW n \in Name,
           mem'.history[n] \in Seq(Run), todo' = persist_model(mem', n),
           mem'.roles = mem.roles,
           \A m \in Name \ {n} : /\ mem'.rows[m] = mem.rows[m]
                                 /\ mem'.history[m] = mem.history[m]
    PROVE  DiskInv' /\ todo' \in Seq(Writes)
  <1>1. Persists(todo', n, mem'.history[n])
    BY PersistsAll
  <1>2. LaidOut(n)
    BY <1>1 DEF Persists, LaidOut, Waits
  <1>3. ASSUME NEW m \in Name \ {n}
        PROVE  Untouched(m)
    BY <1>1 DEF Persists, Untouched, Waits
  <1> QED BY <1>1, <1>2, <1>3, DiskServe DEF Persists

LEMMA DiskPromote ==
    ASSUME Types, DiskInv, NEW n \in Name, NEW r \in Role, todo = <<>>,
           mem' = Promoted(n, r).store, todo' = Promoted(n, r).writes,
           UNCHANGED <<disk, unsaved>>
    PROVE  DiskInv' /\ todo' \in Seq(Writes)
  <1> DEFINE prev == mem.roles[r]
             retires == prev \in Name \ {n} /\ State(prev) = "production"
             a == IF retires THEN persist_model(mem, prev) ELSE <<>>
             b == persist_model(mem, n)
             c == <<WriteRoles>>
  <1>1. /\ mem \in [rows : [Name -> Row], history : [Name -> Seq(Run)],
                    roles : [Role -> Name \cup {NoName}]]
        /\ NoName \notin Name
    BY ModelNamesAssumption DEF Types, Store
  <1>2. /\ todo' = (a \o b) \o c
        /\ mem'.history = mem.history
        /\ \A m \in Name : m = n \/ (retires /\ m = prev) \/ mem'.rows[m] = mem.rows[m]
    BY <1>1 DEF Promoted
  <1>3. Persists(b, n, mem.history[n])
    BY <1>1, PersistsAll
  <1>4. c \in Seq(Writes) /\ Len(c) = 1 /\ c[1].op = "roles" /\ c[1].name = NoName
    BY DEF WriteRoles, Writes
  <1>5. /\ a \in Seq(Writes) /\ RowFirst(a)
        /\ \A i \in 1..Len(a) : /\ retires /\ a[i].name = prev
                                /\ a[i].op \in {"row", "clear", "entry"}
        /\ retires => Persists(a, prev, mem.history[prev])
    <2>1. CASE retires
      <3>1. Persists(a, prev, mem.history[prev])
        BY <1>1, <2>1, PersistsAll
      <3> HIDE DEF a, retires, prev
      <3> QED BY <2>1, <3>1 DEF Persists
    <2>2. CASE ~retires
      <3>1. a = <<>>
        BY <2>2
      <3> HIDE DEF a, retires, prev
      <3> QED BY <2>2, <3>1, NothingWaits
    <2> QED BY <2>1, <2>2
  <1>6. retires => prev \in Name /\ prev # n
    OBVIOUS
  <1> HIDE DEF a, b, c, retires, prev
  <1> DEFINE ab == a \o b
             ws == ab \o c
  <1>7. b \in Seq(Writes) /\ ab \in Seq(Writes)
    BY <1>3, <1>5, ConcatSeq DEF Persists
  <1>8. RowFirst(ab)
    <2>1. \A i \in 1..Len(a), j \in 1..Len(b) : b[j].op = "row" => a[i].name # b[j].name
      BY <1>3, <1>5, <1>6 DEF Persists
    <2> QED BY <1>3, <1>5, <1>7, <2>1, RowFirstConcat DEF Persists
  <1>9. \A op, m : Waits(ab, op, m) <=> Waits(a, op, m) \/ Waits(b, op, m)
    BY <1>5, <1>7, WaitsConcat
  <1>10. \A m, e : EntryWaits(b, m, e) \/ (EntryWaits(a, m, e) /\ ~Waits(b, "clear", m))
                     => EntryWaits(ab, m, e)
    BY <1>5, <1>7, EntryConcat
  <1> HIDE DEF ab
  <1>11. ws \in Seq(Writes) /\ RowFirst(ws)
    <2>1. RowFirst(c) /\ \A j \in 1..Len(c) : c[j].op # "row"
      BY <1>4 DEF RowFirst
    <2> QED BY <1>4, <1>7, <1>8, <2>1, ConcatSeq, RowFirstConcat
  <1>12. \A op, m : Waits(ws, op, m) <=> Waits(ab, op, m) \/ Waits(c, op, m)
    BY <1>4, <1>7, WaitsConcat
  <1>13. \A op, m : Waits(c, op, m) <=> op = "roles" /\ m = NoName
    BY <1>4 DEF Waits
  <1>14. \A m, e : EntryWaits(ab, m, e) => EntryWaits(ws, m, e)
    BY <1>4, <1>7, <1>13, EntryConcat
  <1>15. \A op, m : /\ Waits(a, op, m) => retires /\ m = prev /\ op # "delete"
                    /\ Waits(b, op, m) => m = n /\ op # "delete"
    BY <1>3, <1>5 DEF Waits, Persists
  <1>16. todo' = ws
    BY <1>2 DEF ws, ab
  <1> HIDE DEF ws
  <1>17. \A op : \A m \in Name : Waits(todo', op, m) <=> Waits(a, op, m) \/ Waits(b, op, m)
    BY <1>1, <1>9, <1>12, <1>13, <1>16
  <1>18. \A m, e : EntryWaits(b, m, e) \/ (EntryWaits(a, m, e) /\ ~Waits(b, "clear", m))
                     => EntryWaits(todo', m, e)
    BY <1>10, <1>14, <1>16
  <1>19. LaidOut(n)
    <2>1. Waits(todo', "row", n)
      BY <1>3, <1>17 DEF Persists
    <2>2. ~Waits(todo', "delete", n)
      BY <1>15, <1>17
    <2>3. ASSUME NEW i \in 1..Len(mem'.history[n])
          PROVE  EntryWaits(todo', n, mem'.history[n][i])
      BY <1>2, <1>3, <1>18 DEF Persists
    <2> QED BY <2>1, <2>2, <2>3 DEF LaidOut
  <1>20. ASSUME retires
         PROVE  LaidOut(prev)
    <2>1. Waits(todo', "row", prev)
      BY <1>5, <1>6, <1>20, <1>17 DEF Persists
    <2>2. ~Waits(todo', "delete", prev)
      BY <1>6, <1>15, <1>20, <1>17
    <2>3. ASSUME NEW i \in 1..Len(mem'.history[prev])
          PROVE  EntryWaits(todo', prev, mem'.history[prev][i])
      <3>1. EntryWaits(a, prev, mem'.history[prev][i])
        BY <1>2, <1>5, <1>20 DEF Persists
      <3>2. ~Waits(b, "clear", prev)
        BY <1>6, <1>15, <1>20
      <3> QED BY <1>18, <3>1, <3>2
    <2> QED BY <2>1, <2>2, <2>3 DEF LaidOut
  <1>21. ASSUME NEW m \in Name, m # n, ~(retires /\ m = prev)
         PROVE  Untouched(m)
    <2>1. \A op : ~Waits(todo', op, m)
      BY <1>15, <1>21, <1>17
    <2> QED BY <1>2, <1>21, <2>1 DEF Untouched
  <1>22. Waits(todo', "roles", NoName)
    BY <1>12, <1>13, <1>16
  <1> QED BY <1>11, <1>16, <1>19, <1>20, <1>21, <1>22, DiskServe

LEMMA DiskDelete ==
    ASSUME Types, DiskInv, NEW n \in Name, todo = <<>>, todo' = <<DeleteRows(n), WriteRoles>>,
           mem'.rows[n] = Unregistered, mem'.history[n] = <<>>,
           \A m \in Name \ {n} : /\ mem'.rows[m] = mem.rows[m]
                                 /\ mem'.history[m] = mem.history[m],
           UNCHANGED <<disk, unsaved>>
    PROVE  DiskInv' /\ todo' \in Seq(Writes)
  <1>1. /\ todo' \in Seq(Writes) /\ Len(todo') = 2
        /\ todo'[1].op = "delete" /\ todo'[1].name = n
        /\ todo'[2].op = "roles" /\ todo'[2].name = NoName
    BY DEF DeleteRows, WriteRoles, Writes
  <1>2. NoName \notin Name
    BY ModelNamesAssumption
  <1>3. RowFirst(todo')
    BY <1>1 DEF RowFirst
  <1>4. Deleted(n) /\ Waits(todo', "roles", NoName)
    BY <1>1 DEF Deleted, Waits
  <1>5. ASSUME NEW m \in Name \ {n}
        PROVE  Untouched(m)
    BY <1>1, <1>2 DEF Untouched, Waits
  <1> QED BY <1>1, <1>3, <1>4, <1>5, DiskServe

-----------------------------------------------------------------------------
(* What the requests do to memory and to the trainers *)

\* The same trainer, but for its standing.
SameBut(x, y) == x.pc = y.pc /\ x.new = y.new /\ x.run = y.run /\ x.tries = y.tries

LEMMA Standings ==
    ASSUME Types, NEW n \in Name
    PROVE  /\ Disturbed(n) \in [Trainer -> TrainerState]
           /\ Superseded(n) \in [Trainer -> TrainerState]
           /\ Unknown(n) \in [Trainer -> TrainerState]
           /\ \A t \in Trainer :
                /\ SameBut(Disturbed(n)[t], trainer[t])
                /\ Disturbed(n)[t].standing =
                     IF ModelOf[t] = n /\ trainer[t].standing = "current" THEN "displaced"
                     ELSE trainer[t].standing
                /\ SameBut(Superseded(n)[t], trainer[t])
                /\ Superseded(n)[t].standing =
                     IF ModelOf[t] = n /\ trainer[t].standing \in {"current", "displaced"}
                     THEN "superseded" ELSE trainer[t].standing
                /\ SameBut(Unknown(n)[t], trainer[t])
                /\ Unknown(n)[t].standing =
                     IF ModelOf[t] = n THEN "unknown" ELSE trainer[t].standing
  <1>1. ASSUME NEW t \in Trainer
        PROVE  trainer[t] \in TrainerState
    BY DEF Types
  <1>2. ASSUME NEW t \in Trainer, NEW s \in {"current", "displaced", "superseded", "unknown"}
        PROVE  LET x == [trainer[t] EXCEPT !.standing = s]
               IN  x \in TrainerState /\ SameBut(x, trainer[t]) /\ x.standing = s
    BY <1>1 DEF TrainerState, SameBut
  <1>3. ASSUME NEW t \in Trainer
        PROVE  SameBut(trainer[t], trainer[t])
    BY DEF SameBut
  <1>4. ASSUME NEW t \in Trainer
        PROVE  Disturbed(n)[t] = IF ModelOf[t] = n /\ trainer[t].standing = "current"
                                 THEN [trainer[t] EXCEPT !.standing = "displaced"] ELSE trainer[t]
    BY <1>1 DEF Disturbed, Standing, TrainerState
  <1>5. ASSUME NEW t \in Trainer
        PROVE  Superseded(n)[t] =
                 IF ModelOf[t] = n /\ trainer[t].standing \in {"current", "displaced"}
                 THEN [trainer[t] EXCEPT !.standing = "superseded"] ELSE trainer[t]
    BY <1>1 DEF Superseded, Standing, TrainerState
  <1>6. ASSUME NEW t \in Trainer
        PROVE  Unknown(n)[t] =
                 IF ModelOf[t] = n /\ trainer[t].standing # "unknown"
                 THEN [trainer[t] EXCEPT !.standing = "unknown"] ELSE trainer[t]
    BY <1>1 DEF Unknown, Standing, TrainerState
  <1>7. ASSUME NEW t \in Trainer
        PROVE  /\ SameBut(Disturbed(n)[t], trainer[t])
               /\ Disturbed(n)[t].standing =
                    IF ModelOf[t] = n /\ trainer[t].standing = "current" THEN "displaced"
                    ELSE trainer[t].standing
               /\ Disturbed(n)[t] \in TrainerState
    BY <1>1, <1>2, <1>3, <1>4
  <1>8. ASSUME NEW t \in Trainer
        PROVE  /\ SameBut(Superseded(n)[t], trainer[t])
               /\ Superseded(n)[t].standing =
                    IF ModelOf[t] = n /\ trainer[t].standing \in {"current", "displaced"}
                    THEN "superseded" ELSE trainer[t].standing
               /\ Superseded(n)[t] \in TrainerState
    BY <1>1, <1>2, <1>3, <1>5
  <1>9. ASSUME NEW t \in Trainer
        PROVE  /\ SameBut(Unknown(n)[t], trainer[t])
               /\ Unknown(n)[t].standing =
                    IF ModelOf[t] = n THEN "unknown" ELSE trainer[t].standing
               /\ Unknown(n)[t] \in TrainerState
    BY <1>1, <1>2, <1>3, <1>6
  <1>10. \A m, new : Standing(m, new) = [t \in Trainer |-> Standing(m, new)[t]]
    BY DEF Standing
  <1>11. /\ Disturbed(n) = [t \in Trainer |-> Disturbed(n)[t]]
         /\ Superseded(n) = [t \in Trainer |-> Superseded(n)[t]]
         /\ Unknown(n) = [t \in Trainer |-> Unknown(n)[t]]
    BY <1>10 DEF Disturbed, Superseded, Unknown
  <1>12. /\ Disturbed(n) \in [Trainer -> TrainerState]
         /\ Superseded(n) \in [Trainer -> TrainerState]
         /\ Unknown(n) \in [Trainer -> TrainerState]
    BY <1>7, <1>8, <1>9, <1>11
  <1> QED BY <1>7, <1>8, <1>9, <1>12

\* One model gets a row and a history; the rest of memory stays.
Changes(n, row, h) ==
    /\ mem'.rows = [mem.rows EXCEPT ![n] = row]
    /\ mem'.history = [mem.history EXCEPT ![n] = h]
    /\ mem'.roles = mem.roles
    /\ mem' = [rows |-> mem'.rows, history |-> mem'.history, roles |-> mem'.roles]

\* A request that changes and writes one model.
Request(n, row, h) ==
    /\ Changes(n, row, h)
    /\ todo = <<>> /\ serving = NoTrainer
    /\ todo' = persist_model(mem', n)
    /\ UNCHANGED <<disk, unsaved>>

LEMMA RequestStep ==
    ASSUME Types, DiskInv, NEW n \in Name, NEW row, RowOK(row), NEW h \in Seq(Run),
           Request(n, row, h)
    PROVE  /\ Store(mem') /\ Store(disk') /\ todo' \in Seq(Writes) /\ DiskInv'
           /\ mem'.rows[n] = row /\ mem'.history[n] = h
           /\ \A m \in Name \ {n} : /\ mem'.rows[m] = mem.rows[m]
                                    /\ mem'.history[m] = mem.history[m]
  <1>1. /\ mem \in [rows : [Name -> Row], history : [Name -> Seq(Run)],
                    roles : [Role -> Name \cup {NoName}]]
        /\ \A m \in Name : RowOK(mem.rows[m])
    BY DEF Types, Store
  <1>2. row \in Row
    BY DEF RowOK
  <1>3. /\ mem'.rows \in [Name -> Row] /\ mem'.history \in [Name -> Seq(Run)]
        /\ mem'.roles \in [Role -> Name \cup {NoName}]
        /\ mem'.rows[n] = row /\ mem'.history[n] = h
        /\ \A m \in Name \ {n} : mem'.rows[m] = mem.rows[m] /\ mem'.history[m] = mem.history[m]
    BY <1>1, <1>2 DEF Request, Changes
  <1>4. mem' \in [rows : [Name -> Row], history : [Name -> Seq(Run)],
                  roles : [Role -> Name \cup {NoName}]]
    BY <1>3 DEF Request, Changes
  <1>5. \A m \in Name : RowOK(mem'.rows[m])
    BY <1>1, <1>3
  <1>6. Store(disk')
    BY DEF Request, Types
  <1>7. DiskInv' /\ todo' \in Seq(Writes)
    BY <1>3, DiskOne DEF Request, Changes
  <1> QED BY <1>3, <1>4, <1>5, <1>6, <1>7 DEF Store

LEMMA WithChanges ==
    ASSUME Types, NEW n \in Name, NEW row, NEW h, mem' = With(n, row, h)
    PROVE  Changes(n, row, h)
  <1>1. mem \in [rows : [Name -> Row], history : [Name -> Seq(Run)],
                 roles : [Role -> Name \cup {NoName}]]
    BY DEF Types, Store
  <1> QED BY <1>1 DEF With, Changes

LEMMA Rows ==
    ASSUME Types, NEW n \in Name
    PROVE  /\ mem.rows[n] \in Row /\ RowOK(mem.rows[n]) /\ mem.history[n] \in Seq(Run)
           /\ mem.rows \in [Name -> Row] /\ mem.history \in [Name -> Seq(Run)]
  BY DEF Types, Store

LEMMA RegisterRequest ==
    ASSUME Types, NEW n \in Name, Register(n)
    PROVE  LET row == [Unregistered EXCEPT !.state = "initializing"]
           IN  /\ RowOK(row) /\ Request(n, row, <<>>)
               /\ UNCHANGED <<serving, trainer, faults, reported, torn>>
  <1> DEFINE row == [Unregistered EXCEPT !.state = "initializing"]
  <1>1. RowOK(row)
    <2>1. row.state = "initializing" /\ row.run = NoRun /\ row.number = 0
      BY DEF Unregistered
    <2>2. 0 \in 0..MaxRuns
      BY ModelNamesAssumption
    <2>3. row \in Row
      BY <2>2 DEF Row, States, NoRun, Unregistered
    <2> HIDE DEF row
    <2> QED BY <2>1, <2>3 DEF RowOK
  <1>2. mem' = With(n, row, <<>>) /\ todo' = persist_model(mem', n)
    BY DEF Register, Serve
  <1>3. Changes(n, row, <<>>)
    BY <1>2, WithChanges
  <1> QED BY <1>1, <1>2, <1>3 DEF Register, Serve, Free, Request, ghosts

\* The model becomes a candidate, its run (if it has one) goes to the history.
Landed(n, r) == IF r = NoRun THEN mem.rows[n].run ELSE r
LandedRow(n) == [mem.rows[n] EXCEPT !.state = "candidate", !.run = NoRun, !.progress = FALSE]
LandedHistory(n, r) ==
    IF Landed(n, r) = NoRun THEN mem.history[n] ELSE Append(mem.history[n], Landed(n, r))

LEMMA CandidateRow ==
    ASSUME Types, NEW n \in Name, NEW r \in 0..MaxRuns, mem' = Candidate(n, r)
    PROVE  /\ Changes(n, LandedRow(n), LandedHistory(n, r))
           /\ RowOK(LandedRow(n)) /\ LandedRow(n).state = "candidate"
           /\ LandedRow(n).number = mem.rows[n].number
           /\ LandedHistory(n, r) \in Seq(Run)
           /\ \A e : Holds(mem.history[n], e) => Holds(LandedHistory(n, r), e)
           /\ Landed(n, r) # NoRun => Holds(LandedHistory(n, r), Landed(n, r))
  <1> DEFINE run == Landed(n, r)
             row == LandedRow(n)
             h == LandedHistory(n, r)
  <1>1. mem.rows[n] \in Row /\ mem.history[n] \in Seq(Run)
    BY Rows
  <1>2. RowOK(row) /\ row.state = "candidate" /\ row.number = mem.rows[n].number
    <2>1. /\ row.state = "candidate" /\ row.run = NoRun /\ row.number = mem.rows[n].number
          /\ row \in Row
      <3>1. 0 \in 0..MaxRuns
        BY ModelNamesAssumption
      <3> QED BY <1>1, <3>1 DEF LandedRow, Row, States, NoRun
    <2> HIDE DEF row
    <2> QED BY <2>1 DEF RowOK
  <1>3. run \in 0..MaxRuns
    BY <1>1 DEF Landed, Row
  <1>4. run # NoRun => run \in Run
    BY <1>3 DEF NoRun, Run
  <1>5. /\ h \in Seq(Run)
        /\ run # NoRun => Holds(h, run)
        /\ \A e : Holds(mem.history[n], e) => Holds(h, e)
    BY <1>1, <1>4, HoldsMore DEF LandedHistory
  <1>6. mem' = With(n, row, h)
    BY DEF Candidate, LandedRow, LandedHistory, Landed
  <1>7. Changes(n, row, h)
    BY <1>6, WithChanges
  <1> HIDE DEF row, h, run
  <1> QED BY <1>2, <1>5, <1>7 DEF row, h, run

LEMMA RetireRequest ==
    ASSUME Types, NEW n \in Name, Retire(n)
    PROVE  LET row == [mem.rows[n] EXCEPT !.state = "retired"]
           IN  /\ RowOK(row) /\ Request(n, row, mem.history[n])
               /\ UNCHANGED <<serving, faults, reported>>
               /\ trainer' = Disturbed(n) /\ torn' = torn \ {n}
  <1> DEFINE row == [mem.rows[n] EXCEPT !.state = "retired"]
  <1>1. RowOK(row)
    <2>1. mem.rows[n] \in Row /\ RowOK(mem.rows[n])
      BY Rows
    <2>2. /\ row.state = "retired" /\ row.run = mem.rows[n].run
          /\ row.number = mem.rows[n].number /\ row \in Row
      BY <2>1 DEF Row, States
    <2> HIDE DEF row
    <2> QED BY <2>1, <2>2 DEF RowOK
  <1>2. mem' = [mem EXCEPT !.rows[n].state = "retired"] /\ todo' = persist_model(mem', n)
    BY DEF Retire, Serve
  <1>3. mem \in [rows : [Name -> Row], history : [Name -> Seq(Run)],
                 roles : [Role -> Name \cup {NoName}]]
    BY DEF Types, Store
  <1>4. Changes(n, row, mem.history[n])
    BY <1>2, <1>3 DEF Changes
  <1> QED BY <1>1, <1>2, <1>4 DEF Retire, Serve, Free, Request

LEMMA UpdateRequest ==
    ASSUME Types, NEW n \in Name, UpdateData(n)
    PROVE  /\ Request(n, mem.rows[n], mem.history[n])
           /\ UNCHANGED <<mem, serving, trainer, faults, reported, torn>>
  <1>1. mem \in [rows : [Name -> Row], history : [Name -> Seq(Run)],
                 roles : [Role -> Name \cup {NoName}]]
    BY DEF Types, Store
  <1>2. mem' = mem /\ todo' = persist_model(mem', n)
    BY DEF UpdateData, Serve
  <1>3. Changes(n, mem.rows[n], mem.history[n])
    BY <1>1, <1>2 DEF Changes
  <1> QED BY <1>2, <1>3 DEF UpdateData, Serve, Free, Request, ghosts

LEMMA ProgressRequest ==
    ASSUME Types, NEW t \in Trainer, push_progress(t)
    PROVE  LET n == ModelOf[t]
               row == [mem.rows[n] EXCEPT !.progress = trainer[t].tells]
           IN  /\ n \in Name /\ RowOK(row) /\ Request(n, row, mem.history[n])
               /\ UNCHANGED <<serving, trainer, faults, torn>>
               /\ reported' = [reported EXCEPT ![n] =
                      IF trainer[t].tells THEN @ \cup {trainer[t].run} ELSE @ \ {trainer[t].run}]
               /\ trainer[t].run = mem.rows[n].run /\ mem.rows[n].run \in Run
  <1> DEFINE n == ModelOf[t]
             row == [mem.rows[n] EXCEPT !.progress = trainer[t].tells]
  <1>0. n \in Name
    BY ModelNamesAssumption
  <1> HIDE DEF n
  <1>1. RowOK(row)
    <2>1. mem.rows[n] \in Row /\ RowOK(mem.rows[n]) /\ mem.rows[n].state = "training"
      BY <1>0, Rows DEF push_progress, State, n
    <2>2. /\ row.state = "training" /\ row.run = mem.rows[n].run
          /\ row.number = mem.rows[n].number /\ row \in Row
      BY <2>1 DEF Row, Types, TrainerState
    <2> HIDE DEF row
    <2> QED BY <2>1, <2>2 DEF RowOK
  <1>2. /\ mem' = [mem EXCEPT !.rows[n].progress = trainer[t].tells]
        /\ todo' = persist_model(mem', n)
    BY DEF push_progress, Serve, n
  <1>3. mem \in [rows : [Name -> Row], history : [Name -> Seq(Run)],
                 roles : [Role -> Name \cup {NoName}]]
    BY DEF Types, Store
  <1>4. Changes(n, row, mem.history[n])
    BY <1>0, <1>2, <1>3 DEF Changes
  <1>5. Request(n, row, mem.history[n])
    BY <1>2, <1>4 DEF push_progress, Serve, Free, Request
  <1>6. trainer[t].run = mem.rows[n].run /\ mem.rows[n].run \in Run
    BY <1>0, Rows DEF push_progress, RowOK, State, n
  <1> QED BY <1>0, <1>1, <1>5, <1>6 DEF push_progress, n

LEMMA SetCandidateRequest ==
    ASSUME Types, NEW n \in Name, SetCandidate(n)
    PROVE  /\ Request(n, LandedRow(n), LandedHistory(n, NoRun))
           /\ mem' = Candidate(n, NoRun) /\ NoRun \in 0..MaxRuns
           /\ State(n) \in {"initializing", "retired"}
           /\ UNCHANGED <<serving, faults, reported, torn>> /\ trainer' = Disturbed(n)
  <1>1. NoRun \in 0..MaxRuns
    BY ModelNamesAssumption DEF NoRun
  <1>2. mem' = Candidate(n, NoRun) /\ todo' = persist_model(mem', n)
    BY DEF SetCandidate, Serve
  <1>3. Changes(n, LandedRow(n), LandedHistory(n, NoRun))
    BY <1>1, <1>2, CandidateRow
  <1> QED BY <1>1, <1>2, <1>3
          DEF SetCandidate, MayBecomeCandidate, Serve, Free, Request, ghosts

\* The candidate request that is accepted.
LandOK(t) ==
    LET n == ModelOf[t]
        run == trainer[t].run
    IN  /\ trainer[t].pc \in {"training", "landing"}
        /\ MayBecomeCandidate(n, run)
        /\ mem' = Candidate(n, run)
        /\ Request(n, LandedRow(n), LandedHistory(n, run))
        /\ serving' = t
        /\ trainer' = [Disturbed(n) EXCEPT ![t].pc = "landing"]
        /\ reported' = [reported EXCEPT ![n] =
               IF State(n) = "retired" /\ mem.rows[n].run # run
               THEN @ \ {mem.rows[n].run} ELSE @]
        /\ UNCHANGED <<faults, torn>>

\* The trainers after a step that only concerns one of them: the others keep what
\* they know, and this one is at rest or goes on with the run it has.
KeepsRun(new, old) ==
    new.pc \in {"training", "landing"} =>
        /\ old.pc \in {"training", "landing"}
        /\ new.run = old.run /\ new.standing = old.standing
Quiet(t) ==
    /\ UNCHANGED <<mem, disk, todo, reported, unsaved, torn>>
    /\ faults' \in 0..MaxFaults
    /\ serving' \in {serving, NoTrainer}
    /\ \E told \in TrainerState :
         /\ trainer' = [trainer EXCEPT ![t] = told]
         /\ KeepsRun(told, trainer[t])
    /\ serving' = t => trainer'[t] = trainer[t]

LEMMA AtRestKeeps ==
    /\ AtRest \in TrainerState
    /\ \A old : KeepsRun(AtRest, old)
  <1>1. 0 \in 0..MaxRuns
    BY ModelNamesAssumption
  <1> QED BY <1>1 DEF AtRest, TrainerState, KeepsRun, NoRun

LEMMA LandSteps ==
    ASSUME Types, NEW t \in Trainer, Land(t)
    PROVE  LandOK(t) \/ Quiet(t)
  <1> DEFINE n == ModelOf[t]
             run == trainer[t].run
  <1>1. n \in Name /\ trainer \in [Trainer -> TrainerState] /\ run \in 0..MaxRuns
    BY ModelNamesAssumption DEF Types, TrainerState
  <1>2. CASE MayBecomeCandidate(n, run) /\ mem' = Candidate(n, run) /\ Land(t)
    <2>1. todo' = persist_model(mem', n) /\ serving' = t
      BY <1>2 DEF Land, Serve
    <2>2. Changes(n, LandedRow(n), LandedHistory(n, run))
      BY <1>1, <1>2, CandidateRow
    <2> QED BY <1>2, <2>1, <2>2 DEF Land, LandOK, Serve, Free, Request
  <1>3. CASE ~MayBecomeCandidate(n, run) /\ Free
    <2>1. serving # t
      BY DEF Land
    <2> QED BY <1>1, <1>3, <2>1, AtRestKeeps
            DEF Land, Quiet, stores, Types
  <1> QED BY <1>2, <1>3 DEF Land, Serve

\* The run that begin_run gives to a trainer.
BeginOK(t) ==
    LET n == ModelOf[t]
        row == mem'.rows[n]
    IN  /\ RowOK(row) /\ row.state = "training" /\ row.run = row.number
        /\ \E h \in Seq(Run) :
             /\ Request(n, row, h)
             /\ \A e \in reported[n] : Holds(h, e)
        /\ mem.rows[n].number <= row.number
        /\ trainer'[t].new => mem.rows[n].number < row.number
        /\ trainer' \in [Trainer -> TrainerState]
        /\ trainer'[t].pc = "asking" /\ serving' = t
        /\ \A u \in Trainer \ {t} : trainer'[u] = Disturbed(n)[u]
        /\ UNCHANGED <<faults, reported, torn>>

LEMMA BeginSteps ==
    ASSUME Types, ReportedInv, NEW t \in Trainer, NEW new \in BOOLEAN, BeginRun(t, new)
    PROVE  BeginOK(t) \/ Quiet(t)
  <1> DEFINE n == ModelOf[t]
             row == mem.rows[n]
             num == Number(row, new)
             row2 == [row EXCEPT !.state = "training", !.number = num, !.run = num,
                                 !.progress = FALSE]
  <1>1. n \in Name /\ trainer \in [Trainer -> TrainerState]
    BY ModelNamesAssumption DEF Types
  <1>2. /\ row \in Row /\ RowOK(row) /\ mem.history[n] \in Seq(Run)
        /\ reported \in [Name -> SUBSET Run]
    BY <1>1, Rows DEF Types
  <1>3. CASE MayTrain(n) /\ mem' = Training(n, new) /\ num \in Run /\ BeginRun(t, new)
    <2>1. /\ todo' = persist_model(mem', n) /\ serving' = t
          /\ trainer' = [Disturbed(n) EXCEPT ![t].pc = "asking", ![t].new = new,
                                             ![t].standing = "current"]
          /\ todo = <<>> /\ serving = NoTrainer
          /\ UNCHANGED <<disk, unsaved, faults, reported, torn>>
      BY <1>3 DEF BeginRun, Serve, Free, ghosts
    <2>2. Archived(n) \in Seq(Run) /\ \A e \in reported[n] : Holds(Archived(n), e)
      <3>1. \A e \in reported[n] :
               \/ Holds(mem.history[n], e)
               \/ e = row.run /\ e \in Run /\ (row.progress \/ row.state # "training")
        BY <1>1, <1>2 DEF ReportedInv, State
      <3>2. row.state = "training" => row.run \in Run
        BY <1>2 DEF RowOK
      <3>3. row.state # "training" => row.run = NoRun
        BY <1>2, <1>3 DEF RowOK, MayTrain, State
      <3>4. NoRun \notin Run
        BY DEF NoRun, Run
      <3> QED BY <1>1, <1>2, <3>1, <3>2, <3>3, <3>4, HoldsMore DEF ReportedInv, State, Archived
    <2>3. mem' = With(n, row2, Archived(n))
      BY <1>3 DEF Training
    <2>4. Changes(n, row2, Archived(n))
      BY <1>1, <2>3, WithChanges
    <2>5. Request(n, row2, Archived(n))
      BY <2>1, <2>4 DEF Request
    <2>6. mem'.rows[n] = row2
      BY <1>1, <2>4, Rows DEF Changes
    <2>7. num \in 0..MaxRuns /\ row.number \in 0..MaxRuns
      BY <1>2, <1>3 DEF Run, Row
    <2>8. row2 \in Row /\ row2.state = "training" /\ row2.run = num /\ row2.number = num
      BY <1>2, <2>7 DEF Row, States
    <2>9. RowOK(row2)
      <3> HIDE DEF row2, num
      <3> QED BY <1>3, <2>8 DEF RowOK
    <2>10. row.number <= num /\ (new => row.number < num)
      BY <2>7 DEF Number
    <2>11. Disturbed(n) \in [Trainer -> TrainerState]
      BY <1>1, Standings
    <2>12. /\ trainer' \in [Trainer -> TrainerState]
           /\ trainer'[t].pc = "asking" /\ trainer'[t].new = new
           /\ \A u \in Trainer \ {t} : trainer'[u] = Disturbed(n)[u]
      BY <2>1, <2>11 DEF TrainerState
    <2> HIDE DEF row2, num, row
    <2> QED BY <2>1, <2>2, <2>5, <2>6, <2>8, <2>9, <2>10, <2>12 DEF BeginOK, row
  <1>4. CASE ~MayTrain(n) /\ Free
    BY <1>1, <1>4, AtRestKeeps, ModelNamesAssumption
       DEF BeginRun, Quiet, stores, ghosts, Types, Free
  <1> QED BY <1>3, <1>4 DEF BeginRun, Serve

\* The other steps of a trainer, and the answer to begin_run.
Given(t) ==
    LET n == ModelOf[t] IN
    /\ serving = t /\ serving' = NoTrainer
    /\ trainer[t].pc = "asking"
    /\ trainer' = [(IF trainer[t].new THEN Superseded(n) ELSE trainer) EXCEPT
                      ![t] = [AtRest EXCEPT !.pc = "training", !.standing = "current",
                                            !.run = mem.rows[n].run,
                                            !.tells = trainer'[t].tells]]
    /\ trainer'[t].tells \in BOOLEAN
    /\ faults' \in 0..MaxFaults
    /\ UNCHANGED <<mem, disk, todo, reported, unsaved, torn>>

LEMMA AnsweredSteps ==
    ASSUME Types, NEW t \in Trainer, Answered(t)
    PROVE  Given(t) \/ Quiet(t)
  <1>1. CASE trainer[t].pc = "asking"
    <2>1. PICK session \in BOOLEAN :
            trainer' = [(IF trainer[t].new THEN Superseded(ModelOf[t]) ELSE trainer) EXCEPT
                ![t] = [AtRest EXCEPT !.pc = "training", !.standing = "current",
                                      !.run = mem.rows[ModelOf[t]].run, !.tells = session]]
      BY <1>1 DEF Answered
    <2>2. (IF trainer[t].new THEN Superseded(ModelOf[t]) ELSE trainer) \in [Trainer -> TrainerState]
      BY Standings, ModelNamesAssumption DEF Types
    <2>3. trainer'[t].tells = session
      BY <2>1, <2>2 DEF AtRest
    <2>4. faults' = faults \/ (faults < MaxFaults /\ faults' = faults + 1)
      BY <1>1 DEF Answered, Fault
    <2>5. faults' \in 0..MaxFaults
      BY <2>4, ModelNamesAssumption DEF Types
    <2> QED BY <1>1, <2>1, <2>3, <2>5 DEF Answered, Given, stores, ghosts
  <1>2. CASE trainer[t].pc # "asking"
    BY <1>2, AtRestKeeps, ModelNamesAssumption DEF Answered, Quiet, stores, ghosts, Types
  <1> QED BY <1>1, <1>2

LEMMA SentAgainKeeps ==
    ASSUME NEW told \in TrainerState
    PROVE  SentAgain(told) \in TrainerState /\ KeepsRun(SentAgain(told), told)
  <1>1. CASE told.tries + 1 < Attempts
    <2> DEFINE more == [told EXCEPT !.tries = told.tries + 1]
    <2>1. SentAgain(told) = more
      BY <1>1 DEF SentAgain
    <2>2. more \in TrainerState
      BY DEF TrainerState
    <2>3. KeepsRun(more, told)
      BY DEF TrainerState, KeepsRun
    <2> QED BY <2>1, <2>2, <2>3
  <1>2. CASE ~(told.tries + 1 < Attempts)
    BY <1>2, AtRestKeeps DEF SentAgain
  <1> QED BY <1>1, <1>2

LEMMA LostSteps ==
    ASSUME Types, ServedInv, NEW t \in Trainer,
           AnswerLost(t) \/ RequestLost(t) \/ NextEpoch(t) \/ Abandon(t)
    PROVE  Quiet(t)
  <1>1. trainer[t] \in TrainerState /\ NoTrainer \notin Trainer
    BY ModelNamesAssumption DEF Types
  <1>2. faults' \in 0..MaxFaults
    <2>1. faults \in 0..MaxFaults
      BY DEF Types
    <2>2. CASE Fault
      BY <2>1, <2>2, ModelNamesAssumption DEF Fault
    <2>3. CASE faults' = faults
      BY <2>1, <2>3
    <2> QED BY <2>2, <2>3 DEF AnswerLost, RequestLost, NextEpoch, Abandon
  <1>3. CASE AnswerLost(t)
    <2>1. trainer' = [trainer EXCEPT ![t] = SentAgain(trainer[t])] /\ serving' = NoTrainer
      BY <1>3 DEF AnswerLost
    <2>2. UNCHANGED <<mem, disk, todo, reported, unsaved, torn>>
      BY <1>3 DEF AnswerLost, stores, ghosts
    <2> QED BY <1>1, <1>2, <2>1, <2>2, SentAgainKeeps DEF Quiet
  <1>4. CASE RequestLost(t)
    <2>1. PICK new \in BOOLEAN :
            trainer' = [trainer EXCEPT ![t] =
              CASE trainer[t].pc = "idle"     -> SentAgain([@ EXCEPT !.pc = "asking", !.new = new])
                [] trainer[t].pc = "training" -> SentAgain([@ EXCEPT !.pc = "landing"])
                [] OTHER                      -> SentAgain(@)]
      BY <1>4 DEF RequestLost
    <2> DEFINE idle == [trainer[t] EXCEPT !.pc = "asking", !.new = new]
               landing == [trainer[t] EXCEPT !.pc = "landing"]
    <2>2. /\ idle \in TrainerState /\ landing \in TrainerState
          /\ idle.pc = "asking" /\ landing.pc = "landing"
          /\ landing.run = trainer[t].run /\ landing.standing = trainer[t].standing
      BY <1>1 DEF TrainerState
    <2>3. \E told \in TrainerState : trainer' = [trainer EXCEPT ![t] = told]
                                     /\ KeepsRun(told, trainer[t])
      <3>1. CASE trainer[t].pc = "idle"
        <4>1. trainer' = [trainer EXCEPT ![t] = SentAgain(idle)]
          BY <2>1, <3>1
        <4> HIDE DEF idle
        <4>2. SentAgain(idle) \in TrainerState /\ KeepsRun(SentAgain(idle), trainer[t])
          BY <2>2, SentAgainKeeps DEF KeepsRun
        <4> QED BY <4>1, <4>2
      <3>2. CASE trainer[t].pc = "training"
        <4>1. trainer' = [trainer EXCEPT ![t] = SentAgain(landing)]
          BY <2>1, <3>2
        <4> HIDE DEF landing
        <4>2. SentAgain(landing) \in TrainerState /\ KeepsRun(SentAgain(landing), trainer[t])
          BY <2>2, <3>2, SentAgainKeeps DEF KeepsRun
        <4> QED BY <4>1, <4>2
      <3>3. CASE trainer[t].pc \notin {"idle", "training"}
        <4>1. trainer' = [trainer EXCEPT ![t] = SentAgain(trainer[t])]
          BY <2>1, <3>3
        <4> QED BY <1>1, <4>1, SentAgainKeeps
      <3> QED BY <3>1, <3>2, <3>3
    <2>4. serving' = serving /\ serving # t /\ UNCHANGED <<mem, disk, todo, reported, unsaved, torn>>
      BY <1>4 DEF RequestLost, stores, ghosts
    <2> QED BY <1>2, <2>3, <2>4 DEF Quiet
  <1>5. CASE Abandon(t)
    <2>1. /\ trainer' = [trainer EXCEPT ![t] = AtRest] /\ serving' = serving /\ serving # t
          /\ UNCHANGED <<mem, disk, todo, reported, unsaved, torn>>
      BY <1>5 DEF Abandon, stores, ghosts
    <2> QED BY <1>2, <2>1, AtRestKeeps DEF Quiet
  <1>6. CASE NextEpoch(t)
    <2> DEFINE told == [trainer[t] EXCEPT !.tells = TRUE]
    <2>1. /\ trainer' = [trainer EXCEPT ![t] = told] /\ serving' = serving
          /\ UNCHANGED <<mem, disk, todo, reported, unsaved, torn>>
      BY <1>6 DEF NextEpoch, stores, ghosts
    <2>2. told \in TrainerState /\ KeepsRun(told, trainer[t])
      BY <1>1 DEF TrainerState, KeepsRun
    <2>3. serving # t
      BY <1>6 DEF NextEpoch, ServedInv
    <2> QED BY <1>2, <2>1, <2>2, <2>3 DEF Quiet
  <1> QED BY <1>3, <1>4, <1>5, <1>6

-----------------------------------------------------------------------------
(* What the trainers know, per step *)

AnswerOf(t) ==
    trainer[t].pc \in {"training", "landing"} /\ trainer[t].standing = "current" =>
        /\ State(ModelOf[t]) = "training"
        /\ mem.rows[ModelOf[t]].run = trainer[t].run

\* A trainer that keeps its run and whose model's row stays.
LEMMA KeptTrainer ==
    ASSUME NEW t \in Trainer, AnswerOf(t), NumbersOf(t), KeepsRun(trainer'[t], trainer[t]),
           mem'.rows[ModelOf[t]] = mem.rows[ModelOf[t]],
           trainer'[t].pc \in {"training", "landing"} /\ Retrained(t)' => Retrained(t)
    PROVE  AnswerOf(t)' /\ NumbersOf(t)'
  BY DEF AnswerOf, NumbersOf, KeepsRun, State

LEMMA QuietStep ==
    ASSUME NamesInv, NEW t \in Trainer, Quiet(t)
    PROVE  NamesInv'
  <1>1. PICK told \in TrainerState : trainer' = [trainer EXCEPT ![t] = told]
                                     /\ KeepsRun(told, trainer[t])
    BY DEF Quiet
  <1>2. /\ trainer \in [Trainer -> TrainerState] /\ serving \in Trainer \cup {NoTrainer}
        /\ NoTrainer \notin Trainer
    BY ModelNamesAssumption DEF NamesInv, Types
  <1>3. Types'
    BY <1>1, <1>2 DEF NamesInv, Types, Quiet
  <1>4. DiskInv'
    BY DiskQuiet DEF NamesInv, Quiet
  <1>5. ReportedInv' /\ ProductionIsServed'
    BY DEF NamesInv, ReportedInv, ProductionIsServed, Quiet, State
  <1>6. serving' \in Trainer => serving' = serving /\ trainer'[serving'] = trainer[serving]
    BY <1>1, <1>2 DEF Quiet
  <1>7. ServedInv'
    BY <1>6 DEF NamesInv, ServedInv, Quiet, State
  <1>8. ASSUME NEW u \in Trainer
        PROVE  AnswerOf(u)' /\ NumbersOf(u)'
    <2>1. AnswerOf(u) /\ NumbersOf(u)
      BY DEF NamesInv, AnswerOutlivesCrash, AnswerOf, NumbersInv
    <2>2. KeepsRun(trainer'[u], trainer[u])
      BY <1>1, <1>2 DEF KeepsRun
    <2>3. trainer'[u].pc \in {"training", "landing"} /\ Retrained(u)' => Retrained(u)
      BY <1>6, <2>2 DEF Retrained, KeepsRun
    <2> QED BY <2>1, <2>2, <2>3, KeptTrainer DEF Quiet
  <1> QED BY <1>3, <1>4, <1>5, <1>7, <1>8 DEF NamesInv, AnswerOutlivesCrash, AnswerOf, NumbersInv

LEMMA GivenStep ==
    ASSUME NamesInv, NEW t \in Trainer, Given(t)
    PROVE  NamesInv'
  <1> DEFINE n == ModelOf[t]
             known == IF trainer[t].new THEN Superseded(n) ELSE trainer
             told == [AtRest EXCEPT !.pc = "training", !.standing = "current",
                                    !.run = mem.rows[n].run, !.tells = trainer'[t].tells]
  <1>1. /\ n \in Name /\ trainer \in [Trainer -> TrainerState] /\ NoTrainer \notin Trainer
        /\ mem.rows[n] \in Row /\ RowOK(mem.rows[n])
    BY ModelNamesAssumption, Rows DEF NamesInv, Types
  <1>2. State(n) = "training"
    BY DEF NamesInv, ServedInv, Given
  <1>3. /\ told \in TrainerState /\ told.pc = "training" /\ told.standing = "current"
        /\ told.run = mem.rows[n].run
    <2>1. mem.rows[n].run \in 0..MaxRuns
      BY <1>1 DEF Row
    <2>2. trainer'[t].tells \in BOOLEAN
      BY DEF Given
    <2> QED BY <2>1, <2>2 DEF AtRest, TrainerState
  <1>4. known \in [Trainer -> TrainerState]
    BY <1>1, Standings DEF NamesInv
  <1>5. /\ trainer' = [known EXCEPT ![t] = told] /\ serving = t /\ serving' = NoTrainer
        /\ trainer[t].pc = "asking" /\ faults' \in 0..MaxFaults
        /\ UNCHANGED <<mem, disk, todo, reported, unsaved, torn>>
    BY DEF Given
  <1>6. Types'
    <2> HIDE DEF known, told
    <2> QED BY <1>3, <1>4, <1>5 DEF NamesInv, Types
  <1>7. DiskInv'
    BY <1>5, DiskQuiet DEF NamesInv
  <1>8. ReportedInv' /\ ProductionIsServed' /\ ServedInv'
    BY <1>1, <1>5 DEF NamesInv, ReportedInv, ProductionIsServed, ServedInv, State
  <1>9. ASSUME NEW u \in Trainer
        PROVE  AnswerOf(u)' /\ NumbersOf(u)'
    <2>1. AnswerOf(u) /\ NumbersOf(u)
      BY DEF NamesInv, AnswerOutlivesCrash, AnswerOf, NumbersInv
    <2>2. ~(serving' \in Trainer)
      BY <1>1, <1>5
    <2>3. CASE u = t
      <3>1. trainer'[t] = told
        BY <1>4, <1>5
      <3>2. AnswerOf(t)'
        BY <1>2, <1>3, <1>5, <3>1 DEF AnswerOf, State
      <3>3. mem.rows[n].run <= mem.rows[n].number
        BY <1>1 DEF RowOK, Row, NoRun
      <3> HIDE DEF told
      <3>4. NumbersOf(t)'
        BY <1>3, <1>5, <2>2, <3>1, <3>3 DEF NumbersOf, Retrained
      <3> QED BY <2>3, <3>2, <3>4
    <2>4. CASE u # t /\ (~trainer[t].new \/ ModelOf[u] # n)
      <3>1. /\ SameBut(trainer'[u], trainer[u])
            /\ trainer'[u].standing = trainer[u].standing
        BY <1>1, <1>4, <1>5, <2>4, Standings DEF NamesInv, SameBut
      <3>2. trainer'[u].pc \in {"training", "landing"} /\ Retrained(u)' => Retrained(u)
        BY <2>2, <3>1 DEF Retrained
      <3> QED BY <1>5, <2>1, <3>1, <3>2, KeptTrainer DEF KeepsRun, SameBut
    <2>5. CASE u # t /\ trainer[t].new /\ ModelOf[u] = n
      <3>1. /\ SameBut(trainer'[u], trainer[u])
            /\ trainer'[u].standing =
                 IF trainer[u].standing \in {"current", "displaced"} THEN "superseded"
                 ELSE trainer[u].standing
        BY <1>1, <1>4, <1>5, <2>5, Standings DEF NamesInv
      <3>2. AnswerOf(u)'
        BY <3>1 DEF AnswerOf
      <3>3. NumbersOf(u)'
        BY <1>1, <1>5, <2>1, <2>2, <2>5, <3>1 DEF NumbersOf, Retrained, SameBut
      <3> QED BY <3>2, <3>3
    <2> QED BY <2>3, <2>4, <2>5
  <1> QED BY <1>6, <1>7, <1>8, <1>9 DEF NamesInv, AnswerOutlivesCrash, AnswerOf, NumbersInv

-----------------------------------------------------------------------------
(* Requests on one model *)

LEMMA RequestTypes ==
    ASSUME Types, DiskInv, NEW n \in Name, NEW row, RowOK(row), NEW h \in Seq(Run),
           Request(n, row, h),
           trainer' \in [Trainer -> TrainerState], serving' \in Trainer \cup {NoTrainer},
           faults' = faults, reported' \in [Name -> SUBSET Run], torn' \subseteq Name
    PROVE  Types' /\ DiskInv'
  BY RequestStep DEF Types, Request

LEMMA RequestMemory ==
    ASSUME NamesInv, NEW n \in Name, NEW row, RowOK(row), NEW h \in Seq(Run),
           Request(n, row, h),
           \A m \in Name \ {n} : reported'[m] = reported[m] /\ (m \in torn => m \in torn'),
           row.state = "unregistered" => reported'[n] = {},
           \A run \in reported'[n] :
               \/ Holds(h, run)
               \/ row.run = run /\ (row.progress \/ row.state # "training"),
           row.state = "production" =>
               State(n) = "production" /\ row.role = mem.rows[n].role /\ torn' = torn
    PROVE  ReportedInv' /\ ProductionIsServed'
  <1>1. /\ mem'.rows[n] = row /\ mem'.history[n] = h
        /\ \A m \in Name \ {n} : mem'.rows[m] = mem.rows[m] /\ mem'.history[m] = mem.history[m]
        /\ mem'.roles = mem.roles
    BY RequestStep DEF NamesInv, Request, Changes
  <1>2. ReportedInv'
    BY <1>1 DEF NamesInv, ReportedInv, State
  <1>3. ProductionIsServed'
    BY <1>1 DEF NamesInv, ProductionIsServed, State
  <1> QED BY <1>2, <1>3

\* The trainers of n are displaced, unless they are the one being served.
Displaces(n, row) ==
    /\ mem.rows[n].number <= row.number
    /\ \A u \in Trainer : trainer'[u].pc \in {"training", "landing"} =>
          /\ trainer[u].pc \in {"training", "landing"} /\ trainer'[u].run = trainer[u].run
          /\ trainer'[u].standing = Disturbed(n)[u].standing
    /\ serving' \in Trainer =>
          /\ ModelOf[serving'] = n
          /\ trainer'[serving'].pc = "asking" /\ trainer'[serving'].new =>
                mem.rows[n].number < row.number

LEMMA RequestTrainers ==
    ASSUME NamesInv, NEW n \in Name, NEW row, RowOK(row), NEW h \in Seq(Run),
           Request(n, row, h), Displaces(n, row)
    PROVE  AnswerOutlivesCrash' /\ NumbersInv'
  <1>1. /\ mem'.rows[n] = row
        /\ \A m \in Name \ {n} : mem'.rows[m] = mem.rows[m]
    BY RequestStep DEF NamesInv
  <1>2. ASSUME NEW u \in Trainer
        PROVE  AnswerOf(u)' /\ NumbersOf(u)'
    <2>1. AnswerOf(u) /\ NumbersOf(u)
      BY DEF NamesInv, AnswerOutlivesCrash, AnswerOf, NumbersInv
    <2>2. ModelOf[u] \in Name /\ serving = NoTrainer /\ NoTrainer \notin Trainer
      BY ModelNamesAssumption DEF Request
    <2>3. Disturbed(n)[u].standing =
             IF ModelOf[u] = n /\ trainer[u].standing = "current" THEN "displaced"
             ELSE trainer[u].standing
      BY Standings DEF NamesInv
    <2>4. CASE trainer'[u].pc \notin {"training", "landing"}
      BY <2>4 DEF AnswerOf, NumbersOf
    <2>5. CASE trainer'[u].pc \in {"training", "landing"} /\ ModelOf[u] # n
      <3>1. KeepsRun(trainer'[u], trainer[u])
        BY <2>3, <2>5 DEF Displaces, KeepsRun
      <3>2. Retrained(u)' => Retrained(u)
        BY <2>5, <3>1 DEF Retrained, Displaces, KeepsRun
      <3> QED BY <1>1, <2>1, <2>2, <2>5, <3>1, <3>2, KeptTrainer
    <2>6. CASE trainer'[u].pc \in {"training", "landing"} /\ ModelOf[u] = n
      <3>1. /\ trainer[u].pc \in {"training", "landing"} /\ trainer'[u].run = trainer[u].run
            /\ trainer'[u].standing # "current"
            /\ trainer'[u].standing \in {"superseded", "unknown"} =>
                  trainer[u].standing = trainer'[u].standing
            /\ trainer'[u].standing # "unknown" => trainer[u].standing # "unknown"
        BY <2>3, <2>6 DEF Displaces
      <3>2. AnswerOf(u)'
        BY <3>1 DEF AnswerOf
      <3>3. /\ trainer[u].run \in Nat /\ mem.rows[n].number \in Nat /\ row.number \in Nat
        BY Rows DEF NamesInv, Types, TrainerState, RowOK, Row
      <3>4. trainer[u].standing # "unknown" => trainer[u].run <= mem.rows[n].number
        BY <2>1, <2>6, <3>1 DEF NumbersOf
      <3>5. trainer[u].standing = "superseded" => trainer[u].run < mem.rows[n].number
        BY <2>1, <2>6, <3>1 DEF NumbersOf, Retrained
      <3>6. Retrained(u)' => trainer[u].standing = "superseded"
                             \/ (trainer[u].standing # "unknown" /\ mem.rows[n].number < row.number)
        BY <3>1 DEF Retrained, Displaces
      <3>7. NumbersOf(u)'
        BY <1>1, <2>6, <3>1, <3>3, <3>4, <3>5, <3>6 DEF NumbersOf, Displaces
      <3> QED BY <3>2, <3>7
    <2> QED BY <2>4, <2>5, <2>6
  <1> QED BY <1>2 DEF AnswerOutlivesCrash, AnswerOf, NumbersInv

\* An operator's request: nobody waits for the answer.
LEMMA OperatorRequest ==
    ASSUME NamesInv, NEW n \in Name, NEW row, RowOK(row), NEW h \in Seq(Run),
           Request(n, row, h), trainer' = Disturbed(n),
           UNCHANGED <<serving, faults, reported>>,
           torn' \in {torn, torn \ {n}}, row.number = mem.rows[n].number,
           row.state \notin {"unregistered", "production"},
           \A run \in reported[n] :
               Holds(h, run) \/ (row.run = run /\ row.state # "training")
    PROVE  NamesInv'
  <1>1. /\ Types /\ DiskInv /\ serving = NoTrainer /\ NoTrainer \notin Trainer
        /\ reported \in [Name -> SUBSET Run] /\ torn \subseteq Name
    BY ModelNamesAssumption DEF NamesInv, Types, Request
  <1>2. Types' /\ DiskInv'
    BY <1>1, Standings, RequestTypes
  <1>3. ReportedInv' /\ ProductionIsServed'
    BY <1>1, RequestMemory
  <1>4. ServedInv'
    BY <1>1 DEF ServedInv
  <1>5. row.number \in Nat
    BY DEF RowOK, Row
  <1>6. Displaces(n, row)
    BY <1>1, <1>5, Standings DEF Displaces, SameBut
  <1>7. AnswerOutlivesCrash' /\ NumbersInv'
    BY <1>6, RequestTrainers
  <1> QED BY <1>2, <1>3, <1>4, <1>7 DEF NamesInv

\* A request that leaves what trainers know and does not change run or state.
LEMMA SameRunRequest ==
    ASSUME NamesInv, NEW n \in Name, NEW row, RowOK(row), NEW h \in Seq(Run),
           Request(n, row, h), UNCHANGED <<serving, trainer>>,
           row.number = mem.rows[n].number,
           State(n) = "training" => row.state = "training" /\ row.run = mem.rows[n].run
    PROVE  ServedInv' /\ AnswerOutlivesCrash' /\ NumbersInv'
  <1>1. /\ mem'.rows[n] = row
        /\ \A m \in Name \ {n} : mem'.rows[m] = mem.rows[m]
    BY RequestStep DEF NamesInv
  <1>2. serving = NoTrainer /\ NoTrainer \notin Trainer
    BY ModelNamesAssumption DEF Request
  <1>3. ASSUME NEW u \in Trainer
        PROVE  AnswerOf(u)' /\ NumbersOf(u)'
    <2>1. AnswerOf(u) /\ NumbersOf(u) /\ ModelOf[u] \in Name
      BY ModelNamesAssumption DEF NamesInv, AnswerOutlivesCrash, AnswerOf, NumbersInv
    <2>2. mem'.rows[ModelOf[u]].number = mem.rows[ModelOf[u]].number
      BY <1>1, <2>1
    <2>3. NumbersOf(u)'
      BY <1>2, <2>1, <2>2 DEF NumbersOf, Retrained
    <2>4. AnswerOf(u)'
      BY <1>1, <2>1 DEF AnswerOf, State
    <2> QED BY <2>3, <2>4
  <1> QED BY <1>2, <1>3 DEF AnswerOutlivesCrash, AnswerOf, NumbersInv, ServedInv

LEMMA RegisterStep ==
    ASSUME NamesInv, NEW n \in Name, Register(n)
    PROVE  NamesInv'
  <1> DEFINE row == [Unregistered EXCEPT !.state = "initializing"]
  <1>1. /\ RowOK(row) /\ Request(n, row, <<>>)
        /\ UNCHANGED <<serving, trainer, faults, reported, torn>>
    BY RegisterRequest DEF NamesInv
  <1>2. mem.rows[n] = Unregistered /\ reported[n] = {} /\ State(n) = "unregistered"
    BY Rows DEF NamesInv, ReportedInv, RowOK, Register, Registered, State
  <1>3. row.state = "initializing" /\ row.number = mem.rows[n].number
    BY <1>2 DEF Unregistered
  <1> HIDE DEF row
  <1>4. <<>> \in Seq(Run)
    OBVIOUS
  <1>5. Types' /\ DiskInv'
    BY <1>1, <1>4, RequestTypes DEF NamesInv, Types
  <1>6. ReportedInv' /\ ProductionIsServed'
    BY <1>1, <1>2, <1>3, <1>4, RequestMemory
  <1>7. ServedInv' /\ AnswerOutlivesCrash' /\ NumbersInv'
    BY <1>1, <1>2, <1>3, <1>4, SameRunRequest
  <1> QED BY <1>5, <1>6, <1>7 DEF NamesInv

LEMMA UpdateStep ==
    ASSUME NamesInv, NEW n \in Name, UpdateData(n)
    PROVE  NamesInv'
  <1>1. /\ Request(n, mem.rows[n], mem.history[n])
        /\ UNCHANGED <<mem, serving, trainer, faults, reported, torn>>
    BY UpdateRequest DEF NamesInv
  <1>2. RowOK(mem.rows[n]) /\ mem.history[n] \in Seq(Run)
    BY Rows DEF NamesInv
  <1>3. Types' /\ DiskInv'
    BY <1>1, <1>2, RequestTypes DEF NamesInv, Types
  <1>4. ReportedInv' /\ ProductionIsServed'
    BY <1>1 DEF NamesInv, ReportedInv, ProductionIsServed, State
  <1>5. ServedInv' /\ AnswerOutlivesCrash' /\ NumbersInv'
    BY <1>1, <1>2, SameRunRequest DEF State
  <1> QED BY <1>3, <1>4, <1>5 DEF NamesInv

LEMMA SetCandidateStep ==
    ASSUME NamesInv, NEW n \in Name, SetCandidate(n)
    PROVE  NamesInv'
  <1> DEFINE row == LandedRow(n)
             h == LandedHistory(n, NoRun)
  <1>1. /\ Request(n, row, h) /\ mem' = Candidate(n, NoRun) /\ NoRun \in 0..MaxRuns
        /\ UNCHANGED <<serving, faults, reported, torn>> /\ trainer' = Disturbed(n)
    BY SetCandidateRequest DEF NamesInv
  <1>2. /\ RowOK(row) /\ row.state = "candidate" /\ row.number = mem.rows[n].number
        /\ h \in Seq(Run)
        /\ \A e : Holds(mem.history[n], e) => Holds(h, e)
        /\ mem.rows[n].run # NoRun => Holds(h, mem.rows[n].run)
    BY <1>1, CandidateRow DEF NamesInv, Landed
  <1>3. \A run \in reported[n] : run # NoRun
    BY DEF NamesInv, Types, Run, NoRun
  <1>4. \A run \in reported[n] : Holds(h, run)
    BY <1>2, <1>3 DEF NamesInv, ReportedInv
  <1> HIDE DEF row, h
  <1> QED BY <1>1, <1>2, <1>4, OperatorRequest

LEMMA RetireStep ==
    ASSUME NamesInv, NEW n \in Name, Retire(n)
    PROVE  NamesInv'
  <1> DEFINE row == [mem.rows[n] EXCEPT !.state = "retired"]
  <1>1. /\ RowOK(row) /\ Request(n, row, mem.history[n])
        /\ UNCHANGED <<serving, faults, reported>>
        /\ trainer' = Disturbed(n) /\ torn' = torn \ {n}
    BY RetireRequest DEF NamesInv
  <1>2. /\ mem.rows[n] \in Row /\ mem.history[n] \in Seq(Run)
    BY Rows DEF NamesInv
  <1>3. /\ row.state = "retired" /\ row.run = mem.rows[n].run
        /\ row.number = mem.rows[n].number
    BY <1>2 DEF Row
  <1>4. \A run \in reported[n] : Holds(mem.history[n], run) \/ row.run = run
    BY <1>3 DEF NamesInv, ReportedInv
  <1> HIDE DEF row
  <1> QED BY <1>1, <1>2, <1>3, <1>4, OperatorRequest

LEMMA ProgressStep ==
    ASSUME NamesInv, NEW t \in Trainer, push_progress(t)
    PROVE  NamesInv'
  <1> DEFINE n == ModelOf[t]
             row == [mem.rows[n] EXCEPT !.progress = trainer[t].tells]
  <1>1. /\ n \in Name /\ RowOK(row) /\ Request(n, row, mem.history[n])
        /\ UNCHANGED <<serving, trainer, faults, torn>>
        /\ reported' = [reported EXCEPT ![n] =
               IF trainer[t].tells THEN @ \cup {trainer[t].run} ELSE @ \ {trainer[t].run}]
        /\ trainer[t].run = mem.rows[n].run /\ mem.rows[n].run \in Run
    BY ProgressRequest DEF NamesInv
  <1>2. mem.rows[n] \in Row /\ mem.history[n] \in Seq(Run)
    BY <1>1, Rows DEF NamesInv
  <1>3. /\ row.state = State(n) /\ row.run = mem.rows[n].run
        /\ row.number = mem.rows[n].number /\ row.progress = trainer[t].tells
        /\ State(n) = "training"
    BY <1>2 DEF Row, State, push_progress
  <1> HIDE DEF row
  <1>4. /\ reported \in [Name -> SUBSET Run]
        /\ reported' \in [Name -> SUBSET Run]
        /\ reported'[n] = IF row.progress THEN reported[n] \cup {mem.rows[n].run}
                          ELSE reported[n] \ {mem.rows[n].run}
        /\ \A m \in Name \ {n} : reported'[m] = reported[m]
    BY <1>1, <1>3 DEF NamesInv, Types
  <1>5. Types' /\ DiskInv'
    BY <1>1, <1>2, <1>4, RequestTypes DEF NamesInv, Types
  <1>6. \A run \in reported'[n] :
           \/ Holds(mem.history[n], run)
           \/ row.run = run /\ row.progress
    <2>1. ASSUME NEW run \in reported'[n], run # mem.rows[n].run
          PROVE  Holds(mem.history[n], run)
      <3>1. run \in reported[n]
        BY <1>4, <2>1
      <3> QED BY <1>1, <2>1, <3>1 DEF NamesInv, ReportedInv
    <2>2. ASSUME mem.rows[n].run \in reported'[n]
          PROVE  row.progress
      BY <1>4, <2>2, Zenon
    <2> QED BY <1>3, <2>1, <2>2, Zenon
  <1>7. ReportedInv' /\ ProductionIsServed'
    BY <1>1, <1>2, <1>3, <1>4, <1>6, RequestMemory
  <1>8. ServedInv' /\ AnswerOutlivesCrash' /\ NumbersInv'
    BY <1>1, <1>2, <1>3, SameRunRequest
  <1> QED BY <1>5, <1>7, <1>8 DEF NamesInv

LEMMA BeginStep ==
    ASSUME NamesInv, NEW t \in Trainer, BeginOK(t)
    PROVE  NamesInv'
  <1> DEFINE n == ModelOf[t]
             row == mem'.rows[n]
  <1>1. /\ n \in Name /\ Types /\ DiskInv
        /\ trainer' \in [Trainer -> TrainerState] /\ serving' = t
        /\ UNCHANGED <<faults, reported, torn>>
        /\ RowOK(row) /\ row.state = "training"
    BY ModelNamesAssumption DEF NamesInv, BeginOK
  <1>2. PICK h \in Seq(Run) : Request(n, row, h) /\ \A e \in reported[n] : Holds(h, e)
    BY DEF BeginOK
  <1>3. Displaces(n, row)
    BY <1>1, Standings DEF BeginOK, Displaces, SameBut
  <1>4. trainer'[t].pc = "asking"
    BY DEF BeginOK
  <1>5. Types' /\ DiskInv'
    BY <1>1, <1>2, RequestTypes DEF Types
  <1>6. ReportedInv' /\ ProductionIsServed'
    BY <1>1, <1>2, RequestMemory
  <1>7. ServedInv'
    BY <1>1, <1>4 DEF ServedInv, State
  <1> QED BY <1>1, <1>2, <1>3, <1>5, <1>6, <1>7, RequestTrainers DEF NamesInv

LEMMA LandStep ==
    ASSUME NamesInv, NEW t \in Trainer, LandOK(t)
    PROVE  NamesInv'
  <1> DEFINE n == ModelOf[t]
             r == trainer[t].run
             row == LandedRow(n)
             h == LandedHistory(n, r)
  <1>1. /\ n \in Name /\ Types /\ DiskInv /\ trainer \in [Trainer -> TrainerState]
        /\ r \in 0..MaxRuns /\ reported \in [Name -> SUBSET Run]
        /\ mem.rows[n] \in Row /\ RowOK(mem.rows[n])
    BY ModelNamesAssumption, Rows DEF NamesInv, Types, TrainerState
  <1>2. /\ Request(n, row, h) /\ mem' = Candidate(n, r) /\ serving' = t
        /\ trainer[t].pc \in {"training", "landing"}
        /\ trainer' = [Disturbed(n) EXCEPT ![t].pc = "landing"]
        /\ MayBecomeCandidate(n, r)
        /\ UNCHANGED <<faults, torn>>
    BY DEF LandOK
  <1>3. /\ RowOK(row) /\ row.state = "candidate" /\ row.number = mem.rows[n].number
        /\ h \in Seq(Run)
        /\ \A e : Holds(mem.history[n], e) => Holds(h, e)
        /\ Landed(n, r) # NoRun => Holds(h, Landed(n, r))
    BY <1>1, <1>2, CandidateRow
  <1>4. /\ reported' \in [Name -> SUBSET Run]
        /\ \A m \in Name \ {n} : reported'[m] = reported[m]
        /\ reported'[n] = IF State(n) = "retired" /\ mem.rows[n].run # r
                          THEN reported[n] \ {mem.rows[n].run} ELSE reported[n]
    BY <1>1 DEF LandOK
  <1>5. \A run \in reported'[n] : Holds(h, run)
    <2> SUFFICES ASSUME NEW run \in reported'[n]
                 PROVE  Holds(h, run)
      OBVIOUS
    <2>1. run \in reported[n] /\ run # NoRun
      BY <1>1, <1>4 DEF Run, NoRun
    <2>2. CASE Holds(mem.history[n], run)
      BY <1>3, <2>2
    <2>3. CASE mem.rows[n].run = run
      <3>1. State(n) # "initializing"
        BY <1>1, <2>1, <2>3 DEF RowOK, State
      <3>2. r = run
        BY <1>2, <1>4, <2>3, <3>1 DEF MayBecomeCandidate
      <3> QED BY <1>3, <2>1, <3>2 DEF Landed
    <2> QED BY <1>1, <2>1, <2>2, <2>3 DEF NamesInv, ReportedInv
  <1>6. /\ trainer' \in [Trainer -> TrainerState] /\ trainer'[t].pc = "landing"
        /\ \A u \in Trainer : /\ trainer'[u].run = trainer[u].run
                              /\ trainer'[u].standing = Disturbed(n)[u].standing
                              /\ u # t => trainer'[u].pc = trainer[u].pc
    <2>1. /\ Disturbed(n) \in [Trainer -> TrainerState]
          /\ \A u \in Trainer : SameBut(Disturbed(n)[u], trainer[u])
      BY <1>1, Standings
    <2> QED BY <1>2, <2>1 DEF TrainerState, SameBut
  <1> HIDE DEF row, h
  <1>7. Types' /\ DiskInv'
    BY <1>1, <1>2, <1>3, <1>4, <1>6, RequestTypes DEF Types
  <1>8. ReportedInv' /\ ProductionIsServed'
    BY <1>2, <1>1, <1>3, <1>4, <1>5, RequestMemory
  <1>9. ServedInv'
    BY <1>2, <1>6 DEF ServedInv
  <1>10. Displaces(n, row)
    <2>1. row.number \in Nat
      BY <1>3 DEF RowOK, Row
    <2> QED BY <1>2, <1>3, <1>6, <2>1 DEF Displaces
  <1>11. AnswerOutlivesCrash' /\ NumbersInv'
    BY <1>1, <1>2, <1>3, <1>10, RequestTrainers
  <1> QED BY <1>7, <1>8, <1>9, <1>11 DEF NamesInv

-----------------------------------------------------------------------------
(* Promotion and deletion *)

\* The trainers after a request that only takes them off n and touches no other
\* model that is in training.
LEMMA OthersTrainers ==
    ASSUME NamesInv, NEW n \in Name, UNCHANGED serving, serving = NoTrainer,
           \A u \in Trainer : SameBut(trainer'[u], trainer[u]),
           \A u \in Trainer : IF ModelOf[u] = n
               THEN \/ trainer'[u].standing = "unknown"
                    \/ /\ trainer'[u].standing = Disturbed(n)[u].standing
                       /\ mem'.rows[n].number = mem.rows[n].number
               ELSE trainer'[u].standing = trainer[u].standing,
           \A m \in Name \ {n} :
               /\ mem'.rows[m].number = mem.rows[m].number
               /\ State(m) = "training" => mem'.rows[m] = mem.rows[m]
    PROVE  ServedInv' /\ AnswerOutlivesCrash' /\ NumbersInv'
  <1>1. serving \notin Trainer
    BY ModelNamesAssumption
  <1>2. ASSUME NEW u \in Trainer
        PROVE  AnswerOf(u)' /\ NumbersOf(u)'
    <2>1. AnswerOf(u) /\ NumbersOf(u) /\ ModelOf[u] \in Name
      BY ModelNamesAssumption DEF NamesInv, AnswerOutlivesCrash, AnswerOf, NumbersInv
    <2>2. Disturbed(n)[u].standing =
             IF ModelOf[u] = n /\ trainer[u].standing = "current" THEN "displaced"
             ELSE trainer[u].standing
      BY Standings DEF NamesInv
    <2>3. AnswerOf(u)'
      BY <2>1, <2>2 DEF AnswerOf, SameBut, State
    <2>4. NumbersOf(u)'
      BY <1>1, <2>1, <2>2 DEF NumbersOf, Retrained, SameBut
    <2> QED BY <2>3, <2>4
  <1> QED BY <1>1, <1>2 DEF AnswerOutlivesCrash, AnswerOf, NumbersInv, ServedInv

LEMMA PromoteStep ==
    ASSUME NamesInv, NEW n \in Name, NEW r \in Role, Promote(n, r)
    PROVE  NamesInv'
  <1> DEFINE prev == mem.roles[r]
             retires == prev \in Name \ {n} /\ State(prev) = "production"
             promoted == [mem.rows[n] EXCEPT !.state = "production", !.role = r]
             retired == [mem.rows[prev] EXCEPT !.state = "retired"]
  <1>1. /\ Types /\ DiskInv
        /\ mem \in [rows : [Name -> Row], history : [Name -> Seq(Run)],
                    roles : [Role -> Name \cup {NoName}]]
        /\ \A m \in Name : RowOK(mem.rows[m])
        /\ NoName \notin Name
    BY ModelNamesAssumption DEF NamesInv, Types, Store
  <1>2. /\ mem' = Promoted(n, r).store /\ todo' = Promoted(n, r).writes
        /\ trainer' = Disturbed(n) /\ torn' = torn \ {n, prev}
        /\ todo = <<>> /\ serving = NoTrainer /\ State(n) = "candidate"
        /\ UNCHANGED <<disk, serving, faults, reported, unsaved>>
    BY DEF Promote, Serve, Free
  <1>3. /\ mem' \in [rows : [Name -> Row], history : [Name -> Seq(Run)],
                     roles : [Role -> Name \cup {NoName}]]
        /\ mem'.history = mem.history
        /\ mem'.roles = [mem.roles EXCEPT ![r] = n]
        /\ mem'.rows[n] = promoted
        /\ retires => mem'.rows[prev] = retired
        /\ \A m \in Name : m = n \/ (retires /\ m = prev) \/ mem'.rows[m] = mem.rows[m]
    <2> DEFINE rows == [m \in Name |-> IF m = n THEN promoted
                                       ELSE IF retires /\ m = prev
                                            THEN [mem.rows[m] EXCEPT !.state = "retired"]
                                            ELSE mem.rows[m]]
    <2>1. mem' = [mem EXCEPT !.rows = rows, !.roles[r] = n]
      BY <1>2 DEF Promoted
    <2>2. ASSUME NEW m \in Name
          PROVE  [mem.rows[m] EXCEPT !.state = "retired"] \in Row
      BY <1>1, Rows DEF Row, States
    <2>3. promoted \in Row
      BY <1>1, Rows DEF Row, States
    <2>4. \A m \in Name : rows[m] \in Row
      BY <1>1, <2>2, <2>3, Rows
    <2>5. rows \in [Name -> Row]
      BY <2>4
    <2>6. rows[n] = promoted /\ (retires => rows[prev] = retired)
          /\ \A m \in Name : m = n \/ (retires /\ m = prev) \/ rows[m] = mem.rows[m]
      OBVIOUS
    <2> HIDE DEF rows, promoted, retired, retires, prev
    <2> QED BY <1>1, <2>1, <2>5, <2>6
  <1>4. /\ promoted.state = "production" /\ promoted.role = r
        /\ promoted.run = mem.rows[n].run /\ promoted.number = mem.rows[n].number
        /\ promoted \in Row
    BY <1>1, Rows DEF Row, States
  <1>5. retires => /\ retired.state = "retired" /\ retired \in Row
                   /\ retired.run = mem.rows[prev].run /\ retired.number = mem.rows[prev].number
    BY <1>1, Rows DEF Row, States
  <1>6. retires => prev \in Name /\ prev # n /\ State(prev) = "production"
    OBVIOUS
  <1>7. ~retires => prev \notin Name \ {n} \/ State(prev) # "production"
    OBVIOUS
  <1>8. prev = mem.roles[r]
    OBVIOUS
  <1>9. DiskInv' /\ todo' \in Seq(Writes)
    BY <1>1, <1>2, DiskPromote
  <1> HIDE DEF promoted, retired, retires, prev
  <1>10. RowOK(promoted) /\ mem.rows[n].run = NoRun
    <2>1. mem.rows[n].run = NoRun
      BY <1>1, <1>2 DEF RowOK, State
    <2> QED BY <1>4, <2>1 DEF RowOK
  <1>11. retires => RowOK(retired)
    BY <1>1, <1>5, <1>6 DEF RowOK
  <1>12. Types'
    BY <1>1, <1>2, <1>3, <1>9, <1>10, <1>11, Standings DEF Types, Store
  <1>13. ReportedInv'
    <2> SUFFICES ASSUME NEW m \in Name
                 PROVE  /\ mem'.rows[m].state = "unregistered" => reported[m] = {}
                        /\ \A run \in reported[m] :
                              \/ Holds(mem.history[m], run)
                              \/ /\ mem'.rows[m].run = run
                                 /\ mem'.rows[m].progress \/ mem'.rows[m].state # "training"
      BY <1>2, <1>3 DEF ReportedInv, State
    <2>1. /\ mem.rows[m].state = "unregistered" => reported[m] = {}
          /\ \A run \in reported[m] :
                \/ Holds(mem.history[m], run)
                \/ /\ mem.rows[m].run = run
                   /\ mem.rows[m].progress \/ mem.rows[m].state # "training"
      BY DEF NamesInv, ReportedInv, State
    <2>2. CASE m = n
      BY <1>3, <1>4, <2>1, <2>2
    <2>3. CASE retires /\ m = prev
      BY <1>3, <1>5, <2>1, <2>3
    <2>4. CASE mem'.rows[m] = mem.rows[m]
      BY <2>1, <2>4
    <2> QED BY <1>3, <2>2, <2>3, <2>4
  <1>14. ProductionIsServed'
    <2> SUFFICES ASSUME NEW m \in Name, m \notin torn', mem'.rows[m].state = "production"
                 PROVE  mem'.rows[m].role \in Role /\ mem'.roles[mem'.rows[m].role] = m
      BY DEF ProductionIsServed, State
    <2>1. CASE m = n
      BY <1>1, <1>3, <1>4, <2>1
    <2>2. CASE m # n
      <3>1. mem'.rows[m] = mem.rows[m] /\ State(m) = "production" /\ m # prev
        BY <1>3, <1>5, <1>6, <1>7, <2>2 DEF State
      <3>2. m \notin torn
        BY <1>2, <2>2, <3>1
      <3>3. mem.rows[m].role \in Role /\ mem.roles[mem.rows[m].role] = m
        BY <3>1, <3>2 DEF NamesInv, ProductionIsServed
      <3>4. mem.rows[m].role # r
        BY <1>8, <3>1, <3>3
      <3> QED BY <1>1, <1>3, <3>1, <3>3, <3>4
    <2> QED BY <2>1, <2>2
  <1>15. ServedInv' /\ AnswerOutlivesCrash' /\ NumbersInv'
    <2>1. /\ mem'.rows[n].number = mem.rows[n].number
          /\ \A m \in Name \ {n} : /\ mem'.rows[m].number = mem.rows[m].number
                                   /\ State(m) = "training" => mem'.rows[m] = mem.rows[m]
      BY <1>3, <1>4, <1>5, <1>6
    <2>2. \A u \in Trainer : /\ SameBut(trainer'[u], trainer[u])
                             /\ ModelOf[u] # n => trainer'[u].standing = trainer[u].standing
      BY <1>1, <1>2, Standings
    <2> QED BY <1>2, <2>1, <2>2, OthersTrainers
  <1> QED BY <1>9, <1>12, <1>13, <1>14, <1>15 DEF NamesInv

LEMMA DeleteStep ==
    ASSUME NamesInv, NEW n \in Name, Delete(n)
    PROVE  NamesInv'
  <1>1. /\ Types /\ DiskInv
        /\ mem \in [rows : [Name -> Row], history : [Name -> Seq(Run)],
                    roles : [Role -> Name \cup {NoName}]]
        /\ \A m \in Name : RowOK(mem.rows[m])
        /\ NoName \notin Name /\ reported \in [Name -> SUBSET Run]
    BY ModelNamesAssumption DEF NamesInv, Types, Store
  <1> DEFINE roles == [r \in Role |-> IF mem.roles[r] = n THEN NoName ELSE mem.roles[r]]
  <1>2. /\ mem' = [mem EXCEPT !.rows[n] = Unregistered, !.history[n] = <<>>, !.roles = roles]
        /\ todo' = <<DeleteRows(n), WriteRoles>>
        /\ trainer' = Unknown(n) /\ torn' = torn \ {n}
        /\ reported' = [reported EXCEPT ![n] = {}]
        /\ todo = <<>> /\ serving = NoTrainer
        /\ UNCHANGED <<disk, serving, faults, unsaved>>
    BY DEF Delete, Serve, Free
  <1>3. /\ Unregistered \in Row /\ RowOK(Unregistered) /\ Unregistered.state = "unregistered"
        /\ <<>> \in Seq(Run) /\ roles \in [Role -> Name \cup {NoName}]
    <2>1. 0 \in 0..MaxRuns
      BY ModelNamesAssumption
    <2>2. /\ Unregistered \in Row /\ Unregistered.state = "unregistered"
          /\ Unregistered.run = NoRun
      BY <2>1 DEF Unregistered, Row, States, NoRun
    <2> QED BY <1>1, <2>2 DEF RowOK
  <1> HIDE DEF roles
  <1>4. /\ mem'.rows = [mem.rows EXCEPT ![n] = Unregistered]
        /\ mem'.history = [mem.history EXCEPT ![n] = <<>>]
        /\ mem'.roles = roles
        /\ mem' \in [rows : [Name -> Row], history : [Name -> Seq(Run)],
                     roles : [Role -> Name \cup {NoName}]]
    BY <1>1, <1>2, <1>3
  <1>5. /\ mem'.rows[n] = Unregistered /\ mem'.history[n] = <<>>
        /\ \A m \in Name \ {n} : mem'.rows[m] = mem.rows[m] /\ mem'.history[m] = mem.history[m]
    BY <1>1, <1>4
  <1>6. DiskInv' /\ todo' \in Seq(Writes)
    BY <1>1, <1>2, <1>5, DiskDelete
  <1>7. Types'
    BY <1>1, <1>2, <1>3, <1>4, <1>5, <1>6, Standings DEF Types, Store
  <1>8. ReportedInv'
    BY <1>1, <1>2, <1>5 DEF NamesInv, ReportedInv, State
  <1>9. ProductionIsServed'
    <2> SUFFICES ASSUME NEW m \in Name, m \notin torn', mem'.rows[m].state = "production"
                 PROVE  mem'.rows[m].role \in Role /\ mem'.roles[mem'.rows[m].role] = m
      BY DEF ProductionIsServed, State
    <2>1. m # n
      BY <1>3, <1>5
    <2>2. mem.rows[m].role \in Role /\ mem.roles[mem.rows[m].role] = m
      BY <1>2, <1>5, <2>1 DEF NamesInv, ProductionIsServed, State
    <2> QED BY <1>4, <1>5, <2>1, <2>2 DEF roles
  <1>10. ServedInv' /\ AnswerOutlivesCrash' /\ NumbersInv'
    <2>1. \A u \in Trainer : /\ SameBut(trainer'[u], trainer[u])
                             /\ trainer'[u].standing =
                                  IF ModelOf[u] = n THEN "unknown" ELSE trainer[u].standing
      BY <1>1, <1>2, Standings
    <2> QED BY <1>2, <1>5, <2>1, OthersTrainers
  <1> QED BY <1>6, <1>7, <1>8, <1>9, <1>10 DEF NamesInv

-----------------------------------------------------------------------------
(* The disk's steps *)

\* Memory and trainers stay.
LEMMA SameMemory ==
    ASSUME NamesInv, UNCHANGED <<mem, serving, trainer, reported, torn>>
    PROVE  /\ ReportedInv' /\ ServedInv' /\ NumbersInv'
           /\ AnswerOutlivesCrash' /\ ProductionIsServed'
  <1>1. ReportedInv' /\ ServedInv' /\ AnswerOutlivesCrash' /\ ProductionIsServed'
    BY DEF NamesInv, ReportedInv, ServedInv, AnswerOutlivesCrash, ProductionIsServed, State
  <1>2. NumbersInv'
    BY DEF NamesInv, NumbersInv, NumbersOf, Retrained
  <1> QED BY <1>1, <1>2

LEMMA WrittenStore ==
    ASSUME Store(mem), Store(disk), NEW w \in Writes
    PROVE  Store(Written(w))
  <1>1. /\ disk \in [rows : [Name -> Row], history : [Name -> Seq(Run)],
                     roles : [Role -> Name \cup {NoName}]]
        /\ mem.rows \in [Name -> Row] /\ mem.roles \in [Role -> Name \cup {NoName}]
        /\ \A n \in Name : RowOK(mem.rows[n]) /\ RowOK(disk.rows[n])
    BY DEF Store
  <1>2. /\ Unregistered \in Row /\ RowOK(Unregistered)
    <2>1. 0 \in 0..MaxRuns
      BY ModelNamesAssumption
    <2>2. /\ Unregistered \in Row /\ Unregistered.state = "unregistered"
          /\ Unregistered.run = NoRun
      BY <2>1 DEF Unregistered, Row, States, NoRun
    <2> QED BY <2>2 DEF RowOK
  <1>3. CASE w.op = "row"
    <2>1. w.name \in Name /\ Written(w) = [disk EXCEPT !.rows[w.name] = mem.rows[w.name]]
      BY <1>3 DEF Writes, Written
    <2> DEFINE rows == [disk.rows EXCEPT ![w.name] = mem.rows[w.name]]
    <2>2. rows \in [Name -> Row] /\ \A n \in Name : RowOK(rows[n])
      BY <1>1, <2>1
    <2>3. Written(w) = [disk EXCEPT !.rows = rows]
      BY <2>1
    <2> HIDE DEF rows
    <2> QED BY <1>1, <2>2, <2>3 DEF Store
  <1>4. CASE w.op = "clear"
    <2>1. w.name \in Name /\ Written(w) = [disk EXCEPT !.history[w.name] = <<>>]
      BY <1>4 DEF Writes, Written
    <2> DEFINE history == [disk.history EXCEPT ![w.name] = <<>>]
    <2>2. history \in [Name -> Seq(Run)]
      BY <1>1, <2>1
    <2>3. Written(w) = [disk EXCEPT !.history = history]
      BY <2>1
    <2> HIDE DEF history
    <2> QED BY <1>1, <2>2, <2>3 DEF Store
  <1>5. CASE w.op = "entry"
    <2>1. /\ w.name \in Name /\ w.entry \in Run
          /\ Written(w) = [disk EXCEPT !.history[w.name] = Append(@, w.entry)]
      BY <1>5 DEF Writes, Written
    <2>2. disk.history[w.name] \in Seq(Run)
      BY <1>1, <2>1
    <2>3. Append(disk.history[w.name], w.entry) \in Seq(Run)
      BY <2>1, <2>2
    <2> DEFINE history == [disk.history EXCEPT ![w.name] = Append(disk.history[w.name], w.entry)]
    <2>4. history \in [Name -> Seq(Run)]
      BY <1>1, <2>1, <2>3
    <2>5. Written(w) = [disk EXCEPT !.history = history]
      BY <2>1
    <2> HIDE DEF history
    <2> QED BY <1>1, <2>4, <2>5 DEF Store
  <1>6. CASE w.op = "delete"
    <2>1. /\ w.name \in Name
          /\ Written(w) = [disk EXCEPT !.rows[w.name] = Unregistered, !.history[w.name] = <<>>]
      BY <1>6 DEF Writes, Written
    <2> DEFINE rows == [disk.rows EXCEPT ![w.name] = Unregistered]
               history == [disk.history EXCEPT ![w.name] = <<>>]
    <2>2. /\ rows \in [Name -> Row] /\ \A n \in Name : RowOK(rows[n])
          /\ history \in [Name -> Seq(Run)]
      BY <1>1, <1>2, <2>1
    <2>3. Written(w) = [disk EXCEPT !.rows = rows, !.history = history]
      BY <2>1
    <2> HIDE DEF rows, history
    <2> QED BY <1>1, <2>2, <2>3 DEF Store
  <1>7. CASE w.op = "roles"
    <2>1. Written(w) = [disk EXCEPT !.roles = mem.roles]
      BY <1>7 DEF Writes, Written
    <2> QED BY <1>1, <2>1 DEF Store
  <1> QED BY <1>3, <1>4, <1>5, <1>6, <1>7 DEF Writes

LEMMA WriteStep ==
    ASSUME NamesInv, Write
    PROVE  NamesInv'
  <1> DEFINE w == Head(todo)
  <1>1. /\ todo \in Seq(Writes) /\ todo # <<>> /\ todo' = Tail(todo) /\ disk' = Written(w)
        /\ unsaved' \subseteq unsaved
        /\ UNCHANGED <<mem, serving, trainer, faults, reported, torn>>
    BY DEF Write, NamesInv, Types
  <1>2. w \in Writes /\ todo' \in Seq(Writes)
    BY <1>1, TailSeq
  <1> HIDE DEF w
  <1>3. Store(disk')
    BY <1>1, <1>2, WrittenStore DEF NamesInv, Types
  <1>4. Types'
    BY <1>1, <1>2, <1>3 DEF NamesInv, Types
  <1> QED BY <1>1, <1>4, DiskWrite, SameMemory DEF NamesInv

LEMMA WriteFailsStep ==
    ASSUME NamesInv, WriteFails
    PROVE  NamesInv'
  <1> DEFINE w == Head(todo)
  <1>1. /\ todo \in Seq(Writes) /\ todo # <<>> /\ todo' = Tail(todo) /\ Fault
        /\ unsaved' = unsaved \cup {w.name}
        /\ UNCHANGED <<mem, disk, serving, trainer, reported, torn>>
    BY DEF WriteFails, NamesInv, Types, stores
  <1>2. w \in Writes /\ todo' \in Seq(Writes)
    BY <1>1, TailSeq
  <1>3. w.name \in Name \cup {NoName}
    BY <1>2 DEF Writes
  <1>4. faults' \in 0..MaxFaults
    BY <1>1, ModelNamesAssumption DEF Fault, NamesInv, Types
  <1> HIDE DEF w
  <1>5. Types'
    BY <1>1, <1>2, <1>3, <1>4 DEF NamesInv, Types
  <1> QED BY <1>1, <1>5, DiskFails, SameMemory DEF NamesInv

\* A crash leaves alone what is not old on disk, and nobody knows more than before.
LEMMA CrashStep ==
    ASSUME NamesInv, Crash
    PROVE  NamesInv'
  <1>1. /\ Types /\ DiskInv /\ Store(mem) /\ Store(disk) /\ NoTrainer \notin Trainer
        /\ todo \in Seq(Writes) /\ trainer \in [Trainer -> TrainerState]
        /\ reported \in [Name -> SUBSET Run]
    BY ModelNamesAssumption DEF NamesInv, Types
  <1>2. /\ mem' = load_from_disk /\ todo' = <<>> /\ serving' = NoTrainer /\ unsaved' = {}
        /\ disk' = disk /\ Fault
        /\ reported' = [n \in Name |-> IF n \in Old THEN {} ELSE reported[n]]
        /\ torn' = torn \cup IF Old = {} THEN {}
                             ELSE {n \in Name : disk.rows[n].role \in Role
                                                /\ disk.roles[disk.rows[n].role] # n}
    BY DEF Crash
  <1>3. ASSUME NEW op, NEW n, n \notin Old
        PROVE  n \notin unsaved /\ ~Waits(todo, op, n)
    <2>1. DOMAIN todo = 1..Len(todo)
      BY <1>1
    <2> QED BY <1>3, <2>1 DEF Old, Waits
  <1>4. ASSUME NEW n \in Name, n \notin Old
        PROVE  /\ mem'.rows[n] = mem.rows[n]
               /\ \A e : Holds(mem.history[n], e) /\ State(n) # "unregistered"
                            => Holds(mem'.history[n], e)
    <2>1. RowSaved(n) /\ HistorySaved(n) /\ n \notin unsaved
          /\ \A op : ~Waits(todo, op, n)
      BY <1>1, <1>3, <1>4 DEF DiskInv
    <2>2. disk.rows[n] = mem.rows[n]
      BY <2>1 DEF RowSaved
    <2>3. mem'.rows[n] = mem.rows[n]
      BY <1>1, <1>2, <2>2, Loaded
    <2>4. ASSUME NEW i \in 1..Len(mem.history[n])
          PROVE  Holds(disk.history[n], mem.history[n][i])
      <3>1. ~EntryWaits(todo, n, mem.history[n][i])
        <4>1. ~Waits(todo, "entry", n)
          BY <2>1
        <4> QED BY <4>1 DEF EntryWaits, Waits
      <3> QED BY <2>1, <3>1 DEF HistorySaved
    <2>5. State(n) # "unregistered" => mem'.history[n] = disk.history[n]
      BY <1>1, <1>2, <2>2, Loaded DEF State
    <2> QED BY <2>3, <2>4, <2>5 DEF Holds
  <1>5. ASSUME NEW t \in Trainer
        PROVE  /\ trainer'[t] \in TrainerState
               /\ trainer'[t].pc \in {"training", "landing"} =>
                     /\ trainer[t].pc \in {"training", "landing"}
                     /\ trainer'[t].run = trainer[t].run
                     /\ trainer'[t].standing = IF ModelOf[t] \in Old THEN "unknown"
                                               ELSE trainer[t].standing
    <2> DEFINE told == IF ModelOf[t] \in Old THEN Unknown(ModelOf[t])[t] ELSE trainer[t]
    <2>1. trainer'[t] = IF serving = t THEN SentAgain(told) ELSE told
      BY DEF Crash
    <2>2. ModelOf[t] \in Name
      BY ModelNamesAssumption
    <2>3. /\ told \in TrainerState /\ SameBut(told, trainer[t])
          /\ told.standing = IF ModelOf[t] \in Old THEN "unknown" ELSE trainer[t].standing
      BY <1>1, <2>2, Standings DEF SameBut
    <2> HIDE DEF told
    <2>4. SentAgain(told) \in TrainerState /\ KeepsRun(SentAgain(told), told)
      BY <2>3, SentAgainKeeps
    <2> QED BY <2>1, <2>3, <2>4 DEF KeepsRun, SameBut
  <1>6. Types'
    <2>1. trainer' \in [Trainer -> TrainerState]
      <3>1. trainer' = [t \in Trainer |-> trainer'[t]]
        BY DEF Crash
      <3> QED BY <1>5, <3>1
    <2>2. faults' \in 0..MaxFaults
      BY <1>1, <1>2, ModelNamesAssumption DEF Fault, Types
    <2>3. reported' \in [Name -> SUBSET Run]
      BY <1>1, <1>2
    <2>4. torn' \subseteq Name
      BY <1>1, <1>2 DEF Types
    <2> QED BY <1>1, <1>2, <2>1, <2>2, <2>3, <2>4, Loaded DEF Types
  <1>7. DiskInv'
    BY <1>1, DiskCrash
  <1>8. ReportedInv'
    <2> SUFFICES ASSUME NEW n \in Name
                 PROVE  /\ mem'.rows[n].state = "unregistered" => reported'[n] = {}
                        /\ \A run \in reported'[n] :
                              \/ Holds(mem'.history[n], run)
                              \/ /\ mem'.rows[n].run = run
                                 /\ mem'.rows[n].progress \/ mem'.rows[n].state # "training"
      BY DEF ReportedInv, State
    <2>1. CASE n \in Old
      BY <1>2, <2>1
    <2>2. CASE n \notin Old
      BY <1>2, <1>4, <2>2 DEF NamesInv, ReportedInv, State
    <2> QED BY <2>1, <2>2
  <1>9. ServedInv'
    BY <1>1, <1>2 DEF ServedInv
  <1>10. ASSUME NEW t \in Trainer
         PROVE  AnswerOf(t)' /\ NumbersOf(t)'
    <2>1. AnswerOf(t) /\ NumbersOf(t) /\ ModelOf[t] \in Name
      BY ModelNamesAssumption DEF NamesInv, AnswerOutlivesCrash, AnswerOf, NumbersInv
    <2>2. CASE ModelOf[t] \in Old
      BY <1>1, <1>2, <1>5, <2>2 DEF AnswerOf, NumbersOf, Retrained
    <2>3. CASE ModelOf[t] \notin Old
      <3>1. mem'.rows[ModelOf[t]] = mem.rows[ModelOf[t]]
        BY <1>4, <2>1, <2>3
      <3> QED BY <1>1, <1>2, <1>5, <2>1, <2>3, <3>1
              DEF AnswerOf, NumbersOf, Retrained, State
    <2> QED BY <2>2, <2>3
  <1>11. ProductionIsServed'
    <2> SUFFICES ASSUME NEW n \in Name, n \notin torn', mem'.rows[n].state = "production"
                 PROVE  mem'.rows[n].role \in Role /\ mem'.roles[mem'.rows[n].role] = n
      BY DEF ProductionIsServed, State
    <2>1. mem'.rows[n] = disk.rows[n] /\ mem'.roles = disk.roles
      BY <1>1, <1>2, Loaded
    <2>2. disk.rows[n].role \in Role
      BY <1>1, <2>1 DEF Store, RowOK
    <2>3. CASE Old # {}
      BY <1>2, <2>1, <2>2, <2>3
    <2>4. CASE Old = {}
      <3>1. mem'.rows[n] = mem.rows[n]
        BY <1>4, <2>4
      <3>2. disk.roles = mem.roles
        BY <1>1, <1>3, <2>4 DEF DiskInv, RolesSaved
      <3>3. n \notin torn
        BY <1>2
      <3> QED BY <2>1, <3>1, <3>2, <3>3 DEF NamesInv, ProductionIsServed, State
    <2> QED BY <2>3, <2>4
  <1> QED BY <1>6, <1>7, <1>8, <1>9, <1>10, <1>11
          DEF NamesInv, AnswerOutlivesCrash, AnswerOf, NumbersInv

-----------------------------------------------------------------------------
LEMMA NamesInit == Init => NamesInv
  <1> SUFFICES ASSUME Init PROVE NamesInv
    OBVIOUS
  <1>1. 0 \in 0..MaxRuns /\ 0 \in 0..MaxFaults
    BY ModelNamesAssumption
  <1>2. Unregistered \in Row /\ RowOK(Unregistered)
    <2>1. /\ Unregistered \in Row /\ Unregistered.state = "unregistered"
          /\ Unregistered.run = NoRun
      BY <1>1 DEF Unregistered, Row, States, NoRun
    <2> QED BY <2>1 DEF RowOK
  <1>3. /\ EmptyStore.rows = [n \in Name |-> Unregistered]
        /\ EmptyStore.history = [n \in Name |-> <<>>]
        /\ Store(EmptyStore)
    <2>1. <<>> \in Seq(Run)
      OBVIOUS
    <2> QED BY <1>2, <2>1 DEF EmptyStore, Store
  <1>4. Types
    <2>1. <<>> \in Seq(Writes)
      OBVIOUS
    <2> QED BY <1>1, <1>3, <2>1, AtRestKeeps DEF Init, Types
  <1>5. DiskInv
    <2>1. ASSUME NEW n \in Name
          PROVE  Len(mem.history[n]) = 0
      <3>1. mem = EmptyStore
        BY DEF Init
      <3>2. mem.history[n] = <<>>
        BY <1>3, <3>1
      <3> QED BY <3>2
    <2> QED BY <1>3, <2>1, NothingWaits
            DEF Init, DiskInv, RolesSaved, RowSaved, HistorySaved, Deletes
  <1>6. ReportedInv /\ ServedInv /\ NumbersInv /\ AnswerOutlivesCrash
    BY ModelNamesAssumption
       DEF Init, ReportedInv, ServedInv, NumbersInv, NumbersOf, AnswerOutlivesCrash, AtRest
  <1>7. ProductionIsServed
    <2>1. ASSUME NEW n \in Name
          PROVE  State(n) = "unregistered"
      <3>1. mem.rows[n] = Unregistered
        BY <1>3 DEF Init
      <3> QED BY <3>1 DEF State, Unregistered
    <2> QED BY <2>1 DEF ProductionIsServed
  <1> QED BY <1>4, <1>5, <1>6, <1>7 DEF NamesInv

LEMMA NamesStep == NamesInv /\ [Next]_vars => NamesInv'
  <1> SUFFICES ASSUME NamesInv, [Next]_vars PROVE NamesInv'
    OBVIOUS
  <1>1. ASSUME NEW n \in Name,
               Register(n) \/ SetCandidate(n) \/ Retire(n) \/ UpdateData(n) \/ Delete(n)
        PROVE  NamesInv'
    BY <1>1, RegisterStep, SetCandidateStep, RetireStep, UpdateStep, DeleteStep
  <1>2. ASSUME NEW n \in Name, NEW r \in Role, Promote(n, r)
        PROVE  NamesInv'
    BY <1>2, PromoteStep
  <1>3. ASSUME NEW t \in Trainer, NEW new \in BOOLEAN, BeginRun(t, new)
        PROVE  NamesInv'
    BY <1>3, BeginSteps, BeginStep, QuietStep DEF NamesInv
  <1>4. ASSUME NEW t \in Trainer, Answered(t) \/ Land(t)
        PROVE  NamesInv'
    BY <1>4, AnsweredSteps, GivenStep, LandSteps, LandStep, QuietStep DEF NamesInv
  <1>5. ASSUME NEW t \in Trainer,
               AnswerLost(t) \/ RequestLost(t) \/ NextEpoch(t) \/ Abandon(t)
        PROVE  NamesInv'
    BY <1>5, LostSteps, QuietStep DEF NamesInv
  <1>6. ASSUME NEW t \in Trainer, push_progress(t)
        PROVE  NamesInv'
    BY <1>6, ProgressStep
  <1>7. CASE DiskNext
    BY <1>7, WriteStep, WriteFailsStep, CrashStep DEF DiskNext
  <1>8. CASE UNCHANGED vars
    <2>1. UNCHANGED <<mem, disk, todo, serving, trainer, faults, reported, unsaved, torn>>
      BY <1>8 DEF vars, stores, ghosts
    <2>2. Types' /\ DiskInv'
      BY <2>1, DiskQuiet DEF NamesInv, Types
    <2> QED BY <2>1, <2>2, SameMemory DEF NamesInv
  <1> QED BY <1>1, <1>2, <1>3, <1>4, <1>5, <1>6, <1>7, <1>8
          DEF Next, OperatorNext, TrainerNext

LEMMA NamesAlways == Spec => []NamesInv
  BY NamesInit, NamesStep, PTL DEF Spec

-----------------------------------------------------------------------------
(* The theorems *)

\* Whatever is written, fails or crashes, memory and disk hold well-formed rows,
\* and a row has a run only in training, or retired out of it (set_state clears
\* current_run_id on the way to candidate).
THEOREM NamesTypeCorrect == Spec => []TypeOK
  <1>1. NamesInv => TypeOK
    <2> SUFFICES ASSUME Types PROVE TypeOK
      BY DEF NamesInv
    <2>1. ASSUME NEW s, Store(s)
          PROVE  StoreOK(s)
      BY <2>1 DEF Store, StoreOK
    <2>2. \A n \in Name : RowOK(mem.rows[n])
      BY DEF Types, Store
    <2> QED BY <2>1, <2>2 DEF Types, TypeOK, RowOK, State
  <1> QED BY <1>1, NamesAlways, PTL

\* A crash between the writes of another request, or a failed write of another
\* row, does not take the run id from a trainer that begin_run gave it to:
\* persist_model writes the row before the answer is sent.
THEOREM AnswersSurvive == Spec => []AnswerOutlivesCrash
  <1>1. NamesInv => AnswerOutlivesCrash
    BY DEF NamesInv
  <1> QED BY <1>1, NamesAlways, PTL

\* However a run ends (candidate, retrained, retired), and although its history
\* is cleared and written again by every request, a run stays the model's run or
\* in its history once its last report shows an epoch after the first or a
\* session id, which is what set_state looks at before it archives.
THEOREM RunsAreRemembered == Spec => []NoRunForgotten
  <1>1. NamesInv => NoRunForgotten
    BY DEF NamesInv, ReportedInv, NoRunForgotten, Holds, Types, Store
  <1> QED BY <1>1, NamesAlways, PTL

\* promote_model retires the model that had the role: the roles table and the
\* rows agree on who is in production, but where a crash cut a promotion in two.
THEOREM RolesAreServed == Spec => []ProductionIsServed
  <1>1. NamesInv => ProductionIsServed
    BY DEF NamesInv
  <1> QED BY <1>1, NamesAlways, PTL

\* A trainer that was retrained past cannot touch the new run: its run id is
\* smaller than the one the row has, and report_progress and set_state refuse
\* a run id that is not the row's.
THEOREM LateTrainersStayOut == Spec => SupersededStaysOut
  <1>1. ASSUME NamesInv, [Next]_vars, NEW t \in Trainer,
               trainer[t].standing = "superseded", State(ModelOf[t]) = "training",
               trainer[t].pc \in {"training", "landing"}
        PROVE  trainer[t].run # mem.rows[ModelOf[t]].run
    <2>1. NumbersOf(t) /\ Retrained(t) /\ ModelOf[t] \in Name
      BY <1>1, ModelNamesAssumption DEF NamesInv, NumbersInv, Retrained
    <2>2. trainer[t].run < mem.rows[ModelOf[t]].number
      BY <1>1, <2>1 DEF NumbersOf
    <2>3. RowOK(mem.rows[ModelOf[t]]) /\ mem.rows[ModelOf[t]].state = "training"
      BY <1>1, <2>1, Rows DEF NamesInv, State
    <2>4. mem.rows[ModelOf[t]].run = mem.rows[ModelOf[t]].number
      BY <2>3 DEF RowOK, Run, NoRun
    <2>5. trainer[t].run \in Nat /\ mem.rows[ModelOf[t]].number \in Nat
      BY <1>1, <2>3 DEF NamesInv, Types, TrainerState, RowOK, Row
    <2> QED BY <2>2, <2>4, <2>5
  <1>2. ASSUME NamesInv, [Next]_vars, NEW t \in Trainer,
               serving = NoTrainer, serving' = t
        PROVE  (\E new \in BOOLEAN : BeginRun(t, new)) \/ Land(t)
    <2>1. serving' # serving /\ NoTrainer \notin Trainer
      BY <1>2, ModelNamesAssumption
    <2>2. ~UNCHANGED vars /\ ~DiskNext /\ ~OperatorNext
      BY <1>2, <2>1 DEF vars, DiskNext, OperatorNext, Write, WriteFails, Crash, Register,
         SetCandidate, Retire, UpdateData, Delete, Promote
    <2>3. PICK u \in Trainer : (\E new \in BOOLEAN : BeginRun(u, new)) \/ Land(u)
      BY <1>2, <2>1, <2>2 DEF Next, TrainerNext, Answered, AnswerLost, RequestLost, Abandon,
         push_progress, NextEpoch
    <2>4. serving' = u
      BY <2>1, <2>3 DEF BeginRun, Land
    <2> QED BY <1>2, <2>3, <2>4
  <1>3. ASSUME NamesInv, [Next]_vars, NEW t \in Trainer,
               trainer[t].standing = "superseded", State(ModelOf[t]) = "training"
        PROVE  /\ ~(serving = NoTrainer /\ serving' = t /\ trainer[t].pc \in {"training", "landing"})
               /\ ~(push_progress(t) /\ mem' # mem)
    <2>1. ~push_progress(t)
      BY <1>1, <1>3 DEF push_progress
    <2>2. ASSUME serving = NoTrainer, serving' = t, trainer[t].pc \in {"training", "landing"}
          PROVE  FALSE
      <3>1. Land(t)
        BY <1>2, <1>3, <2>2 DEF BeginRun
      <3>2. ~MayBecomeCandidate(ModelOf[t], trainer[t].run)
        BY <1>1, <1>3, <2>2 DEF MayBecomeCandidate
      <3>3. serving' = serving
        BY <3>1, <3>2 DEF Land
      <3> QED BY <2>2, <3>3, ModelNamesAssumption
    <2> QED BY <2>1, <2>2
  <1>4. NamesInv /\ [Next]_vars =>
          [\A t \in Trainer :
              trainer[t].standing = "superseded" /\ State(ModelOf[t]) = "training" =>
                /\ ~(serving = NoTrainer /\ serving' = t
                     /\ trainer[t].pc \in {"training", "landing"})
                /\ ~(push_progress(t) /\ mem' # mem)]_vars
    BY <1>3
  <1> QED BY <1>4, NamesAlways, PTL DEF Spec, SupersededStaysOut
=============================================================================
