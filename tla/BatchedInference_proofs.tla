---------------------- MODULE BatchedInference_proofs ----------------------
(***************************************************************************)
(* Proofs about the batched inference engine, for any number of requests,  *)
(* any batch size, token limit and queue bound.                            *)
(***************************************************************************)
EXTENDS BatchedInference, SequenceTheorems, TLAPS

\* A batch that is still collected has room for another request.
RoomInBatch == worker \in {"collecting", "asleep"} => Len(batch) < MaxBatch

\* Every request is queued once.
QueuedOnce ==
    \A i, j \in DOMAIN accepted : accepted[i] = accepted[j] => i = j

\* Whom the worker no longer has in its line got an outcome.
OthersSettled ==
    \A i \in DOMAIN accepted :
        i <= Len(accepted) - Len(Line) => state[accepted[i]] \in Settled

\* Once the worker has taken its last batch, a batch that is not full has taken
\* everything that was queued before the shutdown.
LastBatchDrains ==
    worker \in {"last", "ended"} =>
        /\ ~running
        /\ Len(batch) < MaxBatch => early <= Len(accepted) - Len(queue)

LineInv == LineIsWhoWaits /\ QueuedOnce /\ OthersSettled
EngineInv == TypeOK /\ RoomInBatch /\ LineInv /\ LastBatchDrains

-----------------------------------------------------------------------------
(* Facts about sequences *)

\* A concatenation is as long as its parts.
LEMMA ConcatLen ==
    ASSUME NEW S, NEW s \in Seq(S), NEW t \in Seq(S)
    PROVE  s \o t \in Seq(S) /\ Len(s \o t) = Len(s) + Len(t)
  OBVIOUS

\* Two concatenations agree when the first element of t moves to the end of s.
LEMMA SameConcat ==
    ASSUME NEW S, NEW s \in Seq(S), NEW t \in Seq(S), NEW a \in Seq(S), NEW b \in Seq(S),
           Len(t) > 0, Len(a) = Len(s) + 1, Len(b) = Len(t) - 1,
           \A i \in 1..Len(s) : a[i] = s[i], a[Len(s) + 1] = t[1],
           \A i \in 1..Len(b) : b[i] = t[i + 1]
    PROVE  a \o b = s \o t
  <1>1. a \o b \in Seq(S) /\ s \o t \in Seq(S)
    OBVIOUS
  <1>3. Len(a \o b) = Len(s) + Len(t)
    <2>1. Len(a \o b) = Len(a) + Len(b)
      BY ConcatLen, Zenon
    <2> QED BY <2>1
  <1>4. Len(s \o t) = Len(s) + Len(t)
    OBVIOUS
  <1>2. ASSUME NEW i \in 1..Len(s) + Len(t)
        PROVE  (a \o b)[i] = (s \o t)[i]
    <2>1. CASE i <= Len(s)
      <3>1. (a \o b)[i] = a[i] /\ (s \o t)[i] = s[i]
        BY <2>1
      <3> QED BY <2>1, <3>1
    <2>2. CASE i = Len(s) + 1
      <3>1. (a \o b)[i] = a[i] /\ (s \o t)[i] = t[1]
        BY <2>2
      <3> QED BY <2>2, <3>1
    <2>3. CASE i > Len(s) + 1
      <3> DEFINE j == i - (Len(s) + 1)
      <3>1. j \in 1..Len(b)
        BY <2>3
      <3>2. (a \o b)[i] = b[j]
        BY <2>3
      <3>3. (s \o t)[i] = t[j + 1]
        BY <2>3
      <3> QED BY <3>1, <3>2, <3>3
    <2> QED BY <2>1, <2>2, <2>3
  <1> QED BY <1>1, <1>2, <1>3, <1>4, SeqEqual

\* Cutting a sequence in two.
LEMMA CutInTwo ==
    ASSUME NEW S, NEW s \in Seq(S), NEW n \in 0..Len(s)
    PROVE  /\ SubSeq(s, 1, n) \in Seq(S) /\ SubSeq(s, n + 1, Len(s)) \in Seq(S)
           /\ Len(SubSeq(s, 1, n)) = n /\ Len(SubSeq(s, n + 1, Len(s))) = Len(s) - n
           /\ SubSeq(s, 1, n) \o SubSeq(s, n + 1, Len(s)) = s
  <1>2. SubSeq(s, 1, n) \in Seq(S) /\ Len(SubSeq(s, 1, n)) = n
    OBVIOUS
  <1>3. SubSeq(s, n + 1, Len(s)) \in Seq(S) /\ Len(SubSeq(s, n + 1, Len(s))) = Len(s) - n
    OBVIOUS
  <1>4. SubSeq(s, 1, n) \o SubSeq(s, n + 1, Len(s)) = SubSeq(s, 1, Len(s))
    BY ConcatAdjacentSubSeq, 1 \in 1..Len(s) + 1, n \in (1-1)..Len(s), Len(s) \in n..Len(s)
  <1>5. SubSeq(s, 1, Len(s)) = s
    BY SubSeqFull
  <1> QED BY <1>2, <1>3, <1>4, <1>5

\* Moving the head of t to the end of s leaves their concatenation.
LEMMA MoveHead ==
    ASSUME NEW S, NEW s \in Seq(S), NEW t \in Seq(S), t # <<>>
    PROVE  /\ Append(s, Head(t)) \in Seq(S) /\ Tail(t) \in Seq(S)
           /\ Len(Append(s, Head(t))) = Len(s) + 1 /\ Len(Tail(t)) = Len(t) - 1
           /\ Append(s, Head(t)) \o Tail(t) = s \o t
  <1>1. Len(t) > 0 /\ Head(t) = t[1] /\ Head(t) \in S
    OBVIOUS
  <1>2. Tail(t) \in Seq(S) /\ Len(Tail(t)) = Len(t) - 1 /\ \A i \in 1..Len(Tail(t)) : Tail(t)[i] = t[i + 1]
    OBVIOUS
  <1>3. /\ Append(s, Head(t)) \in Seq(S) /\ Len(Append(s, Head(t))) = Len(s) + 1
        /\ \A i \in 1..Len(s) : Append(s, Head(t))[i] = s[i]
        /\ Append(s, Head(t))[Len(s) + 1] = Head(t)
    BY <1>1
  <1>4. Append(s, Head(t)) \o Tail(t) = s \o t
    BY <1>1, <1>2, <1>3, SameConcat
  <1> QED BY <1>2, <1>3, <1>4

\* Appending an element.
LEMMA AppendFacts ==
    ASSUME NEW S, NEW s \in Seq(S), NEW e \in S
    PROVE  /\ Append(s, e) \in Seq(S) /\ Len(Append(s, e)) = Len(s) + 1
           /\ Append(s, e)[Len(s) + 1] = e
           /\ \A i \in 1..Len(s) : Append(s, e)[i] = s[i]
  OBVIOUS

\* Appending to the second part of a concatenation.
LEMMA AppendConcat ==
    ASSUME NEW S, NEW s \in Seq(S), NEW t \in Seq(S), NEW e \in S
    PROVE  s \o Append(t, e) = Append(s \o t, e)
  <1> DEFINE a == s \o Append(t, e)
             b == Append(s \o t, e)
  <1>1. s \o t \in Seq(S) /\ Len(s \o t) = Len(s) + Len(t)
    BY ConcatLen
  <1>2. Append(t, e) \in Seq(S) /\ Len(Append(t, e)) = Len(t) + 1
    BY AppendFacts
  <1>3. a \in Seq(S) /\ Len(a) = Len(s) + Len(t) + 1
    BY <1>2, ConcatLen
  <1>4. b \in Seq(S) /\ Len(b) = Len(s) + Len(t) + 1
    BY <1>1, AppendFacts
  <1>5. ASSUME NEW i \in 1..Len(a)
        PROVE  a[i] = b[i]
    BY <1>3
  <1> HIDE DEF a, b
  <1>6. a = b
    BY <1>3, <1>4, <1>5, SeqEqual
  <1> QED BY <1>6 DEF a, b

LEMMA ConcatEmpty ==
    ASSUME NEW S, NEW s \in Seq(S)
    PROVE  <<>> \o s = s /\ s \o <<>> = s
  OBVIOUS

-----------------------------------------------------------------------------
(* Type correctness and bounds *)

LEMMA InitEngine == Init => EngineInv
  <1> SUFFICES ASSUME Init PROVE EngineInv
    OBVIOUS
  <1> USE DEF Init
  <1>1. Line = <<>> /\ ~InHand
    BY DEF Line, InHand
  <1>2. TypeOK
    BY BatchAssumption DEF TypeOK
  <1>3. RoomInBatch /\ LastBatchDrains
    BY DEF RoomInBatch, LastBatchDrains
  <1>4. LineIsWhoWaits /\ QueuedOnce /\ OthersSettled
    BY <1>1 DEF LineIsWhoWaits, QueuedOnce, OthersSettled
  <1> QED BY <1>2, <1>3, <1>4 DEF EngineInv, LineInv

\* Only one request's place changes, or those of some requests.
LEMMA SetState ==
    ASSUME TypeOK, NEW S, NEW s \in {"new", "checked", "refused", "waiting"} \cup Settled
    PROVE  /\ Set(S, s) \in [Request -> {"new", "checked", "refused", "waiting"} \cup Settled]
           /\ \A r \in Request : Set(S, s)[r] = IF r \in S THEN s ELSE state[r]
  BY DEF Set, TypeOK

LEMMA NextBounds ==
    ASSUME TypeOK, RoomInBatch, [Next]_vars
    PROVE  TypeOK' /\ RoomInBatch'
  <1> USE DEF Settled
  <1>1. ASSUME NEW r \in Request, CheckRunning(r)
        PROVE  TypeOK' /\ RoomInBatch'
    <2>1. state' \in [Request -> {"new", "checked", "refused", "waiting"} \cup Settled]
      BY <1>1, SetState DEF CheckRunning
    <2> QED BY <1>1, <2>1 DEF CheckRunning, TypeOK, RoomInBatch, history
  <1>2. ASSUME NEW r \in Request, Enqueue(r)
        PROVE  TypeOK' /\ RoomInBatch'
    <2>1. state' \in [Request -> {"new", "checked", "refused", "waiting"} \cup Settled]
      BY <1>2, SetState DEF Enqueue
    <2>2. CASE Len(queue) >= MaxQueue
      BY <1>2, <2>1, <2>2 DEF Enqueue, TypeOK, RoomInBatch, history
    <2>3. CASE ~(Len(queue) >= MaxQueue)
      <3>1. /\ queue' \in Seq(Request) /\ Len(queue') = Len(queue) + 1
            /\ accepted' \in Seq(Request) /\ Len(accepted') = Len(accepted) + 1
        <4>1. queue' = Append(queue, r) /\ accepted' = Append(accepted, r)
          BY <1>2, <2>3 DEF Enqueue
        <4>2. queue \in Seq(Request) /\ accepted \in Seq(Request)
          BY DEF TypeOK
        <4> QED BY <4>1, <4>2, AppendFacts
      <3>2. Len(queue') <= MaxQueue
        BY <2>3, <3>1, BatchAssumption DEF TypeOK
      <3>3. early' \in 0..Len(accepted')
        BY <1>2, <2>3, <3>1 DEF Enqueue, TypeOK
      <3> QED BY <1>2, <2>1, <3>1, <3>2, <3>3 DEF Enqueue, TypeOK, RoomInBatch
    <2> QED BY <2>2, <2>3
  <1>3. CASE Shutdown
    BY <1>3 DEF Shutdown, TypeOK, RoomInBatch, history
  <1>4. CASE Destroy
    <2>1. state' \in [Request -> {"new", "checked", "refused", "waiting"} \cup Settled]
      BY <1>4 DEF Destroy, TypeOK
    <2>2. queue' \in Seq(Request) /\ Len(queue') <= MaxQueue
      BY <1>4, BatchAssumption DEF Destroy
    <2> QED BY <1>4, <2>1, <2>2 DEF Destroy, TypeOK, RoomInBatch, history
  <1>5. CASE StartBatch
    <2>1. batch' \in Seq(Request) /\ Len(batch') = 0
      BY <1>5 DEF StartBatch
    <2> QED BY <1>5, <2>1, BatchAssumption DEF StartBatch, TypeOK, RoomInBatch, history
  <1>6. CASE Take
    <2>1. /\ batch' \in Seq(Request) /\ queue' \in Seq(Request)
          /\ Len(batch') = Len(batch) + 1 /\ Len(queue') = Len(queue) - 1
      BY <1>6, MoveHead DEF Take, TypeOK
    <2>2. Len(batch) < MaxBatch
      BY <1>6 DEF Take, RoomInBatch
    <2>3. Len(batch') <= MaxBatch /\ Len(queue') <= MaxQueue
      BY <2>1, <2>2, BatchAssumption DEF TypeOK
    <2>4. worker' \in {"collecting", "loop", "generating"}
          /\ (worker' = "collecting" => ~ShouldFlush(batch'))
      BY <1>6 DEF Take, Collected
    <2>5. RoomInBatch'
      BY <2>1, <2>4, BatchAssumption DEF RoomInBatch, ShouldFlush, TypeOK
    <2> QED BY <1>6, <2>1, <2>3, <2>4, <2>5 DEF Take, TypeOK, history
  <1>7. CASE Wait \/ WakeUp \/ Deadline \/ StopCollecting
    BY <1>7 DEF Wait, WakeUp, Deadline, StopCollecting, Collected, TypeOK, RoomInBatch, history
  <1>8. CASE Process
    <2>1. state' \in [Request -> {"new", "checked", "refused", "waiting"} \cup Settled]
      BY <1>8, SetState DEF Process
    <2> QED BY <1>8, <2>1 DEF Process, TypeOK, RoomInBatch, history
  <1>9. CASE DrainOnce
    <2> DEFINE n == IF Len(queue) < MaxBatch THEN Len(queue) ELSE MaxBatch
    <2>1. n \in 0..Len(queue) /\ n <= MaxBatch /\ Len(queue) \in Nat
      BY BatchAssumption DEF TypeOK
    <2>2. /\ batch' = SubSeq(queue, 1, n) /\ queue' = SubSeq(queue, n + 1, Len(queue))
          /\ worker' \in {"ended", "last"}
      BY <1>9 DEF DrainOnce
    <2> HIDE DEF n
    <2>3. /\ batch' \in Seq(Request) /\ queue' \in Seq(Request)
          /\ Len(batch') = n /\ Len(queue') = Len(queue) - n
      BY <2>1, <2>2, CutInTwo DEF TypeOK
    <2>4. Len(queue') <= MaxQueue
      BY <2>1, <2>3, BatchAssumption DEF TypeOK
    <2> QED BY <1>9, <2>1, <2>2, <2>3, <2>4 DEF DrainOnce, TypeOK, RoomInBatch, history
  <1>10. CASE UNCHANGED vars
    BY <1>10 DEF vars, history, TypeOK, RoomInBatch
  <1> QED BY <1>1, <1>2, <1>3, <1>4, <1>5, <1>6, <1>7, <1>8, <1>9, <1>10
          DEF Next, Client, Work

-----------------------------------------------------------------------------
(* The worker's line *)

\* The line is a sequence of requests; while the worker has a batch in hand, that
\* comes first.
LEMMA LineParts ==
    ASSUME TypeOK
    PROVE  /\ Line \in Seq(Request)
           /\ ~InHand => Line = queue
           /\ InHand => /\ Line = batch \o queue
                        /\ Len(Line) = Len(batch) + Len(queue)
                        /\ \A i \in 1..Len(batch) : Line[i] = batch[i]
                        /\ \A i \in 1..Len(queue) : Line[Len(batch) + i] = queue[i]
  <1>1. batch \in Seq(Request) /\ queue \in Seq(Request)
    BY DEF TypeOK
  <1>2. CASE ~InHand
    BY <1>1, <1>2 DEF Line
  <1>3. CASE InHand
    <2>1. Line = batch \o queue
      BY <1>3 DEF Line
    <2>2. batch \o queue \in Seq(Request) /\ Len(batch \o queue) = Len(batch) + Len(queue)
      BY <1>1, ConcatLen
    <2>3. /\ \A i \in 1..Len(batch) : (batch \o queue)[i] = batch[i]
          /\ \A i \in 1..Len(queue) : (batch \o queue)[Len(batch) + i] = queue[i]
      BY <1>1
    <2> QED BY <1>3, <2>1, <2>2, <2>3
  <1> QED BY <1>2, <1>3

\* What was queued waits or has its outcome.
LEMMA AcceptedState ==
    ASSUME TypeOK, LineInv, NEW i \in DOMAIN accepted
    PROVE  /\ accepted[i] \in Request
           /\ state[accepted[i]] \in {"waiting"} \cup Settled
  <1>1. accepted[i] \in Request /\ i \in 1..Len(accepted)
    BY DEF TypeOK
  <1>2. CASE i <= Len(accepted) - Len(Line)
    BY <1>1, <1>2 DEF LineInv, OthersSettled
  <1>3. CASE ~(i <= Len(accepted) - Len(Line))
    <2>1. Len(Line) \in Nat /\ Len(accepted) \in Nat
      BY LineParts DEF TypeOK
    <2>2. i > Len(accepted) - Len(Line)
      BY <1>1, <1>3, <2>1
    <2> QED BY <1>1, <2>2 DEF LineInv, LineIsWhoWaits
  <1> QED BY <1>2, <1>3

\* Moving requests from the queue to the batch leaves the line and its invariant.
LEMMA SameLine ==
    ASSUME LineInv, Line' = Line, UNCHANGED accepted,
           \A i \in DOMAIN accepted : state'[accepted[i]] = state[accepted[i]]
    PROVE  LineInv'
  BY DEF LineInv, LineIsWhoWaits, QueuedOnce, OthersSettled

\* The line L of the requests acc that were queued, when the first k of them have
\* an outcome in st.
Follows(L, acc, k) == \A i \in 1..Len(L) : L[i] = acc[k + i]
Outcomes(acc, st, k) ==
    \A i \in 1..Len(acc) : /\ i > k => st[acc[i]] = "waiting"
                           /\ i <= k => st[acc[i]] \in Settled
Distinct(acc) == \A i, j \in 1..Len(acc) : acc[i] = acc[j] => i = j

LineOf(L, acc, st, k) ==
    Len(L) + k = Len(acc) /\ Follows(L, acc, k) /\ Outcomes(acc, st, k) /\ Distinct(acc)

LineShape ==
    /\ Line \in Seq(Request) /\ accepted \in Seq(Request)
    /\ \E k \in Nat : LineOf(Line, accepted, state, k)

LEMMA LineCount ==
    ASSUME TypeOK, LineInv
    PROVE  LineShape
  <1> DEFINE k == Len(accepted) - Len(Line)
  <1>1. Line \in Seq(Request) /\ accepted \in Seq(Request)
    BY LineParts DEF TypeOK
  <1>2. /\ Len(Line) \in Nat /\ Len(accepted) \in Nat
        /\ DOMAIN Line = 1..Len(Line) /\ DOMAIN accepted = 1..Len(accepted)
    BY <1>1
  <1>3. /\ Len(Line) <= Len(accepted)
        /\ \A i \in DOMAIN Line : Line[i] = accepted[k + i]
        /\ \A i \in DOMAIN accepted : state[accepted[i]] = "waiting" <=> i > k
    BY DEF LineInv, LineIsWhoWaits
  <1>4. \A i \in DOMAIN accepted : i <= k => state[accepted[i]] \in Settled
    BY DEF LineInv, OthersSettled
  <1>5. \A i, j \in DOMAIN accepted : accepted[i] = accepted[j] => i = j
    BY DEF LineInv, QueuedOnce
  <1>6. k \in Nat /\ Len(Line) + k = Len(accepted)
    BY <1>2, <1>3
  <1> HIDE DEF k
  <1> QED BY <1>2, <1>3, <1>4, <1>5, <1>6, <1>1 DEF LineShape, LineOf, Follows, Outcomes, Distinct

LEMMA CountLine == LineShape => LineInv
  <1> SUFFICES ASSUME NEW k \in Nat, Line \in Seq(Request), accepted \in Seq(Request),
                      LineOf(Line, accepted, state, k)
               PROVE  LineInv
    BY DEF LineShape
  <1>1. /\ Len(Line) \in Nat /\ Len(accepted) \in Nat
        /\ DOMAIN Line = 1..Len(Line) /\ DOMAIN accepted = 1..Len(accepted)
    OBVIOUS
  <1>2. Len(Line) <= Len(accepted) /\ Len(accepted) - Len(Line) = k
    BY <1>1 DEF LineOf
  <1>3. LineIsWhoWaits
    <2>1. \A i \in DOMAIN accepted : state[accepted[i]] = "waiting" <=> i > k
      <3> SUFFICES ASSUME NEW i \in 1..Len(accepted)
                   PROVE  state[accepted[i]] = "waiting" <=> i > k
        BY <1>1
      <3>1. i > k \/ i <= k
        BY <1>1
      <3> QED BY <3>1 DEF Settled, LineOf, Outcomes
    <2> QED BY <1>1, <1>2, <2>1 DEF LineIsWhoWaits, LineOf, Follows
  <1>4. OthersSettled
    BY <1>1, <1>2 DEF OthersSettled, LineOf, Outcomes
  <1>5. QueuedOnce
    BY <1>1 DEF QueuedOnce, LineOf, Distinct
  <1> QED BY <1>3, <1>4, <1>5 DEF LineInv

\* When the first n requests of a line L leave it with an outcome, and nobody else's
\* promise is touched, the rest M is the line of the others.
LEMMA LineShrinks ==
    ASSUME NEW R, NEW acc \in Seq(R), NEW L \in Seq(R), NEW M \in Seq(R),
           NEW st, NEW st2, NEW k \in Nat, NEW n \in Nat,
           LineOf(L, acc, st, k), n <= Len(L), Len(M) = Len(L) - n, Follows(M, L, n),
           \A i \in 1..n : st2[L[i]] \in Settled,
           \A i \in 1..Len(acc) :
              (\A j \in 1..n : L[j] # acc[i]) => st2[acc[i]] = st[acc[i]]
    PROVE  k + n \in Nat /\ LineOf(M, acc, st2, k + n)
  <1>1. Len(L) \in Nat /\ Len(M) \in Nat /\ Len(acc) \in Nat
    OBVIOUS
  <1>2. Len(M) + (k + n) = Len(acc) /\ Len(L) + k = Len(acc)
    BY <1>1 DEF LineOf
  <1>3. Follows(M, acc, k + n)
    <2> SUFFICES ASSUME NEW i \in 1..Len(M) PROVE M[i] = acc[(k + n) + i]
      BY DEF Follows
    <2>1. n + i \in 1..Len(L) /\ k + (n + i) = (k + n) + i
      BY <1>1
    <2>2. M[i] = L[n + i]
      BY DEF Follows
    <2>3. L[n + i] = acc[k + (n + i)]
      BY <2>1 DEF LineOf, Follows
    <2> QED BY <2>1, <2>2, <2>3
  <1>4. ASSUME NEW i \in 1..Len(acc), i <= k \/ i > k + n
        PROVE  st2[acc[i]] = st[acc[i]]
    <2> SUFFICES ASSUME NEW j \in 1..n, L[j] = acc[i] PROVE FALSE
      OBVIOUS
    <2>1. j \in 1..Len(L) /\ k + j \in 1..Len(acc)
      BY <1>1, <1>2
    <2>2. L[j] = acc[k + j]
      BY <2>1 DEF LineOf, Follows
    <2>3. k + j = i
      BY <2>1, <2>2 DEF LineOf, Distinct
    <2> QED BY <1>4, <2>3
  <1>5. ASSUME NEW i \in 1..Len(acc), i > k + n
        PROVE  st2[acc[i]] = "waiting"
    <2>1. i > k
      BY <1>5
    <2>2. st[acc[i]] = "waiting"
      BY <2>1 DEF LineOf, Outcomes
    <2> QED BY <1>4, <1>5, <2>2
  <1>6. ASSUME NEW i \in 1..Len(acc), i <= k + n
        PROVE  st2[acc[i]] \in Settled
    <2>1. CASE i <= k
      <3>1. st[acc[i]] \in Settled
        BY <2>1 DEF LineOf, Outcomes
      <3> QED BY <1>4, <2>1, <3>1
    <2>2. CASE i > k
      <3> DEFINE j == i - k
      <3>1. j \in 1..n /\ j \in 1..Len(L) /\ k + j = i
        BY <1>1, <1>6, <2>2
      <3> HIDE DEF j
      <3>2. L[j] = acc[i]
        BY <3>1 DEF LineOf, Follows
      <3> QED BY <3>1, <3>2
    <2> QED BY <2>1, <2>2
  <1>7. Outcomes(acc, st2, k + n)
    BY <1>5, <1>6 DEF Outcomes
  <1> QED BY <1>2, <1>3, <1>7 DEF LineOf

\* A request that was never queued joins the line at its end and waits.
LEMMA LineGrows ==
    ASSUME NEW R, NEW acc \in Seq(R), NEW L \in Seq(R), NEW st, NEW st2, NEW k \in Nat,
           NEW r \in R, LineOf(L, acc, st, k), \A i \in 1..Len(acc) : acc[i] # r,
           st2[r] = "waiting", \A q \in R : q # r => st2[q] = st[q]
    PROVE  LineOf(Append(L, r), Append(acc, r), st2, k)
  <1> DEFINE M == Append(L, r)
             bcc == Append(acc, r)
  <1>1. /\ M \in Seq(R) /\ Len(M) = Len(L) + 1 /\ M[Len(L) + 1] = r
        /\ \A i \in 1..Len(L) : M[i] = L[i]
    BY AppendFacts
  <1>2. /\ bcc \in Seq(R) /\ Len(bcc) = Len(acc) + 1 /\ bcc[Len(acc) + 1] = r
        /\ \A i \in 1..Len(acc) : bcc[i] = acc[i]
    BY AppendFacts
  <1> HIDE DEF M, bcc
  <1>3. Len(L) \in Nat /\ Len(acc) \in Nat /\ Len(L) + k = Len(acc)
    BY DEF LineOf
  <1>4. Len(M) + k = Len(bcc)
    <2>1. Len(M) = Len(L) + 1 /\ Len(bcc) = Len(acc) + 1
      BY <1>1, <1>2
    <2> QED BY <1>3, <2>1
  <1>5. Follows(M, bcc, k)
    <2> SUFFICES ASSUME NEW i \in 1..Len(M) PROVE M[i] = bcc[k + i]
      BY DEF Follows
    <2>1. CASE i = Len(L) + 1
      <3>1. k + i = Len(acc) + 1
        BY <1>3, <2>1
      <3> QED BY <1>1, <1>2, <2>1, <3>1
    <2>2. CASE i # Len(L) + 1
      <3>1. i \in 1..Len(L) /\ k + i \in 1..Len(acc)
        BY <1>1, <1>3, <2>2
      <3>2. L[i] = acc[k + i]
        BY <3>1 DEF LineOf, Follows
      <3> QED BY <1>1, <1>2, <3>1, <3>2
    <2> QED BY <2>1, <2>2
  <1>6. Outcomes(bcc, st2, k)
    <2> SUFFICES ASSUME NEW i \in 1..Len(bcc)
                 PROVE  /\ i > k => st2[bcc[i]] = "waiting"
                        /\ i <= k => st2[bcc[i]] \in Settled
      BY DEF Outcomes
    <2>1. CASE i = Len(acc) + 1
      <3>1. i > k
        BY <1>3, <2>1
      <3> QED BY <1>2, <2>1, <3>1
    <2>2. CASE i # Len(acc) + 1
      <3>1. i \in 1..Len(acc)
        BY <1>2, <1>3, <2>2
      <3>2. acc[i] \in R /\ bcc[i] = acc[i] /\ st2[acc[i]] = st[acc[i]]
        BY <1>2, <3>1
      <3> QED BY <3>1, <3>2 DEF LineOf, Outcomes
    <2> QED BY <2>1, <2>2
  <1>7. Distinct(bcc)
    <2> SUFFICES ASSUME NEW i \in 1..Len(bcc), NEW j \in 1..Len(bcc), bcc[i] = bcc[j]
                 PROVE  i = j
      BY DEF Distinct
    <2>1. /\ i \in 1..Len(acc) \/ i = Len(acc) + 1
          /\ j \in 1..Len(acc) \/ j = Len(acc) + 1
      BY <1>2, <1>3
    <2>2. Distinct(acc)
      BY DEF LineOf
    <2> QED BY <1>2, <2>1, <2>2 DEF Distinct
  <1>8. LineOf(M, bcc, st2, k)
    BY <1>4, <1>5, <1>6, <1>7 DEF LineOf
  <1> QED BY <1>8 DEF M, bcc

LEMMA NextLine ==
    ASSUME TypeOK, RoomInBatch, LineInv, [Next]_vars
    PROVE  LineInv'
  <1>1. TypeOK'
    BY NextBounds
  <1>2. /\ Line \in Seq(Request) /\ queue \in Seq(Request) /\ batch \in Seq(Request)
        /\ accepted \in Seq(Request) /\ DOMAIN accepted = 1..Len(accepted)
        /\ accepted' \in Seq(Request)
    BY <1>1, LineParts DEF TypeOK
  <1>3. Line' \in Seq(Request)
    BY <1>1, ConcatLen DEF Line, TypeOK
  <1>4. PICK k \in Nat : LineOf(Line, accepted, state, k)
    BY LineCount DEF LineShape
  <1>5. ASSUME NEW j \in Nat, LineOf(Line', accepted', state', j)
        PROVE  LineInv'
    <2>1. LineShape'
      BY <1>2, <1>3, <1>5 DEF LineShape
    <2> QED BY <2>1, CountLine, PTL
  <1>6. CASE Process
    <2>1. InHand /\ ~InHand'
      BY <1>6 DEF Process, InHand
    <2>2. Line' = queue
      BY <1>6, <2>1 DEF Line, Process
    <2> DEFINE n == Len(batch)
    <2>3. /\ n \in Nat /\ n <= Len(Line) /\ Len(Line') = Len(Line) - n
          /\ \A i \in 1..n : Line[i] = batch[i]
          /\ Follows(Line', Line, n)
      BY <1>2, <2>1, <2>2, LineParts DEF Follows
    <2>4. DOMAIN batch = 1..n
      BY <1>2
    <2>5. PICK result \in {"answered", "failed"} : state' = Set(In(batch), result)
      BY <1>6 DEF Process
    <2>6. \A i \in 1..n : state'[Line[i]] \in Settled
      <3> SUFFICES ASSUME NEW i \in 1..n PROVE state'[Line[i]] \in Settled
        OBVIOUS
      <3>1. Line[i] \in In(batch) /\ Line[i] \in Request
        BY <1>2, <2>3, <2>4 DEF In
      <3> QED BY <2>5, <3>1 DEF Set, Settled
    <2>7. ASSUME NEW i \in 1..Len(accepted), \A j \in 1..n : Line[j] # accepted[i]
          PROVE  state'[accepted[i]] = state[accepted[i]]
      <3>1. accepted[i] \in Request
        BY <1>2
      <3>2. accepted[i] \notin In(batch)
        BY <2>3, <2>4, <2>7 DEF In
      <3> QED BY <2>5, <3>1, <3>2 DEF Set
    <2> HIDE DEF n
    <2>8. k + n \in Nat /\ LineOf(Line', accepted, state', k + n)
      BY <1>2, <1>3, <1>4, <2>3, <2>6, <2>7, LineShrinks
    <2> QED BY <1>5, <1>6, <2>8 DEF Process, history
  <1>7. CASE Destroy
    <2>1. ~InHand /\ ~InHand' /\ Line = queue /\ Line' = <<>>
      BY <1>7 DEF Destroy, InHand, Line
    <2> DEFINE n == Len(queue)
    <2>2. /\ n \in Nat /\ n <= Len(Line) /\ Len(Line') = Len(Line) - n
          /\ Follows(Line', Line, n) /\ DOMAIN queue = 1..n
      BY <1>2, <2>1 DEF Follows
    <2>3. state' = [r \in Request |->
                      CASE r \in In(queue) -> "broken"
                        [] state[r] = "new" -> "refused"
                        [] OTHER -> state[r]]
      BY <1>7 DEF Destroy
    <2>4. \A i \in 1..n : state'[Line[i]] \in Settled
      <3> SUFFICES ASSUME NEW i \in 1..n PROVE state'[Line[i]] \in Settled
        OBVIOUS
      <3>1. Line[i] \in In(queue) /\ Line[i] \in Request
        BY <1>2, <2>1, <2>2 DEF In
      <3>2. state[Line[i]] = "waiting"
        <4>1. i \in 1..Len(Line) /\ Line[i] = accepted[k + i] /\ k + i \in 1..Len(accepted)
              /\ k + i > k
          BY <1>2, <1>4, <2>1 DEF LineOf, Follows
        <4> QED BY <1>4, <4>1 DEF LineOf, Outcomes
      <3> QED BY <2>3, <3>1, <3>2 DEF Settled
    <2>5. ASSUME NEW i \in 1..Len(accepted), \A j \in 1..n : Line[j] # accepted[i]
          PROVE  state'[accepted[i]] = state[accepted[i]]
      <3>1. accepted[i] \in Request /\ state[accepted[i]] # "new"
        BY <1>2, AcceptedState DEF Settled
      <3>2. accepted[i] \notin In(queue)
        BY <2>1, <2>2, <2>5 DEF In
      <3> QED BY <2>3, <3>1, <3>2
    <2> HIDE DEF n
    <2>6. k + n \in Nat /\ LineOf(Line', accepted, state', k + n)
      BY <1>2, <1>3, <1>4, <2>2, <2>4, <2>5, LineShrinks
    <2> QED BY <1>5, <1>7, <2>6 DEF Destroy, history
  <1>8. ASSUME NEW r \in Request, Enqueue(r), Len(queue) < MaxQueue
        PROVE  LineInv'
    <2>1. /\ queue' = Append(queue, r) /\ accepted' = Append(accepted, r)
          /\ state' = Set({r}, "waiting") /\ batch' = batch /\ worker' = worker
          /\ state[r] = "checked"
      <3>1. ~(Len(queue) >= MaxQueue)
        BY <1>2, <1>8, BatchAssumption
      <3> QED BY <1>8, <3>1 DEF Enqueue
    <2>2. Line' = Append(Line, r)
      <3>1. InHand' = InHand
        BY <2>1 DEF InHand
      <3>2. CASE InHand
        <4>1. Line' = batch \o Append(queue, r) /\ Line = batch \o queue
          BY <2>1, <3>1, <3>2 DEF Line
        <4> QED BY <1>2, <4>1, AppendConcat
      <3>3. CASE ~InHand
        BY <2>1, <3>1, <3>3 DEF Line
      <3> QED BY <3>2, <3>3
    <2>3. ASSUME NEW i \in 1..Len(accepted)
          PROVE  accepted[i] # r
      BY <1>2, <2>1, AcceptedState DEF Settled
    <2>4. state'[r] = "waiting" /\ \A q \in Request : q # r => state'[q] = state[q]
      BY <2>1 DEF Set
    <2>5. LineOf(Append(Line, r), Append(accepted, r), state', k)
      BY <1>2, <1>4, <2>3, <2>4, LineGrows
    <2> QED BY <1>5, <2>1, <2>2, <2>5
  <1>9. ASSUME Line' = Line, accepted' = accepted,
               \A i \in 1..Len(accepted) : state'[accepted[i]] = state[accepted[i]]
        PROVE  LineInv'
    BY <1>2, <1>9, SameLine
  <1>10. ASSUME NEW r \in Request, NEW s, state[r] \in {"new", "checked"}, state' = Set({r}, s),
                UNCHANGED <<queue, batch, worker, accepted>>
         PROVE  LineInv'
    <2>1. Line' = Line
      BY <1>10 DEF Line, InHand
    <2>2. ASSUME NEW i \in 1..Len(accepted)
          PROVE  state'[accepted[i]] = state[accepted[i]]
      <3>1. accepted[i] \in Request /\ accepted[i] # r
        BY <1>2, <1>10, AcceptedState DEF Settled
      <3> QED BY <1>10, <3>1 DEF Set
    <2> QED BY <1>9, <1>10, <2>1, <2>2
  <1>11. ASSUME NEW r \in Request, CheckRunning(r)
         PROVE  LineInv'
    BY <1>10, <1>11 DEF CheckRunning, history
  <1>12. ASSUME NEW r \in Request, Enqueue(r), Len(queue) >= MaxQueue
         PROVE  LineInv'
    BY <1>10, <1>12 DEF Enqueue, history
  <1>13. CASE Take
    <2>1. /\ batch' = Append(batch, Head(queue)) /\ queue' = Tail(queue) /\ queue # <<>>
          /\ worker = "collecting" /\ UNCHANGED <<state, accepted>>
      BY <1>13 DEF Take, history
    <2>2. Line = batch \o queue /\ batch' \o queue' = batch \o queue
      BY <1>2, <2>1, MoveHead DEF Line, InHand
    <2>3. worker' \in {"collecting", "generating"}
      <3>1. batch' # <<>>
        BY <1>2, <2>1
      <3> QED BY <1>13, <3>1 DEF Take, Collected
    <2>4. Line' = batch' \o queue'
      BY <2>3 DEF Line, InHand
    <2> QED BY <1>9, <2>1, <2>2, <2>4
  <1>14. CASE DrainOnce
    <2> DEFINE n == IF Len(queue) < MaxBatch THEN Len(queue) ELSE MaxBatch
    <2>1. n \in 0..Len(queue)
      BY <1>2, BatchAssumption
    <2>2. /\ batch' = SubSeq(queue, 1, n) /\ queue' = SubSeq(queue, n + 1, Len(queue))
          /\ worker' = (IF n = 0 THEN "ended" ELSE "last") /\ worker = "loop"
          /\ UNCHANGED <<state, accepted>>
      BY <1>14 DEF DrainOnce, history
    <2> HIDE DEF n
    <2>3. Line = queue
      BY <2>2 DEF Line, InHand
    <2>4. batch' \o queue' = queue /\ batch' \in Seq(Request) /\ Len(batch') = n
          /\ queue' \in Seq(Request)
      BY <1>2, <2>1, <2>2, CutInTwo
    <2>5. Line' = queue
      <3>1. CASE n = 0
        <4>1. batch' = <<>>
          BY <2>4, <3>1
        <4>2. queue' = queue
          BY <2>4, <4>1, ConcatEmpty
        <4> QED BY <2>2, <3>1, <4>2 DEF Line, InHand
      <3>2. CASE n # 0
        BY <2>2, <2>4, <3>2 DEF Line, InHand
      <3> QED BY <3>1, <3>2
    <2> QED BY <1>9, <2>2, <2>3, <2>5
  <1>15. CASE StartBatch
    <2>1. /\ worker = "loop" /\ worker' = "collecting" /\ batch' = <<>>
          /\ UNCHANGED <<queue, state, accepted>>
      BY <1>15 DEF StartBatch, history
    <2>2. Line = queue /\ Line' = <<>> \o queue
      BY <2>1 DEF Line, InHand
    <2> QED BY <1>2, <1>9, <2>1, <2>2, ConcatEmpty
  <1>16. CASE Wait \/ WakeUp \/ Deadline \/ StopCollecting
    <2>1. UNCHANGED <<queue, batch, state, accepted>>
      BY <1>16 DEF Wait, WakeUp, Deadline, StopCollecting, history
    <2>2. /\ worker \in {"collecting", "asleep"}
          /\ worker' \in {"collecting", "asleep", "generating"} \/ (batch = <<>> /\ worker' = "loop")
      BY <1>16 DEF Wait, WakeUp, Deadline, StopCollecting, Collected
    <2>3. Line = batch \o queue
      BY <2>2 DEF Line, InHand
    <2>4. Line' = batch \o queue
      <3>1. CASE worker' \in {"collecting", "asleep", "generating"}
        BY <2>1, <3>1 DEF Line, InHand
      <3>2. CASE batch = <<>> /\ worker' = "loop"
        <4>1. Line' = queue
          BY <2>1, <3>2 DEF Line, InHand
        <4> QED BY <1>2, <3>2, <4>1, ConcatEmpty
      <3> QED BY <2>2, <3>1, <3>2
    <2> QED BY <1>9, <2>1, <2>3, <2>4
  <1>17. CASE Shutdown \/ UNCHANGED vars
    BY <1>9, <1>17 DEF Shutdown, vars, history, Line, InHand
  <1>18. ASSUME NEW r \in Request, Enqueue(r)
         PROVE  LineInv'
    BY <1>2, <1>8, <1>12, <1>18, BatchAssumption
  <1> QED BY <1>6, <1>7, <1>11, <1>13, <1>14, <1>15, <1>16, <1>17, <1>18 DEF Next, Client, Work

-----------------------------------------------------------------------------
(* The last batch *)

\* The worker takes its last batch after the shutdown, and whoever is queued from
\* then on is not early.
LEMMA NextDrains ==
    ASSUME TypeOK, LastBatchDrains, [Next]_vars
    PROVE  LastBatchDrains'
  <1>1. ASSUME NEW r \in Request, CheckRunning(r)
        PROVE  LastBatchDrains'
    BY <1>1 DEF CheckRunning, LastBatchDrains, history
  <1>2. ASSUME NEW r \in Request, Enqueue(r)
        PROVE  LastBatchDrains'
    <2> SUFFICES ASSUME worker' \in {"last", "ended"} PROVE LastBatchDrains'
      BY DEF LastBatchDrains
    <2>1. UNCHANGED <<running, batch, worker>> /\ ~running
      BY <1>2 DEF Enqueue, LastBatchDrains
    <2>2. CASE Len(queue) >= MaxQueue
      BY <1>2, <2>1, <2>2 DEF Enqueue, LastBatchDrains, history
    <2>3. CASE ~(Len(queue) >= MaxQueue)
      <3>1. queue' = Append(queue, r) /\ accepted' = Append(accepted, r) /\ early' = early
        BY <1>2, <2>1, <2>3 DEF Enqueue
      <3>2. queue \in Seq(Request) /\ accepted \in Seq(Request)
        BY DEF TypeOK
      <3>3. Len(queue') = Len(queue) + 1 /\ Len(accepted') = Len(accepted) + 1
        BY <3>1, <3>2, AppendFacts
      <3>4. Len(accepted') - Len(queue') = Len(accepted) - Len(queue)
        BY <3>2, <3>3
      <3> QED BY <2>1, <3>1, <3>4 DEF LastBatchDrains
    <2> QED BY <2>2, <2>3
  <1>3. CASE DrainOnce
    <2> DEFINE n == IF Len(queue) < MaxBatch THEN Len(queue) ELSE MaxBatch
    <2>1. n \in 0..Len(queue) /\ queue \in Seq(Request)
      BY BatchAssumption DEF TypeOK
    <2>2. /\ batch' = SubSeq(queue, 1, n) /\ queue' = SubSeq(queue, n + 1, Len(queue))
          /\ ~running /\ UNCHANGED <<running, accepted, early>>
      BY <1>3 DEF DrainOnce, history
    <2>3. n < MaxBatch => n = Len(queue)
      BY <2>1, BatchAssumption
    <2> HIDE DEF n
    <2>4. Len(batch') = n /\ Len(queue') = Len(queue) - n
      BY <2>1, <2>2, CutInTwo
    <2>5. early <= Len(accepted) /\ Len(accepted) \in Nat
      BY DEF TypeOK
    <2>6. early' = early /\ Len(accepted') = Len(accepted)
      BY <2>2
    <2>7. Len(batch') < MaxBatch => early' <= Len(accepted') - Len(queue')
      <3> SUFFICES ASSUME Len(batch') < MaxBatch
                   PROVE  early' <= Len(accepted') - Len(queue')
        OBVIOUS
      <3>1. Len(queue') = 0
        BY <2>1, <2>3, <2>4
      <3> QED BY <2>5, <2>6, <3>1
    <2> QED BY <2>2, <2>7 DEF LastBatchDrains
  <1>4. CASE Process
    BY <1>4 DEF Process, LastBatchDrains, history
  <1>5. CASE StartBatch \/ Take \/ Wait \/ WakeUp \/ Deadline \/ StopCollecting \/ Destroy
    BY <1>5 DEF StartBatch, Take, Wait, WakeUp, Deadline, StopCollecting, Destroy, Collected,
                LastBatchDrains
  <1>6. CASE Shutdown \/ UNCHANGED vars
    BY <1>6 DEF Shutdown, vars, history, LastBatchDrains
  <1> QED BY <1>1, <1>2, <1>3, <1>4, <1>5, <1>6 DEF Next, Client, Work

LEMMA EngineInvHolds == Spec => []EngineInv
  <1>1. EngineInv /\ [Next]_vars => EngineInv'
    <2> SUFFICES ASSUME TypeOK, RoomInBatch, LineInv, LastBatchDrains, [Next]_vars
                 PROVE  EngineInv'
      BY DEF EngineInv
    <2> QED BY NextBounds, NextLine, NextDrains DEF EngineInv
  <1> QED BY <1>1, InitEngine, PTL DEF Spec

-----------------------------------------------------------------------------
(* Theorems *)

\* Neither the queue nor a batch ever exceeds its bound: collect_batch takes one
\* request at a time and submit checks the queue under the lock.
THEOREM EngineTypeCorrect == Spec => []TypeOK
  <1>1. EngineInv => TypeOK
    BY DEF EngineInv
  <1> QED BY <1>1, EngineInvHolds, PTL

\* No promise that submit handed out is lost and none is settled twice: exactly
\* those wait whom the worker still has in its batch or the queue, in their order.
THEOREM ExactlyTheLineWaits == Spec => []LineIsWhoWaits
  <1>1. EngineInv => LineIsWhoWaits
    BY DEF EngineInv, LineInv
  <1> QED BY <1>1, EngineInvHolds, PTL

\* Batches are cut from the front of the queue and settled whole, so no request
\* overtakes another, through failures, shutdown and destruction.
THEOREM OutcomesInOrder == Spec => []FirstComeFirstServed
  <1>1. EngineInv => FirstComeFirstServed
    <2> SUFFICES ASSUME EngineInv, NEW i \in DOMAIN accepted, NEW j \in DOMAIN accepted,
                        i < j, state[accepted[j]] \in Settled
                 PROVE  state[accepted[i]] \in Settled
      BY DEF FirstComeFirstServed
    <2> USE DEF EngineInv
    <2>1. accepted \in Seq(Request) /\ Line \in Seq(Request)
      BY LineParts DEF TypeOK
    <2>2. i \in Nat /\ j \in Nat /\ Len(accepted) \in Nat /\ Len(Line) \in Nat
      BY <2>1
    <2>3. ~(j > Len(accepted) - Len(Line))
      BY DEF LineInv, LineIsWhoWaits, Settled
    <2>4. i <= Len(accepted) - Len(Line)
      BY <2>2, <2>3
    <2> QED BY <2>4 DEF LineInv, OthersSettled
  <1> QED BY <1>1, EngineInvHolds, PTL

\* After shutdown collect_batch_no_wait takes one batch: a request that was queued
\* before is still waiting at the end only when that batch was full.
THEOREM ShutdownDrains == Spec => []DrainsABatch
  <1>1. EngineInv => DrainsABatch
    <2> SUFFICES ASSUME EngineInv, worker = "ended", NEW i \in 1..early,
                        state[accepted[i]] = "waiting"
                 PROVE  Len(batch) = MaxBatch
      BY DEF DrainsABatch
    <2> USE DEF EngineInv
    <2>1. Line = queue
      BY DEF Line, InHand
    <2>2. /\ Len(accepted) \in Nat /\ Len(queue) \in Nat /\ early \in 0..Len(accepted)
          /\ Len(batch) \in Nat /\ Len(batch) <= MaxBatch /\ MaxBatch \in Nat
          /\ DOMAIN accepted = 1..Len(accepted)
      BY BatchAssumption DEF TypeOK
    <2>3. i \in DOMAIN accepted
      BY <2>2
    <2>4. i > Len(accepted) - Len(queue)
      BY <2>1, <2>3 DEF LineInv, LineIsWhoWaits
    <2>5. ~(early <= Len(accepted) - Len(queue))
      BY <2>2, <2>4
    <2>6. ~(Len(batch) < MaxBatch)
      BY <2>5 DEF LastBatchDrains
    <2> QED BY <2>2, <2>6
  <1> QED BY <1>1, EngineInvHolds, PTL
=============================================================================
