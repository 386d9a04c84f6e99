-------------------------- MODULE MetricsPush_proofs --------------------------
(***************************************************************************)
(* Proofs about a pass that reports to the metrics server, for any keys,   *)
(* attempts, queue limit and number of events.                             *)
(***************************************************************************)
EXTENDS MetricsPush, SequenceTheorems, WellFoundedInduction, TLAPS

(* The invariants *)

Event == [kind : {"sample", "epoch", "end"}, n : Nat]

\* Which call belongs to which place, and what is there before and after a session.
Types ==
    /\ pc \in {"starting", "unreported", "training", "ending", "joining", "done"}
    /\ key \in 1..Keys /\ tries \in 0..Attempts
    /\ call \in {"none", "hello", "event", "register", "again", "heartbeat"}
    /\ made \in 0..(MaxEpochs + 1)
    /\ server \in [1..Keys -> {"none", "ours", "ours ended", "theirs", "theirs ended"}]
    /\ queue \in Seq(Event) /\ event \in Event /\ sent \in Seq(Nat) /\ hits \in 0..2
    /\ stopping \in BOOLEAN /\ late \in BOOLEAN /\ draining \in BOOLEAN
    /\ cut \in BOOLEAN /\ evicted \in BOOLEAN /\ landed \in BOOLEAN

PlaceInv ==
    /\ call = "hello" <=> pc = "starting"
    /\ pc \in {"starting", "unreported"} =>
          queue = <<>> /\ made = 0 /\ sent = <<>> /\ event = Sample /\ ~ended
    /\ pc \in {"unreported", "done"} => call = "none" /\ queue = <<>>
    /\ stopping <=> pc \in {"joining", "done"}
    /\ late => stopping
    /\ made = MaxEpochs + 1 => pc \notin {"starting", "unreported", "training"}

\* A queue above its limit has no per-sample events.
LimitInv == Len(queue) > Depth => \A i \in 1..Len(queue) : ~IsSample(queue[i])

\* /end is the last event, in the queue and to be sent.
EndInv ==
    /\ \A i \in 1..Len(queue) : queue[i].kind = "end" =>
          i = Len(queue) /\ queue[i] = End(made) /\ pc \in {"ending", "joining"}
    /\ event.kind = "end" =>
          /\ queue = <<>> /\ pc \in {"ending", "joining", "done"}
          /\ call \in {"event", "none", "heartbeat"}
    /\ ended => event.kind = "end"

\* The session stays ours until the server forgets it or it is ended.
SessionInv == Reporting /\ ~evicted => server[key] = "ours" \/ event.kind = "end"

\* What the faults so far leave of the attempts at an epoch event.
FaultInv ==
    ~draining /\ event.kind = "epoch" =>
        /\ call = "event" /\ hits = 0 => tries = Attempts /\ server[key] = "ours"
        /\ call \in {"register", "again"} => hits # 0
        /\ call = "again" /\ server[key] = "none" => hits = 2

\* The events taken and those in the queue, and what the deadline leaves of them.
All(m) == [i \in 1..m |-> i]
OrderInv ==
    /\ ~cut => sent \o Numbers(queue) = All(made)
    /\ cut => /\ queue = <<>> /\ stopping
              /\ \E i \in 0..made : sent = All(i) \/ sent = Append(All(i), made)

PushInv ==
    /\ Types /\ PlaceInv /\ LimitInv /\ EndInv /\ SessionInv /\ OrderInv
    /\ LeavesNoSession /\ OwnSessionOnly

-----------------------------------------------------------------------------
(* Picking the events of some kinds *)

\* keep[n] of OfKind: the events of some kinds among the first n.
Keeps(k, q, kinds) ==
    k = [n \in 0..Len(q) |->
            IF n = 0 THEN <<>>
            ELSE IF q[n].kind \in kinds THEN Append(k[n - 1], q[n]) ELSE k[n - 1]]

\* Induction over the prefixes of a sequence: T has what is true of a length.
LEMMA LengthInduction ==
    ASSUME NEW N \in Nat, NEW T, 0 \in T, \A n \in 1..N : n - 1 \in T => n \in T
    PROVE  \A n \in 0..N : n \in T
  <1> SUFFICES ASSUME NEW m \in 0..N, m \notin T PROVE FALSE
    OBVIOUS
  <1> DEFINE U == (0..N) \ T
  <1>1. PICK x \in U : \A y \in U : ~(<<y, x>> \in OpToRel(<, Nat))
    <2>1. U \subseteq Nat /\ U # {}
      OBVIOUS
    <2> HIDE DEF U
    <2> QED BY <2>1, NatLessThanWellFounded, WFMin, Zenon
  <1>2. x # 0 /\ x - 1 \in 0..N /\ x \in 1..N
    OBVIOUS
  <1>3. x - 1 \in U
    BY <1>2
  <1>4. <<x - 1, x>> \in OpToRel(<, Nat)
    BY <1>2 DEF OpToRel
  <1> QED BY <1>1, <1>3, <1>4, Zenon

LEMMA KeepsExists ==
    ASSUME NEW q, Len(q) \in Nat, NEW kinds
    PROVE  \E k : Keeps(k, q, kinds)
  <1> DEFINE Step(k, n) == IF n = 0 THEN <<>>
                           ELSE IF q[n].kind \in kinds THEN Append(k[n - 1], q[n]) ELSE k[n - 1]
             Upto(k, m) == k = [n \in 0..m |-> Step(k, n)]
             T == {m \in 0..Len(q) : \E k : Upto(k, m)}
  <1>1. 0 \in T
    <2> DEFINE k0 == [n \in 0..0 |-> <<>>]
    <2>1. \A n \in 0..0 : Step(k0, n) = <<>>
      OBVIOUS
    <2>2. Upto(k0, 0)
      BY <2>1
    <2> HIDE DEF k0, Upto
    <2> QED BY <2>2
  <1>2. ASSUME NEW m \in 1..Len(q), m - 1 \in T
        PROVE  m \in T
    <2>1. PICK k : Upto(k, m - 1)
      BY <1>2
    <2> DEFINE k2 == [n \in 0..m |-> IF n = m THEN Step(k, m) ELSE k[n]]
    <2>2. ASSUME NEW n \in 0..m
          PROVE  k2[n] = Step(k2, n)
      <3>1. CASE n = 0
        <4>1. k2[0] = k[0]
          OBVIOUS
        <4>2. k[0] = <<>>
          BY <2>1
        <4> QED BY <3>1, <4>1, <4>2
      <3>2. CASE n # 0 /\ n < m
        <4>1. /\ k2[n] = k[n] /\ k2[n - 1] = k[n - 1] /\ n \in 0..(m - 1)
          BY <3>2
        <4>2. k[n] = Step(k, n)
          BY <2>1, <4>1
        <4> HIDE DEF k2
        <4> QED BY <4>1, <4>2, <3>2
      <3>3. CASE n = m
        <4>1. k2[m] = Step(k, m) /\ k2[m - 1] = k[m - 1]
          OBVIOUS
        <4> HIDE DEF k2
        <4> QED BY <3>3, <4>1
      <3> QED BY <3>1, <3>2, <3>3
    <2>3. Upto(k2, m)
      <3>1. k2 = [n \in 0..m |-> k2[n]]
        OBVIOUS
      <3> HIDE DEF k2, Step
      <3> QED BY <2>2, <3>1
    <2> HIDE DEF Upto, k2
    <2> QED BY <2>3
  <1>3. Len(q) \in T
    <2> HIDE DEF T
    <2>1. \A n \in 0..Len(q) : n \in T
      BY <1>1, <1>2, LengthInduction
    <2> QED BY <2>1
  <1> QED BY <1>3 DEF Keeps
  
LEMMA OfKindIs ==
    ASSUME NEW q, Len(q) \in Nat, NEW kinds
    PROVE  \E k : Keeps(k, q, kinds) /\ OfKind(q, kinds) = k[Len(q)]
  <1> DEFINE k == CHOOSE f : Keeps(f, q, kinds)
  <1>1. OfKind(q, kinds) = k[Len(q)]
    BY DEF OfKind, Keeps
  <1>2. Keeps(k, q, kinds)
    <2> HIDE DEF Keeps
    <2> QED BY KeepsExists
  <1> HIDE DEF k
  <1> QED BY <1>1, <1>2

\* One more event.
LEMMA KeepsNext ==
    ASSUME NEW q, Len(q) \in Nat, NEW kinds, NEW k, Keeps(k, q, kinds)
    PROVE  /\ k[0] = <<>>
           /\ \A n \in 1..Len(q) :
                k[n] = IF q[n].kind \in kinds THEN Append(k[n - 1], q[n]) ELSE k[n - 1]
  <1>1. k[0] = <<>>
    BY DEF Keeps
  <1>2. ASSUME NEW n \in 1..Len(q)
        PROVE  k[n] = IF q[n].kind \in kinds THEN Append(k[n - 1], q[n]) ELSE k[n - 1]
    <2>1. n \in 0..Len(q) /\ n # 0
      OBVIOUS
    <2> QED BY <2>1 DEF Keeps
  <1> QED BY <1>1, <1>2

LEMMA KeepsSeq ==
    ASSUME NEW S, NEW q \in Seq(S), NEW kinds, NEW k, Keeps(k, q, kinds)
    PROVE  \A n \in 0..Len(q) : k[n] \in Seq({e \in S : e.kind \in kinds})
  <1> DEFINE P == {e \in S : e.kind \in kinds}
             T == {n \in 0..Len(q) : k[n] \in Seq(P)}
  <1>1. Len(q) \in Nat /\ \A n \in 1..Len(q) : q[n] \in S
    OBVIOUS
  <1>2. 0 \in T
    <2>1. k[0] = <<>> /\ 0 \in 0..Len(q)
      BY <1>1, KeepsNext
    <2> HIDE DEF P
    <2>2. <<>> \in Seq(P)
      OBVIOUS
    <2> QED BY <2>1, <2>2
  <1>3. ASSUME NEW n \in 1..Len(q), n - 1 \in T
        PROVE  n \in T
    <2>1. k[n - 1] \in Seq(P) /\ n \in 0..Len(q)
      BY <1>3
    <2>2. q[n].kind \in kinds => q[n] \in P
      BY <1>1
    <2>3. k[n] = IF q[n].kind \in kinds THEN Append(k[n - 1], q[n]) ELSE k[n - 1]
      BY <1>1, KeepsNext
    <2> HIDE DEF P
    <2>4. k[n] \in Seq(P)
      BY <2>1, <2>2, <2>3
    <2> QED BY <2>1, <2>4
  <1> HIDE DEF T
  <1>4. \A n \in 0..Len(q) : n \in T
    BY <1>1, <1>2, <1>3, LengthInduction
  <1> QED BY <1>4 DEF T

LEMMA OfKindSeq ==
    ASSUME NEW S, NEW q \in Seq(S), NEW kinds
    PROVE  OfKind(q, kinds) \in Seq({e \in S : e.kind \in kinds})
  <1>1. Len(q) \in Nat /\ Len(q) \in 0..Len(q)
    OBVIOUS
  <1> QED BY <1>1, OfKindIs, KeepsSeq

LEMMA AppendConcat ==
    ASSUME NEW S, NEW x \in Seq(S), NEW y \in Seq(S), NEW e \in S
    PROVE  x \o Append(y, e) = Append(x \o y, e)
  <1> DEFINE l == x \o Append(y, e)
             r == Append(x \o y, e)
  <1>1. /\ x \o y \in Seq(S) /\ Append(y, e) \in Seq(S)
        /\ Len(x \o y) = Len(x) + Len(y) /\ Len(Append(y, e)) = Len(y) + 1
        /\ Len(x) \in Nat /\ Len(y) \in Nat
    OBVIOUS
  <1>2. l \in Seq(S) /\ r \in Seq(S) /\ Len(l) = Len(x) + Len(y) + 1 /\ Len(r) = Len(l)
    BY <1>1
  <1>3. ASSUME NEW i \in 1..Len(l)
        PROVE  l[i] = r[i]
    <2>1. CASE i \in 1..Len(x)
      BY <1>1, <1>2, <2>1
    <2>2. CASE i - Len(x) \in 1..Len(y)
      BY <1>1, <1>2, <2>2
    <2>3. CASE i = Len(x) + Len(y) + 1
      BY <1>1, <1>2, <2>3
    <2> QED BY <1>1, <1>2, <2>1, <2>2, <2>3
  <1> HIDE DEF l, r
  <1> QED BY <1>2, <1>3, SeqEqual DEF l, r

LEMMA ConcatSeq ==
    ASSUME NEW S, NEW a \in Seq(S), NEW b \in Seq(S)
    PROVE  /\ a \o b \in Seq(S) /\ Len(a \o b) = Len(a) + Len(b)
           /\ Len(a) \in Nat /\ Len(b) \in Nat
           /\ \A i \in 1..Len(a) : (a \o b)[i] = a[i]
           /\ \A i \in 1..Len(b) : (a \o b)[Len(a) + i] = b[i]
  OBVIOUS

\* Of two sequences, one after the other.
LEMMA OfKindConcat ==
    ASSUME NEW S, NEW a \in Seq(S), NEW b \in Seq(S), NEW kinds
    PROVE  OfKind(a \o b, kinds) = OfKind(a, kinds) \o OfKind(b, kinds)
  <1> DEFINE c == a \o b
             P == {e \in S : e.kind \in kinds}
  <1>1. /\ Len(c) \in Nat /\ Len(c) = Len(a) + Len(b) /\ Len(a) \in Nat /\ Len(b) \in Nat
        /\ \A i \in 1..Len(a) : c[i] = a[i]
        /\ \A i \in 1..Len(b) : c[Len(a) + i] = b[i] /\ b[i] \in S
    BY ConcatSeq
  <1> HIDE DEF c
  <1>2. PICK ka : Keeps(ka, a, kinds) /\ OfKind(a, kinds) = ka[Len(a)]
    BY <1>1, OfKindIs
  <1>3. PICK kb : Keeps(kb, b, kinds) /\ OfKind(b, kinds) = kb[Len(b)]
    BY <1>1, OfKindIs
  <1>4. PICK kc : Keeps(kc, c, kinds) /\ OfKind(c, kinds) = kc[Len(c)]
    BY <1>1, OfKindIs
  <1>5. \A n \in 0..Len(a) : kc[n] = ka[n]
    <2> DEFINE T == {n \in 0..Len(a) : kc[n] = ka[n]}
    <2>1. 0 \in T
      BY <1>1, <1>2, <1>4, KeepsNext
    <2>2. ASSUME NEW n \in 1..Len(a), n - 1 \in T
          PROVE  n \in T
      <3>1. n \in 1..Len(c) /\ n \in 0..Len(a) /\ c[n] = a[n] /\ kc[n - 1] = ka[n - 1]
        BY <1>1, <2>2
      <3>2. kc[n] = IF c[n].kind \in kinds THEN Append(kc[n - 1], c[n]) ELSE kc[n - 1]
        BY <1>1, <1>4, <3>1, KeepsNext
      <3>3. ka[n] = IF a[n].kind \in kinds THEN Append(ka[n - 1], a[n]) ELSE ka[n - 1]
        BY <1>1, <1>2, KeepsNext
      <3> QED BY <3>1, <3>2, <3>3
    <2> HIDE DEF T
    <2>3. \A n \in 0..Len(a) : n \in T
      BY <1>1, <2>1, <2>2, LengthInduction
    <2> QED BY <2>3 DEF T
  <1>6. OfKind(a, kinds) \in Seq(P) /\ \A n \in 0..Len(b) : kb[n] \in Seq(P)
    BY <1>3, OfKindSeq, KeepsSeq
  <1>7. \A n \in 0..Len(b) : kc[Len(a) + n] = OfKind(a, kinds) \o kb[n]
    <2> DEFINE T == {n \in 0..Len(b) : kc[Len(a) + n] = OfKind(a, kinds) \o kb[n]}
    <2>1. 0 \in T
      <3>1. kc[Len(a) + 0] = OfKind(a, kinds) /\ kb[0] = <<>> /\ 0 \in 0..Len(b)
        <4>1. Len(a) + 0 = Len(a) /\ Len(a) \in 0..Len(a)
          BY <1>1
        <4> QED BY <1>1, <1>2, <1>3, <1>5, <4>1, KeepsNext
      <3>2. OfKind(a, kinds) \o <<>> = OfKind(a, kinds)
        BY <1>6
      <3> QED BY <1>1, <3>1, <3>2
    <2>2. ASSUME NEW n \in 1..Len(b), n - 1 \in T
          PROVE  n \in T
      <3>1. /\ Len(a) + n \in 1..Len(c) /\ n \in 0..Len(b) /\ c[Len(a) + n] = b[n]
            /\ (Len(a) + n) - 1 = Len(a) + (n - 1)
            /\ kc[Len(a) + (n - 1)] = OfKind(a, kinds) \o kb[n - 1]
            /\ kb[n - 1] \in Seq(P)
        <4> HIDE DEF P
        <4> QED BY <1>1, <1>6, <2>2
      <3>2. kc[Len(a) + n] = IF c[Len(a) + n].kind \in kinds
                             THEN Append(kc[(Len(a) + n) - 1], c[Len(a) + n])
                             ELSE kc[(Len(a) + n) - 1]
        BY <1>1, <1>4, <3>1, KeepsNext
      <3>3. kb[n] = IF b[n].kind \in kinds THEN Append(kb[n - 1], b[n]) ELSE kb[n - 1]
        BY <1>1, <1>3, KeepsNext
      <3>4. b[n].kind \in kinds => b[n] \in P
        BY <1>1
      <3> HIDE DEF P
      <3>5. b[n].kind \in kinds =>
              Append(OfKind(a, kinds) \o kb[n - 1], b[n]) = OfKind(a, kinds) \o Append(kb[n - 1], b[n])
        <4> SUFFICES ASSUME b[n].kind \in kinds
                     PROVE  Append(OfKind(a, kinds) \o kb[n - 1], b[n])
                              = OfKind(a, kinds) \o Append(kb[n - 1], b[n])
          OBVIOUS
        <4> DEFINE x == OfKind(a, kinds)
                   y == kb[n - 1]
                   e == b[n]
        <4>1. x \in Seq(P) /\ y \in Seq(P) /\ e \in P
          BY <1>6, <3>1, <3>4
        <4> HIDE DEF x, y, e
        <4>2. x \o Append(y, e) = Append(x \o y, e)
          BY <4>1, AppendConcat
        <4> QED BY <4>2, Zenon DEF x, y, e
      <3> QED BY <3>1, <3>2, <3>3, <3>5
    <2> HIDE DEF T
    <2>3. \A n \in 0..Len(b) : n \in T
      BY <1>1, <2>1, <2>2, LengthInduction
    <2> QED BY <2>3 DEF T
  <1>8. kc[Len(a) + Len(b)] = OfKind(a, kinds) \o kb[Len(b)]
    BY <1>1, <1>7
  <1> QED BY <1>1, <1>3, <1>4, <1>8 DEF c

\* Where every event is of one of the kinds, or none is.
LEMMA OfKindAll ==
    ASSUME NEW S, NEW q \in Seq(S), NEW kinds, \A i \in 1..Len(q) : q[i].kind \in kinds
    PROVE  OfKind(q, kinds) = q
  <1>0. Len(q) \in Nat
    OBVIOUS
  <1>1. PICK k : Keeps(k, q, kinds) /\ OfKind(q, kinds) = k[Len(q)]
    BY <1>0, OfKindIs
  <1> DEFINE T == {n \in 0..Len(q) : k[n] = SubSeq(q, 1, n)}
  <1>2. 0 \in T
    <2>1. k[0] = <<>> /\ 0 \in 0..Len(q)
      BY <1>0, <1>1, KeepsNext
    <2>2. SubSeq(q, 1, 0) = <<>>
      OBVIOUS
    <2> QED BY <2>1, <2>2
  <1>3. ASSUME NEW n \in 1..Len(q), n - 1 \in T
        PROVE  n \in T
    <2>1. k[n] = Append(k[n - 1], q[n])
      <3>1. k[n] = IF q[n].kind \in kinds THEN Append(k[n - 1], q[n]) ELSE k[n - 1]
        BY <1>0, <1>1, KeepsNext
      <3>2. q[n].kind \in kinds
        OBVIOUS
      <3> QED BY <3>1, <3>2, Zenon
    <2>3. k[n - 1] = SubSeq(q, 1, n - 1) /\ n \in 0..Len(q)
      BY <1>3
    <2>2. Append(SubSeq(q, 1, n - 1), q[n]) = SubSeq(q, 1, n)
      <3> DEFINE x == SubSeq(q, 1, n - 1)
                 e == q[n]
      <3>1. x \in Seq(S) /\ e \in S /\ 1 \in 1..Len(q) /\ n \in 1..Len(q)
        BY <1>0, SubSeqProperties
      <3>2. SubSeq(q, 1, n) = x \o <<e>>
        BY <3>1, SubSeqRecursiveSecond, Zenon
      <3> HIDE DEF x, e
      <3>3. Append(x, e) = x \o <<e>>
        BY <3>1, AppendIsConcat, Zenon
      <3> QED BY <3>2, <3>3 DEF x, e
    <2> QED BY <2>1, <2>2, <2>3
  <1> HIDE DEF T
  <1>4. \A n \in 0..Len(q) : n \in T
    BY <1>0, <1>2, <1>3, LengthInduction
  <1>5. SubSeq(q, 1, Len(q)) = q
    OBVIOUS
  <1> QED BY <1>1, <1>4, <1>5 DEF T

LEMMA OfKindNone ==
    ASSUME NEW S, NEW q \in Seq(S), NEW kinds, \A i \in 1..Len(q) : q[i].kind \notin kinds
    PROVE  OfKind(q, kinds) = <<>>
  <1>0. Len(q) \in Nat
    OBVIOUS
  <1>1. PICK k : Keeps(k, q, kinds) /\ OfKind(q, kinds) = k[Len(q)]
    BY <1>0, OfKindIs
  <1> DEFINE T == {n \in 0..Len(q) : k[n] = <<>>}
  <1>2. 0 \in T
    BY <1>0, <1>1, KeepsNext
  <1>3. ASSUME NEW n \in 1..Len(q), n - 1 \in T
        PROVE  n \in T
    BY <1>0, <1>1, <1>3, KeepsNext
  <1> HIDE DEF T
  <1>4. \A n \in 0..Len(q) : n \in T
    BY <1>0, <1>2, <1>3, LengthInduction
  <1> QED BY <1>1, <1>4 DEF T
-----------------------------------------------------------------------------
(* Queues of events *)

\* /end is the last event of q.
EndLast(q, m) == \A i \in 1..Len(q) : q[i].kind = "end" => i = Len(q) /\ q[i] = End(m)

\* Taking an event of a queue out, at place i.
LEMMA RemoveAtIs ==
    ASSUME NEW S, NEW q \in Seq(S), NEW i \in 1..Len(q)
    PROVE  /\ RemoveAt(q, i) \in Seq(S) /\ Len(RemoveAt(q, i)) = Len(q) - 1
           /\ \A j \in 1..(Len(q) - 1) :
                RemoveAt(q, i)[j] = IF j < i THEN q[j] ELSE q[j + 1]
  <1> DEFINE a == SubSeq(q, 1, i - 1)
             b == SubSeq(q, i + 1, Len(q))
  <1>1. /\ a \in Seq(S) /\ Len(a) = i - 1 /\ \A j \in 1..(i - 1) : a[j] = q[j]
        /\ b \in Seq(S) /\ Len(b) = Len(q) - i /\ \A j \in 1..(Len(q) - i) : b[j] = q[i + j]
        /\ Len(q) \in Nat
    OBVIOUS
  <1>2. RemoveAt(q, i) = a \o b
    BY DEF RemoveAt
  <1> HIDE DEF a, b
  <1>5. a \in Seq(S) /\ b \in Seq(S)
    BY <1>1
  <1>3. /\ a \o b \in Seq(S) /\ Len(a \o b) = Len(q) - 1
        /\ \A j \in 1..(i - 1) : (a \o b)[j] = q[j]
        /\ \A j \in 1..(Len(q) - i) : (a \o b)[(i - 1) + j] = q[i + j]
    <2>1. /\ a \o b \in Seq(S) /\ Len(a \o b) = Len(a) + Len(b)
          /\ \A j \in 1..Len(a) : (a \o b)[j] = a[j]
          /\ \A j \in 1..Len(b) : (a \o b)[Len(a) + j] = b[j]
      BY <1>5
    <2> QED BY <1>1, <2>1
  <1>4. ASSUME NEW j \in 1..(Len(q) - 1)
        PROVE  (a \o b)[j] = IF j < i THEN q[j] ELSE q[j + 1]
    <2>1. CASE j < i
      BY <1>1, <1>3, <2>1
    <2>2. CASE ~(j < i)
      <3>1. j - (i - 1) \in 1..(Len(q) - i) /\ (i - 1) + (j - (i - 1)) = j /\ i + (j - (i - 1)) = j + 1
        BY <1>1, <2>2
      <3> QED BY <1>3, <2>2, <3>1
    <2> QED BY <2>1, <2>2
  <1> QED BY <1>2, <1>3, <1>4

\* A queue is what comes before an event, the event, and what comes after it.
LEMMA Around ==
    ASSUME NEW S, NEW q \in Seq(S), NEW i \in 1..Len(q)
    PROVE  q = SubSeq(q, 1, i - 1) \o (<<q[i]>> \o SubSeq(q, i + 1, Len(q)))
  <1> DEFINE a == SubSeq(q, 1, i - 1)
             b == SubSeq(q, i + 1, Len(q))
             c == <<q[i]>>
             r == a \o (c \o b)
  <1>1. /\ a \in Seq(S) /\ Len(a) = i - 1 /\ \A j \in 1..(i - 1) : a[j] = q[j]
        /\ b \in Seq(S) /\ Len(b) = Len(q) - i /\ \A j \in 1..(Len(q) - i) : b[j] = q[i + j]
        /\ c \in Seq(S) /\ Len(c) = 1 /\ c[1] = q[i]
        /\ Len(q) \in Nat
    OBVIOUS
  <1> HIDE DEF a, b, c
  <1>6. a \in Seq(S) /\ b \in Seq(S) /\ c \in Seq(S)
    BY <1>1
  <1>2. /\ c \o b \in Seq(S) /\ Len(c \o b) = (Len(q) - i) + 1 /\ (c \o b)[1] = q[i]
        /\ \A j \in 1..(Len(q) - i) : (c \o b)[1 + j] = q[i + j]
    <2>1. /\ c \o b \in Seq(S) /\ Len(c \o b) = Len(c) + Len(b)
          /\ \A j \in 1..Len(c) : (c \o b)[j] = c[j]
          /\ \A j \in 1..Len(b) : (c \o b)[Len(c) + j] = b[j]
      BY <1>6
    <2> QED BY <1>1, <2>1
  <1>3. /\ r \in Seq(S) /\ Len(r) = Len(q)
        /\ \A j \in 1..(i - 1) : r[j] = q[j]
        /\ \A j \in 1..((Len(q) - i) + 1) : r[(i - 1) + j] = (c \o b)[j]
    <2> DEFINE rest == c \o b
    <2>1. Len(rest) = (Len(q) - i) + 1
      BY <1>2
    <2>4. a \in Seq(S) /\ rest \in Seq(S)
      BY <1>2, <1>6
    <2> HIDE DEF rest
    <2>2. /\ a \o rest \in Seq(S) /\ Len(a \o rest) = Len(a) + Len(rest)
          /\ \A j \in 1..Len(a) : (a \o rest)[j] = a[j]
          /\ \A j \in 1..Len(rest) : (a \o rest)[Len(a) + j] = rest[j]
      BY <2>4
    <2>3. /\ a \o rest \in Seq(S) /\ Len(a \o rest) = Len(q)
          /\ \A j \in 1..(i - 1) : (a \o rest)[j] = q[j]
          /\ \A j \in 1..((Len(q) - i) + 1) : (a \o rest)[(i - 1) + j] = rest[j]
      BY <1>1, <2>1, <2>2
    <2> QED BY <2>3 DEF rest
  <1> HIDE DEF r
  <1>4. ASSUME NEW j \in 1..Len(q)
        PROVE  r[j] = q[j]
    <2>1. CASE j < i
      BY <1>1, <1>3, <2>1
    <2>2. CASE j = i
      <3>1. (i - 1) + 1 = i /\ 1 \in 1..((Len(q) - i) + 1)
        BY <1>1
      <3> QED BY <1>2, <1>3, <2>2, <3>1
    <2>3. CASE j > i
      <3>1. /\ j - i \in 1..(Len(q) - i) /\ 1 + (j - i) \in 1..((Len(q) - i) + 1)
            /\ (i - 1) + (1 + (j - i)) = j /\ i + (j - i) = j
        BY <1>1, <2>3
      <3>2. r[j] = (c \o b)[1 + (j - i)]
        BY <1>3, <3>1
      <3> QED BY <1>2, <3>1, <3>2
    <2> QED BY <1>1, <2>1, <2>2, <2>3
  <1>5. r = q
    BY <1>3, <1>4, SeqEqual
  <1> QED BY <1>5 DEF a, b, c, r

\* A queue of one event.
LEMMA OfKindOne ==
    ASSUME NEW S, NEW e \in S, NEW kinds
    PROVE  OfKind(<<e>>, kinds) = IF e.kind \in kinds THEN <<e>> ELSE <<>>
  <1>1. <<e>> \in Seq(S) /\ \A i \in 1..Len(<<e>>) : <<e>>[i] = e
    OBVIOUS
  <1> DEFINE q == <<e>>
  <1> HIDE DEF q
  <1>2. q \in Seq(S) /\ \A i \in 1..Len(q) : q[i] = e
    BY <1>1 DEF q
  <1>3. CASE e.kind \in kinds
    <2>1. OfKind(q, kinds) = q
      BY <1>2, <1>3, OfKindAll
    <2> QED BY <1>3, <2>1 DEF q
  <1>4. CASE e.kind \notin kinds
    <2>1. OfKind(q, kinds) = <<>>
      BY <1>2, <1>4, OfKindNone
    <2> QED BY <1>4, <2>1 DEF q
  <1> QED BY <1>3, <1>4

\* A part without events of the kinds.
LEMMA SkipPart ==
    ASSUME NEW S, NEW a \in Seq(S), NEW c \in Seq(S), NEW b \in Seq(S), NEW kinds,
           OfKind(c, kinds) = <<>>
    PROVE  OfKind(a \o (c \o b), kinds) = OfKind(a \o b, kinds)
  <1>1. c \o b \in Seq(S)
    OBVIOUS
  <1>2. OfKind(c \o b, kinds) = OfKind(b, kinds)
    <2>1. OfKind(c \o b, kinds) = OfKind(c, kinds) \o OfKind(b, kinds)
      BY ONLY OfKindConcat, c \in Seq(S), b \in Seq(S)
    <2>2. OfKind(b, kinds) \in Seq({e \in S : e.kind \in kinds})
      BY OfKindSeq
    <2> QED BY <2>1, <2>2
  <1>3. \A y \in Seq(S) : OfKind(a \o y, kinds) = OfKind(a, kinds) \o OfKind(y, kinds)
    BY OfKindConcat
  <1> QED BY <1>1, <1>2, <1>3

\* An event that is not of the kinds is not missed among them.
LEMMA RemoveAtOfKind ==
    ASSUME NEW S, NEW q \in Seq(S), NEW i \in 1..Len(q), NEW kinds, q[i].kind \notin kinds
    PROVE  OfKind(RemoveAt(q, i), kinds) = OfKind(q, kinds)
  <1> DEFINE a == SubSeq(q, 1, i - 1)
             b == SubSeq(q, i + 1, Len(q))
             c == <<q[i]>>
  <1>1. a \in Seq(S) /\ b \in Seq(S) /\ q[i] \in S /\ c \in Seq(S)
    OBVIOUS
  <1>2. OfKind(c, kinds) = <<>>
    BY <1>1, OfKindOne
  <1>3. q = a \o (c \o b) /\ RemoveAt(q, i) = a \o b
    BY Around DEF RemoveAt
  <1> HIDE DEF a, b, c
  <1>4. OfKind(a \o (c \o b), kinds) = OfKind(a \o b, kinds)
    BY ONLY <1>1, <1>2, SkipPart
  <1> QED BY ONLY <1>3, <1>4

\* The oldest per-sample event.
LEMMA FirstSample ==
    ASSUME NEW q \in Seq(Event), \E i \in 1..Len(q) : IsSample(q[i])
    PROVE  \E i \in DOMAIN q : IsSample(q[i]) /\ \A j \in 1..(i - 1) : ~IsSample(q[j])
  <1> DEFINE First(i) == IsSample(q[i]) /\ \A j \in 1..(i - 1) : ~IsSample(q[j])
             T == {n \in 0..Len(q) : (\A j \in 1..n : ~IsSample(q[j])) \/ \E i \in 1..n : First(i)}
  <1>1. Len(q) \in Nat /\ DOMAIN q = 1..Len(q)
    OBVIOUS
  <1>2. 0 \in T
    BY <1>1
  <1>3. ASSUME NEW n \in 1..Len(q), n - 1 \in T
        PROVE  n \in T
    <2>1. n \in 0..Len(q)
      BY <1>1
    <2>2. CASE \E i \in 1..(n - 1) : First(i)
      BY <1>1, <2>1, <2>2
    <2>3. CASE \A j \in 1..(n - 1) : ~IsSample(q[j])
      <3>1. CASE IsSample(q[n])
        <4>1. First(n) /\ n \in 1..n
          BY <1>1, <2>3, <3>1
        <4> QED BY <2>1, <4>1
      <3>2. CASE ~IsSample(q[n])
        <4>1. \A j \in 1..n : ~IsSample(q[j])
          BY <1>1, <2>3, <3>2
        <4> QED BY <2>1, <4>1
      <3> QED BY <3>1, <3>2
    <2> QED BY <1>3, <2>2, <2>3
  <1> HIDE DEF T
  <1>4. \A n \in 0..Len(q) : n \in T
    BY <1>1, <1>2, <1>3, LengthInduction
  <1>5. Len(q) \in T
    BY <1>1, <1>4
  <1> QED BY <1>1, <1>5 DEF T

\* Making room: only per-sample events go, and none is left where it is not enough.
LEMMA EvictIs ==
    ASSUME NEW q \in Seq(Event),
           Len(q) > Depth => \A i \in 1..Len(q) : ~IsSample(q[i])
    PROVE  /\ Evict(q) \in Seq(Event)
           /\ Weighty(Evict(q)) = Weighty(q)
           /\ \A j \in 1..Len(Evict(q)) : \E i \in 1..Len(q) : Evict(q)[j] = q[i]
           /\ Len(Evict(q)) >= Depth => \A j \in 1..Len(Evict(q)) : ~IsSample(Evict(q)[j])
  <1>1. Len(q) \in Nat /\ DOMAIN q = 1..Len(q)
    OBVIOUS
  <1>2. CASE Len(q) < Depth \/ \A i \in DOMAIN q : ~IsSample(q[i])
    <2>1. Evict(q) = q
      BY <1>2 DEF Evict
    <2> QED BY <1>1, <1>2, <2>1, MetricsPushAssumption
  <1>3. CASE ~(Len(q) < Depth \/ \A i \in DOMAIN q : ~IsSample(q[i]))
    <2>1. PICK k \in DOMAIN q : IsSample(q[k]) /\ Evict(q) = RemoveAt(q, k)
      <3>1. \E i \in DOMAIN q : IsSample(q[i]) /\ \A j \in 1..(i - 1) : ~IsSample(q[j])
        BY <1>1, <1>3, FirstSample
      <3> QED BY <1>3, <3>1 DEF Evict
    <2>2. /\ RemoveAt(q, k) \in Seq(Event) /\ Len(RemoveAt(q, k)) = Len(q) - 1
          /\ \A j \in 1..(Len(q) - 1) : RemoveAt(q, k)[j] = IF j < k THEN q[j] ELSE q[j + 1]
      BY <1>1, RemoveAtIs
    <2>3. Weighty(RemoveAt(q, k)) = Weighty(q)
      <3>1. q[k].kind \notin {"epoch", "end"}
        BY <2>1 DEF IsSample
      <3> QED BY <1>1, <3>1, RemoveAtOfKind DEF Weighty
    <2>4. ASSUME NEW j \in 1..(Len(q) - 1)
          PROVE  \E i \in 1..Len(q) : RemoveAt(q, k)[j] = q[i]
      <3>1. j \in 1..Len(q) /\ j + 1 \in 1..Len(q)
        BY <1>1
      <3> QED BY <2>2, <3>1
    <2>5. Len(q) = Depth
      <3>1. ~(Len(q) < Depth) /\ ~(Len(q) > Depth)
        BY <1>1, <1>3
      <3>2. Len(q) \in Nat /\ Depth \in Nat
        BY <1>1, MetricsPushAssumption
      <3> QED BY ONLY <3>1, <3>2
    <2> QED BY <1>1, <2>1, <2>2, <2>3, <2>4, <2>5
  <1> QED BY <1>2, <1>3

LEMMA FrontIs ==
    ASSUME NEW S, NEW q \in Seq(S), NEW i \in 1..Len(q)
    PROVE  /\ SubSeq(q, 1, i - 1) \in Seq(S) /\ Len(SubSeq(q, 1, i - 1)) = i - 1
           /\ \A j \in 1..(i - 1) : SubSeq(q, 1, i - 1)[j] = q[j]
  OBVIOUS

\* /end stays last among some of the events.
LEMMA EndStaysLast ==
    ASSUME NEW q \in Seq(Event), NEW m \in Nat, EndLast(q, m), NEW kinds, "end" \in kinds
    PROVE  /\ OfKind(q, kinds) \in Seq({e \in Event : e.kind \in kinds})
           /\ EndLast(OfKind(q, kinds), m)
           /\ (\E i \in 1..Len(OfKind(q, kinds)) : OfKind(q, kinds)[i].kind = "end") =>
                 \E i \in 1..Len(q) : q[i].kind = "end"
           /\ kinds = {"end"} => OfKind(q, kinds) \in {<<>>, <<End(m)>>}
  <1>1. Len(q) \in Nat /\ OfKind(q, kinds) \in Seq({e \in Event : e.kind \in kinds})
    BY OfKindSeq
  <1>2. CASE \A i \in 1..Len(q) : q[i].kind # "end"
    <2> DEFINE S == {e \in Event : e.kind # "end"}
    <2>1. q \in Seq(S)
      <3>1. \A i \in 1..Len(q) : q[i] \in S
        BY <1>1, <1>2
      <3> HIDE DEF S
      <3> QED BY <1>1, <3>1, SeqDef
    <2>2. OfKind(q, kinds) \in Seq({e \in S : e.kind \in kinds})
      <3> HIDE DEF S
      <3> QED BY <2>1, OfKindSeq
    <2>3. \A i \in 1..Len(OfKind(q, kinds)) : OfKind(q, kinds)[i].kind # "end"
      BY <2>2
    <2>4. kinds = {"end"} => OfKind(q, kinds) = <<>>
      BY <1>2, OfKindNone
    <2> QED BY <1>1, <2>3, <2>4 DEF EndLast
  <1>3. CASE \E i \in 1..Len(q) : q[i].kind = "end"
    <2> DEFINE n == Len(q)
               a == SubSeq(q, 1, n - 1)
               S == {e \in Event : e.kind # "end"}
    <2>1. n \in 1..n /\ q[n] = End(m) /\ \A i \in 1..(n - 1) : q[i].kind # "end"
      BY <1>1, <1>3 DEF EndLast
    <2>2. End(m) \in Event /\ End(m).kind = "end" /\ <<End(m)>> \in Seq(Event)
      BY DEF End, Event
    <2>3. a \in Seq(Event) /\ Len(a) = n - 1 /\ \A i \in 1..(n - 1) : a[i] = q[i]
      BY <2>1, FrontIs
    <2>4. q = a \o <<End(m)>>
      <3>1. 1 \in 1..Len(q) /\ n \in 1..Len(q)
        BY <1>1, <2>1
      <3>2. SubSeq(q, 1, n) = SubSeq(q, 1, n - 1) \o <<q[n]>>
        BY <3>1, SubSeqRecursiveSecond, Zenon
      <3>3. SubSeq(q, 1, n) = q
        OBVIOUS
      <3> QED BY <2>1, <3>2, <3>3
    <2>5. OfKind(<<End(m)>>, kinds) = <<End(m)>>
      BY <2>2, OfKindOne
    <2> HIDE DEF a
    <2>6. OfKind(q, kinds) = OfKind(a, kinds) \o <<End(m)>>
      <3>1. OfKind(a \o <<End(m)>>, kinds) = OfKind(a, kinds) \o OfKind(<<End(m)>>, kinds)
        <4>1. a \in Seq(Event)
          BY <2>3
        <4> DEFINE b == <<End(m)>>
        <4>2. b \in Seq(Event)
          BY <2>2
        <4> HIDE DEF b
        <4>3. OfKind(a \o b, kinds) = OfKind(a, kinds) \o OfKind(b, kinds)
          BY ONLY <4>1, <4>2, OfKindConcat
        <4> QED BY <4>3 DEF b
      <3> QED BY ONLY <2>4, <2>5, <3>1
    <2>7. a \in Seq(S)
      <3>1. \A i \in 1..Len(a) : a[i] \in S
        BY <1>1, <2>1, <2>3
      <3>2. Len(a) \in Nat
        BY <2>3
      <3> HIDE DEF S
      <3> QED BY <2>3, <3>1, <3>2, SeqDef
    <2>8. OfKind(a, kinds) \in Seq({e \in S : e.kind \in kinds})
      <3> HIDE DEF S
      <3> QED BY <2>7, OfKindSeq
    <2>9. EndLast(OfKind(a, kinds) \o <<End(m)>>, m)
      BY <2>2, <2>8 DEF EndLast
    <2>10. kinds = {"end"} => OfKind(q, kinds) = <<End(m)>>
      <3>1. SUFFICES ASSUME kinds = {"end"} PROVE OfKind(q, kinds) = <<End(m)>>
        OBVIOUS
      <3>2. \A i \in 1..Len(a) : a[i].kind \notin kinds
        BY <2>1, <2>3, <3>1
      <3>3. OfKind(a, kinds) = <<>>
        BY <2>3, <3>2, OfKindNone
      <3>4. <<>> \o <<End(m)>> = <<End(m)>>
        OBVIOUS
      <3> QED BY ONLY <2>6, <3>3, <3>4
    <2> QED BY ONLY <1>1, <1>3, <2>6, <2>9, <2>10
  <1> QED BY <1>2, <1>3

-----------------------------------------------------------------------------
(* The numbers of the events *)

LEMMA WeightyIs ==
    ASSUME NEW q \in Seq(Event)
    PROVE  /\ Weighty(q) \in Seq(Event)
           /\ \A i \in 1..Len(Weighty(q)) : Weighty(q)[i].kind # "sample"
           /\ Weighty(Weighty(q)) = Weighty(q)
           /\ Weighty(<<>>) = <<>>
  <1> DEFINE P == {e \in Event : e.kind \in {"epoch", "end"}}
  <1>1. Weighty(q) \in Seq(P)
    BY OfKindSeq DEF Weighty
  <1>2. Weighty(q) \in Seq(Event) /\ \A i \in 1..Len(Weighty(q)) : Weighty(q)[i].kind \in {"epoch", "end"}
    BY <1>1
  <1>3. Weighty(Weighty(q)) = Weighty(q)
    <2> DEFINE w == Weighty(q)
    <2>1. w \in Seq(Event) /\ \A i \in 1..Len(w) : w[i].kind \in {"epoch", "end"}
      BY <1>2
    <2> HIDE DEF w
    <2>2. OfKind(w, {"epoch", "end"}) = w
      BY <2>1, OfKindAll
    <2> QED BY <2>2 DEF w, Weighty
  <1>4. Weighty(<<>>) = <<>>
    <2> DEFINE r == <<>>
    <2>1. r \in Seq(Event) /\ \A i \in 1..Len(r) : r[i].kind \notin {"epoch", "end"}
      OBVIOUS
    <2> HIDE DEF r
    <2>2. OfKind(r, {"epoch", "end"}) = <<>>
      BY <2>1, OfKindNone
    <2> QED BY <2>2 DEF r, Weighty
  <1> QED BY <1>2, <1>3, <1>4

LEMMA EventNumber ==
    ASSUME NEW e \in Event
    PROVE  e.n \in Nat
  BY DEF Event

LEMMA NumbersIs ==
    ASSUME NEW q \in Seq(Event)
    PROVE  /\ Numbers(q) \in Seq(Nat) /\ Len(Numbers(q)) = Len(Weighty(q))
           /\ \A i \in 1..Len(Weighty(q)) : Numbers(q)[i] = Weighty(q)[i].n
  <1> DEFINE w == Weighty(q)
  <1>1. w \in Seq(Event)
    BY WeightyIs
  <1> HIDE DEF w
  <1>2. Len(w) \in Nat /\ DOMAIN w = 1..Len(w) /\ \A i \in 1..Len(w) : w[i].n \in Nat
    BY <1>1, EventNumber
  <1>3. Numbers(q) = [i \in 1..Len(w) |-> w[i].n]
    BY <1>2 DEF Numbers, w
  <1> QED BY <1>2, <1>3 DEF w

\* One more event that is not a per-sample one, at the end of the queue.
LEMMA NumbersAppend ==
    ASSUME NEW q \in Seq(Event), NEW e \in Event, e.kind \in {"epoch", "end"}
    PROVE  Numbers(Append(q, e)) = Append(Numbers(q), e.n)
  <1> DEFINE b == <<e>>
             w == Weighty(q)
  <1>1. b \in Seq(Event) /\ Append(q, e) = q \o b
    BY AppendIsConcat
  <1>2. Weighty(b) = <<e>>
    BY OfKindOne DEF Weighty
  <1>3. Weighty(q \o b) = w \o Weighty(b)
    <2> HIDE DEF b
    <2>1. OfKind(q \o b, {"epoch", "end"}) = OfKind(q, {"epoch", "end"}) \o OfKind(b, {"epoch", "end"})
      BY ONLY <1>1, q \in Seq(Event), OfKindConcat
    <2> QED BY ONLY <2>1 DEF Weighty, w
  <1>4. w \in Seq(Event)
    BY WeightyIs
  <1> HIDE DEF w
  <1>5. Weighty(Append(q, e)) = w \o <<e>>
    <2> HIDE DEF b
    <2> QED BY ONLY <1>1, <1>2, <1>3
  <1>6. e.n \in Nat
    BY DEF Event
  <1>7. /\ Len(w) \in Nat /\ DOMAIN w = 1..Len(w) /\ DOMAIN (w \o <<e>>) = 1..(Len(w) + 1)
        /\ \A i \in 1..Len(w) : (w \o <<e>>)[i] = w[i] /\ w[i].n \in Nat
        /\ (w \o <<e>>)[Len(w) + 1] = e
    <2>1. \A i \in 1..Len(w) : w[i].n \in Nat
      BY <1>4, EventNumber
    <2>2. /\ Len(w) \in Nat /\ DOMAIN w = 1..Len(w) /\ DOMAIN (w \o <<e>>) = 1..(Len(w) + 1)
          /\ \A i \in 1..Len(w) : (w \o <<e>>)[i] = w[i]
          /\ (w \o <<e>>)[Len(w) + 1] = e
      BY <1>4
    <2> QED BY <2>1, <2>2
  <1>8. Numbers(Append(q, e)) = [i \in 1..(Len(w) + 1) |-> (w \o <<e>>)[i].n]
    BY <1>5, <1>7 DEF Numbers
  <1>9. Numbers(q) = [i \in 1..Len(w) |-> w[i].n]
    BY <1>7 DEF Numbers, w
  <1> DEFINE l == [i \in 1..(Len(w) + 1) |-> (w \o <<e>>)[i].n]
             r == Append([i \in 1..Len(w) |-> w[i].n], e.n)
  <1>10. /\ l \in Seq(Nat) /\ r \in Seq(Nat) /\ Len(l) = Len(w) + 1 /\ Len(r) = Len(w) + 1
         /\ \A i \in 1..(Len(w) + 1) : l[i] = r[i]
    BY <1>6, <1>7
  <1> HIDE DEF l, r
  <1>11. l = r
    BY <1>10, SeqEqual
  <1> QED BY <1>8, <1>9, <1>11 DEF l, r

\* The first event of a queue.
LEMMA WeightyHead ==
    ASSUME NEW q \in Seq(Event), q # <<>>
    PROVE  /\ Head(q) \in Event /\ Tail(q) \in Seq(Event)
           /\ Head(q).kind = "sample" => Weighty(q) = Weighty(Tail(q))
           /\ Head(q).kind # "sample" => Weighty(q) = <<Head(q)>> \o Weighty(Tail(q))
  <1> DEFINE b == <<Head(q)>>
             t == Tail(q)
  <1>1. Head(q) \in Event /\ t \in Seq(Event) /\ b \in Seq(Event) /\ q = b \o t
    <2>1. Head(q) \in Event /\ t \in Seq(Event) /\ b \in Seq(Event)
      OBVIOUS
    <2>2. q = b \o t
      <3>1. b \o t \in Seq(Event) /\ Len(b \o t) = Len(q) /\ Len(q) \in Nat
        OBVIOUS
      <3>2. \A i \in 1..Len(q) : (b \o t)[i] = q[i]
        OBVIOUS
      <3> DEFINE r == b \o t
      <3> HIDE DEF r
      <3>3. r = q
        BY <3>1, <3>2, SeqEqual DEF r
      <3> QED BY <3>3 DEF r
    <2> QED BY <2>1, <2>2
  <1>2. Weighty(b) = IF Head(q).kind = "sample" THEN <<>> ELSE <<Head(q)>>
    <2>1. Head(q).kind \in {"epoch", "end"} <=> Head(q).kind # "sample"
      BY <1>1 DEF Event
    <2>2. OfKind(b, {"epoch", "end"}) = IF Head(q).kind \in {"epoch", "end"} THEN b ELSE <<>>
      BY <1>1, OfKindOne
    <2> QED BY <2>1, <2>2 DEF Weighty
  <1>3. Weighty(t) \in Seq(Event)
    BY <1>1, WeightyIs
  <1>4. Weighty(q) = Weighty(b) \o Weighty(t)
    <2> HIDE DEF b, t
    <2>1. OfKind(b \o t, {"epoch", "end"}) = OfKind(b, {"epoch", "end"}) \o OfKind(t, {"epoch", "end"})
      BY ONLY <1>1, OfKindConcat
    <2> QED BY ONLY <1>1, <2>1 DEF Weighty
  <1>5. <<>> \o Weighty(t) = Weighty(t)
    <2> DEFINE w == Weighty(t)
    <2>1. w \in Seq(Event)
      BY <1>3
    <2> HIDE DEF w
    <2>2. <<>> \o w = w
      BY <2>1
    <2> QED BY <2>2 DEF w
  <1>6. CASE Head(q).kind = "sample"
    <2>1. Weighty(b) = <<>>
      BY <1>2, <1>6
    <2> HIDE DEF b, t
    <2>2. Weighty(q) = Weighty(t)
      BY ONLY <2>1, <1>4, <1>5
    <2> QED BY <1>1, <1>6, <2>2 DEF t
  <1>7. CASE Head(q).kind # "sample"
    <2>1. Weighty(b) = b
      BY <1>2, <1>7
    <2> HIDE DEF b, t
    <2>2. Weighty(q) = b \o Weighty(t)
      BY ONLY <2>1, <1>4
    <2> QED BY <1>1, <1>7, <2>2 DEF t, b
  <1> QED BY <1>6, <1>7

LEMMA NumbersHead ==
    ASSUME NEW q \in Seq(Event), q # <<>>
    PROVE  /\ Head(q).kind = "sample" => Numbers(q) = Numbers(Tail(q))
           /\ Head(q).kind # "sample" => Numbers(q) = <<Head(q).n>> \o Numbers(Tail(q))
  <1>1. CASE Head(q).kind = "sample"
    BY <1>1, WeightyHead DEF Numbers
  <1>2. CASE Head(q).kind # "sample"
    <2> DEFINE e == Head(q)
               w == Weighty(Tail(q))
    <2>1. e \in Event /\ Tail(q) \in Seq(Event) /\ Weighty(q) = <<e>> \o w /\ e.n \in Nat
      BY <1>2, WeightyHead, EventNumber
    <2>2. w \in Seq(Event)
      BY <2>1, WeightyIs
    <2>3. /\ Numbers(Tail(q)) \in Seq(Nat) /\ Len(Numbers(Tail(q))) = Len(w)
          /\ \A i \in 1..Len(w) : Numbers(Tail(q))[i] = w[i].n
      BY <2>1, NumbersIs
    <2>4. /\ Numbers(q) \in Seq(Nat) /\ Len(Numbers(q)) = Len(<<e>> \o w)
          /\ \A i \in 1..Len(<<e>> \o w) : Numbers(q)[i] = (<<e>> \o w)[i].n
      BY <2>1, NumbersIs
    <2> HIDE DEF e, w
    <2>5. /\ Len(w) \in Nat /\ Len(<<e>> \o w) = Len(w) + 1 /\ (<<e>> \o w)[1] = e
          /\ \A i \in 1..Len(w) : (<<e>> \o w)[i + 1] = w[i]
      BY <2>1, <2>2
    <2> DEFINE u == Numbers(Tail(q))
               l == Numbers(q)
               r == <<e.n>> \o u
    <2>6. u \in Seq(Nat) /\ Len(u) = Len(w) /\ \A i \in 1..Len(w) : u[i] = w[i].n
      BY <2>3
    <2>7. /\ l \in Seq(Nat) /\ Len(l) = Len(w) + 1 /\ l[1] = e.n
          /\ \A i \in 1..Len(w) : l[i + 1] = w[i].n
      BY <2>4, <2>5
    <2> HIDE DEF u, l
    <2>8. /\ r \in Seq(Nat) /\ Len(r) = Len(w) + 1 /\ r[1] = e.n
          /\ \A i \in 1..Len(w) : r[i + 1] = u[i]
      BY <2>1, <2>5, <2>6
    <2> HIDE DEF r
    <2>9. ASSUME NEW i \in 1..(Len(w) + 1)
          PROVE  l[i] = r[i]
      <3>1. CASE i = 1
        BY <2>7, <2>8, <3>1
      <3>2. CASE i # 1
        <4>1. i - 1 \in 1..Len(w) /\ (i - 1) + 1 = i
          BY <2>5, <3>2
        <4> QED BY <2>6, <2>7, <2>8, <4>1
      <3> QED BY <3>1, <3>2
    <2>10. l = r
      BY <2>7, <2>8, <2>9, SeqEqual
    <2> QED BY <1>2, <2>10 DEF e, l, r, u
  <1> QED BY <1>1, <1>2

LEMMA AllIs ==
    ASSUME NEW m \in Nat
    PROVE  /\ All(m) \in Seq(Nat) /\ Len(All(m)) = m /\ \A i \in 1..m : All(m)[i] = i
           /\ All(m + 1) = Append(All(m), m + 1)
  <1>1. ASSUME NEW k \in Nat
        PROVE  All(k) \in Seq(Nat) /\ Len(All(k)) = k /\ \A i \in 1..k : All(k)[i] = i
    BY DEF All
  <1> DEFINE l == All(m + 1)
             a == All(m)
             r == Append(a, m + 1)
  <1>2. a \in Seq(Nat) /\ Len(a) = m /\ \A i \in 1..m : a[i] = i
    BY <1>1
  <1>3. l \in Seq(Nat) /\ Len(l) = m + 1 /\ \A i \in 1..(m + 1) : l[i] = i
    BY <1>1
  <1> HIDE DEF l, a
  <1>4. r \in Seq(Nat) /\ Len(r) = m + 1 /\ \A i \in 1..(m + 1) : r[i] = i
    BY <1>2
  <1> HIDE DEF r
  <1>5. l = r
    BY <1>3, <1>4, SeqEqual
  <1> QED BY <1>2, <1>5 DEF l, a, r

\* What is in front of all the numbers is all the numbers up to one of them.
LEMMA FrontOfAll ==
    ASSUME NEW s \in Seq(Nat), NEW t \in Seq(Nat), NEW m \in Nat, s \o t = All(m)
    PROVE  Len(s) \in 0..m /\ s = All(Len(s))
  <1>1. /\ Len(s) \in Nat /\ Len(t) \in Nat /\ Len(s \o t) = Len(s) + Len(t)
        /\ \A i \in 1..Len(s) : (s \o t)[i] = s[i]
    BY ONLY s \in Seq(Nat), t \in Seq(Nat)
  <1>2. Len(All(m)) = m /\ \A i \in 1..m : All(m)[i] = i
    BY AllIs
  <1>3. Len(s) \in 0..m /\ \A i \in 1..Len(s) : s[i] = i
    BY <1>1, <1>2
  <1>4. All(Len(s)) \in Seq(Nat) /\ Len(All(Len(s))) = Len(s) /\ \A i \in 1..Len(s) : All(Len(s))[i] = i
    BY <1>1, AllIs
  <1> DEFINE r == All(Len(s))
  <1> HIDE DEF r
  <1>5. r \in Seq(Nat) /\ Len(r) = Len(s) /\ \A i \in 1..Len(s) : r[i] = s[i]
    BY <1>3, <1>4 DEF r
  <1>6. s = r
    BY <1>5, SeqEqual
  <1> QED BY <1>3, <1>6 DEF r

\* The first of what is to come joins what is done.
LEMMA ShiftFirst ==
    ASSUME NEW s \in Seq(Nat), NEW t \in Seq(Nat), NEW x \in Nat
    PROVE  Append(s, x) \o t = s \o (<<x>> \o t)
  <1> DEFINE l == Append(s, x) \o t
             b == <<x>> \o t
             r == s \o b
  <1>1. /\ b \in Seq(Nat) /\ Len(b) = Len(t) + 1 /\ b[1] = x
        /\ \A i \in 1..Len(t) : b[i + 1] = t[i]
        /\ Len(s) \in Nat /\ Len(t) \in Nat
    OBVIOUS
  <1>2. /\ l \in Seq(Nat) /\ Len(l) = Len(s) + 1 + Len(t)
        /\ \A i \in 1..Len(s) : l[i] = s[i]
        /\ l[Len(s) + 1] = x
        /\ \A i \in 1..Len(t) : l[Len(s) + 1 + i] = t[i]
    <2> DEFINE a == Append(s, x)
    <2>1. a \in Seq(Nat) /\ Len(a) = Len(s) + 1 /\ a[Len(s) + 1] = x /\ \A i \in 1..Len(s) : a[i] = s[i]
      OBVIOUS
    <2> HIDE DEF a
    <2>2. a \in Seq(Nat)
      BY <2>1
    <2>3. /\ a \o t \in Seq(Nat) /\ Len(a \o t) = Len(a) + Len(t)
          /\ \A i \in 1..Len(a) : (a \o t)[i] = a[i]
          /\ \A i \in 1..Len(t) : (a \o t)[Len(a) + i] = t[i]
      BY <2>2
    <2>4. /\ a \o t \in Seq(Nat) /\ Len(a \o t) = Len(s) + 1 + Len(t)
          /\ \A i \in 1..Len(s) : (a \o t)[i] = s[i]
          /\ (a \o t)[Len(s) + 1] = x
          /\ \A i \in 1..Len(t) : (a \o t)[Len(s) + 1 + i] = t[i]
      BY <1>1, <2>1, <2>3
    <2> QED BY <2>4 DEF a
  <1> HIDE DEF b, l
  <1>3. b \in Seq(Nat)
    BY <1>1
  <1>4. /\ s \o b \in Seq(Nat) /\ Len(s \o b) = Len(s) + Len(b)
        /\ \A i \in 1..Len(s) : (s \o b)[i] = s[i]
        /\ \A i \in 1..Len(b) : (s \o b)[Len(s) + i] = b[i]
    BY <1>3
  <1>5. /\ r \in Seq(Nat) /\ Len(r) = Len(l)
        /\ \A i \in 1..Len(s) : r[i] = s[i]
        /\ \A i \in 1..Len(b) : r[Len(s) + i] = b[i]
    BY <1>1, <1>2, <1>4
  <1> HIDE DEF r
  <1>6. ASSUME NEW i \in 1..Len(l)
        PROVE  l[i] = r[i]
    <2>0. Len(s) \in Nat /\ Len(t) \in Nat /\ Len(b) = Len(t) + 1 /\ i \in 1..(Len(s) + 1 + Len(t))
      BY <1>1, <1>2
    <2>1. CASE i \in 1..Len(s)
      BY <1>2, <1>5, <2>1
    <2>2. CASE i = Len(s) + 1
      BY <1>1, <1>2, <1>5, <2>2
    <2>3. CASE i > Len(s) + 1
      <3>1. /\ i - (Len(s) + 1) \in 1..Len(t) /\ Len(s) + 1 + (i - (Len(s) + 1)) = i
            /\ i - Len(s) \in 1..Len(b) /\ Len(s) + (i - Len(s)) = i
            /\ (i - (Len(s) + 1)) + 1 = i - Len(s)
        BY ONLY <2>0, <2>3
      <3>2. l[i] = t[i - (Len(s) + 1)]
        BY <1>2, <3>1
      <3>3. r[i] = b[i - Len(s)]
        BY <1>5, <3>1
      <3>4. b[i - Len(s)] = t[i - (Len(s) + 1)]
        BY <1>1, <3>1
      <3> QED BY <3>2, <3>3, <3>4
    <2>4. i \in 1..Len(s) \/ i = Len(s) + 1 \/ i > Len(s) + 1
      BY ONLY <2>0
    <2> QED BY <2>1, <2>2, <2>3, <2>4
  <1>7. l = r
    BY <1>2, <1>5, <1>6, SeqEqual
  <1> QED BY <1>7 DEF l, b, r

-----------------------------------------------------------------------------
(* What the parts of the actions do *)

Sessions == {"none", "ours", "ours ended", "theirs", "theirs ended"}

LEMMA AfterIs ==
    ASSUME NEW what, NEW k, server[k] \in Sessions
    PROVE  /\ After(what, k) \in Sessions
           /\ server[k] = "ours" /\ what # "end" => After(what, k) = "ours"
           /\ server[k] # "ours" /\ what # "start" => After(what, k) # "ours"
           /\ what = "end" => After(what, k) # "ours"
           /\ server[k] # "none" => After(what, k) # "none"
           /\ what = "start" => After(what, k) \in Live
  BY DEF After, Live, Sessions

\* A request that was executed, or not.
LEMMA ExecuteIs ==
    ASSUME Types, Execute \/ UNCHANGED <<server, landed, astray>>
    PROVE  /\ server' \in [1..Keys -> Sessions] /\ landed' \in BOOLEAN
           /\ server[key] = "ours" /\ Request # "end" => server'[key] = "ours"
           /\ server[key] # "ours" /\ Request # "start" => server'[key] # "ours"
           /\ server[key] # "none" => server'[key] # "none"
           /\ astray' => \/ astray
                         \/ /\ call \in {"event", "again"} /\ event.kind # "end"
                            /\ server[key] \in {"theirs", "theirs ended"}
           /\ Execute => /\ Request = "end" => server'[key] # "ours"
                         /\ Request = "start" => server'[key] \in Live
                         /\ call \in {"event", "again"} /\ server[key] # "none" => landed'
  <1>1. key \in 1..Keys /\ server \in [1..Keys -> Sessions] /\ landed \in BOOLEAN
    BY DEF Types, Sessions
  <1>2. CASE Execute
    <2>1. /\ server' = [server EXCEPT ![key] = After(Request, key)]
          /\ server'[key] = After(Request, key)
      BY <1>1, <1>2 DEF Execute
    <2>2. server[key] \in Sessions
      BY <1>1
    <2> DEFINE w == Request
    <2> HIDE DEF w
    <2>3. /\ After(w, key) \in Sessions
          /\ server[key] = "ours" /\ w # "end" => After(w, key) = "ours"
          /\ server[key] # "ours" /\ w # "start" => After(w, key) # "ours"
          /\ w = "end" => After(w, key) # "ours"
          /\ server[key] # "none" => After(w, key) # "none"
          /\ w = "start" => After(w, key) \in Live
      BY <2>2, AfterIs
    <2>4. server' \in [1..Keys -> Sessions]
      BY <1>1, <2>1, <2>3 DEF w
    <2>5. /\ landed' \in BOOLEAN
          /\ call \in {"event", "again"} /\ server[key] # "none" => landed'
          /\ astray' => \/ astray
                        \/ /\ call \in {"event", "again"} /\ event.kind # "end"
                           /\ server[key] \in {"theirs", "theirs ended"}
      BY <1>2 DEF Execute
    <2> QED BY <2>1, <2>3, <2>4, <2>5 DEF w
  <1>3. CASE UNCHANGED <<server, landed, astray>> /\ ~Execute
    BY <1>1, <1>3
  <1> QED BY <1>2, <1>3

\* A call that returned a status.
LEMMA ReturnsIs ==
    ASSUME Types, NEW what, NEW status, Returns(what, status)
    PROVE  /\ call = what /\ hits' \in 0..2
           /\ Execute \/ UNCHANGED <<server, landed, astray>>
           /\ status # 0 => Execute /\ status = Status(Request, key) /\ hits' = hits
           /\ status = 0 => tries = 1 /\ hits' = IF hits = 0 THEN 1 ELSE 2
  <1>1. Status(Request, key) # 0
    BY DEF Status
  <1>2. /\ call = what
        /\ \/ status = Status(Request, key) /\ Execute /\ UNCHANGED hits
           \/ status = 0 /\ tries = 1 /\ (Execute \/ UNCHANGED <<server, landed, astray>>) /\ Hit
    BY DEF Returns
  <1>3. hits \in 0..2
    BY DEF Types
  <1>4. CASE status = Status(Request, key) /\ Execute /\ UNCHANGED hits
    BY <1>1, <1>2, <1>3, <1>4
  <1>5. CASE status = 0 /\ tries = 1 /\ (Execute \/ UNCHANGED <<server, landed, astray>>) /\ Hit
    <2>1. hits' = (IF hits = 0 THEN 1 ELSE 2) /\ hits' \in 0..2
      BY <1>5 DEF Hit
    <2> QED BY <1>2, <1>5, <2>1
  <1> QED BY <1>2, <1>4, <1>5

\* The events of the queue that are left to send.
LEMMA KeptIs ==
    ASSUME Types, PlaceInv, EndInv, LimitInv
    PROVE  /\ Kept \in Seq(Event) /\ EndLast(Kept, made)
           /\ (\E i \in 1..Len(Kept) : Kept[i].kind = "end") =>
                 \E i \in 1..Len(queue) : queue[i].kind = "end"
           /\ stopping => \A i \in 1..Len(Kept) : Kept[i].kind # "sample"
           /\ ~stopping => Kept = queue
           /\ ~late => Weighty(Kept) = Weighty(queue)
           /\ late => Kept \in {<<>>, <<End(made)>>}
           /\ queue = <<>> => Kept = <<>>
  <1>1. queue \in Seq(Event) /\ made \in Nat /\ EndLast(queue, made) /\ (late => stopping)
    <2>1. queue \in Seq(Event) /\ made \in 0..(MaxEpochs + 1) /\ MaxEpochs \in Nat
      BY MetricsPushAssumption DEF Types
    <2>2. EndLast(queue, made)
      BY DEF EndInv, EndLast
    <2>3. late => stopping
      BY DEF PlaceInv
    <2> QED BY <2>1, <2>2, <2>3
  <1>2. CASE ~stopping
    BY <1>1, <1>2 DEF Kept
  <1>3. CASE stopping /\ ~late
    <2>1. Kept = Weighty(queue)
      BY <1>3 DEF Kept
    <2>2. /\ EndLast(Weighty(queue), made)
          /\ (\E i \in 1..Len(Weighty(queue)) : Weighty(queue)[i].kind = "end") =>
                 \E i \in 1..Len(queue) : queue[i].kind = "end"
      BY <1>1, EndStaysLast DEF Weighty
    <2>3. /\ Weighty(queue) \in Seq(Event)
          /\ \A i \in 1..Len(Weighty(queue)) : Weighty(queue)[i].kind # "sample"
          /\ Weighty(Weighty(queue)) = Weighty(queue)
          /\ Weighty(<<>>) = <<>>
      BY <1>1, WeightyIs
    <2> QED BY <1>3, <2>1, <2>2, <2>3
  <1>4. CASE stopping /\ late
    <2> DEFINE w == OfKind(queue, {"end"})
    <2>1. Kept = w
      BY <1>4 DEF Kept
    <2>2. /\ w \in Seq({e \in Event : e.kind \in {"end"}})
          /\ EndLast(w, made)
          /\ (\E i \in 1..Len(w) : w[i].kind = "end") => \E i \in 1..Len(queue) : queue[i].kind = "end"
          /\ w \in {<<>>, <<End(made)>>}
      BY <1>1, EndStaysLast
    <2>3. queue = <<>> => w = <<>>
      <3>1. (\A i \in 1..Len(queue) : queue[i].kind \notin {"end"}) => w = <<>>
        BY <1>1, OfKindNone
      <3>2. queue = <<>> => \A i \in 1..Len(queue) : FALSE
        BY <1>1
      <3> QED BY <3>1, <3>2
    <2> HIDE DEF w
    <2>4. w \in Seq(Event) /\ \A i \in 1..Len(w) : w[i].kind # "sample"
      BY <2>2
    <2> QED BY <1>4, <2>1, <2>2, <2>3, <2>4
  <1> QED BY <1>1, <1>2, <1>3, <1>4 DEF Types

\* An event of the pass enters the queue.
LEMMA EnqueueIs ==
    ASSUME Types, LimitInv, NEW e \in Event, e.kind \in {"epoch", "end"}, Enqueue(e)
    PROVE  /\ queue' \in Seq(Event) /\ Len(queue') > 0 /\ queue'[Len(queue')] = e
           /\ \A j \in 1..(Len(queue') - 1) : \E i \in 1..Len(queue) : queue'[j] = queue[i]
           /\ Numbers(queue') = Append(Numbers(queue), e.n)
           /\ LimitInv'
  <1> DEFINE v == Evict(queue)
  <1>1. queue \in Seq(Event) /\ queue' = Append(v, e)
    BY DEF Types, Enqueue, IsSample
  <1>2. /\ v \in Seq(Event) /\ Weighty(v) = Weighty(queue)
        /\ \A j \in 1..Len(v) : \E i \in 1..Len(queue) : v[j] = queue[i]
        /\ Len(v) >= Depth => \A j \in 1..Len(v) : ~IsSample(v[j])
    BY <1>1, EvictIs DEF LimitInv
  <1>3. Numbers(Append(v, e)) = Append(Numbers(queue), e.n)
    <2>1. Numbers(v) = Numbers(queue)
      BY <1>2 DEF Numbers
    <2> HIDE DEF v
    <2>2. Numbers(Append(v, e)) = Append(Numbers(v), e.n)
      BY <1>2, NumbersAppend
    <2> QED BY <2>1, <2>2
  <1> HIDE DEF v
  <1>4. /\ Append(v, e) \in Seq(Event) /\ Len(Append(v, e)) = Len(v) + 1 /\ Len(v) \in Nat
        /\ Append(v, e)[Len(v) + 1] = e
        /\ \A j \in 1..Len(v) : Append(v, e)[j] = v[j]
    BY <1>2
  <1>5. LimitInv'
    <2>1. SUFFICES ASSUME Len(v) >= Depth, NEW i \in 1..(Len(v) + 1)
                   PROVE  ~IsSample(Append(v, e)[i])
      BY <1>1, <1>4, MetricsPushAssumption DEF LimitInv
    <2>2. CASE i \in 1..Len(v)
      BY <1>2, <1>4, <2>1, <2>2
    <2>3. CASE i = Len(v) + 1
      BY <1>4, <2>3 DEF IsSample
    <2> QED BY <1>4, <2>2, <2>3
  <1> QED BY <1>1, <1>2, <1>3, <1>4, <1>5

-----------------------------------------------------------------------------
(* The inductive invariant *)

LEMMA PushStart == Init => PushInv
  <1> SUFFICES ASSUME Init PROVE PushInv
    OBVIOUS
  <1>1. Types
    <2>1. server \in [1..Keys -> {"none", "ours", "ours ended", "theirs", "theirs ended"}]
      BY DEF Init
    <2>4. key \in 1..Keys /\ tries \in 0..Attempts /\ made \in 0..(MaxEpochs + 1)
      <3>1. key = 1 /\ tries = Attempts /\ made = 0
        BY DEF Init
      <3> QED BY <3>1, MetricsPushAssumption
    <2>5. /\ pc = "starting" /\ call = "hello" /\ hits = 0
          /\ ~stopping /\ ~late /\ ~draining /\ ~cut /\ ~evicted /\ ~landed
          /\ stopping \in BOOLEAN /\ late \in BOOLEAN /\ draining \in BOOLEAN
          /\ cut \in BOOLEAN /\ evicted \in BOOLEAN /\ landed \in BOOLEAN
      BY Zenon DEF Init
    <2>6. hits \in 0..2
      BY <2>5
    <2>2. queue \in Seq(Event) /\ sent \in Seq(Nat)
      BY DEF Init
    <2>3. event \in Event
      BY DEF Init, Event, Sample
    <2> QED BY <2>1, <2>2, <2>3, <2>4, <2>5, <2>6 DEF Types
  <1>2. PlaceInv /\ LimitInv /\ SessionInv /\ LeavesNoSession /\ OwnSessionOnly
    BY MetricsPushAssumption
       DEF Init, PlaceInv, LimitInv, SessionInv, Reporting, LeavesNoSession, OwnSessionOnly
  <1>3. EndInv
    BY DEF Init, EndInv, Sample
  <1>4. OrderInv
    <2>1. queue = <<>> /\ sent = <<>> /\ made = 0 /\ ~cut
      BY DEF Init
    <2>2. Numbers(<<>>) = <<>>
      <3>1. <<>> \in Seq(Event)
        OBVIOUS
      <3>2. Weighty(<<>>) = <<>>
        BY <3>1, WeightyIs
      <3> QED BY <3>2 DEF Numbers
    <2>3. All(0) = <<>>
      BY DEF All
    <2> QED BY <2>1, <2>2, <2>3 DEF OrderInv
  <1> QED BY <1>1, <1>2, <1>3, <1>4 DEF PushInv

\* The events and the order of the pass stay as they are.
Still == UNCHANGED <<queue, made, sent, event, cut>> /\ (stopping => stopping')

LEMMA OrderStill ==
    ASSUME OrderInv, LimitInv, Still
    PROVE  OrderInv' /\ LimitInv'
  BY DEF OrderInv, LimitInv, Still

\* The server executes a request of the call in progress, or does not.
LEMMA PostStep ==
    ASSUME PushInv, call # "none", Still,
           Execute \/ UNCHANGED <<server, landed, astray>>,
           UNCHANGED <<pc, key, stopping, late, draining, evicted>>,
           tries' \in 0..Attempts, hits' \in 0..2,
           call' \in {"none", "hello", "event", "register", "again", "heartbeat"},
           call' = "hello" <=> pc = "starting",
           event.kind = "end" => call' \in {"event", "none", "heartbeat"},
           ended' => ended \/ (event.kind = "end" /\ call = "event" /\ Execute)
    PROVE  PushInv'
  <1>1. Types /\ PlaceInv /\ LimitInv /\ EndInv /\ SessionInv /\ OrderInv /\ LeavesNoSession /\ OwnSessionOnly
    BY DEF PushInv
  <1>2. /\ server' \in [1..Keys -> Sessions] /\ landed' \in BOOLEAN
        /\ server[key] = "ours" /\ Request # "end" => server'[key] = "ours"
        /\ server[key] # "ours" /\ Request # "start" => server'[key] # "ours"
        /\ astray' => \/ astray
                      \/ /\ call \in {"event", "again"} /\ event.kind # "end"
                         /\ server[key] \in {"theirs", "theirs ended"}
        /\ Execute /\ Request = "end" => server'[key] # "ours"
    BY <1>1, ExecuteIs
  <1>3. /\ Request = "end" => event.kind = "end"
        /\ event.kind = "end" => Request \in {"end", "heartbeat"}
        /\ event.kind = "end" /\ call = "event" => Request = "end"
        /\ pc \notin {"unreported", "done"}
        /\ call \in {"event", "again"} => Reporting
    BY <1>1 DEF Request, EndInv, PlaceInv, Types, Event, Reporting
  <1>4. Types'
    BY <1>1, <1>2 DEF Types, Sessions, Still
  <1>5. PlaceInv'
    BY <1>1, <1>3 DEF PlaceInv, Still, EndInv, Sample
  <1>6. EndInv'
    BY <1>1 DEF EndInv, Still
  <1>7. SessionInv'
    BY <1>1, <1>2, <1>3 DEF SessionInv, Reporting, Still
  <1>8. LeavesNoSession'
    <2>1. ended => event.kind = "end"
      BY <1>1 DEF EndInv
    <2>2. CASE ended
      BY <1>1, <1>2, <1>3, <2>1, <2>2 DEF LeavesNoSession
    <2>3. CASE ~ended
      BY <1>2, <1>3, <2>3 DEF LeavesNoSession
    <2> QED BY <2>2, <2>3
  <1>9. OwnSessionOnly'
    BY <1>1, <1>2, <1>3 DEF OwnSessionOnly, SessionInv
  <1> QED BY <1>1, <1>4, <1>5, <1>6, <1>7, <1>8, <1>9, OrderStill DEF PushInv

LEMMA PushRetries ==
    ASSUME PushInv, Retry
    PROVE  PushInv'
  <1>1. /\ call # "none" /\ Still /\ (Execute \/ UNCHANGED <<server, landed, astray>>)
        /\ UNCHANGED <<pc, key, stopping, late, draining, evicted, call, ended>>
    BY DEF Retry, Still, passVars
  <1>2. tries' \in 0..Attempts /\ hits' \in 0..2
    <2>1. tries \in 0..Attempts /\ tries > 1 /\ tries' = tries - 1 /\ Attempts \in Nat
      BY MetricsPushAssumption DEF Retry, PushInv, Types
    <2>2. hits' = IF hits = 0 THEN 1 ELSE 2
      BY DEF Retry, Hit
    <2> QED BY <2>1, <2>2
  <1>3. /\ call' \in {"none", "hello", "event", "register", "again", "heartbeat"}
        /\ call' = "hello" <=> pc = "starting"
        /\ event.kind = "end" => call' \in {"event", "none", "heartbeat"}
    BY <1>1 DEF PushInv, Types, PlaceInv, EndInv
  <1> QED BY <1>1, <1>2, <1>3, PostStep

LEMMA PushPosts ==
    ASSUME PushInv, NEW status \in {0, 200, 404, 409},
           PostEvent(status) \/ Register(status) \/ PostAgain(status) \/ Heartbeat(status)
    PROVE  PushInv'
  <1>0. Types /\ PlaceInv /\ EndInv
    BY DEF PushInv
  <1>7. tries \in 0..Attempts /\ Attempts \in 0..Attempts /\ 1 \in 0..Attempts
    <2>1. tries \in 0..Attempts
      BY <1>0 DEF Types
    <2>2. Attempts \in Nat /\ Attempts # 0
      BY MetricsPushAssumption
    <2> QED BY <2>1, <2>2
  <1>1. PICK what \in {"event", "register", "again", "heartbeat"} : Returns(what, status)
    BY DEF PostEvent, Register, PostAgain, Heartbeat
  <1>2. /\ call = what /\ hits' \in 0..2
        /\ Execute \/ UNCHANGED <<server, landed, astray>>
        /\ status # 0 => Execute
    BY <1>0, <1>1, ReturnsIs
  <1>3. Still /\ UNCHANGED <<pc, key, stopping, late, draining, evicted>>
    BY DEF PostEvent, Register, PostAgain, Heartbeat, Finish, passVars, Still
  <1>4. /\ tries' \in 0..Attempts
        /\ call' \in {"none", "register", "again", "heartbeat"}
        /\ event.kind = "end" => call' \in {"event", "none", "heartbeat"}
        /\ ended' => ended \/ (event.kind = "end" /\ call = "event" /\ Execute)
    <2>1. CASE PostEvent(status)
      <3>1. call = "event"
        BY <2>1 DEF PostEvent, Returns
      <3>2. ended' => ended \/ (event.kind = "end" /\ status # 0)
        BY <2>1 DEF PostEvent
      <3>3. /\ tries' \in {tries, 1, Attempts}
            /\ call' \in {"none", "register", "heartbeat"}
            /\ event.kind = "end" => call' \in {"none", "heartbeat"}
        BY <2>1 DEF PostEvent, Finish
      <3> QED BY <1>2, <1>7, <3>1, <3>2, <3>3
    <2>2. CASE Register(status)
      <3>1. call = "register" /\ event.kind # "end" /\ ended' = ended
        BY <1>0, <2>2 DEF Register, Returns, EndInv
      <3>2. tries' \in {tries, 1, Attempts} /\ call' \in {"none", "again", "heartbeat"}
        BY <2>2 DEF Register, Finish
      <3> QED BY <1>7, <3>1, <3>2
    <2>3. CASE PostAgain(status)
      <3>1. call = "again" /\ event.kind # "end" /\ ended' = ended
        BY <1>0, <2>3 DEF PostAgain, Returns, EndInv
      <3>2. tries' \in {tries, Attempts} /\ call' \in {"none", "heartbeat"}
        BY <2>3 DEF PostAgain, Finish
      <3> QED BY <1>7, <3>1, <3>2
    <2>4. CASE Heartbeat(status)
      BY <1>7, <2>4 DEF Heartbeat
    <2> QED BY <2>1, <2>2, <2>3, <2>4
  <1>5. call # "none" /\ pc # "starting" /\ call' # "hello"
    BY <1>0, <1>2, <1>4 DEF PlaceInv
  <1>6. call' \in {"none", "hello", "event", "register", "again", "heartbeat"}
        /\ (call' = "hello" <=> pc = "starting")
    BY <1>4, <1>5
  <1> QED BY <1>2, <1>3, <1>4, <1>5, <1>6, PostStep

LEMMA PushStarts ==
    ASSUME PushInv, NEW status \in {0, 200, 409}, Start(status)
    PROVE  PushInv'
  <1>0. Types /\ PlaceInv /\ EndInv /\ OrderInv /\ LimitInv /\ SessionInv /\ OwnSessionOnly
    BY DEF PushInv
  <1>1. /\ pc = "starting" /\ Returns("hello", status)
        /\ Still /\ UNCHANGED <<stopping, late, draining, evicted, ended>>
    BY DEF Start, Still
  <1>2. /\ call = "hello" /\ hits' \in 0..2
        /\ Execute \/ UNCHANGED <<server, landed, astray>>
        /\ status # 0 => Execute /\ status = Status(Request, key)
    BY <1>0, <1>1, ReturnsIs
  <1>3. Request = "start"
    BY <1>2 DEF Request
  <1>4. /\ server' \in [1..Keys -> Sessions] /\ landed' \in BOOLEAN
        /\ astray' => astray
    BY <1>0, <1>2, ExecuteIs
  <1>5. \/ status = 200 /\ pc' = "training" /\ call' = "none" /\ UNCHANGED <<key, tries>>
        \/ /\ key < Keys /\ key' = key + 1 /\ tries' = Attempts /\ UNCHANGED <<pc, call>>
        \/ pc' = "unreported" /\ call' = "none" /\ UNCHANGED <<key, tries>>
    BY DEF Start
  <1>6. Types'
    <2>1. key' \in 1..Keys /\ tries' \in 0..Attempts
      <3>1. /\ key \in 1..Keys /\ tries \in 0..Attempts /\ Attempts \in Nat /\ Keys \in Nat
        BY <1>0, MetricsPushAssumption DEF Types
      <3>2. \/ key' = key /\ tries' = tries
            \/ key < Keys /\ key' = key + 1 /\ tries' = Attempts
        BY <1>5
      <3> QED BY <3>1, <3>2
    <2>2. /\ pc' \in {"starting", "unreported", "training"} /\ call' \in {"none", "hello"}
      BY <1>1, <1>2, <1>5
    <2>3. hits' \in 0..2
      BY <1>2
    <2>4. /\ queue' = queue /\ made' = made /\ sent' = sent /\ event' = event /\ cut' = cut
          /\ stopping' = stopping /\ late' = late /\ draining' = draining /\ evicted' = evicted
      BY <1>1 DEF Still
    <2>5. /\ server' \in [1..Keys -> {"none", "ours", "ours ended", "theirs", "theirs ended"}]
          /\ landed' \in BOOLEAN
      BY <1>4 DEF Sessions
    <2>6. /\ queue' \in Seq(Event) /\ event' \in Event /\ sent' \in Seq(Nat)
          /\ made' \in 0..(MaxEpochs + 1)
      BY <1>0, <2>4 DEF Types
    <2>7. /\ stopping' \in BOOLEAN /\ late' \in BOOLEAN /\ draining' \in BOOLEAN
          /\ cut' \in BOOLEAN /\ evicted' \in BOOLEAN
      <3>1. /\ stopping \in BOOLEAN /\ late \in BOOLEAN /\ draining \in BOOLEAN
            /\ cut \in BOOLEAN /\ evicted \in BOOLEAN
        BY <1>0 DEF Types
      <3>2. /\ stopping' = stopping /\ late' = late /\ draining' = draining /\ cut' = cut
            /\ evicted' = evicted
        BY <2>4
      <3> QED BY ONLY <3>1, <3>2
    <2> QED BY <2>1, <2>2, <2>3, <2>5, <2>6, <2>7 DEF Types
  <1>7. PlaceInv'
    <2>1. /\ queue = <<>> /\ made = 0 /\ sent = <<>> /\ event = Sample /\ ~ended /\ ~stopping /\ ~late
          /\ MaxEpochs + 1 # 0
      BY <1>0, <1>1, MetricsPushAssumption DEF PlaceInv
    <2>2. \/ pc' = "training" /\ call' = "none"
          \/ pc' = "starting" /\ call' = "hello"
          \/ pc' = "unreported" /\ call' = "none"
      BY <1>1, <1>2, <1>5
    <2>3. /\ queue' = <<>> /\ made' = 0 /\ sent' = <<>> /\ event' = Sample /\ ~ended' /\ ~stopping' /\ ~late'
      BY <1>1, <2>1 DEF Still
    <2> QED BY <2>1, <2>2, <2>3 DEF PlaceInv
  <1>8. EndInv'
    <2>1. queue' = <<>> /\ event'.kind = "sample" /\ ~ended'
      BY <1>0, <1>1 DEF PlaceInv, Still, Sample
    <2> QED BY <2>1 DEF EndInv
  <1>9. SessionInv'
    <2>1. SUFFICES ASSUME pc' = "training"
                   PROVE  server'[key'] = "ours"
      BY <1>1, <1>5 DEF SessionInv, Reporting
    <2>2. status = 200 /\ key' = key
      BY <1>1, <1>5, <2>1
    <2>3. server[key] \notin Live
      BY <1>2, <1>3, <2>2 DEF Status
    <2>4. server'[key] = After("start", key)
      <3>1. server' = [server EXCEPT ![key] = After(Request, key)]
        <4>1. Execute
          BY <1>2, <2>2
        <4> QED BY <4>1 DEF Execute
      <3>2. server \in [1..Keys -> Sessions] /\ key \in 1..Keys
        BY <1>0 DEF Types, Sessions
      <3> QED BY <1>3, <3>1, <3>2
    <2> QED BY <2>2, <2>3, <2>4 DEF After
  <1>10. LeavesNoSession'
    BY <1>0, <1>1 DEF LeavesNoSession, PlaceInv
  <1>11. OwnSessionOnly'
    BY <1>0, <1>1, <1>4 DEF OwnSessionOnly
  <1> QED BY <1>0, <1>1, <1>6, <1>7, <1>8, <1>9, <1>10, <1>11, OrderStill DEF PushInv

\* What others do to the server, and the pass's clock.
LEMMA PushWatches ==
    ASSUME PushInv,
           \/ \E k \in 1..Keys : Forget(k) \/ OtherTrainer(k)
           \/ HeartbeatDue \/ DeadlinePasses \/ BeginStop
    PROVE  PushInv'
  <1>0. Types /\ PlaceInv /\ EndInv /\ OrderInv /\ LimitInv /\ SessionInv /\ OwnSessionOnly /\ LeavesNoSession
    BY DEF PushInv
  <1>1. ASSUME NEW k \in 1..Keys, Forget(k) PROVE PushInv'
    <2>1. /\ server' = [server EXCEPT ![k] = "none"] /\ evicted' = (evicted \/ (k = key /\ server[k] = "ours"))
          /\ Still /\ UNCHANGED <<pc, key, stopping, late, call, tries, draining, landed, astray, ended>>
      BY <1>1 DEF Forget, passVars, Still
    <2>2. hits' \in 0..2
      <3>1. hits \in 0..2
        BY <1>0 DEF Types
      <3>2. hits' = hits \/ hits' = 1 \/ hits' = 2
        BY <1>1 DEF Forget, Hit
      <3> QED BY <3>1, <3>2
    <2>3. server \in [1..Keys -> Sessions] /\ key \in 1..Keys
      BY <1>0 DEF Types, Sessions
    <2>4. server' \in [1..Keys -> Sessions] /\ server'[key] = IF k = key THEN "none" ELSE server[key]
      BY <2>1, <2>3 DEF Sessions
    <2>5. Types'
      BY <1>0, <2>1, <2>2, <2>4 DEF Types, Sessions, Still
    <2>6. PlaceInv' /\ EndInv'
      BY <1>0, <2>1 DEF PlaceInv, EndInv, Still
    <2>7. SessionInv' /\ LeavesNoSession' /\ OwnSessionOnly'
      BY <1>0, <2>1, <2>4 DEF SessionInv, LeavesNoSession, OwnSessionOnly, Reporting, Still
    <2> QED BY <1>0, <2>1, <2>5, <2>6, <2>7, OrderStill DEF PushInv
  <1>2. ASSUME NEW k \in 1..Keys, OtherTrainer(k) PROVE PushInv'
    <2>1. /\ \/ server[k] \notin Live /\ server' = [server EXCEPT ![k] = "theirs"]
             \/ server[k] = "theirs" /\ server' = [server EXCEPT ![k] = "theirs ended"]
          /\ Still /\ UNCHANGED <<pc, key, stopping, late, call, tries, draining, landed, astray, ended, evicted, hits>>
      BY <1>2 DEF OtherTrainer, passVars, history, Still
    <2>3. server \in [1..Keys -> Sessions] /\ key \in 1..Keys
      BY <1>0 DEF Types, Sessions
    <2>4. server' \in [1..Keys -> Sessions]
      BY <2>1, <2>3 DEF Sessions
    <2>5. (server[key] = "ours" <=> server'[key] = "ours")
      BY <2>1, <2>3 DEF Live
    <2>6. Types'
      BY <1>0, <2>1, <2>4 DEF Types, Sessions, Still
    <2>7. PlaceInv' /\ EndInv'
      BY <1>0, <2>1 DEF PlaceInv, EndInv, Still
    <2>8. SessionInv' /\ LeavesNoSession' /\ OwnSessionOnly'
      BY <1>0, <2>1, <2>5 DEF SessionInv, LeavesNoSession, OwnSessionOnly, Reporting, Still
    <2> QED BY <1>0, <2>1, <2>6, <2>7, <2>8, OrderStill DEF PushInv
  <1>3. ASSUME HeartbeatDue PROVE PushInv'
    <2>1. /\ pc \in {"training", "ending"} /\ call = "none" /\ call' = "heartbeat"
          /\ tries' = Attempts /\ draining' = FALSE
          /\ Still /\ UNCHANGED <<pc, key, stopping, late, server, landed, astray, ended, evicted, hits>>
      BY <1>3 DEF HeartbeatDue, passVars, history, Still
    <2>2. tries' \in 0..Attempts
      BY <2>1, MetricsPushAssumption
    <2>3. Types'
      BY <1>0, <2>1, <2>2 DEF Types, Still
    <2>4. PlaceInv' /\ EndInv'
      BY <1>0, <2>1 DEF PlaceInv, EndInv, Still
    <2>5. SessionInv' /\ LeavesNoSession' /\ OwnSessionOnly'
      BY <1>0, <2>1 DEF SessionInv, LeavesNoSession, OwnSessionOnly, Reporting, Still
    <2> QED BY <1>0, <2>1, <2>3, <2>4, <2>5, OrderStill DEF PushInv
  <1>4. ASSUME DeadlinePasses PROVE PushInv'
    <2>1. /\ stopping /\ late' = TRUE
          /\ Still /\ UNCHANGED <<pc, key, stopping, call, tries, draining, server, landed, astray, ended, evicted, hits>>
      BY <1>4 DEF DeadlinePasses, history, Still
    <2>2. Types' /\ PlaceInv' /\ EndInv'
      BY <1>0, <2>1 DEF Types, PlaceInv, EndInv, Still
    <2>3. SessionInv' /\ LeavesNoSession' /\ OwnSessionOnly'
      BY <1>0, <2>1 DEF SessionInv, LeavesNoSession, OwnSessionOnly, Reporting, Still
    <2> QED BY <1>0, <2>1, <2>2, <2>3, OrderStill DEF PushInv
  <1>5. ASSUME BeginStop PROVE PushInv'
    <2>1. /\ pc \in {"training", "ending"} /\ pc' = "joining" /\ stopping'
          /\ Still /\ UNCHANGED <<key, late, call, tries, draining, server, landed, astray, ended, evicted, hits>>
      BY <1>5 DEF BeginStop, history, Still
    <2>2. stopping' \in BOOLEAN
      BY <1>5 DEF BeginStop
    <2>3. Types'
      BY <1>0, <2>1, <2>2 DEF Types, Still
    <2>4. PlaceInv'
      BY <1>0, <2>1 DEF PlaceInv, Still
    <2>5. EndInv'
      BY <1>0, <2>1 DEF EndInv, Still
    <2>6. SessionInv' /\ LeavesNoSession' /\ OwnSessionOnly'
      BY <1>0, <2>1 DEF SessionInv, LeavesNoSession, OwnSessionOnly, Reporting, Still
    <2> QED BY <1>0, <2>1, <2>3, <2>4, <2>5, <2>6, OrderStill DEF PushInv
  <1> QED BY <1>1, <1>2, <1>3, <1>4, <1>5

\* The parts of the invariant that the queue's own steps leave alone.
LEMMA PushSame ==
    ASSUME PushInv, Types', PlaceInv', EndInv',
           UNCHANGED <<key, server, evicted, astray>>,
           Reporting' => Reporting,
           event.kind = "end" => event'.kind = "end",
           ended' => ended
    PROVE  SessionInv' /\ LeavesNoSession' /\ OwnSessionOnly'
  BY DEF PushInv, SessionInv, LeavesNoSession, OwnSessionOnly

LEMMA PushSamples ==
    ASSUME PushInv, EnqueueSample
    PROVE  PushInv'
  <1>0. Types /\ PlaceInv /\ EndInv /\ OrderInv
    BY DEF PushInv
  <1>1. /\ pc = "training" /\ Len(queue) < Depth /\ queue' = Append(queue, Sample)
        /\ UNCHANGED <<pc, key, made, stopping, late, call, tries, event, draining, server, sent,
                       hits, landed, cut, evicted, astray, lost, ended>>
    BY DEF EnqueueSample, Enqueue, Sample, IsSample, passVars, history
  <1>2. queue \in Seq(Event) /\ Sample \in Event /\ Depth \in Nat
    BY <1>0, MetricsPushAssumption DEF Types, Sample, Event
  <1>3. /\ queue' \in Seq(Event) /\ Len(queue') = Len(queue) + 1 /\ Len(queue) \in Nat
        /\ queue'[Len(queue) + 1] = Sample /\ \A i \in 1..Len(queue) : queue'[i] = queue[i]
    BY <1>1, <1>2
  <1>4. Types'
    BY <1>0, <1>1, <1>3 DEF Types
  <1>5. PlaceInv'
    BY <1>0, <1>1 DEF PlaceInv
  <1>6. LimitInv'
    BY <1>1, <1>2, <1>3 DEF LimitInv
  <1>7. EndInv'
    <2>1. \A i \in 1..Len(queue) : queue[i].kind # "end"
      BY <1>0, <1>1 DEF EndInv
    <2>2. \A i \in 1..Len(queue') : queue'[i].kind # "end"
      <3>1. SUFFICES ASSUME NEW i \in 1..Len(queue') PROVE queue'[i].kind # "end"
        OBVIOUS
      <3>2. i \in 1..Len(queue) \/ i = Len(queue) + 1
        BY <1>3
      <3> QED BY <1>3, <2>1, <3>2 DEF Sample
    <2>3. event.kind # "end" /\ ~ended
      BY <1>0, <1>1 DEF EndInv
    <2> QED BY <1>1, <2>2, <2>3 DEF EndInv
  <1>8. OrderInv'
    <2>1. Weighty(queue') = Weighty(queue)
      <3> DEFINE b == <<Sample>>
                 q == queue
                 w == Weighty(q)
                 K == {"epoch", "end"}
      <3>1. b \in Seq(Event) /\ Append(queue, Sample) = q \o b
        BY <1>2, AppendIsConcat
      <3>2. OfKind(b, K) = <<>>
        BY <1>2, OfKindOne DEF Sample
      <3>3. q \in Seq(Event) /\ w \in Seq(Event)
        BY <1>2, WeightyIs
      <3> HIDE DEF b, q, w, K
      <3>4. OfKind(q \o b, K) = OfKind(q, K) \o OfKind(b, K)
        BY ONLY <3>1, <3>3, OfKindConcat
      <3>5. w \o <<>> = w
        BY <3>3
      <3>6. OfKind(q, K) = w /\ OfKind(q \o b, K) = Weighty(queue')
        BY <1>1, <3>1 DEF w, K, Weighty
      <3>7. Weighty(queue') = w
        BY ONLY <3>2, <3>4, <3>5, <3>6
      <3> QED BY <3>7 DEF w, q
    <2>2. Numbers(queue') = Numbers(queue)
      BY <2>1 DEF Numbers
    <2>3. ~cut
      BY <1>0, <1>1 DEF OrderInv, PlaceInv
    <2> QED BY <1>0, <1>1, <2>2, <2>3 DEF OrderInv
  <1>9. SessionInv' /\ LeavesNoSession' /\ OwnSessionOnly'
    BY <1>1, <1>4, <1>5, <1>7, PushSame DEF Reporting
  <1> QED BY <1>4, <1>5, <1>6, <1>7, <1>8, <1>9 DEF PushInv

LEMMA PushEvents ==
    ASSUME PushInv, EnqueueEpoch \/ EndSession
    PROVE  PushInv'
  <1>0. Types /\ PlaceInv /\ EndInv /\ OrderInv /\ LimitInv
    BY DEF PushInv
  <1>1. /\ pc = "training" /\ made' = made + 1
        /\ UNCHANGED <<key, stopping, late, call, tries, event, draining, server, sent,
                       hits, landed, cut, evicted, astray, lost, ended>>
    BY DEF EnqueueEpoch, EndSession, history
  <1>2. made \in Nat /\ made' \in 0..(MaxEpochs + 1)
    <2>1. made \in 0..(MaxEpochs + 1) /\ made # MaxEpochs + 1 /\ MaxEpochs \in Nat
      BY <1>0, <1>1, MetricsPushAssumption DEF Types, PlaceInv
    <2> QED BY <1>1, <2>1
  <1>3. PICK e \in Event : /\ Enqueue(e) /\ e.n = made'
                           /\ \/ e = Epoch(made') /\ e.kind = "epoch" /\ pc' = "training" /\ made < MaxEpochs
                              \/ e = End(made') /\ e.kind = "end" /\ pc' = "ending"
    <2>1. Epoch(made') \in Event /\ End(made') \in Event
      BY <1>2 DEF Epoch, End, Event
    <2>2. CASE EnqueueEpoch
      BY <1>1, <2>1, <2>2 DEF EnqueueEpoch, Epoch
    <2>3. CASE EndSession
      BY <1>1, <2>1, <2>3 DEF EndSession, End
    <2> QED BY <2>2, <2>3
  <1>4. e.kind \in {"epoch", "end"}
    BY <1>3
  <1>5. /\ queue' \in Seq(Event) /\ Len(queue') > 0 /\ queue'[Len(queue')] = e
        /\ \A j \in 1..(Len(queue') - 1) : \E i \in 1..Len(queue) : queue'[j] = queue[i]
        /\ Numbers(queue') = Append(Numbers(queue), e.n)
        /\ LimitInv'
    BY <1>0, <1>3, <1>4, EnqueueIs
  <1>6. Types'
    BY <1>0, <1>1, <1>2, <1>3, <1>5 DEF Types
  <1>7. PlaceInv'
    <2>1. made' = MaxEpochs + 1 => pc' # "training"
      BY <1>1, <1>2, <1>3, MetricsPushAssumption
    <2> QED BY <1>0, <1>1, <1>3, <2>1 DEF PlaceInv
  <1>8. EndInv'
    <2>1. \A i \in 1..Len(queue) : queue[i].kind # "end"
      BY <1>0, <1>1 DEF EndInv
    <2>2. \A j \in 1..(Len(queue') - 1) : queue'[j].kind # "end"
      BY <1>5, <2>1
    <2>3. \A i \in 1..Len(queue') : queue'[i].kind = "end" => i = Len(queue')
      BY <1>5, <2>2
    <2>4. event.kind # "end" /\ ~ended
      BY <1>0, <1>1 DEF EndInv
    <2>5. \A i \in 1..Len(queue') : queue'[i].kind = "end" =>
              i = Len(queue') /\ queue'[i] = End(made') /\ pc' \in {"ending", "joining"}
      BY <1>3, <1>5, <2>3
    <2> QED BY <1>1, <2>4, <2>5 DEF EndInv
  <1>9. OrderInv'
    <2>1. ~cut /\ sent \in Seq(Nat) /\ queue \in Seq(Event)
      BY <1>0, <1>1 DEF OrderInv, PlaceInv, Types
    <2>2. Numbers(queue) \in Seq(Nat)
      BY <2>1, NumbersIs
    <2>3. sent \o Numbers(queue) = All(made)
      BY <1>0, <2>1 DEF OrderInv
    <2> DEFINE b == Numbers(queue)
               x == made'
    <2>4. b \in Seq(Nat) /\ x \in Nat
      BY <1>1, <1>2, <2>2
    <2> HIDE DEF b, x
    <2>5. sent \o Append(b, x) = Append(sent \o b, x)
      BY ONLY <2>1, <2>4, AppendConcat
    <2>6. All(made + 1) = Append(All(made), made + 1)
      BY <1>2, AllIs
    <2>7. Append(sent \o b, x) = All(made')
      BY <1>1, <2>3, <2>6 DEF b, x
    <2>8. Numbers(queue') = Append(b, x)
      BY <1>3, <1>5 DEF b, x
    <2>9. sent' \o Numbers(queue') = All(made')
      BY <1>1, <2>5, <2>7, <2>8
    <2> QED BY <1>1, <2>1, <2>9 DEF OrderInv
  <1>10. SessionInv' /\ LeavesNoSession' /\ OwnSessionOnly'
    BY <1>1, <1>3, <1>6, <1>7, <1>8, PushSame DEF Reporting
  <1> QED BY <1>5, <1>6, <1>7, <1>8, <1>9, <1>10 DEF PushInv

LEMMA HeadTailIs ==
    ASSUME NEW S, NEW q \in Seq(S), q # <<>>
    PROVE  /\ Head(q) \in S /\ Tail(q) \in Seq(S) /\ Len(q) \in Nat \ {0}
           /\ Len(Tail(q)) = Len(q) - 1 /\ Head(q) = q[1]
           /\ \A i \in 1..(Len(q) - 1) : Tail(q)[i] = q[i + 1]
  OBVIOUS

LEMMA PushTakes ==
    ASSUME PushInv, Take
    PROVE  PushInv'
  <1>0. Types /\ PlaceInv /\ EndInv /\ OrderInv /\ LimitInv /\ SessionInv /\ OwnSessionOnly
    BY DEF PushInv
  <1>1. /\ Reporting /\ call = "none" /\ Kept # <<>> /\ call' = "event"
        /\ event' = Head(Kept) /\ queue' = Tail(Kept)
        /\ draining' = stopping /\ landed' = FALSE
        /\ cut' = (cut \/ (late /\ Weighty(queue) # Kept))
        /\ sent' = IF IsSample(event') THEN sent ELSE Append(sent, event'.n)
        /\ tries' = IF stopping THEN 1 ELSE Attempts
        /\ hits' = IF server[key] = "ours" THEN 0 ELSE 1
        /\ UNCHANGED <<pc, key, made, stopping, late, server, evicted, astray, lost, ended>>
    BY DEF Take, passVars
  <1>2. /\ Kept \in Seq(Event) /\ EndLast(Kept, made)
        /\ (\E i \in 1..Len(Kept) : Kept[i].kind = "end") =>
              \E i \in 1..Len(queue) : queue[i].kind = "end"
        /\ stopping => \A i \in 1..Len(Kept) : Kept[i].kind # "sample"
        /\ ~stopping => Kept = queue
        /\ ~late => Weighty(Kept) = Weighty(queue)
        /\ late => Kept \in {<<>>, <<End(made)>>}
        /\ queue = <<>> => Kept = <<>>
    BY <1>0, KeptIs
  <1>3. /\ event' \in Event /\ queue' \in Seq(Event) /\ Len(Kept) \in Nat \ {0}
        /\ Len(queue') = Len(Kept) - 1 /\ event' = Kept[1]
        /\ \A i \in 1..(Len(Kept) - 1) : queue'[i] = Kept[i + 1]
    BY <1>1, <1>2, HeadTailIs
  <1>4. event.kind # "end" /\ ~ended /\ ~cut
    BY <1>0, <1>1, <1>2 DEF EndInv, OrderInv
  <1>5. late => stopping
    BY <1>0 DEF PlaceInv
  <1>6. sent' \in Seq(Nat)
    <2>1. sent \in Seq(Nat) /\ event'.n \in Nat
      BY <1>0, <1>3, EventNumber DEF Types
    <2> QED BY <1>1, <2>1
  <1>7. Types'
    <2>1. tries' \in 0..Attempts /\ hits' \in 0..2
      <3>1. Attempts \in Nat /\ Attempts # 0
        BY MetricsPushAssumption
      <3>2. tries' \in {1, Attempts} /\ hits' \in {0, 1}
        BY <1>1
      <3> QED BY <3>1, <3>2
    <2>2. draining' \in BOOLEAN /\ cut' \in BOOLEAN /\ landed' \in BOOLEAN
      BY <1>0, <1>1 DEF Types
    <2> QED BY <1>0, <1>1, <1>3, <1>6, <2>1, <2>2 DEF Types
  <1>8. PlaceInv'
    BY <1>0, <1>1 DEF PlaceInv, Reporting
  <1>9. LimitInv'
    <2>1. SUFFICES ASSUME Len(queue') > Depth, NEW i \in 1..Len(queue')
                   PROVE  ~IsSample(queue'[i])
      BY DEF LimitInv
    <2>2. i + 1 \in 1..Len(Kept) /\ queue'[i] = Kept[i + 1] /\ Len(Kept) > Depth
      BY <1>3, <2>1, MetricsPushAssumption
    <2>3. CASE stopping
      BY <1>2, <2>2, <2>3 DEF IsSample
    <2>4. CASE ~stopping
      BY <1>0, <1>2, <2>2, <2>4 DEF LimitInv
    <2> QED BY <2>3, <2>4
  <1>10. EndInv'
    <2>1. (\E i \in 1..Len(Kept) : Kept[i].kind = "end") => pc \in {"ending", "joining"}
      BY <1>0, <1>2 DEF EndInv
    <2>2. ASSUME NEW i \in 1..Len(queue'), queue'[i].kind = "end"
          PROVE  i = Len(queue') /\ queue'[i] = End(made') /\ pc' \in {"ending", "joining"}
      <3>1. i + 1 \in 1..Len(Kept) /\ queue'[i] = Kept[i + 1]
        BY <1>3
      <3>2. i + 1 = Len(Kept) /\ Kept[i + 1] = End(made)
        BY <1>2, <2>2, <3>1 DEF EndLast
      <3>3. pc \in {"ending", "joining"}
        BY <2>1, <2>2, <3>1
      <3>4. i = Len(queue')
        <4>1. Len(queue') = Len(Kept) - 1 /\ i \in Nat
          BY <1>3
        <4> QED BY <3>2, <4>1
      <3>5. pc' = pc /\ made' = made
        BY <1>1
      <3> QED BY <3>1, <3>2, <3>3, <3>4, <3>5
    <2>3. ASSUME event'.kind = "end"
          PROVE  queue' = <<>> /\ pc' \in {"ending", "joining", "done"}
      <3>1. 1 \in 1..Len(Kept) /\ Kept[1].kind = "end"
        BY <1>3, <2>3
      <3>2. 1 = Len(Kept)
        BY <1>2, <3>1 DEF EndLast
      <3>3. Len(queue') = 0
        <4>1. Len(queue') = Len(Kept) - 1
          BY <1>3
        <4> QED BY <3>2, <4>1
      <3>4. queue' = <<>>
        BY <1>3, <3>3
      <3> QED BY <1>1, <2>1, <3>1, <3>4
    <2> QED BY <1>1, <1>4, <2>2, <2>3 DEF EndInv
  <1>11. SessionInv' /\ LeavesNoSession' /\ OwnSessionOnly'
    BY <1>0, <1>1, <1>4 DEF SessionInv, LeavesNoSession, OwnSessionOnly, Reporting
  <1>12. OrderInv'
    <2>0. /\ sent \o Numbers(queue) = All(made) /\ sent \in Seq(Nat)
          /\ queue \in Seq(Event) /\ made \in Nat
      <3>1. made \in 0..(MaxEpochs + 1) /\ MaxEpochs \in Nat
        BY <1>0, MetricsPushAssumption DEF Types
      <3>2. queue \in Seq(Event) /\ sent \in Seq(Nat)
        BY <1>0 DEF Types
      <3>3. sent \o Numbers(queue) = All(made)
        BY <1>0, <1>4 DEF OrderInv
      <3>4. made \in Nat
        BY ONLY <3>1
      <3> QED BY <3>2, <3>3, <3>4
    <2>1. CASE Weighty(Kept) = Weighty(queue) /\ ~cut'
      <3>1. Numbers(Kept) = Numbers(queue)
        BY <2>1 DEF Numbers
      <3>2. CASE IsSample(event')
        <4>1. Numbers(Kept) = Numbers(queue')
          BY <1>1, <1>2, <3>2, NumbersHead DEF IsSample
        <4> QED BY <1>1, <2>0, <2>1, <3>1, <3>2, <4>1 DEF OrderInv
      <3>3. CASE ~IsSample(event')
        <4>1. Numbers(Kept) = <<event'.n>> \o Numbers(queue')
          BY <1>1, <1>2, <3>3, NumbersHead DEF IsSample
        <4> DEFINE b == Numbers(queue')
                   x == event'.n
        <4>2. b \in Seq(Nat) /\ x \in Nat
          BY <1>3, NumbersIs, EventNumber
        <4> HIDE DEF b, x
        <4>3. Append(sent, x) \o b = sent \o (<<x>> \o b)
          BY ONLY <2>0, <4>2, ShiftFirst
        <4>4. sent' \o Numbers(queue') = All(made')
          BY <1>1, <2>0, <3>1, <3>3, <4>1, <4>3 DEF b, x
        <4> QED BY <2>1, <4>4 DEF OrderInv
      <3> QED BY <3>2, <3>3
    <2>2. CASE ~late
      BY <1>1, <1>2, <1>4, <2>1, <2>2
    <2>3. CASE late /\ Weighty(queue) = Kept
      <3>1. Weighty(Weighty(queue)) = Weighty(queue)
        BY <2>0, WeightyIs
      <3> QED BY <1>1, <1>4, <2>1, <2>3, <3>1
    <2>4. CASE late /\ Weighty(queue) # Kept
      <3>1. Kept = <<End(made)>>
        BY <1>1, <1>2, <2>4
      <3>2. queue' = <<>> /\ event' = End(made)
        BY <1>1, <3>1
      <3>3. sent' = Append(sent, made)
        BY <1>1, <3>2 DEF End, IsSample
      <3>4. Numbers(queue) \in Seq(Nat)
        BY <2>0, NumbersIs
      <3>5. Len(sent) \in 0..made /\ sent = All(Len(sent))
        BY <2>0, <3>4, FrontOfAll
      <3>6. cut' /\ stopping' /\ made' = made
        BY <1>1, <1>5, <2>4
      <3>7. \E i \in 0..made' : sent' = All(i) \/ sent' = Append(All(i), made')
        BY <3>3, <3>5, <3>6
      <3> QED BY <3>2, <3>6, <3>7 DEF OrderInv
    <2> QED BY <2>2, <2>3, <2>4
  <1> QED BY <1>7, <1>8, <1>9, <1>10, <1>11, <1>12 DEF PushInv

LEMMA PushLeaves ==
    ASSUME PushInv, Leave
    PROVE  PushInv'
  <1>0. Types /\ PlaceInv /\ EndInv /\ OrderInv /\ LimitInv /\ SessionInv
    BY DEF PushInv
  <1>1. /\ Reporting /\ call = "none" /\ Kept = <<>> /\ stopping
        /\ pc' = "done" /\ queue' = <<>>
        /\ cut' = (cut \/ (late /\ Weighty(queue) # <<>>))
        /\ UNCHANGED <<key, made, stopping, late, call, tries, event, draining, server, sent,
                       hits, landed, evicted, astray, lost, ended>>
    BY DEF Leave
  <1>2. Types'
    <2>1. cut' \in BOOLEAN
      BY <1>1
    <2>2. queue' \in Seq(Event)
      BY <1>1
    <2> QED BY <1>0, <1>1, <2>1, <2>2 DEF Types
  <1>3. PlaceInv'
    <2>1. pc = "joining"
      BY <1>0, <1>1 DEF PlaceInv, Reporting
    <2> QED BY <1>0, <1>1, <2>1 DEF PlaceInv
  <1>4. EndInv'
    BY <1>0, <1>1 DEF EndInv
  <1>5. LimitInv'
    BY <1>1, MetricsPushAssumption DEF LimitInv
  <1>6. SessionInv' /\ LeavesNoSession' /\ OwnSessionOnly'
    BY <1>1, <1>2, <1>3, <1>4, PushSame DEF Reporting
  <1>7. OrderInv'
    <2>1. CASE cut
      BY <1>0, <1>1, <2>1 DEF OrderInv
    <2>2. CASE ~cut
      <3>0. /\ sent \o Numbers(queue) = All(made) /\ sent \in Seq(Nat)
            /\ queue \in Seq(Event) /\ made \in Nat
        <4>1. made \in 0..(MaxEpochs + 1) /\ MaxEpochs \in Nat
          BY <1>0, MetricsPushAssumption DEF Types
        <4>2. queue \in Seq(Event) /\ sent \in Seq(Nat)
          BY <1>0 DEF Types
        <4>3. sent \o Numbers(queue) = All(made)
          BY <1>0, <2>2 DEF OrderInv
        <4>4. made \in Nat
          BY ONLY <4>1
        <4> QED BY <4>2, <4>3, <4>4
      <3>1. CASE cut'
        <4>1. Numbers(queue) \in Seq(Nat)
          BY <3>0, NumbersIs
        <4>2. Len(sent) \in 0..made /\ sent = All(Len(sent))
          BY <3>0, <4>1, FrontOfAll
        <4>3. \E i \in 0..made' : sent' = All(i) \/ sent' = Append(All(i), made')
          BY <1>1, <4>2
        <4> QED BY <1>1, <3>1, <4>3 DEF OrderInv
      <3>2. CASE ~cut'
        <4>1. Weighty(queue) = <<>>
          BY <1>1, <2>2, <3>2 DEF Kept
        <4>2. Weighty(queue') = <<>>
          BY <1>1, <3>0, WeightyIs
        <4>3. Numbers(queue') = Numbers(queue)
          BY <4>1, <4>2 DEF Numbers
        <4> QED BY <1>1, <3>0, <3>2, <4>3 DEF OrderInv
      <3> QED BY <3>1, <3>2
    <2> QED BY <2>1, <2>2
  <1> QED BY <1>2, <1>3, <1>4, <1>5, <1>6, <1>7 DEF PushInv

LEMMA PushKept == PushInv /\ [Next]_vars => PushInv'
  <1> SUFFICES ASSUME PushInv, [Next]_vars PROVE PushInv'
    OBVIOUS
  <1>1. CASE Take
    BY <1>1, PushTakes
  <1>2. CASE Leave
    BY <1>2, PushLeaves
  <1>3. CASE Retry
    BY <1>3, PushRetries
  <1>4. CASE \E status \in {0, 200, 404, 409} :
               PostEvent(status) \/ Register(status) \/ PostAgain(status) \/ Heartbeat(status)
    BY <1>4, PushPosts
  <1>5. CASE \E status \in {0, 200, 409} : Start(status)
    BY <1>5, PushStarts
  <1>6. CASE EnqueueSample
    BY <1>6, PushSamples
  <1>7. CASE EnqueueEpoch \/ EndSession
    BY <1>7, PushEvents
  <1>8. CASE \/ HeartbeatDue \/ DeadlinePasses \/ BeginStop
             \/ \E k \in 1..Keys : Forget(k) \/ OtherTrainer(k)
    BY <1>8, PushWatches
  <1>9. CASE UNCHANGED vars
    <2>1. /\ Still
          /\ UNCHANGED <<pc, key, stopping, late, call, tries, draining, server, hits, evicted,
                         landed, astray, ended>>
      BY <1>9 DEF vars, Still
    <2>2. Types' /\ PlaceInv' /\ EndInv'
      BY <2>1 DEF PushInv, Types, PlaceInv, EndInv, Still
    <2>3. SessionInv' /\ LeavesNoSession' /\ OwnSessionOnly'
      BY <2>1 DEF PushInv, SessionInv, LeavesNoSession, OwnSessionOnly, Reporting, Still
    <2> QED BY <2>1, <2>2, <2>3, OrderStill DEF PushInv
  <1> QED BY <1>1, <1>2, <1>3, <1>4, <1>5, <1>6, <1>7, <1>8, <1>9 DEF Next, Push, Pass

LEMMA PushAlways == Spec => []PushInv
  <1> QED BY PushStart, PushKept, PTL DEF Spec

-----------------------------------------------------------------------------
(* Faults *)

FaultsInv == FaultInv /\ OneFaultLosesNothing

\* What the end of an event costs: nothing, after less than two faults.
LEMMA FinishLoses ==
    ASSUME OneFaultLosesNothing, Finish,
           ~draining /\ event.kind = "epoch" => landed' \/ ~(hits' < 2)
    PROVE  OneFaultLosesNothing'
  BY DEF OneFaultLosesNothing, Finish

\* A call for an epoch event returns.
LEMMA FaultPosts ==
    ASSUME Attempts > 1, PushInv, FaultsInv, NEW status \in {0, 200, 404, 409},
           PostEvent(status) \/ Register(status) \/ PostAgain(status) \/ Heartbeat(status)
    PROVE  FaultsInv'
  <1>0. /\ Types /\ PlaceInv /\ FaultInv /\ OneFaultLosesNothing
        /\ hits \in 0..2 /\ key \in 1..Keys /\ server \in [1..Keys -> Sessions]
    BY DEF PushInv, FaultsInv, Types, Sessions
  <1>1. UNCHANGED <<key, event, draining>>
    BY DEF PostEvent, Register, PostAgain, Heartbeat, passVars
  <1>2. CASE PostEvent(status)
    <2>1. /\ call = "event" /\ Request = event.kind
          /\ Execute \/ UNCHANGED <<server, landed, astray>>
          /\ status # 0 => Execute /\ status = Status(Request, key) /\ hits' = hits
          /\ status = 0 => tries = 1 /\ hits' = IF hits = 0 THEN 1 ELSE 2
      BY <1>0, <1>2, ReturnsIs DEF PostEvent, Request
    <2>2. SUFFICES ASSUME ~draining, event.kind = "epoch"
                   PROVE  FaultsInv'
      <3>1. CASE ~(~draining /\ event.kind = "epoch")
        <4>1. FaultInv'
          BY <1>1, <3>1 DEF FaultInv
        <4>2. OneFaultLosesNothing'
          BY <1>0, <1>2, <3>1, FinishLoses DEF PostEvent, OneFaultLosesNothing
        <4> QED BY <4>1, <4>2 DEF FaultsInv
      <3> QED BY <2>2, <3>1
    <2>3. hits = 0 => tries = Attempts /\ server[key] = "ours"
      BY <1>0, <2>1, <2>2 DEF FaultInv
    <2>4. CASE status = 404
      <3>1. server[key] = "none"
        BY <2>1, <2>2, <2>4 DEF Status
      <3>2. call' = "register" /\ lost' = lost /\ hits' = hits /\ hits # 0
        BY <1>2, <2>1, <2>2, <2>3, <2>4, <3>1 DEF PostEvent
      <3> QED BY <1>0, <3>2 DEF FaultsInv, FaultInv, OneFaultLosesNothing
    <2>5. CASE status # 404
      <3>1. Finish /\ call' \in {"none", "heartbeat"}
        BY <1>2, <2>5 DEF PostEvent, Finish
      <3>2. landed' \/ ~(hits' < 2)
        <4>1. CASE status = 0
          BY <1>0, <2>1, <2>3, <4>1
        <4>2. CASE status # 0
          <5>1. server[key] # "none"
            BY <2>1, <2>2, <2>5, <4>2 DEF Status
          <5> QED BY <1>0, <2>1, <4>2, <5>1, ExecuteIs
        <4> QED BY <4>1, <4>2
      <3>3. OneFaultLosesNothing'
        BY <1>0, <3>1, <3>2, FinishLoses
      <3> QED BY <3>1, <3>3 DEF FaultsInv, FaultInv
    <2> QED BY <2>4, <2>5
  <1>3. CASE Register(status)
    <2>1. /\ call = "register" /\ Request = "start"
          /\ Execute \/ UNCHANGED <<server, landed, astray>>
          /\ status # 0 => Execute /\ status = Status(Request, key) /\ hits' = hits
          /\ status = 0 => hits' = IF hits = 0 THEN 1 ELSE 2
      BY <1>0, <1>3, ReturnsIs DEF Register, Request
    <2>2. ~draining /\ event.kind = "epoch" => hits # 0
      BY <1>0, <2>1 DEF FaultInv
    <2>3. status # 0 => status \in {200, 409}
      BY <2>1 DEF Status
    <2>4. CASE status = 0
      <3>1. Finish /\ call' \in {"none", "heartbeat"}
        BY <1>3, <2>4 DEF Register, Finish
      <3>2. ~draining /\ event.kind = "epoch" => ~(hits' < 2)
        BY <2>1, <2>2, <2>4
      <3>3. OneFaultLosesNothing'
        BY <1>0, <3>1, <3>2, FinishLoses
      <3> QED BY <3>1, <3>3 DEF FaultsInv, FaultInv
    <2>5. CASE status # 0
      <3>1. call' = "again" /\ lost' = lost /\ hits' = hits
        BY <1>3, <2>1, <2>3, <2>5 DEF Register
      <3>2. server'[key] \in Live
        BY <1>0, <2>1, <2>5, ExecuteIs
      <3> QED BY <1>0, <1>1, <2>2, <3>1, <3>2 DEF FaultsInv, FaultInv, OneFaultLosesNothing, Live
    <2> QED BY <2>4, <2>5
  <1>4. CASE PostAgain(status)
    <2>1. /\ call = "again" /\ Request = event.kind
          /\ Execute \/ UNCHANGED <<server, landed, astray>>
          /\ status # 0 => Execute /\ status = Status(Request, key) /\ hits' = hits
          /\ status = 0 => hits' = IF hits = 0 THEN 1 ELSE 2
      BY <1>0, <1>4, ReturnsIs DEF PostAgain, Request
    <2>2. Finish /\ call' \in {"none", "heartbeat"}
      BY <1>4 DEF PostAgain, Finish
    <2>3. ASSUME ~draining, event.kind = "epoch"
          PROVE  landed' \/ ~(hits' < 2)
      <3>1. hits # 0 /\ (server[key] = "none" => hits = 2)
        BY <1>0, <2>1, <2>3 DEF FaultInv
      <3>2. CASE status = 0
        BY <2>1, <3>1, <3>2
      <3>3. CASE status # 0 /\ server[key] = "none"
        BY <2>1, <3>1, <3>3
      <3>4. CASE status # 0 /\ server[key] # "none"
        BY <1>0, <2>1, <3>4, ExecuteIs
      <3> QED BY <3>2, <3>3, <3>4
    <2>4. OneFaultLosesNothing'
      BY <1>0, <2>2, <2>3, FinishLoses
    <2> QED BY <2>2, <2>4 DEF FaultsInv, FaultInv
  <1>5. CASE Heartbeat(status)
    BY <1>0, <1>5 DEF Heartbeat, FaultsInv, FaultInv, OneFaultLosesNothing
  <1> QED BY <1>2, <1>3, <1>4, <1>5

LEMMA FaultKept ==
    ASSUME Attempts > 1
    PROVE  PushInv /\ FaultsInv /\ [Next]_vars => FaultsInv'
  <1> SUFFICES ASSUME PushInv, FaultsInv, [Next]_vars PROVE FaultsInv'
    OBVIOUS
  <1>0. /\ Types /\ PlaceInv /\ EndInv /\ FaultInv /\ OneFaultLosesNothing
        /\ hits \in 0..2 /\ key \in 1..Keys /\ server \in [1..Keys -> Sessions]
    BY DEF PushInv, FaultsInv, Types, Sessions
  <1>1. CASE Take
    <2>1. /\ call' = "event" /\ draining' = stopping /\ lost' = lost
          /\ tries' = IF stopping THEN 1 ELSE Attempts
          /\ hits' = IF server[key] = "ours" THEN 0 ELSE 1
          /\ UNCHANGED <<key, server>>
      BY <1>1 DEF Take, passVars
    <2> QED BY <1>0, <2>1 DEF FaultsInv, FaultInv, OneFaultLosesNothing
  <1>2. CASE Retry
    <2>1. /\ hits' = (IF hits = 0 THEN 1 ELSE 2) /\ lost' = lost
          /\ UNCHANGED <<key, call, event, draining>>
      BY <1>2 DEF Retry, Hit, passVars
    <2> QED BY <1>0, <2>1 DEF FaultsInv, FaultInv, OneFaultLosesNothing
  <1>3. CASE \E status \in {0, 200, 404, 409} :
               PostEvent(status) \/ Register(status) \/ PostAgain(status) \/ Heartbeat(status)
    BY <1>3, FaultPosts
  <1>4. CASE \E status \in {0, 200, 409} : Start(status)
    <2>1. PICK status \in {0, 200, 409} : Start(status)
      BY <1>4
    <2>2. event' = event /\ lost' = lost /\ pc = "starting"
      BY <2>1 DEF Start
    <2>3. event.kind = "sample"
      BY <1>0, <2>2 DEF PlaceInv, Sample
    <2> QED BY <1>0, <2>2, <2>3 DEF FaultsInv, FaultInv, OneFaultLosesNothing
  <1>5. CASE EnqueueSample \/ EnqueueEpoch \/ EndSession \/ BeginStop \/ DeadlinePasses \/ Leave
             \/ UNCHANGED vars
    <2>1. UNCHANGED <<key, server, call, tries, event, draining, hits, lost>>
      BY <1>5 DEF EnqueueSample, EnqueueEpoch, EndSession, BeginStop, DeadlinePasses, Leave,
                  vars, passVars, history
    <2> QED BY <1>0, <2>1 DEF FaultsInv, FaultInv, OneFaultLosesNothing
  <1>6. CASE HeartbeatDue
    <2>1. call' = "heartbeat" /\ lost' = lost
      BY <1>6 DEF HeartbeatDue, history
    <2> QED BY <1>0, <2>1 DEF FaultsInv, FaultInv, OneFaultLosesNothing
  <1>7. CASE \E k \in 1..Keys : Forget(k)
    <2>1. PICK k \in 1..Keys : Forget(k)
      BY <1>7
    <2>2. /\ server' = [server EXCEPT ![k] = "none"] /\ lost' = lost
          /\ IF k = key /\ call # "none" THEN hits' = (IF hits = 0 THEN 1 ELSE 2) ELSE hits' = hits
          /\ UNCHANGED <<key, call, tries, event, draining>>
      BY <2>1 DEF Forget, Hit, passVars
    <2>3. CASE k = key /\ call # "none"
      <3>1. hits' # 0 /\ (hits # 0 => hits' = 2)
        BY <1>0, <2>2, <2>3
      <3> QED BY <1>0, <2>2, <3>1 DEF FaultsInv, FaultInv, OneFaultLosesNothing
    <2>4. CASE k = key /\ call = "none"
      BY <1>0, <2>2, <2>4 DEF FaultsInv, FaultInv, OneFaultLosesNothing
    <2>5. CASE k # key
      <3>1. server'[key] = server[key] /\ hits' = hits
        BY <1>0, <2>2, <2>5
      <3> QED BY <1>0, <2>2, <3>1 DEF FaultsInv, FaultInv, OneFaultLosesNothing
    <2> QED BY <2>3, <2>4, <2>5
  <1>8. CASE \E k \in 1..Keys : OtherTrainer(k)
    <2>1. PICK k \in 1..Keys : OtherTrainer(k)
      BY <1>8
    <2>2. /\ \/ server[k] \notin Live /\ server' = [server EXCEPT ![k] = "theirs"]
             \/ server[k] = "theirs" /\ server' = [server EXCEPT ![k] = "theirs ended"]
          /\ UNCHANGED <<key, call, tries, event, draining, hits, lost>>
      BY <2>1 DEF OtherTrainer, passVars, history
    <2>3. (server[key] = "ours" => server'[key] = "ours") /\ (server'[key] = "none" => server[key] = "none")
      BY <1>0, <2>2 DEF Live
    <2> QED BY <1>0, <2>2, <2>3 DEF FaultsInv, FaultInv, OneFaultLosesNothing
  <1> QED BY <1>1, <1>2, <1>3, <1>4, <1>5, <1>6, <1>7, <1>8 DEF Next, Push, Pass

-----------------------------------------------------------------------------
(* The theorems *)

\* Every step of the pass, the push thread and the server keeps the shape of the
\* state, and the queue grows past max_queue_depth_ only with events that
\* enqueue never drops.
THEOREM PushTypeCorrect == Spec => []TypeOK
  <1>1. ASSUME PushInv PROVE TypeOK
    <2>1. Types /\ LimitInv
      BY <1>1 DEF PushInv
    <2>2. DOMAIN queue = 1..Len(queue)
      <3>1. queue \in Seq(Event)
        BY <2>1 DEF Types
      <3> QED BY <3>1
    <2>3. Len(queue) > Depth => \A i \in DOMAIN queue : ~IsSample(queue[i])
      BY <2>1, <2>2 DEF LimitInv
    <2> QED BY <2>1, <2>3 DEF Types, TypeOK
  <1> QED BY <1>1, PushAlways, PTL

\* Epoch and session events leave push_loop in the order they were made and none
\* is passed over before the drain deadline, for any queue limit.
THEOREM EventsInOrder == Spec => []NothingIsPassedOver
  <1>1. ASSUME PushInv PROVE NothingIsPassedOver
    <2>1. OrderInv /\ sent \in Seq(Nat) /\ made \in 0..(MaxEpochs + 1) /\ MaxEpochs \in Nat
      BY <1>1, MetricsPushAssumption DEF PushInv, Types
    <2>2. made \in Nat
      BY ONLY <2>1
    <2>3. CASE ~cut
      BY <2>1, <2>3 DEF OrderInv, NothingIsPassedOver, All
    <2>4. CASE cut
      <3>1. PICK i \in 0..made : queue = <<>> /\ (sent = All(i) \/ sent = Append(All(i), made))
        BY <2>1, <2>4 DEF OrderInv
      <3>2. Numbers(queue) = <<>>
        <4>1. <<>> \in Seq(Event)
          OBVIOUS
        <4>2. Weighty(<<>>) = <<>>
          BY <4>1, WeightyIs
        <4> QED BY <3>1, <4>2 DEF Numbers
      <3>3. sent \o <<>> = sent
        BY <2>1
      <3>4. i \in Nat /\ i <= made
        BY <2>2
      <3>5. SubSeq(All(made), 1, i) = All(i)
        BY <2>2, <3>4 DEF All
      <3>6. Append(All(i), made) = All(i) \o <<made>>
        <4>1. All(i) \in Seq(Nat)
          BY <3>4, AllIs
        <4> QED BY <2>2, <4>1, AppendIsConcat
      <3>7. sent \o Numbers(queue) \in {SubSeq(All(made), 1, i), SubSeq(All(made), 1, i) \o <<made>>}
        BY <3>1, <3>2, <3>3, <3>5, <3>6
      <3> QED BY <2>4, <3>7 DEF NothingIsPassedOver, All
    <2> QED BY <2>3, <2>4
  <1> QED BY <1>1, PushAlways, PTL

\* However other trainers take keys, metrics land in another trainer's session
\* only after the server forgot the one the pass started.
THEOREM SessionsAreOwn == Spec => []OwnSessionOnly
  <1>1. PushInv => OwnSessionOnly
    BY DEF PushInv
  <1> QED BY <1>1, PushAlways, PTL

\* After an answered /end no session of the pass is live under its key.
THEOREM EndIsLast == Spec => []LeavesNoSession
  <1>1. PushInv => LeavesNoSession
    BY DEF PushInv
  <1> QED BY <1>1, PushAlways, PTL

\* With a second attempt (kMaxAttempts is 3), no single fault costs an epoch
\* event of a pass that trains: no lost request, lost answer or forgotten session.
THEOREM OneFaultIsSurvived ==
    ASSUME Attempts > 1
    PROVE  Spec => []OneFaultLosesNothing
  <1>1. Init => FaultsInv
    BY DEF Init, FaultsInv, FaultInv, OneFaultLosesNothing, Sample
  <1>2. PushInv /\ FaultsInv /\ [Next]_vars => FaultsInv'
    BY FaultKept
  <1>3. FaultsInv => OneFaultLosesNothing
    BY DEF FaultsInv
  <1> QED BY <1>1, <1>2, <1>3, PushAlways, PTL DEF Spec
=============================================================================
