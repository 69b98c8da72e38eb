-------------------------- MODULE EventStream_proofs --------------------------
(***************************************************************************)
(* Proofs about EventStream for every number of events, connections and    *)
(* requests, and all limits.  Events between the Core and the consumer are *)
(* in four places; Chain says of the four at once that the events in them  *)
(* follow each other, and one lemma per movement between two places shows  *)
(* that it keeps the chain.  The invariant adds where the one handshake of *)
(* a connection is, for it is what puts both ends at the same cursor.      *)
(***************************************************************************)
EXTENDS EventStream, SequenceLemmas, TLAPS, FiniteSetTheorems, SequenceTheorems

Count(messages) == EventsIn(messages, Len(messages))

-----------------------------------------------------------------------------
(* Counting events.                                                         *)

LEMMA CountType ==
    ASSUME NEW s, NEW n \in Nat
    PROVE  /\ IsFiniteSet({i \in 1..n : IsEvent(s[i])})
           /\ EventsIn(s, n) \in Nat
  <1>1. IsFiniteSet(1..n)
    BY FS_Interval
  <1>2. IsFiniteSet({i \in 1..n : IsEvent(s[i])})
    BY <1>1, FS_Subset
  <1>. QED BY <1>2, FS_CardinalityType DEF EventsIn

LEMMA CountZero ==
    ASSUME NEW s
    PROVE  EventsIn(s, 0) = 0
  BY FS_EmptySet DEF EventsIn

\* The events of t, behind s
LEMMA CountConcat ==
    ASSUME NEW M, NEW s \in Seq(M), NEW t \in Seq(M), NEW n \in 1..Len(s) + Len(t)
    PROVE  EventsIn(s \o t, n) = IF n <= Len(s) THEN EventsIn(s, n)
                                 ELSE Count(s) + EventsIn(t, n - Len(s))
  <1>1. Len(s) \in Nat /\ Len(t) \in Nat /\ Len(s \o t) = Len(s) + Len(t)
    BY ConcatProperties, LenProperties
  <1>2. \A i \in 1..Len(s) + Len(t) :
           (s \o t)[i] = IF i <= Len(s) THEN s[i] ELSE t[i - Len(s)]
    BY ConcatProperties
  <1>3. CASE n <= Len(s)
    <2>1. {i \in 1..n : IsEvent((s \o t)[i])} = {i \in 1..n : IsEvent(s[i])}
      BY <1>1, <1>2, <1>3
    <2>. QED BY <1>3, <2>1 DEF EventsIn
  <1>4. CASE ~(n <= Len(s))
    <2>. DEFINE A == {i \in 1..Len(s) : IsEvent(s[i])}
                C == {i \in 1..(n - Len(s)) : IsEvent(t[i])}
                B == {i \in (Len(s) + 1)..n : IsEvent(t[i - Len(s)])}
                f == [i \in C |-> i + Len(s)]
    <2>1. n - Len(s) \in Nat
      BY <1>1, <1>4
    <2>2. {i \in 1..n : IsEvent((s \o t)[i])} = A \cup B
      BY <1>1, <1>2, <1>4
    <2>3. A \cap B = {}
      BY <1>1
    <2>4. IsFiniteSet(A) /\ IsFiniteSet(C)
      BY <1>1, <2>1, CountType
    <2>5. f \in Bijection(C, B)
      <3>1. f \in [C -> B]
        BY <1>1, <2>1
      <3>2. \A i, j \in C : f[i] = f[j] => i = j
        BY <1>1
      <3>3. \A k \in B : \E i \in C : f[i] = k
        <4>. TAKE k \in B
        <4>1. k - Len(s) \in C
          BY <1>1, <2>1
        <4>2. f[k - Len(s)] = k
          BY <1>1, <4>1
        <4>. QED BY <4>1, <4>2
      <3>. QED BY <3>1, <3>2, <3>3 DEF Bijection, Injection, Surjection, IsInjective
    <2>6. IsFiniteSet(B) /\ Cardinality(B) = Cardinality(C)
      BY <2>4, <2>5, FS_Bijection DEF ExistsBijection
    <2>7. Cardinality(A \cup B) = Cardinality(A) + Cardinality(B)
      <3>1. Cardinality(A \cup B) = Cardinality(A) + Cardinality(B) - Cardinality(A \cap B)
        BY <2>4, <2>6, FS_Union
      <3>2. Cardinality(A) \in Nat /\ Cardinality(B) \in Nat
        BY <2>4, <2>6, FS_CardinalityType
      <3>3. Cardinality(A \cap B) = 0
        BY <2>3, FS_EmptySet
      <3>. HIDE DEF A, B
      <3>. QED BY <3>1, <3>2, <3>3
    <2>8. EventsIn(s \o t, n) = Cardinality(A \cup B)
      BY <2>2 DEF EventsIn
    <2>9. Count(s) = Cardinality(A) /\ EventsIn(t, n - Len(s)) = Cardinality(C)
      BY DEF EventsIn, Count
    <2>10. EventsIn(s \o t, n) = Count(s) + EventsIn(t, n - Len(s))
      BY <2>6, <2>7, <2>8, <2>9
    <2>. QED BY <1>4, <2>10
  <1>. QED BY <1>3, <1>4

LEMMA CountNat ==
    ASSUME NEW M, NEW s \in Seq(M)
    PROVE  Count(s) \in Nat
  BY CountType, LenProperties DEF Count

LEMMA CountOfConcat ==
    ASSUME NEW M, NEW s \in Seq(M), NEW t \in Seq(M)
    PROVE  Count(s \o t) = Count(s) + Count(t)
  <1>1. Len(s) \in Nat /\ Len(t) \in Nat /\ Len(s \o t) = Len(s) + Len(t)
    BY ConcatProperties, LenProperties
  <1>2. CASE Len(t) = 0
    <2>1. Len(s \o t) = Len(s) /\ Count(t) = 0
      BY <1>1, <1>2, CountZero DEF Count
    <2>2. Count(s) \in Nat
      BY CountNat
    <2>3. CASE Len(s) = 0
      BY <1>1, <2>1, <2>2, <2>3, CountZero DEF Count
    <2>4. CASE Len(s) # 0
      <3>1. EventsIn(s \o t, Len(s)) = EventsIn(s, Len(s))
        BY <1>1, <2>4, CountConcat
      <3>. QED BY <2>1, <2>2, <3>1 DEF Count
    <2>. QED BY <2>3, <2>4
  <1>3. CASE Len(t) # 0
    <2>1. Len(s) + Len(t) \in 1..Len(s) + Len(t)
      BY <1>1, <1>3
    <2>2. EventsIn(s \o t, Len(s) + Len(t)) = Count(s) + EventsIn(t, Len(s) + Len(t) - Len(s))
      BY <1>1, <1>3, <2>1, CountConcat
    <2>3. Len(s) + Len(t) - Len(s) = Len(t)
      BY <1>1
    <2>. QED BY <1>1, <2>2, <2>3 DEF Count
  <1>. QED BY <1>2, <1>3

\* Behind s the events of t are numbered on
LEMMA FollowsConcat ==
    ASSUME NEW M, NEW s \in Seq(M), NEW t \in Seq(M), NEW a \in Int
    PROVE  Follows(s \o t, a) <=> Follows(s, a) /\ Follows(t, a + Count(s))
  <1>1. Len(s) \in Nat /\ Len(t) \in Nat /\ Len(s \o t) = Len(s) + Len(t) /\ s \o t \in Seq(M)
    BY ConcatProperties, LenProperties
  <1>2. \A i \in 1..Len(s) + Len(t) :
           (s \o t)[i] = IF i <= Len(s) THEN s[i] ELSE t[i - Len(s)]
    BY ConcatProperties
  <1>3. DOMAIN s = 1..Len(s) /\ DOMAIN t = 1..Len(t) /\ DOMAIN (s \o t) = 1..Len(s) + Len(t)
    BY <1>1, LenProperties
  <1>4. Count(s) \in Nat /\ \A i \in Nat : EventsIn(t, i) \in Nat
    BY CountNat, CountType
  <1>5. ASSUME NEW i \in 1..Len(s)
        PROVE  /\ i \in 1..Len(s) + Len(t)
               /\ (s \o t)[i] = s[i]
               /\ EventsIn(s \o t, i) = EventsIn(s, i)
    BY <1>1, <1>2, CountConcat
  <1>6. ASSUME NEW i \in 1..Len(t)
        PROVE  /\ i + Len(s) \in 1..Len(s) + Len(t)
               /\ (s \o t)[i + Len(s)] = t[i]
               /\ EventsIn(s \o t, i + Len(s)) = Count(s) + EventsIn(t, i)
    <2>1. i + Len(s) \in 1..Len(s) + Len(t) /\ ~(i + Len(s) <= Len(s)) /\ i + Len(s) - Len(s) = i
      BY <1>1
    <2>. QED BY <1>2, <2>1, CountConcat
  <1>7. ASSUME Follows(s \o t, a)
        PROVE  Follows(s, a) /\ Follows(t, a + Count(s))
    <2>1. Follows(s, a)
      BY <1>3, <1>5, <1>7 DEF Follows
    <2>2. ASSUME NEW i \in 1..Len(t), IsEvent(t[i])
          PROVE  t[i].sequence = (a + Count(s)) + EventsIn(t, i)
      <3>1. (s \o t)[i + Len(s)].sequence = a + EventsIn(s \o t, i + Len(s))
        BY <1>3, <1>6, <1>7, <2>2 DEF Follows
      <3>2. EventsIn(t, i) \in Nat
        BY <1>1, <1>4
      <3>. QED BY <1>4, <1>6, <3>1, <3>2
    <2>. QED BY <1>3, <2>1, <2>2 DEF Follows
  <1>8. ASSUME Follows(s, a), Follows(t, a + Count(s))
        PROVE  Follows(s \o t, a)
    <2>1. ASSUME NEW k \in 1..Len(s) + Len(t), IsEvent((s \o t)[k])
          PROVE  (s \o t)[k].sequence = a + EventsIn(s \o t, k)
      <3>1. CASE k <= Len(s)
        <4>1. k \in 1..Len(s)
          BY <1>1, <3>1
        <4>. QED BY <1>3, <1>5, <1>8, <2>1, <4>1 DEF Follows
      <3>2. CASE ~(k <= Len(s))
        <4>. DEFINE i == k - Len(s)
        <4>1. i \in 1..Len(t) /\ i + Len(s) = k
          BY <1>1, <3>2
        <4>2. t[i] = (s \o t)[k] /\ EventsIn(s \o t, k) = Count(s) + EventsIn(t, i)
          BY <1>6, <4>1
        <4>3. t[i].sequence = (a + Count(s)) + EventsIn(t, i)
          BY <1>3, <1>8, <2>1, <4>1, <4>2 DEF Follows
        <4>4. EventsIn(t, i) \in Nat
          <5>1. i \in Nat
            BY <1>1, <4>1
          <5>. HIDE DEF i
          <5>. QED BY <1>4, <5>1
        <4>5. (a + Count(s)) + EventsIn(t, i) = a + (Count(s) + EventsIn(t, i))
          <5>1. Count(s) \in Nat
            BY <1>4
          <5>. HIDE DEF i
          <5>. QED BY <4>4, <5>1
        <4>. QED BY <4>2, <4>3, <4>5
      <3>. QED BY <3>1, <3>2
    <2>. QED BY <1>3, <2>1 DEF Follows
  <1>. QED BY <1>7, <1>8

LEMMA NoMessages ==
    ASSUME NEW a \in Int
    PROVE  Count(<<>>) = 0 /\ Follows(<<>>, a)
  BY CountZero DEF Count, Follows

LEMMA OneMessage ==
    ASSUME NEW M, NEW m \in M, NEW a \in Int
    PROVE  /\ Count(<<m>>) = IF IsEvent(m) THEN 1 ELSE 0
           /\ Follows(<<m>>, a) <=> (IsEvent(m) => m.sequence = a + 1)
  <1>1. Len(<<m>>) = 1 /\ <<m>>[1] = m /\ DOMAIN <<m>> = {1} /\ 1..1 = {1}
    OBVIOUS
  <1>2. CASE IsEvent(m)
    <2>1. {i \in 1..1 : IsEvent(<<m>>[i])} = {1}
      BY <1>1, <1>2
    <2>2. EventsIn(<<m>>, 1) = 1
      BY <2>1, FS_Singleton DEF EventsIn
    <2>. QED BY <1>1, <1>2, <2>2 DEF Count, Follows
  <1>3. CASE ~IsEvent(m)
    <2>1. {i \in 1..1 : IsEvent(<<m>>[i])} = {}
      BY <1>1, <1>3
    <2>2. EventsIn(<<m>>, 1) = 0
      BY <2>1, FS_EmptySet DEF EventsIn
    <2>. QED BY <1>1, <1>3, <2>2 DEF Count, Follows
  <1>. QED BY <1>2, <1>3

LEMMA AppendMessage ==
    ASSUME NEW M, NEW s \in Seq(M), NEW m \in M, NEW a \in Int
    PROVE  /\ Append(s, m) \in Seq(M)
           /\ Count(Append(s, m)) = Count(s) + (IF IsEvent(m) THEN 1 ELSE 0)
           /\ Follows(Append(s, m), a)
                 <=> Follows(s, a) /\ (IsEvent(m) => m.sequence = a + Count(s) + 1)
  <1>1. Append(s, m) = s \o <<m>> /\ <<m>> \in Seq(M) /\ Append(s, m) \in Seq(M)
    BY AppendIsConcat, AppendProperties
  <1>2. Count(s) \in Nat
    BY CountNat
  <1>3. Count(Append(s, m)) = Count(s) + Count(<<m>>)
    BY <1>1, CountOfConcat
  <1>4. Follows(Append(s, m), a) <=> Follows(s, a) /\ Follows(<<m>>, a + Count(s))
    BY <1>1, FollowsConcat
  <1>. QED BY <1>1, <1>2, <1>3, <1>4, OneMessage

LEMMA FirstMessage ==
    ASSUME NEW M, NEW s \in Seq(M), s # <<>>, NEW a \in Int
    PROVE  /\ Head(s) \in M /\ Tail(s) \in Seq(M)
           /\ Count(s) = (IF IsEvent(Head(s)) THEN 1 ELSE 0) + Count(Tail(s))
           /\ Follows(s, a) <=>
                 IF IsEvent(Head(s)) THEN Head(s).sequence = a + 1 /\ Follows(Tail(s), a + 1)
                                     ELSE Follows(Tail(s), a)
  <1>1. Head(s) \in M /\ Tail(s) \in Seq(M) /\ s = <<Head(s)>> \o Tail(s)
    BY HeadTailProperties, SMT
  <1>2. <<Head(s)>> \in Seq(M)
    BY <1>1
  <1>3. Count(s) = Count(<<Head(s)>>) + Count(Tail(s))
    BY <1>1, <1>2, CountOfConcat
  <1>4. Follows(s, a) <=> Follows(<<Head(s)>>, a) /\ Follows(Tail(s), a + Count(<<Head(s)>>))
    BY <1>1, <1>2, FollowsConcat
  <1>5. Count(<<Head(s)>>) = IF IsEvent(Head(s)) THEN 1 ELSE 0
    BY <1>1, OneMessage
  <1>6. Follows(<<Head(s)>>, a) <=> (IsEvent(Head(s)) => Head(s).sequence = a + 1)
    BY <1>1, OneMessage
  <1>7. a + 0 = a
    OBVIOUS
  <1>8. Follows(s, a) <=> IF IsEvent(Head(s)) THEN Head(s).sequence = a + 1 /\ Follows(Tail(s), a + 1)
                                             ELSE Follows(Tail(s), a)
    BY <1>4, <1>5, <1>6, <1>7
  <1>. QED BY <1>1, <1>3, <1>5, <1>8

-----------------------------------------------------------------------------
(* The four places between the Core and the consumer: the queue and the     *)
(* buffer of the client, the pipe, and the outbound queue.                  *)

Messages == [kind : {"event", "terminal"}, sequence : Int, bytes : Nat]
            \cup [kind : {"response"}, id : Int, bytes : Nat]

Chain(last, q, b, p, o) ==
    /\ Follows(q, last)
    /\ Follows(b, last + Count(q))
    /\ Follows(p, last + Count(q) + Count(b))
    /\ Follows(o, last + Count(q) + Count(b) + Count(p))

\* The last event that is under way
Reach(last, q, b, p, o) == last + Count(q) + Count(b) + Count(p) + Count(o)

LEMMA ReachType ==
    ASSUME NEW last \in Int, NEW q \in Seq(Messages), NEW b \in Seq(Messages),
           NEW p \in Seq(Messages), NEW o \in Seq(Messages)
    PROVE  Reach(last, q, b, p, o) \in Int /\ Reach(last, q, b, p, o) >= last
  <1>1. Count(q) \in Nat /\ Count(b) \in Nat /\ Count(p) \in Nat /\ Count(o) \in Nat
    BY CountNat
  <1>. QED BY <1>1 DEF Reach

LEMMA ChainNil ==
    ASSUME NEW last \in Int
    PROVE  Chain(last, <<>>, <<>>, <<>>, <<>>) /\ Reach(last, <<>>, <<>>, <<>>, <<>>) = last
  BY NoMessages DEF Chain, Reach

\* What is under way is one sequence
LEMMA ChainIsOne ==
    ASSUME NEW last \in Int, NEW q \in Seq(Messages), NEW b \in Seq(Messages),
           NEW p \in Seq(Messages), NEW o \in Seq(Messages), Chain(last, q, b, p, o)
    PROVE  Follows(q \o b \o p \o o, last) /\ last + Count(q \o b \o p \o o) = Reach(last, q, b, p, o)
  <1>1. q \o b \in Seq(Messages) /\ q \o b \o p \in Seq(Messages)
    BY ConcatProperties
  <1>2. Count(q) \in Nat /\ Count(b) \in Nat /\ Count(p) \in Nat /\ Count(o) \in Nat
    BY CountNat
  <1>3. /\ Count(q \o b) = Count(q) + Count(b)
        /\ Count(q \o b \o p) = Count(q \o b) + Count(p)
        /\ Count(q \o b \o p \o o) = Count(q \o b \o p) + Count(o)
    BY <1>1, CountOfConcat
  <1>4. Follows(q \o b, last)
    BY FollowsConcat DEF Chain
  <1>5. Follows(q \o b \o p, last)
    <2>1. last + Count(q \o b) = last + Count(q) + Count(b)
      BY <1>2, <1>3
    <2>. QED BY <1>1, <1>4, <2>1, FollowsConcat DEF Chain
  <1>6. Follows(q \o b \o p \o o, last)
    <2>1. last + Count(q \o b \o p) = last + Count(q) + Count(b) + Count(p)
      BY <1>2, <1>3
    <2>. QED BY <1>1, <1>5, <2>1, FollowsConcat DEF Chain
  <1>. QED BY <1>2, <1>3, <1>6 DEF Reach

\* A message is written
LEMMA ChainAppend ==
    ASSUME NEW last \in Int, NEW q \in Seq(Messages), NEW b \in Seq(Messages),
           NEW p \in Seq(Messages), NEW o \in Seq(Messages), Chain(last, q, b, p, o),
           NEW m \in Messages, IsEvent(m) => m.sequence = Reach(last, q, b, p, o) + 1
    PROVE  /\ Chain(last, q, b, p, Append(o, m))
           /\ Reach(last, q, b, p, Append(o, m))
                 = Reach(last, q, b, p, o) + (IF IsEvent(m) THEN 1 ELSE 0)
  <1>1. Count(q) \in Nat /\ Count(b) \in Nat /\ Count(p) \in Nat /\ Count(o) \in Nat
    BY CountNat
  <1>. DEFINE a == last + Count(q) + Count(b) + Count(p)
  <1>2. a \in Int /\ Reach(last, q, b, p, o) = a + Count(o)
    BY <1>1 DEF Reach
  <1>3. Count(Append(o, m)) = Count(o) + (IF IsEvent(m) THEN 1 ELSE 0)
    BY AppendMessage
  <1>4. Follows(Append(o, m), a) <=> Follows(o, a) /\ (IsEvent(m) => m.sequence = a + Count(o) + 1)
    BY <1>2, AppendMessage
  <1>5. Follows(Append(o, m), a)
    BY <1>2, <1>4 DEF Chain
  <1>. QED BY <1>1, <1>3, <1>5 DEF Chain, Reach

\* What was not flushed is lost, or all that the client has not read
LEMMA ChainCut ==
    ASSUME NEW last \in Int, NEW q \in Seq(Messages), NEW b \in Seq(Messages),
           NEW p \in Seq(Messages), NEW o \in Seq(Messages), Chain(last, q, b, p, o)
    PROVE  /\ Chain(last, q, b, p, <<>>) /\ Chain(last, q, b, <<>>, <<>>)
           /\ Reach(last, q, b, p, <<>>) <= Reach(last, q, b, p, o)
           /\ Reach(last, q, b, <<>>, <<>>) <= Reach(last, q, b, p, o)
  <1>1. Count(q) \in Nat /\ Count(b) \in Nat /\ Count(p) \in Nat /\ Count(o) \in Nat
    BY CountNat
  <1>2. Count(<<>>) = 0 /\ \A a \in Int : Follows(<<>>, a)
    BY NoMessages
  <1>3. /\ last + Count(q) + Count(b) \in Int
        /\ last + Count(q) + Count(b) + Count(p) \in Int
        /\ last + Count(q) + Count(b) + Count(<<>>) \in Int
    BY <1>1, <1>2
  <1>4. Chain(last, q, b, p, <<>>) /\ Chain(last, q, b, <<>>, <<>>)
    BY <1>2, <1>3 DEF Chain
  <1>. QED BY <1>1, <1>2, <1>4 DEF Reach

\* A message leaves the outbound queue for the pipe
LEMMA ChainFlush ==
    ASSUME NEW last \in Int, NEW q \in Seq(Messages), NEW b \in Seq(Messages),
           NEW p \in Seq(Messages), NEW o \in Seq(Messages), Chain(last, q, b, p, o), o # <<>>
    PROVE  /\ Chain(last, q, b, Append(p, Head(o)), Tail(o))
           /\ Reach(last, q, b, Append(p, Head(o)), Tail(o)) = Reach(last, q, b, p, o)
  <1>. DEFINE h == Head(o)
              t == Tail(o)
              one == IF IsEvent(h) THEN 1 ELSE 0
              a == last + Count(q) + Count(b)
  <1>1. h \in Messages /\ t \in Seq(Messages)
    BY HeadTailProperties
  <1>2. Count(q) \in Nat /\ Count(b) \in Nat /\ Count(p) \in Nat /\ Count(o) \in Nat /\ Count(t) \in Nat
    BY <1>1, CountNat
  <1>3. a \in Int /\ a + Count(p) \in Int
    BY <1>2
  <1>4. Count(o) = one + Count(t)
    BY FirstMessage
  <1>5. Follows(o, a + Count(p)) <=>
           IF IsEvent(h) THEN h.sequence = (a + Count(p)) + 1 /\ Follows(t, (a + Count(p)) + 1)
                         ELSE Follows(t, a + Count(p))
    BY <1>3, FirstMessage
  <1>6. Count(Append(p, h)) = Count(p) + one
    BY <1>1, AppendMessage
  <1>7. Follows(Append(p, h), a) <=> Follows(p, a) /\ (IsEvent(h) => h.sequence = a + Count(p) + 1)
    BY <1>1, <1>3, AppendMessage
  <1>8. Follows(p, a) /\ Follows(o, a + Count(p)) /\ Follows(q, last) /\ Follows(b, last + Count(q))
    BY DEF Chain
  <1>9. Follows(Append(p, h), a)
    BY <1>5, <1>7, <1>8
  <1>10. a + Count(Append(p, h)) = IF IsEvent(h) THEN (a + Count(p)) + 1 ELSE a + Count(p)
    BY <1>2, <1>6
  <1>11. Follows(t, a + Count(Append(p, h)))
    BY <1>5, <1>8, <1>10
  <1>12. Chain(last, q, b, Append(p, h), t)
    BY <1>8, <1>9, <1>11 DEF Chain
  <1>13. Reach(last, q, b, Append(p, h), t) = Reach(last, q, b, p, o)
    <2>. HIDE DEF h, t
    <2>. QED BY <1>2, <1>4, <1>6 DEF Reach
  <1>. QED BY <1>12, <1>13

\* The client reads from the pipe
LEMMA ChainReceive ==
    ASSUME NEW last \in Int, NEW q \in Seq(Messages), NEW b \in Seq(Messages),
           NEW p \in Seq(Messages), NEW o \in Seq(Messages), Chain(last, q, b, p, o),
           NEW n \in 1..Len(p)
    PROVE  /\ b \o SubSeq(p, 1, n) \in Seq(Messages) /\ SubSeq(p, n + 1, Len(p)) \in Seq(Messages)
           /\ b \o SubSeq(p, 1, n) # <<>>
           /\ Chain(last, q, b \o SubSeq(p, 1, n), SubSeq(p, n + 1, Len(p)), o)
           /\ Reach(last, q, b \o SubSeq(p, 1, n), SubSeq(p, n + 1, Len(p)), o) = Reach(last, q, b, p, o)
  <1>. DEFINE h == SubSeq(p, 1, n)
              t == SubSeq(p, n + 1, Len(p))
              a == last + Count(q) + Count(b)
  <1>1. Len(p) \in Nat /\ \A i \in 1..Len(p) : p[i] \in Messages
    BY LenProperties, ElementOfSeq
  <1>2. h \in Seq(Messages) /\ Len(h) = n
    BY <1>1, SubSeqProperties
  <1>3. t \in Seq(Messages)
    BY <1>1, SubSeqProperties
  <1>4. p = h \o t
    <2>1. n \in (1 - 1)..Len(p) /\ Len(p) \in n..Len(p) /\ 1 \in 1..(Len(p) + 1)
      BY <1>1
    <2>2. h \o t = SubSeq(p, 1, Len(p))
      BY <2>1, ConcatAdjacentSubSeq
    <2>. QED BY <2>2, SubSeqFull
  <1>5. b \o h \in Seq(Messages) /\ b \o h # <<>>
    <2>. HIDE DEF h
    <2>1. h # <<>>
      BY <1>2, EmptySeq
    <2>2. b \o h \in Seq(Messages)
      BY <1>2, ConcatProperties
    <2>3. b \o h = <<>> => h = <<>>
      BY <1>2, ConcatEqualIffEmpty
    <2>. QED BY <2>1, <2>2, <2>3
  <1>6. /\ Count(q) \in Nat /\ Count(b) \in Nat /\ Count(p) \in Nat /\ Count(o) \in Nat
        /\ Count(h) \in Nat /\ Count(t) \in Nat
    BY <1>2, <1>3, CountNat
  <1>7. Count(p) = Count(h) + Count(t) /\ Count(b \o h) = Count(b) + Count(h)
    <2>1. Count(h \o t) = Count(h) + Count(t)
      BY <1>2, <1>3, CountOfConcat
    <2>2. Count(b \o h) = Count(b) + Count(h)
      BY <1>2, CountOfConcat
    <2>. QED BY <1>4, <2>1, <2>2
  <1>8. a \in Int /\ last + Count(q) \in Int
    BY <1>6
  <1>9. Follows(h, a) /\ Follows(t, a + Count(h))
    <2>1. Follows(h \o t, a)
      BY <1>4 DEF Chain
    <2>. QED BY <1>2, <1>3, <1>8, <2>1, FollowsConcat
  <1>10. Follows(b \o h, last + Count(q))
    BY <1>2, <1>8, <1>9, FollowsConcat DEF Chain
  <1>. HIDE DEF h, t
  <1>11. /\ last + Count(q) + Count(b \o h) = a + Count(h)
         /\ last + Count(q) + Count(b \o h) + Count(t) = a + Count(p)
    BY <1>6, <1>7
  <1>12. Chain(last, q, b \o h, t, o)
    BY <1>9, <1>10, <1>11 DEF Chain
  <1>13. Reach(last, q, b \o h, t, o) = Reach(last, q, b, p, o)
    BY <1>6, <1>7 DEF Reach
  <1>. QED BY <1>2, <1>3, <1>5, <1>12, <1>13 DEF h, t

\* A line that is no event is consumed
LEMMA ChainResponse ==
    ASSUME NEW last \in Int, NEW q \in Seq(Messages), NEW b \in Seq(Messages),
           NEW p \in Seq(Messages), NEW o \in Seq(Messages), Chain(last, q, b, p, o),
           b # <<>>, ~IsEvent(Head(b))
    PROVE  /\ Chain(last, q, Tail(b), p, o)
           /\ Reach(last, q, Tail(b), p, o) = Reach(last, q, b, p, o)
  <1>1. Count(q) \in Nat
    BY CountNat
  <1>2. last + Count(q) \in Int
    BY <1>1
  <1>3. Follows(Tail(b), last + Count(q)) <=> Follows(b, last + Count(q))
    BY <1>2, FirstMessage
  <1>4. Count(Tail(b)) \in Nat /\ Count(b) = 0 + Count(Tail(b))
    BY FirstMessage, CountNat
  <1>5. Count(Tail(b)) = Count(b)
    BY <1>4
  <1>. QED BY <1>3, <1>5 DEF Chain, Reach

\* A line goes into the queue
LEMMA ChainQueue ==
    ASSUME NEW last \in Int, NEW q \in Seq(Messages), NEW b \in Seq(Messages),
           NEW p \in Seq(Messages), NEW o \in Seq(Messages), Chain(last, q, b, p, o), b # <<>>
    PROVE  /\ Chain(last, Append(q, Head(b)), Tail(b), p, o)
           /\ Reach(last, Append(q, Head(b)), Tail(b), p, o) = Reach(last, q, b, p, o)
  <1>. DEFINE h == Head(b)
              t == Tail(b)
              one == IF IsEvent(h) THEN 1 ELSE 0
  <1>1. h \in Messages /\ t \in Seq(Messages)
    BY HeadTailProperties
  <1>2. Count(q) \in Nat /\ Count(b) \in Nat /\ Count(p) \in Nat /\ Count(o) \in Nat /\ Count(t) \in Nat
    BY <1>1, CountNat
  <1>3. last + Count(q) \in Int
    BY <1>2
  <1>4. Count(b) = one + Count(t)
    BY FirstMessage
  <1>5. Follows(b, last + Count(q)) <=>
           IF IsEvent(h) THEN h.sequence = (last + Count(q)) + 1 /\ Follows(t, (last + Count(q)) + 1)
                         ELSE Follows(t, last + Count(q))
    BY <1>3, FirstMessage
  <1>6. Count(Append(q, h)) = Count(q) + one
    BY <1>1, AppendMessage
  <1>7. Follows(Append(q, h), last) <=> Follows(q, last) /\ (IsEvent(h) => h.sequence = last + Count(q) + 1)
    BY <1>1, AppendMessage
  <1>8. Follows(q, last) /\ Follows(b, last + Count(q))
    BY DEF Chain
  <1>9. Follows(Append(q, h), last)
    BY <1>5, <1>7, <1>8
  <1>10. last + Count(Append(q, h)) = IF IsEvent(h) THEN (last + Count(q)) + 1 ELSE last + Count(q)
    BY <1>2, <1>6
  <1>11. Follows(t, last + Count(Append(q, h)))
    BY <1>5, <1>8, <1>10
  <1>. HIDE DEF h, t
  <1>12. last + Count(Append(q, h)) + Count(t) = last + Count(q) + Count(b)
    BY <1>2, <1>4, <1>6
  <1>13. Chain(last, Append(q, h), t, p, o)
    BY <1>9, <1>11, <1>12 DEF Chain
  <1>14. Reach(last, Append(q, h), t, p, o) = Reach(last, q, b, p, o)
    BY <1>12 DEF Reach
  <1>. QED BY <1>13, <1>14 DEF h, t

\* The consumer is given a line, or what is queued
LEMMA ChainTake ==
    ASSUME NEW last \in Int, NEW b \in Seq(Messages),
           NEW p \in Seq(Messages), NEW o \in Seq(Messages), Chain(last, <<>>, b, p, o), b # <<>>
    PROVE  LET next == IF IsEvent(Head(b)) THEN Head(b).sequence ELSE last
           IN /\ next = IF IsEvent(Head(b)) THEN last + 1 ELSE last
              /\ Chain(next, <<>>, Tail(b), p, o)
              /\ Reach(next, <<>>, Tail(b), p, o) = Reach(last, <<>>, b, p, o)
  <1>. DEFINE h == Head(b)
              t == Tail(b)
              next == IF IsEvent(h) THEN h.sequence ELSE last
  <1>1. h \in Messages /\ t \in Seq(Messages) /\ Count(<<>>) = 0
    BY HeadTailProperties, NoMessages
  <1>2. Count(b) \in Nat /\ Count(p) \in Nat /\ Count(o) \in Nat /\ Count(t) \in Nat
    BY <1>1, CountNat
  <1>3. Count(b) = (IF IsEvent(h) THEN 1 ELSE 0) + Count(t)
    BY FirstMessage
  <1>4. Follows(b, last)
    <2>1. last + Count(<<>>) = last
      BY <1>1
    <2>. QED BY <2>1 DEF Chain
  <1>5. IF IsEvent(h) THEN h.sequence = last + 1 /\ Follows(t, last + 1) ELSE Follows(t, last)
    BY <1>4, FirstMessage
  <1>6. next = IF IsEvent(h) THEN last + 1 ELSE last
    BY <1>5
  <1>7. Follows(t, next) /\ next \in Int
    BY <1>5, <1>6
  <1>. HIDE DEF h, t, next
  <1>8. next + Count(<<>>) + Count(t) = last + Count(<<>>) + Count(b)
    <2>1. next + 0 + Count(t) = last + 0 + Count(b)
      BY <1>2, <1>3, <1>6
    <2>. QED BY <1>1, <2>1
  <1>9. next + Count(<<>>) = next
    BY <1>1, <1>7
  <1>10. Chain(next, <<>>, t, p, o)
    BY <1>7, <1>8, <1>9, NoMessages DEF Chain
  <1>11. Reach(next, <<>>, t, p, o) = Reach(last, <<>>, b, p, o)
    BY <1>8 DEF Reach
  <1>. QED BY <1>6, <1>10, <1>11 DEF h, t, next

LEMMA ChainNext ==
    ASSUME NEW last \in Int, NEW q \in Seq(Messages), NEW b \in Seq(Messages),
           NEW p \in Seq(Messages), NEW o \in Seq(Messages), Chain(last, q, b, p, o), q # <<>>
    PROVE  LET next == IF IsEvent(Head(q)) THEN Head(q).sequence ELSE last
           IN /\ next = IF IsEvent(Head(q)) THEN last + 1 ELSE last
              /\ Chain(next, Tail(q), b, p, o)
              /\ Reach(next, Tail(q), b, p, o) = Reach(last, q, b, p, o)
  <1>. DEFINE h == Head(q)
              t == Tail(q)
              next == IF IsEvent(h) THEN h.sequence ELSE last
  <1>1. h \in Messages /\ t \in Seq(Messages)
    BY HeadTailProperties
  <1>2. Count(q) \in Nat /\ Count(t) \in Nat
    BY <1>1, CountNat
  <1>3. Count(q) = (IF IsEvent(h) THEN 1 ELSE 0) + Count(t)
    BY FirstMessage
  <1>4. Follows(q, last)
    BY DEF Chain
  <1>5. IF IsEvent(h) THEN h.sequence = last + 1 /\ Follows(t, last + 1) ELSE Follows(t, last)
    BY <1>4, FirstMessage
  <1>6. next = IF IsEvent(h) THEN last + 1 ELSE last
    BY <1>5
  <1>7. Follows(t, next) /\ next \in Int
    BY <1>5, <1>6
  <1>. HIDE DEF h, t
  <1>8. next + Count(t) = last + Count(q)
    BY <1>2, <1>3, <1>6
  <1>. HIDE DEF next
  <1>9. Chain(next, t, b, p, o)
    BY <1>7, <1>8 DEF Chain
  <1>10. Reach(next, t, b, p, o) = Reach(last, q, b, p, o)
    BY <1>8 DEF Reach
  <1>. QED BY <1>6, <1>9, <1>10 DEF h, t, next

-----------------------------------------------------------------------------
(* The inductive invariant.                                                 *)

Requests == [id : Int, after : {LiveOnly} \cup Nat]

ConnectionType ==
    [socket : {"open", "ended", "destroyed", "closed"}, accepting : BOOLEAN, closing : BOOLEAN,
     after : Nat, subscribed : BOOLEAN, terminal : BOOLEAN, outbound : Seq(Messages),
     inbound : Seq(Requests), step : {"idle", "answering", "replaying"}]
ClientType ==
    [state : {"connecting", "open", "closed"}, failed : BOOLEAN, buffer : Seq(Messages),
     queue : Seq(Messages), waiting : BOOLEAN, paused : BOOLEAN, consuming : BOOLEAN,
     pending : SUBSET Int, writes : Seq(Requests), sent : SUBSET Int, beats : Nat, number : Nat]

TypesOK ==
    /\ log \in Seq(EventSizes)
    /\ conn \in ConnectionType
    /\ pipe \in Seq(Messages)
    /\ client \in ClientType
    /\ seen \in Int /\ NotBegun <= seen /\ seen <= Committed

\* A client that is not connected is at rest; one that is in its loop has a line left; a
\* consumer waits only when nothing is queued.
ClientOK ==
    /\ ~Connected => /\ client.queue = <<>> /\ client.buffer = <<>> /\ client.writes = <<>>
                     /\ ~client.consuming /\ ~client.waiting
    /\ client.consuming => client.buffer # <<>>
    /\ client.waiting => client.queue = <<>>

Begins(request) == request.id = Handshake
CanStart(request) == request.after = seen \/ (seen = NotBegun /\ request.after = 0)

\* Only the first request may be the handshake
FirstOnly(requests) == \A i \in DOMAIN requests : i # 1 => ~Begins(requests[i])
StartsWith(requests) == requests # <<>> /\ Begins(Head(requests))
Alone(requests) == requests # <<>> => Begins(Head(requests)) /\ Tail(requests) = <<>>

\* Where the one handshake of a connection is, and what is not yet so before its answer
HandshakeOK ==
    /\ FirstOnly(conn.inbound) /\ FirstOnly(client.writes)
    /\ StartsWith(client.writes) =>
          conn.inbound = <<>> /\ CanStart(Head(client.writes)) /\ ~conn.subscribed /\ ~conn.terminal
    /\ StartsWith(conn.inbound) =>
          /\ conn.step = "idle" => CanStart(Head(conn.inbound))
          /\ conn.step # "replaying" => ~conn.subscribed /\ ~conn.terminal
    /\ conn.step # "idle" => conn.inbound # <<>>
    /\ conn.step = "replaying" => StartsWith(conn.inbound) /\ (conn.subscribed \/ conn.terminal)
    /\ conn.terminal => ~conn.subscribed
    /\ conn.socket \in {"destroyed", "closed"} => conn.outbound = <<>>

NotStarted ==
    \/ StartsWith(client.writes)
    \/ StartsWith(conn.inbound) /\ conn.step = "idle"

\* A connection whose handshake the Core has not read, and never will if it was dropped
Ahead ==
    /\ client.state = "connecting" /\ Handshake \in client.pending
    /\ client.queue = <<>> /\ client.buffer = <<>> /\ pipe = <<>> /\ conn.outbound = <<>>
    /\ conn.step = "idle" /\ ~conn.subscribed
    /\ Alone(conn.inbound) /\ Alone(client.writes)

\* A connection whose handshake was read
Streams ==
    /\ Chain(seen, client.queue, client.buffer, pipe, conn.outbound)
    /\ Reach(seen, client.queue, client.buffer, pipe, conn.outbound) <= Committed
    /\ conn.socket \in {"open", "ended"} =>
          conn.after = Reach(seen, client.queue, client.buffer, pipe, conn.outbound)
    /\ conn.subscribed /\ conn.socket = "open" /\ conn.step # "replaying" => conn.after = Committed

Following == seen # NotBegun /\ ~NotStarted /\ Streams

StreamInv == TypesOK /\ ClientOK /\ HandshakeOK /\ (Connected => Ahead \/ Following)

LEMMA RestOfRequests ==
    ASSUME NEW s \in Seq(Requests), s # <<>>, FirstOnly(s)
    PROVE  /\ Head(s) \in Requests /\ Tail(s) \in Seq(Requests)
           /\ FirstOnly(Tail(s)) /\ ~StartsWith(Tail(s))
  <1>1. /\ Head(s) \in Requests /\ Tail(s) \in Seq(Requests) /\ Len(Tail(s)) = Len(s) - 1
        /\ \A i \in 1..Len(Tail(s)) : Tail(s)[i] = s[i + 1]
    BY HeadTailProperties
  <1>2. Len(s) \in Nat /\ DOMAIN s = 1..Len(s) /\ DOMAIN Tail(s) = 1..Len(Tail(s))
    BY <1>1, LenProperties
  <1>3. \A i \in DOMAIN Tail(s) : ~Begins(Tail(s)[i])
    BY <1>1, <1>2 DEF FirstOnly
  <1>4. ~StartsWith(Tail(s))
    <2>1. SUFFICES ASSUME Tail(s) # <<>> PROVE ~Begins(Head(Tail(s)))
      BY DEF StartsWith
    <2>2. Len(Tail(s)) \in Nat \ {0}
      BY <1>1, <2>1, EmptySeq
    <2>3. 1 \in DOMAIN Tail(s) /\ Head(Tail(s)) = Tail(s)[1]
      BY <1>2, <2>2
    <2>. QED BY <1>3, <2>3
  <1>. QED BY <1>1, <1>3, <1>4 DEF FirstOnly

LEMMA OneMoreRequest ==
    ASSUME NEW s \in Seq(Requests), FirstOnly(s), NEW r \in Requests, s = <<>> \/ ~Begins(r)
    PROVE  /\ Append(s, r) \in Seq(Requests) /\ FirstOnly(Append(s, r)) /\ Append(s, r) # <<>>
           /\ Head(Append(s, r)) = IF s = <<>> THEN r ELSE Head(s)
           /\ s = <<>> => Tail(Append(s, r)) = <<>>
  <1>1. /\ Append(s, r) \in Seq(Requests) /\ Append(s, r) # <<>> /\ Len(Append(s, r)) = Len(s) + 1
        /\ \A i \in 1..Len(s) : Append(s, r)[i] = s[i]
        /\ Append(s, r)[Len(s) + 1] = r
    BY AppendProperties
  <1>2. Len(s) \in Nat /\ DOMAIN s = 1..Len(s) /\ DOMAIN Append(s, r) = 1..(Len(s) + 1)
    BY <1>1, LenProperties
  <1>3. s = <<>> <=> Len(s) = 0
    BY EmptySeq, <1>2
  <1>4. FirstOnly(Append(s, r))
    <2>1. ASSUME NEW i \in 1..(Len(s) + 1), i # 1 PROVE ~Begins(Append(s, r)[i])
      <3>1. CASE i \in 1..Len(s)
        BY <1>1, <1>2, <2>1, <3>1 DEF FirstOnly
      <3>2. CASE i = Len(s) + 1
        BY <1>1, <1>2, <1>3, <2>1, <3>2
      <3>. QED BY <1>2, <3>1, <3>2
    <2>. QED BY <1>2, <2>1 DEF FirstOnly
  <1>5. Head(Append(s, r)) = Append(s, r)[1]
    BY <1>1, <1>2
  <1>6. Head(Append(s, r)) = IF s = <<>> THEN r ELSE Head(s)
    <2>1. CASE s = <<>>
      BY <1>1, <1>3, <1>5, <2>1
    <2>2. CASE s # <<>>
      <3>1. 1 \in 1..Len(s) /\ Head(s) = s[1]
        BY <1>2, <1>3, <2>2
      <3>. QED BY <1>1, <1>5, <2>2, <3>1
    <2>. QED BY <2>1, <2>2
  <1>7. s = <<>> => Tail(Append(s, r)) = <<>>
    <2>1. SUFFICES ASSUME s = <<>> PROVE Tail(Append(s, r)) = <<>>
      OBVIOUS
    <2>2. Tail(Append(s, r)) \in Seq(Requests) /\ Len(Tail(Append(s, r))) = 0
      BY <1>1, <1>2, <1>3, <2>1, HeadTailProperties
    <2>. QED BY <2>2, EmptySeq
  <1>. QED BY <1>1, <1>4, <1>6, <1>7

LEMMA NoRequests == <<>> \in Seq(Requests) /\ FirstOnly(<<>>) /\ ~StartsWith(<<>>)
  BY DEF FirstOnly, StartsWith

\* What #send does: nothing, lose the connection, or queue the message
LEMMA SentCases ==
    ASSUME TypesOK, NEW m
    PROVE  \/ conn.socket \in {"destroyed", "closed"} /\ Sent(conn, m) = conn
           \/ Sent(conn, m) = Destroyed(conn)
           \/ conn.socket = "open" /\ Sent(conn, m) = [conn EXCEPT !.outbound = Append(conn.outbound, m)]
  BY DEF TypesOK, ConnectionType, ClientType, Sent

LEMMA ForwardedCases ==
    ASSUME TypesOK, NEW n, NEW bytes
    PROVE  LET r == Forwarded(conn, n, bytes)
           IN \/ (conn.terminal \/ n <= conn.after \/ conn.socket \in {"destroyed", "closed"}) /\ r = conn
              \/ r = Destroyed(conn)
              \/ /\ conn.socket = "open" /\ ~conn.terminal /\ ~(n <= conn.after)
                 /\ r = [conn EXCEPT !.outbound = Append(conn.outbound, Event(n, bytes)), !.after = n]
              \/ /\ conn.socket \in {"open", "ended"} /\ ~conn.terminal
                 /\ r = [conn EXCEPT !.accepting = FALSE, !.terminal = TRUE, !.subscribed = FALSE,
                                     !.outbound = Append(conn.outbound, StreamError(n))]
  <1>. DEFINE s == Sent(conn, Event(n, bytes))
  <1>1. CASE conn.terminal \/ n <= conn.after
    BY <1>1 DEF Forwarded
  <1>2. CASE ~(conn.terminal \/ n <= conn.after) /\ bytes > OutboundLimit
    BY <1>2 DEF Forwarded, Terminated, TypesOK, ConnectionType, ClientType, StopReading
  <1>3. CASE ~(conn.terminal \/ n <= conn.after) /\ ~(bytes > OutboundLimit)
    <2>1. Forwarded(conn, n, bytes) = IF s.socket = "open" THEN [s EXCEPT !.after = n] ELSE s
      BY <1>3 DEF Forwarded
    <2>2. CASE conn.socket \in {"destroyed", "closed"} /\ s = conn
      BY <2>1, <2>2
    <2>3. CASE s = Destroyed(conn)
      <3>1. s.socket = "destroyed"
        BY <2>3 DEF Destroyed, StopReading, TypesOK, ConnectionType, ClientType
      <3>. QED BY <2>1, <2>3, <3>1
    <2>4. CASE conn.socket = "open" /\ s = [conn EXCEPT !.outbound = Append(conn.outbound, Event(n, bytes))]
      BY <1>3, <2>1, <2>4 DEF TypesOK, ConnectionType, ClientType
    <2>. QED BY <2>2, <2>3, <2>4, SentCases
  <1>. QED BY <1>1, <1>2, <1>3

\* The next row of listEvents
LEMMA NextRow ==
    ASSUME StreamAssumption, TypesOK
    PROVE  /\ Committed \in Nat
           /\ ListEvents(conn.after) = <<>> <=> conn.after >= Committed
           /\ ListEvents(conn.after) # <<>> => Head(ListEvents(conn.after)) \in Nat
  <1>1. Committed \in Nat /\ conn.after \in Nat /\ log \in Seq(EventSizes)
    BY LenProperties DEF TypesOK, ConnectionType, ClientType, Committed
  <1>2. \A i \in (conn.after + 1)..Committed : log[i] \in EventSizes
    BY <1>1, ElementOfSeq DEF Committed
  <1>3. /\ ListEvents(conn.after) \in Seq(EventSizes)
        /\ Len(ListEvents(conn.after))
              = IF conn.after + 1 <= Committed THEN Committed - (conn.after + 1) + 1 ELSE 0
    BY <1>1, <1>2, SubSeqProperties DEF ListEvents
  <1>4. ListEvents(conn.after) = <<>> <=> Len(ListEvents(conn.after)) = 0
    BY <1>3, EmptySeq
  <1>5. ListEvents(conn.after) = <<>> <=> conn.after >= Committed
    BY <1>1, <1>3, <1>4
  <1>6. ASSUME ListEvents(conn.after) # <<>>
        PROVE  Head(ListEvents(conn.after)) \in Nat
    <2>1. Head(ListEvents(conn.after)) \in EventSizes
      BY <1>3, <1>6, HeadTailProperties
    <2>. QED BY <2>1 DEF StreamAssumption
  <1>. QED BY <1>1, <1>5, <1>6

-----------------------------------------------------------------------------
(* Every action preserves the invariant: the client and its requests.       *)

LEMMA InitStream == ASSUME StreamAssumption, Init PROVE StreamInv
  <1>1. <<>> \in Seq(Messages) /\ <<>> \in Seq(Requests)
    BY EmptySeq
  <1>2. TypesOK
    <2>1. log \in Seq(EventSizes)
      <3>1. CASE log = <<>>
        BY <3>1, EmptySeq
      <3>2. ASSUME NEW s \in EventSizes, log = <<s>> PROVE log \in Seq(EventSizes)
        BY <3>2
      <3>. QED BY <3>1, <3>2 DEF Init
    <2>2. seen = -1 /\ Committed \in Nat
      BY <2>1, LenProperties DEF Init, NotBegun, Committed
    <2>. QED BY <1>1, <2>1, <2>2 DEF Init, TypesOK, ConnectionType, ClientType, NoConnection, NoClient, NotBegun
  <1>3. ClientOK
    BY DEF Init, NoClient, ClientOK, Connected
  <1>4. HandshakeOK
    BY NoRequests DEF Init, NoConnection, NoClient, HandshakeOK
  <1>5. ~Connected
    BY DEF Init, NoClient, Connected
  <1>. QED BY <1>2, <1>3, <1>4, <1>5 DEF StreamInv

LEMMA OverStep == ASSUME StreamInv, NEW failed \in BOOLEAN, Over(failed) PROVE StreamInv'
  <1>1. <<>> \in Seq(Messages) /\ <<>> \in Seq(Requests)
    BY EmptySeq
  <1>2. /\ log' = log /\ conn' = conn /\ pipe' = pipe /\ seen' = seen
        /\ client' = [NoClient EXCEPT !.number = client.number, !.failed = failed]
    BY DEF Over
  <1>3. TypesOK'
    BY <1>1, <1>2 DEF StreamInv, TypesOK, ClientType, NoClient, Committed
  <1>4. ClientOK' /\ ~Connected'
    BY <1>2 DEF NoClient, ClientOK, Connected
  <1>5. HandshakeOK'
    BY <1>2, NoRequests DEF StreamInv, HandshakeOK, NoClient, CanStart
  <1>. QED BY <1>3, <1>4, <1>5 DEF StreamInv

LEMMA ConnectStep ==
    ASSUME StreamInv, NEW after, Connect(after),
           after \in IF seen = NotBegun THEN {0, LiveOnly} ELSE {seen}
    PROVE  StreamInv'
  <1>. DEFINE r == [id |-> Handshake, after |-> after]
  <1>1. <<>> \in Seq(Messages) /\ <<>> \in Seq(Requests)
    BY EmptySeq
  <1>2. /\ log' = log /\ pipe' = <<>> /\ seen' = seen
        /\ client' = [NoClient EXCEPT !.state = "connecting", !.number = client.number + 1,
                                      !.pending = {Handshake}, !.writes = <<r>>]
        /\ conn' = [NoConnection EXCEPT !.socket = "open", !.accepting = TRUE]
    BY DEF Connect
  <1>3. r \in Requests /\ Begins(r) /\ (r.after = seen \/ (seen = NotBegun /\ r.after = 0))
    BY DEF Requests, Begins, Handshake, LiveOnly, NotBegun, StreamInv, TypesOK, ConnectionType, ClientType
  <1>4. <<r>> = Append(<<>>, r)
    OBVIOUS
  <1>. HIDE DEF r
  <1>5. /\ <<r>> \in Seq(Requests) /\ FirstOnly(<<r>>) /\ <<r>> # <<>>
        /\ Head(<<r>>) = r /\ Tail(<<r>>) = <<>>
    BY <1>3, <1>4, NoRequests, OneMoreRequest
  <1>6. TypesOK'
    <2>1. conn' \in ConnectionType
      BY <1>1, <1>2 DEF NoConnection, ConnectionType
    <2>2. client' \in ClientType
      <3>1. client.number + 1 \in Nat /\ {Handshake} \in SUBSET Int
        BY DEF StreamInv, TypesOK, ConnectionType, ClientType, Handshake
      <3>. QED BY <1>1, <1>2, <1>5, <3>1 DEF NoClient, ClientType
    <2>. QED BY <1>1, <1>2, <2>1, <2>2 DEF StreamInv, TypesOK, Committed
  <1>7. ClientOK'
    BY <1>2 DEF NoClient, ClientOK, Connected
  <1>8. HandshakeOK'
    BY <1>2, <1>3, <1>5, NoRequests DEF HandshakeOK, NoClient, NoConnection, CanStart, StartsWith
  <1>9. Ahead'
    BY <1>2, <1>3, <1>5 DEF Ahead, NoClient, NoConnection, Alone
  <1>. QED BY <1>6, <1>7, <1>8, <1>9 DEF StreamInv

\* A request or a heartbeat is written
LEMMA WritesStep ==
    ASSUME StreamInv, client.state = "open", NEW r \in Requests, ~Begins(r),
           UNCHANGED <<log, conn, pipe, seen>>,
           client'.writes = Append(client.writes, r),
           client'.state = client.state, client'.buffer = client.buffer,
           client'.queue = client.queue, client'.waiting = client.waiting,
           client'.consuming = client.consuming, TypesOK'
    PROVE  StreamInv'
  <1>1. client.writes \in Seq(Requests) /\ FirstOnly(client.writes)
    BY DEF StreamInv, TypesOK, ConnectionType, ClientType, HandshakeOK
  <1>2. /\ FirstOnly(client'.writes) /\ client'.writes # <<>>
        /\ Head(client'.writes) = IF client.writes = <<>> THEN r ELSE Head(client.writes)
    BY <1>1, OneMoreRequest
  <1>3. StartsWith(client'.writes) <=> StartsWith(client.writes)
    BY <1>2 DEF StartsWith
  <1>4. ClientOK'
    BY DEF StreamInv, ClientOK, Connected
  <1>5. HandshakeOK'
    BY <1>2, <1>3 DEF StreamInv, HandshakeOK, CanStart, StartsWith
  <1>6. Following
    BY DEF StreamInv, Ahead, Connected
  <1>7. Following'
    BY <1>3, <1>6 DEF Following, NotStarted, Streams, Committed
  <1>. QED BY <1>4, <1>5, <1>7 DEF StreamInv

LEMMA RequestStep == ASSUME StreamInv, NEW id \in Ids, Request(id) PROVE StreamInv'
  <1>. DEFINE r == [id |-> id, after |-> 0]
  <1>1. /\ client.state = "open" /\ UNCHANGED <<log, conn, pipe, seen>>
        /\ client' = [client EXCEPT !.pending = client.pending \cup {id},
                                    !.sent = client.sent \cup {id},
                                    !.writes = Append(client.writes, r)]
    BY DEF Request
  <1>2. r \in Requests /\ ~Begins(r) /\ id \in Int
    BY DEF Ids, Requests, Begins, Handshake
  <1>. HIDE DEF r
  <1>3. Append(client.writes, r) \in Seq(Requests)
    BY <1>2, AppendProperties DEF StreamInv, TypesOK, ConnectionType, ClientType
  <1>4. TypesOK'
    <2>1. client.pending \cup {id} \in SUBSET Int /\ client.sent \cup {id} \in SUBSET Int
      BY <1>2 DEF StreamInv, TypesOK, ConnectionType, ClientType
    <2>2. client' \in ClientType
      BY <1>1, <1>3, <2>1 DEF StreamInv, TypesOK, ClientType
    <2>. QED BY <1>1, <2>2 DEF StreamInv, TypesOK, Committed
  <1>5. /\ client'.writes = Append(client.writes, r)
        /\ client'.state = client.state /\ client'.buffer = client.buffer
        /\ client'.queue = client.queue /\ client'.waiting = client.waiting
        /\ client'.consuming = client.consuming
    BY <1>1 DEF StreamInv, TypesOK, ConnectionType, ClientType
  <1>. QED BY <1>1, <1>2, <1>4, <1>5, WritesStep

LEMMA BeatStep == ASSUME StreamInv, Beat PROVE StreamInv'
  <1>. DEFINE r == [id |-> Heartbeat, after |-> 0]
  <1>1. /\ client.state = "open" /\ UNCHANGED <<log, conn, pipe, seen>>
        /\ client' = [client EXCEPT !.beats = client.beats + 1,
                                    !.writes = Append(client.writes, r)]
    BY DEF Beat
  <1>2. r \in Requests /\ ~Begins(r)
    BY DEF Requests, Begins, Handshake, Heartbeat
  <1>. HIDE DEF r
  <1>3. Append(client.writes, r) \in Seq(Requests)
    BY <1>2, AppendProperties DEF StreamInv, TypesOK, ConnectionType, ClientType
  <1>4. TypesOK'
    <2>1. client.beats + 1 \in Nat
      BY DEF StreamInv, TypesOK, ClientType
    <2>2. client' \in ClientType
      BY <1>1, <1>3, <2>1 DEF StreamInv, TypesOK, ClientType
    <2>. QED BY <1>1, <2>2 DEF StreamInv, TypesOK, Committed
  <1>5. /\ client'.writes = Append(client.writes, r)
        /\ client'.state = client.state /\ client'.buffer = client.buffer
        /\ client'.queue = client.queue /\ client'.waiting = client.waiting
        /\ client'.consuming = client.consuming
    BY <1>1 DEF StreamInv, TypesOK, ConnectionType, ClientType
  <1>. QED BY <1>1, <1>2, <1>4, <1>5, WritesStep

LEMMA WriteLineStep == ASSUME StreamInv, WriteLine PROVE StreamInv'
  <1>. DEFINE r == Head(client.writes)
  <1>1. /\ Connected /\ client.writes # <<>> /\ UNCHANGED <<log, pipe, seen>>
        /\ client' = [client EXCEPT !.writes = Tail(client.writes)]
        /\ \/ conn' = conn
           \/ conn' = Destroyed(conn)
           \/ conn' = [conn EXCEPT !.inbound = Append(conn.inbound, r)]
    BY DEF WriteLine
  <1>2. /\ client.writes \in Seq(Requests) /\ FirstOnly(client.writes)
        /\ conn.inbound \in Seq(Requests) /\ FirstOnly(conn.inbound)
    BY DEF StreamInv, TypesOK, ConnectionType, ClientType, HandshakeOK
  <1>3. /\ r \in Requests /\ Tail(client.writes) \in Seq(Requests)
        /\ FirstOnly(Tail(client.writes)) /\ ~StartsWith(Tail(client.writes))
    BY <1>1, <1>2, RestOfRequests
  <1>4. StartsWith(client.writes) <=> Begins(r)
    BY <1>1 DEF StartsWith
  <1>5. conn.inbound = <<>> \/ ~Begins(r)
    BY <1>4 DEF StreamInv, HandshakeOK
  <1>6. LET i == Append(conn.inbound, r)
        IN /\ i \in Seq(Requests) /\ FirstOnly(i) /\ i # <<>>
           /\ Head(i) = IF conn.inbound = <<>> THEN r ELSE Head(conn.inbound)
           /\ conn.inbound = <<>> => Tail(i) = <<>>
    BY <1>2, <1>3, <1>5, OneMoreRequest
  <1>. HIDE DEF r
  <1>7. /\ client'.writes = Tail(client.writes)
        /\ client'.state = client.state /\ client'.buffer = client.buffer
        /\ client'.queue = client.queue /\ client'.waiting = client.waiting
        /\ client'.consuming = client.consuming /\ client'.pending = client.pending
    BY <1>1 DEF StreamInv, TypesOK, ConnectionType, ClientType
  <1>8. TypesOK'
    <2>1. client' \in ClientType
      BY <1>1, <1>3 DEF StreamInv, TypesOK, ClientType
    <2>2. <<>> \in Seq(Messages)
      BY EmptySeq
    <2>3. conn' \in ConnectionType
      BY <1>1, <1>6, <2>2 DEF StreamInv, TypesOK, ConnectionType, Destroyed, StopReading
    <2>. QED BY <1>1, <2>1, <2>3 DEF StreamInv, TypesOK, Committed
  <1>9. ClientOK'
    BY <1>1, <1>7, EmptySeq DEF StreamInv, ClientOK, Connected
  <1>10. CASE conn' = conn
    <2>1. HandshakeOK'
      BY <1>1, <1>3, <1>7, <1>10 DEF StreamInv, HandshakeOK, CanStart
    <2>2. CASE Ahead
      <3>1. Tail(client.writes) = <<>>
        BY <1>1, <2>2 DEF Ahead, Alone
      <3>2. Ahead'
        BY <1>1, <1>7, <1>10, <2>2, <3>1 DEF Ahead, Alone
      <3>. QED BY <1>8, <1>9, <2>1, <3>2 DEF StreamInv
    <2>3. CASE Following
      <3>1. Following'
        BY <1>1, <1>3, <1>7, <1>10, <2>3 DEF Following, NotStarted, Streams, Committed
      <3>. QED BY <1>8, <1>9, <2>1, <3>1 DEF StreamInv
    <2>. QED BY <1>1, <2>2, <2>3 DEF StreamInv
  <1>11. CASE conn' = Destroyed(conn)
    <2>1. /\ conn'.socket = "destroyed" /\ conn'.outbound = <<>> /\ conn'.inbound = conn.inbound
          /\ conn'.step = conn.step /\ conn'.subscribed = conn.subscribed
          /\ conn'.terminal = conn.terminal /\ conn'.after = conn.after
      BY <1>11 DEF Destroyed, StopReading, StreamInv, TypesOK, ConnectionType, ClientType
    <2>2. HandshakeOK'
      BY <1>1, <1>3, <1>7, <2>1 DEF StreamInv, HandshakeOK, CanStart
    <2>3. CASE Ahead
      <3>1. Tail(client.writes) = <<>>
        BY <1>1, <2>3 DEF Ahead, Alone
      <3>2. Ahead'
        BY <1>1, <1>7, <2>1, <2>3, <3>1 DEF Ahead, Alone
      <3>. QED BY <1>8, <1>9, <2>2, <3>2 DEF StreamInv
    <2>4. CASE Following
      <3>1. /\ Chain(seen, client.queue, client.buffer, pipe, <<>>)
            /\ Reach(seen, client.queue, client.buffer, pipe, <<>>) <= Committed
        <4>1. /\ seen \in Int /\ client.queue \in Seq(Messages) /\ client.buffer \in Seq(Messages)
              /\ pipe \in Seq(Messages) /\ conn.outbound \in Seq(Messages)
              /\ <<>> \in Seq(Messages) /\ Committed \in Int
          BY EmptySeq, LenProperties DEF StreamInv, TypesOK, ConnectionType, ClientType, Committed
        <4>2. /\ Chain(seen, client.queue, client.buffer, pipe, conn.outbound)
              /\ Reach(seen, client.queue, client.buffer, pipe, conn.outbound) <= Committed
          BY <2>4 DEF Following, Streams
        <4>3. /\ Chain(seen, client.queue, client.buffer, pipe, <<>>)
              /\ Reach(seen, client.queue, client.buffer, pipe, <<>>)
                    <= Reach(seen, client.queue, client.buffer, pipe, conn.outbound)
          BY <4>1, <4>2, ChainCut
        <4>4. /\ Reach(seen, client.queue, client.buffer, pipe, <<>>) \in Int
              /\ Reach(seen, client.queue, client.buffer, pipe, conn.outbound) \in Int
          BY <4>1, ReachType
        <4>. QED BY <4>1, <4>2, <4>3, <4>4
      <3>2. Following'
        BY <1>1, <1>3, <1>7, <2>1, <2>4, <3>1 DEF Following, NotStarted, Streams, Committed
      <3>. QED BY <1>8, <1>9, <2>2, <3>2 DEF StreamInv
    <2>. QED BY <1>1, <2>3, <2>4 DEF StreamInv
  <1>12. CASE conn' = [conn EXCEPT !.inbound = Append(conn.inbound, r)]
    <2>1. /\ conn'.inbound = Append(conn.inbound, r)
          /\ conn'.socket = conn.socket /\ conn'.outbound = conn.outbound
          /\ conn'.step = conn.step /\ conn'.subscribed = conn.subscribed
          /\ conn'.terminal = conn.terminal /\ conn'.after = conn.after
      BY <1>12 DEF StreamInv, TypesOK, ConnectionType, ClientType
    <2>2. StartsWith(conn'.inbound) <=> IF conn.inbound = <<>> THEN Begins(r) ELSE StartsWith(conn.inbound)
      BY <1>6, <2>1 DEF StartsWith
    <2>3. HandshakeOK'
      <3>1. CASE conn.inbound = <<>>
        <4>1. Head(conn'.inbound) = r /\ conn.step = "idle"
          BY <1>6, <2>1, <3>1 DEF StreamInv, HandshakeOK
        <4>2. Begins(r) => CanStart(r) /\ ~conn.subscribed /\ ~conn.terminal
          BY <1>4 DEF StreamInv, HandshakeOK, r
        <4>. QED BY <1>1, <1>3, <1>6, <1>7, <2>1, <2>2, <3>1, <4>1, <4>2
                 DEF StreamInv, HandshakeOK, CanStart
      <3>2. CASE conn.inbound # <<>>
        <4>1. Head(conn'.inbound) = Head(conn.inbound)
          BY <1>6, <2>1, <3>2
        <4>. QED BY <1>1, <1>3, <1>6, <1>7, <2>1, <2>2, <3>2, <4>1
                 DEF StreamInv, HandshakeOK, CanStart
      <3>. QED BY <3>1, <3>2
    <2>4. CASE Ahead
      <3>1. Tail(client.writes) = <<>> /\ Begins(r) /\ conn.inbound = <<>>
        BY <1>1, <1>5, <2>4 DEF Ahead, Alone, r
      <3>2. Alone(conn'.inbound)
        BY <1>6, <2>1, <3>1 DEF Alone
      <3>3. Ahead'
        BY <1>1, <1>7, <2>1, <2>4, <3>1, <3>2 DEF Ahead, Alone
      <3>. QED BY <1>8, <1>9, <2>3, <3>3 DEF StreamInv
    <2>5. CASE Following
      <3>1. ~Begins(r)
        BY <1>4, <2>5 DEF Following, NotStarted
      <3>2. ~NotStarted'
        <4>1. conn.inbound = <<>> => ~StartsWith(conn'.inbound)
          BY <2>2, <3>1
        <4>2. conn.inbound # <<>> => (StartsWith(conn'.inbound) <=> StartsWith(conn.inbound))
          BY <2>2
        <4>. QED BY <1>3, <1>7, <2>1, <2>5, <4>1, <4>2 DEF Following, NotStarted
      <3>3. Following'
        BY <1>1, <1>7, <2>1, <2>5, <3>2 DEF Following, Streams, Committed
      <3>. QED BY <1>8, <1>9, <2>3, <3>3 DEF StreamInv
    <2>. QED BY <1>1, <2>4, <2>5 DEF StreamInv
  <1>. QED BY <1>1, <1>10, <1>11, <1>12

-----------------------------------------------------------------------------
(* The Core and the pipe.                                                   *)

LEMMA Sorts ==
    ASSUME TypesOK
    PROVE  /\ seen \in Int /\ Committed \in Nat /\ conn.after \in Nat
           /\ client.queue \in Seq(Messages) /\ client.buffer \in Seq(Messages)
           /\ pipe \in Seq(Messages) /\ conn.outbound \in Seq(Messages)
           /\ conn.inbound \in Seq(Requests) /\ client.writes \in Seq(Requests)
           /\ <<>> \in Seq(Messages)
  BY EmptySeq, LenProperties DEF TypesOK, ConnectionType, ClientType, Committed

\* What is left of a stream when its end, or all that is not read, gets lost
LEMMA StreamCut ==
    ASSUME TypesOK, Streams
    PROVE  /\ Chain(seen, client.queue, client.buffer, pipe, <<>>)
           /\ Chain(seen, client.queue, client.buffer, <<>>, <<>>)
           /\ Reach(seen, client.queue, client.buffer, pipe, <<>>) <= Committed
           /\ Reach(seen, client.queue, client.buffer, <<>>, <<>>) <= Committed
  <1>1. /\ Chain(seen, client.queue, client.buffer, pipe, conn.outbound)
        /\ Reach(seen, client.queue, client.buffer, pipe, conn.outbound) <= Committed
    BY DEF Streams
  <1>2. /\ Chain(seen, client.queue, client.buffer, pipe, <<>>)
        /\ Chain(seen, client.queue, client.buffer, <<>>, <<>>)
        /\ Reach(seen, client.queue, client.buffer, pipe, <<>>)
              <= Reach(seen, client.queue, client.buffer, pipe, conn.outbound)
        /\ Reach(seen, client.queue, client.buffer, <<>>, <<>>)
              <= Reach(seen, client.queue, client.buffer, pipe, conn.outbound)
    BY <1>1, Sorts, ChainCut
  <1>3. /\ Reach(seen, client.queue, client.buffer, pipe, <<>>) \in Int
        /\ Reach(seen, client.queue, client.buffer, <<>>, <<>>) \in Int
        /\ Reach(seen, client.queue, client.buffer, pipe, conn.outbound) \in Int
        /\ Committed \in Int
    <2>1. /\ seen \in Int /\ Committed \in Int /\ <<>> \in Seq(Messages)
          /\ client.queue \in Seq(Messages) /\ client.buffer \in Seq(Messages)
          /\ pipe \in Seq(Messages) /\ conn.outbound \in Seq(Messages)
      BY Sorts
    <2>2. Reach(seen, client.queue, client.buffer, pipe, <<>>) \in Int
      BY <2>1, ReachType
    <2>3. Reach(seen, client.queue, client.buffer, <<>>, <<>>) \in Int
      BY <2>1, ReachType
    <2>4. Reach(seen, client.queue, client.buffer, pipe, conn.outbound) \in Int
      BY <2>1, ReachType
    <2>. QED BY <2>1, <2>2, <2>3, <2>4
  <1>4. \A x, y, z \in Int : x <= y /\ y <= z => x <= z
    OBVIOUS
  <1>5. Reach(seen, client.queue, client.buffer, pipe, <<>>) <= Committed
    BY <1>1, <1>2, <1>3, <1>4
  <1>6. Reach(seen, client.queue, client.buffer, <<>>, <<>>) <= Committed
    BY <1>1, <1>2, <1>3, <1>4
  <1>. QED BY <1>2, <1>5, <1>6

\* The socket is gone, and the pipe with it or not
LEMMA LostStep ==
    ASSUME StreamInv, UNCHANGED <<log, client, seen>>, pipe' = pipe \/ pipe' = <<>>,
           conn' \in ConnectionType, conn'.socket \in {"destroyed", "closed"}, conn'.outbound = <<>>,
           conn'.inbound = conn.inbound, conn'.step = conn.step, conn'.terminal = conn.terminal,
           conn'.subscribed = conn.subscribed \/ (conn'.subscribed = FALSE /\ conn.step # "replaying")
    PROVE  StreamInv'
  <1>1. TypesOK'
    BY Sorts DEF StreamInv, TypesOK, Committed
  <1>2. ClientOK'
    BY DEF StreamInv, ClientOK, Connected
  <1>3. HandshakeOK'
    BY DEF StreamInv, HandshakeOK, CanStart
  <1>4. CASE Ahead
    <2>1. Ahead'
      BY <1>4 DEF Ahead
    <2>. QED BY <1>1, <1>2, <1>3, <2>1 DEF StreamInv
  <1>5. CASE Following
    <2>1. TypesOK /\ Streams
      BY <1>5 DEF StreamInv, Following
    <2>2. Streams'
      BY <2>1, StreamCut DEF Streams, Committed
    <2>3. Following'
      BY <1>5, <2>2 DEF Following, NotStarted
    <2>. QED BY <1>1, <1>2, <1>3, <2>3 DEF StreamInv
  <1>6. CASE ~Connected
    <2>1. ~Connected'
      BY <1>6 DEF Connected
    <2>. QED BY <1>1, <1>2, <1>3, <2>1 DEF StreamInv
  <1>. QED BY <1>4, <1>5, <1>6 DEF StreamInv

LEMMA CloseHardStep == ASSUME StreamInv, CloseHard PROVE StreamInv'
  <1>1. conn' = Destroyed(conn) /\ UNCHANGED <<log, pipe, client, seen>>
    BY DEF CloseHard
  <1>2. /\ conn' \in ConnectionType /\ conn'.socket = "destroyed" /\ conn'.outbound = <<>>
        /\ conn'.inbound = conn.inbound /\ conn'.step = conn.step /\ conn'.terminal = conn.terminal
        /\ conn'.subscribed = conn.subscribed
    BY <1>1, EmptySeq DEF StreamInv, TypesOK, ConnectionType, Destroyed, StopReading
  <1>. QED BY <1>1, <1>2, LostStep

LEMMA DetachStep == ASSUME StreamInv, Detach PROVE StreamInv'
  <1>1. /\ conn' = [conn EXCEPT !.socket = "closed", !.subscribed = FALSE, !.outbound = <<>>]
        /\ UNCHANGED <<log, pipe, client, seen>>
    BY DEF Detach
  <1>2. conn.step # "replaying"
    BY DEF Detach, CoreBusy
  <1>3. /\ conn' \in ConnectionType /\ conn'.socket = "closed" /\ conn'.outbound = <<>>
        /\ conn'.inbound = conn.inbound /\ conn'.step = conn.step /\ conn'.terminal = conn.terminal
        /\ conn'.subscribed = FALSE
    BY <1>1, EmptySeq DEF StreamInv, TypesOK, ConnectionType
  <1>. QED BY <1>1, <1>2, <1>3, LostStep

LEMMA LosePipeStep == ASSUME StreamInv, LosePipe PROVE StreamInv'
  <1>1. conn.socket = "destroyed" /\ pipe' = <<>> /\ UNCHANGED <<log, conn, client, seen>>
    BY DEF LosePipe
  <1>2. conn.outbound = <<>> /\ conn \in ConnectionType
    BY <1>1 DEF StreamInv, HandshakeOK, TypesOK
  <1>. QED BY <1>1, <1>2, LostStep

\* Only the reading or the closing of a connection changes
LEMMA CloseStep ==
    ASSUME StreamInv, CloseGracefully \/ EndGracefully
    PROVE  StreamInv'
  <1>1. /\ UNCHANGED <<log, pipe, client, seen>> /\ conn.socket = "open"
        /\ \/ conn' = [conn EXCEPT !.accepting = FALSE, !.closing = TRUE]
           \/ conn' = [conn EXCEPT !.socket = "ended"]
    BY DEF CloseGracefully, EndGracefully, StopReading, StreamInv, TypesOK, ConnectionType
  <1>2. /\ conn' \in ConnectionType /\ conn'.socket \in {"open", "ended"}
        /\ conn'.inbound = conn.inbound /\ conn'.outbound = conn.outbound
        /\ conn'.step = conn.step /\ conn'.terminal = conn.terminal
        /\ conn'.subscribed = conn.subscribed /\ conn'.after = conn.after
    BY <1>1 DEF StreamInv, TypesOK, ConnectionType
  <1>3. TypesOK'
    BY <1>1, <1>2 DEF StreamInv, TypesOK, Committed
  <1>4. ClientOK'
    BY <1>1 DEF StreamInv, ClientOK, Connected
  <1>5. HandshakeOK'
    BY <1>1, <1>2 DEF StreamInv, HandshakeOK, CanStart
  <1>6. Ahead => Ahead'
    BY <1>1, <1>2 DEF Ahead
  <1>7. Following => Following'
    BY <1>1, <1>2 DEF Following, NotStarted, Streams, Committed
  <1>8. Connected' => Connected
    BY <1>1 DEF Connected
  <1>. QED BY <1>3, <1>4, <1>5, <1>6, <1>7, <1>8 DEF StreamInv

\* A request is done with: nothing of the stream changes
LEMMA DoneStep ==
    ASSUME StreamInv, UNCHANGED <<log, pipe, client, seen>>,
           conn.inbound # <<>>, conn' \in ConnectionType,
           conn'.inbound = Tail(conn.inbound), conn'.step = "idle",
           conn'.outbound = conn.outbound, conn'.socket = conn.socket,
           conn'.terminal = conn.terminal, conn'.subscribed = conn.subscribed,
           conn'.after = conn.after,
           conn.step = "replaying" /\ conn.subscribed /\ conn.socket = "open"
              => conn.after >= Committed
    PROVE  StreamInv'
  <1>1. TypesOK /\ TypesOK'
    BY DEF StreamInv, TypesOK, Committed
  <1>2. ClientOK'
    BY DEF StreamInv, ClientOK, Connected
  <1>3. /\ Tail(conn.inbound) \in Seq(Requests)
        /\ FirstOnly(Tail(conn.inbound)) /\ ~StartsWith(Tail(conn.inbound))
    BY <1>1, Sorts, RestOfRequests DEF StreamInv, HandshakeOK
  <1>4. HandshakeOK'
    <2>1. ~StartsWith(client.writes)
      BY DEF StreamInv, HandshakeOK
    <2>. QED BY <1>3, <2>1 DEF StreamInv, HandshakeOK
  <1>5. ASSUME Ahead PROVE Ahead'
    <2>1. Tail(conn.inbound) = <<>>
      BY <1>5 DEF Ahead, Alone
    <2>. QED BY <1>5, <2>1 DEF Ahead, Alone
  <1>6. ASSUME Following PROVE Following'
    <2>1. conn.step = "replaying" /\ conn.subscribed /\ conn.socket = "open" => conn.after = Committed
      <3>1. conn.socket = "open" => conn.after <= Committed
        BY <1>6 DEF Following, Streams
      <3>. QED BY <1>1, <3>1, Sorts
    <2>2. Streams'
      BY <1>6, <2>1 DEF Following, Streams, Committed
    <2>3. ~NotStarted'
      BY <1>3, <1>6 DEF Following, NotStarted
    <2>. QED BY <1>6, <2>2, <2>3 DEF Following
  <1>7. Connected' => Connected
    BY DEF Connected
  <1>. QED BY <1>1, <1>2, <1>4, <1>5, <1>6, <1>7 DEF StreamInv

LEMMA DiscardStep == ASSUME StreamInv, Discard PROVE StreamInv'
  <1>1. /\ conn.step = "idle" /\ conn.inbound # <<>> /\ UNCHANGED <<log, pipe, client, seen>>
        /\ conn' = [conn EXCEPT !.inbound = Tail(conn.inbound)]
    BY DEF Discard
  <1>2. Tail(conn.inbound) \in Seq(Requests)
    BY <1>1, Sorts, HeadTailProperties DEF StreamInv
  <1>3. /\ conn' \in ConnectionType /\ conn'.inbound = Tail(conn.inbound)
        /\ conn'.outbound = conn.outbound /\ conn'.socket = conn.socket
        /\ conn'.terminal = conn.terminal /\ conn'.subscribed = conn.subscribed
        /\ conn'.after = conn.after /\ conn'.step = "idle"
    BY <1>1, <1>2 DEF StreamInv, TypesOK, ConnectionType
  <1>. QED BY <1>1, <1>3, DoneStep

LEMMA DispatchStep == ASSUME StreamInv, Dispatch PROVE StreamInv'
  <1>. DEFINE request == Head(conn.inbound)
              after == IF request.after = LiveOnly THEN Committed ELSE request.after
  <1>1. /\ conn.step = "idle" /\ conn.inbound # <<>> /\ UNCHANGED <<log, pipe, client>>
        /\ \/ /\ Begins(request) /\ seen' = after
              /\ conn' = [conn EXCEPT !.step = "answering", !.after = after]
           \/ /\ ~Begins(request) /\ seen' = seen
              /\ conn' = [conn EXCEPT !.step = "answering"]
    BY DEF Dispatch, Begins
  <1>2. request \in Requests
    BY <1>1, Sorts, HeadTailProperties DEF StreamInv
  <1>3. after \in Nat /\ (Begins(request) => after <= Committed)
    <2>1. Committed \in Nat
      BY Sorts DEF StreamInv
    <2>2. after \in Nat
      BY <1>2, <2>1 DEF Requests, LiveOnly
    <2>3. ASSUME Begins(request) PROVE after <= Committed
      <3>1. CanStart(request)
        BY <1>1, <2>3 DEF StreamInv, HandshakeOK, StartsWith
      <3>. QED BY <1>2, <2>1, <3>1 DEF CanStart, StreamInv, TypesOK, Requests, LiveOnly, NotBegun
    <2>. QED BY <2>2, <2>3
  <1>4. /\ conn' \in ConnectionType /\ conn'.inbound = conn.inbound
        /\ conn'.outbound = conn.outbound /\ conn'.socket = conn.socket
        /\ conn'.terminal = conn.terminal /\ conn'.subscribed = conn.subscribed
        /\ conn'.step = "answering"
        /\ conn'.after = IF Begins(request) THEN after ELSE conn.after
    <2>. HIDE DEF after
    <2>. QED BY <1>1, <1>3 DEF StreamInv, TypesOK, ConnectionType
  <1>5. TypesOK'
    <2>. HIDE DEF after
    <2>1. seen' \in Int /\ NotBegun <= seen' /\ seen' <= Committed
      BY <1>1, <1>3 DEF StreamInv, TypesOK, NotBegun
    <2>. QED BY <1>1, <1>4, <2>1 DEF StreamInv, TypesOK, Committed
  <1>6. ClientOK'
    BY <1>1 DEF StreamInv, ClientOK, Connected
  <1>7. ~StartsWith(client.writes)
    BY <1>1 DEF StreamInv, HandshakeOK
  <1>8. HandshakeOK'
    BY <1>1, <1>4, <1>7 DEF StreamInv, HandshakeOK
  <1>9. ~NotStarted'
    BY <1>1, <1>4, <1>7 DEF NotStarted
  <1>10. ASSUME Ahead PROVE Following'
    <2>1. Begins(request)
      BY <1>1, <1>10 DEF Ahead, Alone
    <2>2. seen' = after /\ seen' \in Int /\ seen' # NotBegun /\ conn'.after = seen'
      <3>. HIDE DEF after
      <3>. QED BY <1>1, <1>3, <1>4, <2>1 DEF NotBegun
    <2>3. /\ client'.queue = <<>> /\ client'.buffer = <<>> /\ pipe' = <<>> /\ conn'.outbound = <<>>
          /\ ~conn'.subscribed
      BY <1>1, <1>4, <1>10 DEF Ahead
    <2>4. /\ Chain(seen', <<>>, <<>>, <<>>, <<>>)
          /\ Reach(seen', <<>>, <<>>, <<>>, <<>>) = seen'
      BY <2>2, ChainNil
    <2>5. seen' <= Committed'
      BY <1>1, <1>3, <2>1, <2>2 DEF Committed
    <2>6. Streams'
      BY <2>2, <2>3, <2>4, <2>5 DEF Streams
    <2>. QED BY <1>9, <2>2, <2>6 DEF Following, NotBegun
  <1>11. ASSUME Following PROVE Following'
    <2>1. ~Begins(request)
      BY <1>1, <1>11 DEF Following, NotStarted, StartsWith
    <2>2. seen' = seen /\ conn'.after = conn.after
      BY <1>1, <1>4, <2>1
    <2>3. Streams'
      BY <1>1, <1>4, <1>11, <2>2 DEF Following, Streams, Committed
    <2>. QED BY <1>9, <1>11, <2>2, <2>3 DEF Following
  <1>12. Connected' => Connected
    BY <1>1 DEF Connected
  <1>. QED BY <1>5, <1>6, <1>8, <1>10, <1>11, <1>12 DEF StreamInv

LEMMA FlushStep == ASSUME StreamInv, Flush PROVE StreamInv'
  <1>. DEFINE m == Head(conn.outbound)
  <1>1. /\ Connected /\ conn.socket \in {"open", "ended"} /\ conn.outbound # <<>>
        /\ UNCHANGED <<log, client, seen>> /\ pipe' = Append(pipe, m)
        /\ conn' = [conn EXCEPT !.outbound = Tail(conn.outbound),
                                !.socket = IF m.kind = "terminal" THEN "ended" ELSE conn.socket]
    BY DEF Flush
  <1>2. /\ m \in Messages /\ Tail(conn.outbound) \in Seq(Messages)
        /\ Append(pipe, m) \in Seq(Messages)
    BY <1>1, Sorts, HeadTailProperties, AppendProperties DEF StreamInv
  <1>3. /\ conn' \in ConnectionType /\ conn'.inbound = conn.inbound
        /\ conn'.outbound = Tail(conn.outbound)
        /\ conn'.socket \in {conn.socket, "ended"}
        /\ conn'.terminal = conn.terminal /\ conn'.subscribed = conn.subscribed
        /\ conn'.step = conn.step /\ conn'.after = conn.after
    <2>. HIDE DEF m
    <2>. QED BY <1>1, <1>2 DEF StreamInv, TypesOK, ConnectionType
  <1>4. TypesOK'
    BY <1>1, <1>2, <1>3 DEF StreamInv, TypesOK, Committed
  <1>5. ClientOK'
    BY <1>1 DEF StreamInv, ClientOK, Connected
  <1>6. HandshakeOK'
    BY <1>1, <1>3 DEF StreamInv, HandshakeOK, CanStart
  <1>7. Following
    BY <1>1 DEF StreamInv, Ahead
  <1>8. Streams'
    <2>1. Chain(seen, client.queue, client.buffer, pipe, conn.outbound)
      BY <1>7 DEF Following, Streams
    <2>2. /\ Chain(seen, client.queue, client.buffer, Append(pipe, m), Tail(conn.outbound))
          /\ Reach(seen, client.queue, client.buffer, Append(pipe, m), Tail(conn.outbound))
                = Reach(seen, client.queue, client.buffer, pipe, conn.outbound)
      BY <1>1, <2>1, Sorts, ChainFlush DEF StreamInv
    <2>. HIDE DEF m
    <2>. QED BY <1>1, <1>3, <1>7, <2>2 DEF Following, Streams, Committed
  <1>9. Following'
    BY <1>1, <1>3, <1>7, <1>8 DEF Following, NotStarted
  <1>. QED BY <1>4, <1>5, <1>6, <1>9 DEF StreamInv

\* A message is written behind the stream
LEMMA StreamWrite ==
    ASSUME TypesOK, Streams, conn.socket \in {"open", "ended"},
           NEW m \in Messages, IsEvent(m) => m.sequence = conn.after + 1
    PROVE  /\ Chain(seen, client.queue, client.buffer, pipe, Append(conn.outbound, m))
           /\ Reach(seen, client.queue, client.buffer, pipe, Append(conn.outbound, m))
                 = conn.after + (IF IsEvent(m) THEN 1 ELSE 0)
           /\ conn.after <= Committed
  <1>1. /\ Chain(seen, client.queue, client.buffer, pipe, conn.outbound)
        /\ Reach(seen, client.queue, client.buffer, pipe, conn.outbound) = conn.after
        /\ conn.after <= Committed
    BY DEF Streams
  <1>2. /\ seen \in Int
        /\ client.queue \in Seq(Messages) /\ client.buffer \in Seq(Messages)
        /\ pipe \in Seq(Messages) /\ conn.outbound \in Seq(Messages)
    BY Sorts
  <1>3. IsEvent(m) => m.sequence = Reach(seen, client.queue, client.buffer, pipe, conn.outbound) + 1
    BY <1>1
  <1>4. /\ Chain(seen, client.queue, client.buffer, pipe, Append(conn.outbound, m))
        /\ Reach(seen, client.queue, client.buffer, pipe, Append(conn.outbound, m))
              = Reach(seen, client.queue, client.buffer, pipe, conn.outbound)
                   + (IF IsEvent(m) THEN 1 ELSE 0)
    BY <1>1, <1>2, <1>3, ChainAppend
  <1>. QED BY <1>1, <1>4

LEMMA MessageKinds ==
    /\ \A id \in Int : Response(id) \in Messages /\ ~IsEvent(Response(id))
    /\ \A n \in Int : StreamError(n) \in Messages /\ ~IsEvent(StreamError(n))
    /\ \A n \in Int, bytes \in Nat :
          Event(n, bytes) \in Messages /\ IsEvent(Event(n, bytes)) /\ Event(n, bytes).sequence = n
  BY DEF Response, StreamError, Event, Messages, IsEvent

LEMMA AnswerStep == ASSUME StreamInv, Answer PROVE StreamInv'
  <1>. DEFINE request == Head(conn.inbound)
              m == Response(request.id)
              sent == Sent(conn, m)
              starts == Begins(request)
  <1>1. /\ conn.step = "answering" /\ conn.inbound # <<>> /\ UNCHANGED <<log, pipe, client, seen>>
        /\ conn' = IF starts THEN [sent EXCEPT !.step = "replaying", !.subscribed = TRUE]
                   ELSE [sent EXCEPT !.step = "idle", !.inbound = Tail(@)]
    BY DEF Answer, Begins, StreamInv, HandshakeOK
  <1>2. TypesOK /\ conn \in ConnectionType
    BY DEF StreamInv, TypesOK
  <1>3. request \in Requests /\ Tail(conn.inbound) \in Seq(Requests)
    BY <1>1, <1>2, Sorts, HeadTailProperties
  <1>4. m \in Messages /\ ~IsEvent(m)
    BY <1>3, MessageKinds DEF Requests
  <1>5. StartsWith(conn.inbound) <=> starts
    BY <1>1 DEF StartsWith
  <1>6. ~StartsWith(client.writes)
    BY <1>1 DEF StreamInv, HandshakeOK
  <1>7. /\ FirstOnly(Tail(conn.inbound)) /\ ~StartsWith(Tail(conn.inbound))
    BY <1>1, <1>2, Sorts, RestOfRequests DEF StreamInv, HandshakeOK
  <1>8. ~Ahead
    BY <1>1 DEF Ahead
  <1>9. <<>> \in Seq(Messages) /\ Append(conn.outbound, m) \in Seq(Messages)
    BY <1>2, <1>4, Sorts, AppendProperties
  <1>. HIDE DEF request, m, starts
  <1>10. /\ sent \in ConnectionType /\ sent.inbound = conn.inbound
         /\ sent.terminal = conn.terminal /\ sent.subscribed = conn.subscribed
         /\ sent.after = conn.after
         /\ \/ /\ sent.socket \in {"destroyed", "closed"} /\ sent.outbound = <<>>
            \/ /\ conn.socket = "open" /\ sent.socket = "open"
               /\ sent.outbound = Append(conn.outbound, m)
    <2>1. CASE conn.socket \in {"destroyed", "closed"} /\ sent = conn
      BY <1>2, <2>1 DEF StreamInv, HandshakeOK
    <2>2. CASE sent = Destroyed(conn)
      BY <1>2, <1>9, <2>2 DEF ConnectionType, Destroyed, StopReading
    <2>3. CASE conn.socket = "open" /\ sent = [conn EXCEPT !.outbound = Append(conn.outbound, m)]
      BY <1>2, <1>9, <2>3 DEF ConnectionType
    <2>. QED BY <1>2, <2>1, <2>2, <2>3, SentCases
  <1>. HIDE DEF sent
  <1>11. /\ conn' \in ConnectionType
         /\ conn'.terminal = conn.terminal /\ conn'.after = conn.after
         /\ conn'.socket = sent.socket /\ conn'.outbound = sent.outbound
         /\ conn'.step = IF starts THEN "replaying" ELSE "idle"
         /\ conn'.subscribed = IF starts THEN TRUE ELSE conn.subscribed
         /\ conn'.inbound = IF starts THEN conn.inbound ELSE Tail(conn.inbound)
    <2>1. CASE starts
      BY <1>1, <1>10, <2>1 DEF ConnectionType
    <2>2. CASE ~starts
      BY <1>1, <1>3, <1>10, <2>2 DEF ConnectionType
    <2>. QED BY <2>1, <2>2
  <1>12. TypesOK'
    BY <1>1, <1>11 DEF StreamInv, TypesOK, Committed
  <1>13. ClientOK'
    BY <1>1 DEF StreamInv, ClientOK, Connected
  <1>14. HandshakeOK'
    <2>1. starts => ~conn.terminal
      BY <1>1, <1>5 DEF StreamInv, HandshakeOK
    <2>2. conn'.socket \in {"destroyed", "closed"} => conn'.outbound = <<>>
      BY <1>10, <1>11
    <2>3. CASE starts
      BY <1>1, <1>5, <1>6, <1>11, <2>1, <2>2, <2>3 DEF StreamInv, HandshakeOK, StartsWith
    <2>4. CASE ~starts
      BY <1>1, <1>6, <1>7, <1>11, <2>2, <2>4 DEF StreamInv, HandshakeOK
    <2>. QED BY <2>3, <2>4
  <1>15. ~NotStarted'
    BY <1>1, <1>6, <1>7, <1>11 DEF NotStarted
  <1>16. ASSUME Following PROVE Following'
    <2>1. Streams
      BY <1>16 DEF Following
    <2>2. CASE sent.socket \in {"destroyed", "closed"} /\ sent.outbound = <<>>
      <3>1. Streams'
        BY <1>1, <1>2, <1>11, <2>1, <2>2, StreamCut DEF Streams, Committed
      <3>. QED BY <1>1, <1>15, <1>16, <3>1 DEF Following
    <2>3. CASE /\ conn.socket = "open" /\ sent.socket = "open"
               /\ sent.outbound = Append(conn.outbound, m)
      <3>1. /\ Chain(seen, client.queue, client.buffer, pipe, Append(conn.outbound, m))
            /\ Reach(seen, client.queue, client.buffer, pipe, Append(conn.outbound, m)) = conn.after
            /\ conn.after <= Committed
        BY <1>2, <1>4, <2>1, <2>3, StreamWrite, Sorts
      <3>2. conn'.subscribed /\ conn'.socket = "open" /\ conn'.step # "replaying" => conn'.after = Committed
        BY <1>1, <1>11, <2>1, <2>3 DEF Streams
      <3>3. Streams'
        BY <1>1, <1>11, <2>3, <3>1, <3>2 DEF Streams, Committed
      <3>. QED BY <1>1, <1>15, <1>16, <3>3 DEF Following
    <2>. QED BY <1>10, <2>2, <2>3
  <1>17. Connected' => Connected
    BY <1>1 DEF Connected
  <1>. QED BY <1>8, <1>12, <1>13, <1>14, <1>16, <1>17 DEF StreamInv

\* An event is forwarded, by a publication or a replay
LEMMA ForwardStep ==
    ASSUME StreamInv, UNCHANGED <<pipe, client, seen>>, NEW n \in Nat, NEW bytes \in Nat,
           log' \in Seq(EventSizes), Committed <= Committed', n <= Committed',
           conn.subscribed, conn' = Forwarded(conn, n, bytes),
           conn.socket \in {"open", "ended"} => ~(n <= conn.after),
           Following /\ conn.socket = "open" => n = conn.after + 1,
           conn.step # "replaying" => n = Committed'
    PROVE  StreamInv'
  <1>1. TypesOK /\ conn \in ConnectionType /\ conn.after \in Nat
    BY DEF StreamInv, TypesOK, ConnectionType
  <1>2. Event(n, bytes) \in Messages /\ IsEvent(Event(n, bytes)) /\ Event(n, bytes).sequence = n
    BY MessageKinds
  <1>3. StreamError(n) \in Messages /\ ~IsEvent(StreamError(n))
    BY MessageKinds
  <1>4. /\ Append(conn.outbound, Event(n, bytes)) \in Seq(Messages)
        /\ Append(conn.outbound, StreamError(n)) \in Seq(Messages)
        /\ <<>> \in Seq(Messages)
    BY <1>1, <1>2, <1>3, Sorts, AppendProperties
  <1>5. ~conn.terminal
    BY DEF StreamInv, HandshakeOK
  <1>6. Committed' \in Nat /\ Committed \in Nat
    BY <1>1, Sorts, LenProperties DEF Committed
  <1>7. /\ conn' \in ConnectionType /\ conn'.inbound = conn.inbound /\ conn'.step = conn.step
        /\ \/ /\ conn'.socket \in {"destroyed", "closed"} /\ conn'.outbound = <<>>
              /\ conn'.subscribed /\ ~conn'.terminal
           \/ /\ conn.socket = "open" /\ conn'.socket = "open"
              /\ conn'.outbound = Append(conn.outbound, Event(n, bytes))
              /\ conn'.after = n /\ conn'.subscribed /\ ~conn'.terminal
           \/ /\ conn.socket \in {"open", "ended"} /\ conn'.socket = conn.socket
              /\ conn'.outbound = Append(conn.outbound, StreamError(n))
              /\ conn'.after = conn.after /\ ~conn'.subscribed /\ conn'.terminal
    <2>1. CASE (conn.terminal \/ n <= conn.after \/ conn.socket \in {"destroyed", "closed"}) /\ conn' = conn
      <3>1. conn.socket \in {"destroyed", "closed"}
        BY <1>1, <1>5, <2>1 DEF ConnectionType
      <3>. QED BY <1>1, <1>5, <2>1, <3>1 DEF StreamInv, HandshakeOK
    <2>2. CASE conn' = Destroyed(conn)
      <3>1. /\ conn' \in ConnectionType /\ conn'.inbound = conn.inbound /\ conn'.step = conn.step
            /\ conn'.socket = "destroyed" /\ conn'.outbound = <<>>
            /\ conn'.subscribed = conn.subscribed /\ conn'.terminal = conn.terminal
        BY <1>1, <1>4, <2>2 DEF ConnectionType, Destroyed, StopReading
      <3>. QED BY <1>5, <3>1
    <2>3. CASE /\ conn.socket = "open" /\ ~conn.terminal /\ ~(n <= conn.after)
               /\ conn' = [conn EXCEPT !.outbound = Append(conn.outbound, Event(n, bytes)), !.after = n]
      <3>1. /\ conn' \in ConnectionType /\ conn'.inbound = conn.inbound /\ conn'.step = conn.step
            /\ conn'.socket = conn.socket /\ conn'.outbound = Append(conn.outbound, Event(n, bytes))
            /\ conn'.subscribed = conn.subscribed /\ conn'.terminal = conn.terminal /\ conn'.after = n
        BY <1>1, <1>4, <2>3 DEF ConnectionType
      <3>. QED BY <1>5, <2>3, <3>1
    <2>4. CASE /\ conn.socket \in {"open", "ended"} /\ ~conn.terminal
               /\ conn' = [conn EXCEPT !.accepting = FALSE, !.terminal = TRUE, !.subscribed = FALSE,
                                       !.outbound = Append(conn.outbound, StreamError(n))]
      <3>1. /\ conn' \in ConnectionType /\ conn'.inbound = conn.inbound /\ conn'.step = conn.step
            /\ conn'.socket = conn.socket /\ conn'.outbound = Append(conn.outbound, StreamError(n))
            /\ conn'.subscribed = FALSE /\ conn'.terminal = TRUE /\ conn'.after = conn.after
        BY <1>1, <1>4, <2>4 DEF ConnectionType
      <3>. QED BY <2>4, <3>1
    <2>. QED BY <1>1, <2>1, <2>2, <2>3, <2>4, ForwardedCases
  <1>8. TypesOK'
    <2>1. seen' \in Int /\ NotBegun <= seen' /\ seen' <= Committed'
      BY <1>6 DEF StreamInv, TypesOK, NotBegun
    <2>. QED BY <1>7, <2>1 DEF StreamInv, TypesOK
  <1>9. ClientOK'
    BY DEF StreamInv, ClientOK, Connected
  <1>10. ~StartsWith(client.writes) /\ (StartsWith(conn.inbound) => conn.step = "replaying")
    BY DEF StreamInv, HandshakeOK
  <1>11. HandshakeOK'
    <2>1. (conn'.terminal => ~conn'.subscribed) /\ (conn'.subscribed \/ conn'.terminal)
      BY <1>7
    <2>2. conn'.socket \in {"destroyed", "closed"} => conn'.outbound = <<>>
      BY <1>7
    <2>. QED BY <1>7, <1>10, <2>1, <2>2 DEF StreamInv, HandshakeOK
  <1>12. ~Ahead
    BY DEF Ahead
  <1>13. ASSUME Following PROVE Following'
    <2>1. Streams
      BY <1>13 DEF Following
    <2>2. CASE conn'.socket \in {"destroyed", "closed"} /\ conn'.outbound = <<>>
      <3>1. /\ Chain(seen, client.queue, client.buffer, pipe, <<>>)
            /\ Reach(seen, client.queue, client.buffer, pipe, <<>>) <= Committed
        BY <1>1, <2>1, StreamCut
      <3>2. Reach(seen, client.queue, client.buffer, pipe, <<>>) \in Int
        <4>1. /\ seen \in Int /\ client.queue \in Seq(Messages) /\ client.buffer \in Seq(Messages)
              /\ pipe \in Seq(Messages) /\ <<>> \in Seq(Messages)
          BY <1>1, Sorts
        <4>. QED BY <4>1, ReachType
      <3>3. Reach(seen, client.queue, client.buffer, pipe, <<>>) <= Committed'
        BY <1>6, <3>1, <3>2
      <3>4. Streams'
        BY <2>2, <3>1, <3>3 DEF Streams
      <3>. QED BY <1>7, <1>13, <3>4 DEF Following, NotStarted
    <2>3. CASE /\ conn.socket = "open" /\ conn'.socket = "open"
               /\ conn'.outbound = Append(conn.outbound, Event(n, bytes))
               /\ conn'.after = n /\ conn'.subscribed
      <3>1. n = conn.after + 1
        BY <1>13, <2>3
      <3>2. /\ Chain(seen, client.queue, client.buffer, pipe, Append(conn.outbound, Event(n, bytes)))
            /\ Reach(seen, client.queue, client.buffer, pipe, Append(conn.outbound, Event(n, bytes))) = n
        BY <1>1, <1>2, <2>1, <2>3, <3>1, StreamWrite
      <3>3. Streams'
        BY <1>7, <2>3, <3>2 DEF Streams
      <3>. QED BY <1>7, <1>13, <3>3 DEF Following, NotStarted
    <2>4. CASE /\ conn.socket \in {"open", "ended"} /\ conn'.socket = conn.socket
               /\ conn'.outbound = Append(conn.outbound, StreamError(n))
               /\ conn'.after = conn.after /\ ~conn'.subscribed
      <3>1. /\ Chain(seen, client.queue, client.buffer, pipe, Append(conn.outbound, StreamError(n)))
            /\ Reach(seen, client.queue, client.buffer, pipe, Append(conn.outbound, StreamError(n)))
                  = conn.after + 0
            /\ conn.after <= Committed
        BY <1>1, <1>3, <2>1, <2>4, StreamWrite
      <3>2. conn.after + 0 = conn.after /\ conn.after <= Committed'
        BY <1>1, <1>6, <3>1
      <3>3. Streams'
        BY <2>4, <3>1, <3>2 DEF Streams
      <3>. QED BY <1>7, <1>13, <3>3 DEF Following, NotStarted
    <2>. QED BY <1>7, <2>2, <2>3, <2>4
  <1>14. Connected' => Connected
    BY DEF Connected
  <1>. QED BY <1>8, <1>9, <1>11, <1>12, <1>13, <1>14 DEF StreamInv

LEMMA PublishStep ==
    ASSUME StreamAssumption, StreamInv, NEW bytes \in EventSizes, Publish(bytes)
    PROVE  StreamInv' /\ Committed' = Committed + 1 /\ seen' = seen
  <1>1. /\ conn.step # "replaying" /\ log' = Append(log, bytes) /\ UNCHANGED <<pipe, client, seen>>
        /\ conn' = IF conn.subscribed THEN Forwarded(conn, Committed + 1, bytes) ELSE conn
    BY DEF Publish, CoreBusy
  <1>2. TypesOK /\ Committed \in Nat /\ conn.after \in Nat /\ bytes \in Nat
    BY Sorts DEF StreamInv, StreamAssumption
  <1>3. log' \in Seq(EventSizes) /\ Committed' = Committed + 1
    BY <1>1, AppendProperties DEF StreamInv, TypesOK, Committed
  <1>. DEFINE n == Committed + 1
  <1>4. n \in Nat /\ Committed <= Committed' /\ n <= Committed' /\ n = Committed'
    BY <1>2, <1>3
  <1>5. CASE /\ conn.subscribed
             /\ conn.socket \in {"open", "ended"} => ~(n <= conn.after)
    <2>1. Following /\ conn.socket = "open" => n = conn.after + 1
      BY <1>1, <1>5 DEF Following, Streams
    <2>. HIDE DEF n
    <2>2. conn' = Forwarded(conn, n, bytes)
      BY <1>1, <1>5 DEF n
    <2>. QED BY <1>1, <1>2, <1>3, <1>4, <1>5, <2>1, <2>2, ForwardStep
  <1>6. CASE ~conn.subscribed \/ (conn.socket \in {"open", "ended"} /\ n <= conn.after)
    <2>1. conn' = conn
      BY <1>1, <1>6 DEF Forwarded
    <2>2. TypesOK'
      <3>1. seen' \in Int /\ NotBegun <= seen' /\ seen' <= Committed'
        BY <1>1, <1>2, <1>3 DEF TypesOK, NotBegun
      <3>. QED BY <1>1, <1>2, <1>3, <2>1, <3>1 DEF TypesOK
    <2>3. ClientOK'
      BY <1>1 DEF StreamInv, ClientOK, Connected
    <2>4. HandshakeOK'
      BY <1>1, <2>1 DEF StreamInv, HandshakeOK, CanStart
    <2>5. Ahead => Ahead'
      BY <1>1, <2>1 DEF Ahead
    <2>6. ASSUME Following PROVE Following'
      <3>1. ~(conn.subscribed /\ conn.socket = "open")
        BY <1>1, <1>2, <1>6, <2>6 DEF Following, Streams
      <3>2. Reach(seen, client.queue, client.buffer, pipe, conn.outbound) \in Int
        <4>1. /\ seen \in Int /\ client.queue \in Seq(Messages) /\ client.buffer \in Seq(Messages)
              /\ pipe \in Seq(Messages) /\ conn.outbound \in Seq(Messages)
          BY <1>2, Sorts
        <4>. QED BY <4>1, ReachType
      <3>3. Reach(seen, client.queue, client.buffer, pipe, conn.outbound) <= Committed'
        BY <1>2, <1>3, <2>6, <3>2 DEF Following, Streams
      <3>4. Streams'
        BY <1>1, <2>1, <2>6, <3>1, <3>3 DEF Following, Streams
      <3>. QED BY <1>1, <2>1, <2>6, <3>4 DEF Following, NotStarted
    <2>7. Connected' => Connected
      BY <1>1 DEF Connected
    <2>. QED BY <1>1, <1>3, <2>2, <2>3, <2>4, <2>5, <2>6, <2>7 DEF StreamInv
  <1>. QED BY <1>5, <1>6

LEMMA ReplayStep == ASSUME StreamAssumption, StreamInv, Replay PROVE StreamInv'
  <1>1. /\ conn.step = "replaying" /\ UNCHANGED <<log, pipe, client, seen>>
        /\ conn' = IF ListEvents(conn.after) # <<>> /\ conn.socket = "open" /\ ~conn.terminal
                   THEN Forwarded(conn, conn.after + 1, Head(ListEvents(conn.after)))
                   ELSE [conn EXCEPT !.step = "idle", !.inbound = Tail(conn.inbound)]
    BY DEF Replay
  <1>2. TypesOK /\ conn \in ConnectionType /\ conn.after \in Nat /\ Committed \in Nat
    BY Sorts DEF StreamInv, TypesOK
  <1>3. StartsWith(conn.inbound) /\ conn.inbound # <<>>
    BY <1>1 DEF StreamInv, HandshakeOK, StartsWith
  <1>4. CASE ListEvents(conn.after) # <<>> /\ conn.socket = "open" /\ ~conn.terminal
    <2>. DEFINE n == conn.after + 1
                bytes == Head(ListEvents(conn.after))
    <2>1. n \in Nat /\ bytes \in Nat /\ n <= Committed /\ ~(n <= conn.after)
      BY <1>2, <1>4, NextRow
    <2>2. log' \in Seq(EventSizes) /\ Committed' = Committed /\ Committed <= Committed' /\ n <= Committed'
      BY <1>1, <1>2, <2>1 DEF TypesOK, Committed
    <2>3. conn' = Forwarded(conn, n, bytes)
      BY <1>1, <1>4
    <2>4. n = conn.after + 1
      OBVIOUS
    <2>. HIDE DEF n, bytes
    <2>5. conn.subscribed
      BY <1>1, <1>4 DEF StreamInv, HandshakeOK
    <2>. QED BY <1>1, <1>4, <2>1, <2>2, <2>3, <2>4, <2>5, ForwardStep
  <1>5. CASE ~(ListEvents(conn.after) # <<>> /\ conn.socket = "open" /\ ~conn.terminal)
    <2>1. Tail(conn.inbound) \in Seq(Requests)
      BY <1>2, <1>3, Sorts, HeadTailProperties
    <2>2. /\ conn' \in ConnectionType /\ conn'.inbound = Tail(conn.inbound)
          /\ conn'.outbound = conn.outbound /\ conn'.socket = conn.socket
          /\ conn'.terminal = conn.terminal /\ conn'.subscribed = conn.subscribed
          /\ conn'.after = conn.after /\ conn'.step = "idle"
      BY <1>1, <1>2, <1>5, <2>1 DEF ConnectionType
    <2>3. conn.subscribed /\ conn.socket = "open" => conn.after >= Committed
      BY <1>2, <1>5, NextRow DEF StreamInv, HandshakeOK
    <2>. QED BY <1>1, <1>3, <2>2, <2>3, DoneStep
  <1>. QED BY <1>4, <1>5

-----------------------------------------------------------------------------
(* The client reads, and the consumer is given what is next.                *)

LEMMA ReadStep ==
    ASSUME StreamInv, Following, Connected, UNCHANGED <<log, conn>>,
           client' \in ClientType, pipe' \in Seq(Messages), seen' \in Int,
           client'.state \in {"connecting", "open"}, client'.writes = client.writes,
           client'.consuming => client'.buffer # <<>>, client'.waiting => client'.queue = <<>>,
           seen' = seen \/ seen' = seen + 1,
           Chain(seen', client'.queue, client'.buffer, pipe', conn.outbound),
           Reach(seen', client'.queue, client'.buffer, pipe', conn.outbound)
              = Reach(seen, client.queue, client.buffer, pipe, conn.outbound)
    PROVE  StreamInv' /\ seen # NotBegun /\ seen' <= Committed
  <1>1. TypesOK /\ seen \in Int /\ Committed \in Nat /\ NotBegun <= seen /\ seen # NotBegun
    BY Sorts DEF StreamInv, TypesOK, Following
  <1>2. seen' # NotBegun /\ NotBegun <= seen'
    BY <1>1 DEF NotBegun
  <1>3. seen' <= Committed
    <2>1. /\ client'.queue \in Seq(Messages) /\ client'.buffer \in Seq(Messages)
          /\ conn.outbound \in Seq(Messages)
      BY <1>1, Sorts DEF ClientType
    <2>2. /\ Reach(seen', client'.queue, client'.buffer, pipe', conn.outbound) \in Int
          /\ Reach(seen', client'.queue, client'.buffer, pipe', conn.outbound) >= seen'
      BY <2>1, ReachType
    <2>3. Reach(seen', client'.queue, client'.buffer, pipe', conn.outbound) <= Committed
      BY DEF Following, Streams
    <2>. QED BY <1>1, <2>2, <2>3
  <1>4. TypesOK'
    BY <1>1, <1>2, <1>3 DEF TypesOK, Committed
  <1>5. ClientOK'
    BY DEF ClientOK, Connected
  <1>6. HandshakeOK'
    BY DEF StreamInv, HandshakeOK, Following, NotStarted
  <1>7. Following'
    <2>1. Streams'
      BY DEF Following, Streams, Committed
    <2>. QED BY <1>2, <2>1 DEF Following, NotStarted, NotBegun
  <1>. QED BY <1>1, <1>3, <1>4, <1>5, <1>6, <1>7 DEF StreamInv

LEMMA ReceiveStep == ASSUME StreamInv, NEW n \in 1..PipeSize, Receive(n) PROVE StreamInv'
  <1>. DEFINE b == client.buffer \o SubSeq(pipe, 1, n)
              p == SubSeq(pipe, n + 1, Len(pipe))
  <1>1. /\ Connected /\ n \in 1..Len(pipe) /\ UNCHANGED <<log, conn, seen>>
        /\ client' = [client EXCEPT !.buffer = b, !.consuming = TRUE] /\ pipe' = p
    BY DEF Receive
  <1>2. TypesOK /\ client \in ClientType /\ seen \in Int
    BY DEF StreamInv, TypesOK
  <1>3. pipe # <<>>
    BY <1>1, EmptySeq
  <1>4. Following
    BY <1>1, <1>3 DEF StreamInv, Ahead
  <1>5. /\ b \in Seq(Messages) /\ p \in Seq(Messages) /\ b # <<>>
        /\ Chain(seen, client.queue, b, p, conn.outbound)
        /\ Reach(seen, client.queue, b, p, conn.outbound)
              = Reach(seen, client.queue, client.buffer, pipe, conn.outbound)
    <2>1. Chain(seen, client.queue, client.buffer, pipe, conn.outbound)
      BY <1>4 DEF Following, Streams
    <2>2. /\ seen \in Int /\ client.queue \in Seq(Messages) /\ client.buffer \in Seq(Messages)
          /\ pipe \in Seq(Messages) /\ conn.outbound \in Seq(Messages)
      BY <1>2, Sorts
    <2>. QED BY <1>1, <2>1, <2>2, ChainReceive
  <1>. HIDE DEF b, p
  <1>6. /\ client' \in ClientType /\ client'.state = client.state /\ client'.writes = client.writes
        /\ client'.queue = client.queue /\ client'.buffer = b /\ client'.waiting = client.waiting
    BY <1>1, <1>2, <1>5 DEF ClientType
  <1>7. client.state \in {"connecting", "open"} /\ (client.waiting => client.queue = <<>>)
    BY <1>1 DEF StreamInv, ClientOK, Connected
  <1>. QED BY <1>1, <1>2, <1>4, <1>5, <1>6, <1>7, ReadStep

\* A client in its loop has a line, of a stream
LEMMA InLoop ==
    ASSUME StreamInv, client.consuming
    PROVE  /\ Connected /\ Following /\ TypesOK /\ client \in ClientType
           /\ client.buffer # <<>> /\ Head(client.buffer) \in Messages
           /\ Tail(client.buffer) \in Seq(Messages)
           /\ Len(client.buffer) > 1 => Tail(client.buffer) # <<>>
           /\ client.waiting => client.queue = <<>>
  <1>1. /\ Connected /\ client.buffer # <<>> /\ TypesOK /\ client \in ClientType
        /\ client.waiting => client.queue = <<>>
    BY DEF StreamInv, ClientOK, TypesOK
  <1>2. Following
    BY <1>1 DEF StreamInv, Ahead
  <1>3. /\ Head(client.buffer) \in Messages /\ Tail(client.buffer) \in Seq(Messages)
        /\ Len(Tail(client.buffer)) = Len(client.buffer) - 1
    BY <1>1, Sorts, HeadTailProperties
  <1>4. Len(client.buffer) > 1 => Tail(client.buffer) # <<>>
    <2>1. Len(client.buffer) \in Nat
      BY <1>1, Sorts, LenProperties
    <2>. DEFINE l == Len(client.buffer)
                r == Len(Tail(client.buffer))
    <2>2. l > 1 => r # 0
      <3>1. l \in Nat /\ r = l - 1
        BY <1>3, <2>1
      <3>. HIDE DEF l, r
      <3>. QED BY <3>1
    <2>3. Tail(client.buffer) = <<>> => Len(Tail(client.buffer)) = 0
      BY EmptySeq
    <2>. QED BY <2>2, <2>3
  <1>. QED BY <1>1, <1>2, <1>3, <1>4

LEMMA ConsumeResponseStep == ASSUME StreamInv, ConsumeResponse PROVE StreamInv'
  <1>. DEFINE id == Head(client.buffer).id
              t == Tail(client.buffer)
  <1>1. /\ client.consuming /\ ~IsEvent(Head(client.buffer)) /\ UNCHANGED <<log, conn, pipe, seen>>
        /\ client' = [client EXCEPT !.buffer = t, !.consuming = Len(client.buffer) > 1,
                                    !.pending = client.pending \ {id},
                                    !.state = IF id = Handshake THEN "open" ELSE client.state]
    BY DEF ConsumeResponse, IsEvent
  <1>2. /\ Connected /\ Following /\ TypesOK /\ client \in ClientType
        /\ client.buffer # <<>> /\ t \in Seq(Messages)
        /\ Len(client.buffer) > 1 => t # <<>>
        /\ client.waiting => client.queue = <<>>
    BY <1>1, InLoop
  <1>3. /\ seen \in Int /\ client.queue \in Seq(Messages) /\ client.buffer \in Seq(Messages)
        /\ pipe \in Seq(Messages) /\ conn.outbound \in Seq(Messages)
    BY <1>2, Sorts
  <1>4. /\ Chain(seen, client.queue, t, pipe, conn.outbound)
        /\ Reach(seen, client.queue, t, pipe, conn.outbound)
              = Reach(seen, client.queue, client.buffer, pipe, conn.outbound)
    <2>1. Chain(seen, client.queue, client.buffer, pipe, conn.outbound)
      BY <1>2 DEF Following, Streams
    <2>. QED BY <1>1, <1>2, <1>3, <2>1, ChainResponse
  <1>. HIDE DEF t, id
  <1>5. client.state \in {"connecting", "open"}
    BY <1>2 DEF Connected
  <1>6. client.pending \ {id} \in SUBSET Int
    BY <1>2 DEF ClientType
  <1>7. (Len(client.buffer) > 1) \in BOOLEAN
    OBVIOUS
  <1>8. /\ client' \in ClientType /\ client'.state \in {"connecting", "open"}
        /\ client'.writes = client.writes
        /\ client'.queue = client.queue /\ client'.buffer = t /\ client'.waiting = client.waiting
        /\ client'.consuming = (Len(client.buffer) > 1)
    BY <1>1, <1>2, <1>5, <1>6, <1>7 DEF ClientType
  <1>. QED BY <1>1, <1>2, <1>3, <1>4, <1>8, ReadStep

LEMMA ConsumeEventStep ==
    ASSUME StreamInv, ConsumeEvent
    PROVE  /\ StreamInv' /\ log' = log
           /\ seen' = seen \/ (seen' = seen + 1 /\ seen # NotBegun /\ seen' <= Committed)
  <1>. DEFINE h == Head(client.buffer)
              t == Tail(client.buffer)
  <1>1. /\ client.consuming /\ UNCHANGED <<log, conn, pipe>>
        /\ \/ /\ client.waiting /\ seen' = IF IsEvent(h) THEN h.sequence ELSE seen
              /\ client' = [client EXCEPT !.buffer = t, !.waiting = FALSE,
                                          !.consuming = Len(client.buffer) > 1]
           \/ /\ ~client.waiting /\ seen' = seen
              /\ client' = [client EXCEPT !.buffer = t, !.queue = Append(client.queue, h),
                                          !.consuming = Len(client.buffer) > 1]
           \/ /\ ~client.waiting /\ seen' = seen
              /\ client' = [client EXCEPT !.paused = TRUE, !.consuming = FALSE]
    BY DEF ConsumeEvent, SeenWith, IsEvent
  <1>2. /\ Connected /\ Following /\ TypesOK /\ client \in ClientType
        /\ client.buffer # <<>> /\ h \in Messages /\ t \in Seq(Messages)
        /\ Len(client.buffer) > 1 => t # <<>>
        /\ client.waiting => client.queue = <<>>
    BY <1>1, InLoop
  <1>3. /\ seen \in Int /\ client.queue \in Seq(Messages) /\ client.buffer \in Seq(Messages)
        /\ pipe \in Seq(Messages) /\ conn.outbound \in Seq(Messages) /\ <<>> \in Seq(Messages)
        /\ Append(client.queue, h) \in Seq(Messages)
    BY <1>2, Sorts, AppendProperties
  <1>4. Chain(seen, client.queue, client.buffer, pipe, conn.outbound)
    BY <1>2 DEF Following, Streams
  <1>5. client.state \in {"connecting", "open"}
    BY <1>2 DEF Connected
  <1>6. (Len(client.buffer) > 1) \in BOOLEAN
    OBVIOUS
  <1>7. CASE /\ client.waiting /\ seen' = IF IsEvent(h) THEN h.sequence ELSE seen
             /\ client' = [client EXCEPT !.buffer = t, !.waiting = FALSE,
                                         !.consuming = Len(client.buffer) > 1]
    <2>1. client.queue = <<>>
      BY <1>2, <1>7
    <2>2. /\ seen' = IF IsEvent(h) THEN seen + 1 ELSE seen
          /\ Chain(seen', <<>>, t, pipe, conn.outbound)
          /\ Reach(seen', <<>>, t, pipe, conn.outbound)
                = Reach(seen, <<>>, client.buffer, pipe, conn.outbound)
      BY <1>2, <1>3, <1>4, <1>7, <2>1, ChainTake
    <2>. HIDE DEF h, t
    <2>3. /\ client' \in ClientType /\ client'.state = client.state /\ client'.writes = client.writes
          /\ client'.queue = <<>> /\ client'.buffer = t /\ client'.waiting = FALSE
          /\ client'.consuming = (Len(client.buffer) > 1)
      BY <1>2, <1>6, <1>7, <2>1 DEF ClientType
    <2>4. seen' \in Int /\ (seen' = seen \/ seen' = seen + 1)
      BY <1>3, <2>2
    <2>5. StreamInv' /\ seen # NotBegun /\ seen' <= Committed
      BY <1>1, <1>2, <1>3, <1>5, <2>1, <2>2, <2>3, <2>4, ReadStep
    <2>. QED BY <1>1, <2>4, <2>5
  <1>8. CASE /\ ~client.waiting /\ seen' = seen
             /\ client' = [client EXCEPT !.buffer = t, !.queue = Append(client.queue, h),
                                         !.consuming = Len(client.buffer) > 1]
    <2>1. /\ Chain(seen, Append(client.queue, h), t, pipe, conn.outbound)
          /\ Reach(seen, Append(client.queue, h), t, pipe, conn.outbound)
                = Reach(seen, client.queue, client.buffer, pipe, conn.outbound)
      BY <1>2, <1>3, <1>4, ChainQueue
    <2>. HIDE DEF h, t
    <2>2. /\ client' \in ClientType /\ client'.state = client.state /\ client'.writes = client.writes
          /\ client'.queue = Append(client.queue, h) /\ client'.buffer = t
          /\ client'.waiting = client.waiting /\ client'.consuming = (Len(client.buffer) > 1)
      BY <1>2, <1>3, <1>6, <1>8 DEF ClientType
    <2>3. StreamInv'
      BY <1>1, <1>2, <1>3, <1>5, <1>8, <2>1, <2>2, ReadStep
    <2>. QED BY <1>1, <1>8, <2>3
  <1>9. CASE /\ ~client.waiting /\ seen' = seen
             /\ client' = [client EXCEPT !.paused = TRUE, !.consuming = FALSE]
    <2>1. /\ client' \in ClientType /\ client'.state = client.state /\ client'.writes = client.writes
          /\ client'.queue = client.queue /\ client'.buffer = client.buffer
          /\ client'.waiting = client.waiting /\ client'.consuming = FALSE
      BY <1>2, <1>9 DEF ClientType
    <2>2. StreamInv'
      BY <1>1, <1>2, <1>3, <1>4, <1>5, <1>9, <2>1, ReadStep
    <2>. QED BY <1>1, <1>9, <2>2
  <1>. QED BY <1>1, <1>7, <1>8, <1>9

LEMMA NextQueuedStep ==
    ASSUME StreamInv, NextQueued
    PROVE  /\ StreamInv' /\ log' = log
           /\ seen' = seen \/ (seen' = seen + 1 /\ seen # NotBegun /\ seen' <= Committed)
  <1>. DEFINE h == Head(client.queue)
              t == Tail(client.queue)
              resumes == Resumes(t)
  <1>1. /\ client.state \in {"open", "closed"} /\ ~client.waiting /\ client.queue # <<>>
        /\ UNCHANGED <<log, conn, pipe>> /\ seen' = IF IsEvent(h) THEN h.sequence ELSE seen
        /\ client' = [client EXCEPT !.queue = t, !.paused = client.paused /\ ~resumes,
                                    !.consuming = resumes /\ client.buffer # <<>>]
    BY DEF NextQueued, Reading, SeenWith, IsEvent
  <1>2. client.state = "open" /\ Connected
    BY <1>1 DEF StreamInv, ClientOK, Connected
  <1>3. Following /\ TypesOK /\ client \in ClientType
    BY <1>2 DEF StreamInv, TypesOK, Ahead
  <1>4. /\ seen \in Int /\ client.queue \in Seq(Messages) /\ client.buffer \in Seq(Messages)
        /\ pipe \in Seq(Messages) /\ conn.outbound \in Seq(Messages)
        /\ t \in Seq(Messages)
    BY <1>1, <1>3, Sorts, HeadTailProperties
  <1>5. /\ seen' = IF IsEvent(h) THEN seen + 1 ELSE seen
        /\ Chain(seen', t, client.buffer, pipe, conn.outbound)
        /\ Reach(seen', t, client.buffer, pipe, conn.outbound)
              = Reach(seen, client.queue, client.buffer, pipe, conn.outbound)
    <2>1. Chain(seen, client.queue, client.buffer, pipe, conn.outbound)
      BY <1>3 DEF Following, Streams
    <2>. QED BY <1>1, <1>4, <2>1, ChainNext
  <1>6. resumes \in BOOLEAN
    BY DEF Resumes
  <1>. HIDE DEF h, t, resumes
  <1>7. (client.paused /\ ~resumes) \in BOOLEAN /\ (resumes /\ client.buffer # <<>>) \in BOOLEAN
    OBVIOUS
  <1>8. /\ client' \in ClientType /\ client'.state = client.state /\ client'.writes = client.writes
        /\ client'.queue = t /\ client'.buffer = client.buffer
        /\ client'.waiting = client.waiting
        /\ client'.consuming = (resumes /\ client.buffer # <<>>)
    BY <1>1, <1>3, <1>4, <1>7 DEF ClientType
  <1>9. client'.consuming => client'.buffer # <<>>
    BY <1>8
  <1>10. seen' \in Int /\ (seen' = seen \/ seen' = seen + 1)
    BY <1>4, <1>5
  <1>11. StreamInv' /\ seen # NotBegun /\ seen' <= Committed
    BY <1>1, <1>2, <1>3, <1>4, <1>5, <1>8, <1>9, <1>10, ReadStep
  <1>. QED BY <1>1, <1>10, <1>11

LEMMA NextWaitsStep == ASSUME StreamInv, NextWaits PROVE StreamInv'
  <1>1. /\ client.queue = <<>> /\ client.state = "open" /\ ~client.consuming
        /\ UNCHANGED <<log, conn, pipe, seen>> /\ client' = [client EXCEPT !.waiting = TRUE]
    BY DEF NextWaits, Reading, ClientBusy
  <1>2. Connected /\ Following /\ TypesOK /\ client \in ClientType
    BY <1>1 DEF StreamInv, TypesOK, Ahead, Connected
  <1>3. /\ client' \in ClientType /\ client'.state = client.state /\ client'.writes = client.writes
        /\ client'.queue = client.queue /\ client'.buffer = client.buffer
        /\ client'.waiting = TRUE /\ client'.consuming = client.consuming
    BY <1>1, <1>2 DEF ClientType
  <1>4. Chain(seen, client.queue, client.buffer, pipe, conn.outbound)
    BY <1>2 DEF Following, Streams
  <1>. QED BY <1>1, <1>2, <1>3, <1>4, Sorts, ReadStep

LEMMA SameStep == ASSUME StreamInv, UNCHANGED <<log, conn, pipe, client, seen>> PROVE StreamInv'
  BY DEF StreamInv, TypesOK, ClientOK, HandshakeOK, CanStart, Ahead, Following, Streams, NotStarted,
         Connected, Committed

-----------------------------------------------------------------------------
(* The theorems.                                                            *)

LEMMA NextStream == ASSUME StreamAssumption, StreamInv, [Next]_vars PROVE StreamInv'
  <1>1. CASE Dispatch
    BY <1>1, DispatchStep
  <1>2. CASE Discard
    BY <1>2, DiscardStep
  <1>3. CASE Answer
    BY <1>3, AnswerStep
  <1>4. CASE Replay
    BY <1>4, ReplayStep
  <1>5. CASE Flush
    BY <1>5, FlushStep
  <1>6. ASSUME NEW s \in EventSizes, Publish(s) PROVE StreamInv'
    BY <1>6, PublishStep
  <1>7. CASE CloseGracefully \/ EndGracefully
    BY <1>7, CloseStep
  <1>8. CASE Detach
    BY <1>8, DetachStep
  <1>9. CASE ConnectAgain
    BY <1>9, ConnectStep DEF ConnectAgain
  <1>10. ASSUME NEW id \in Ids, Request(id) PROVE StreamInv'
    BY <1>10, RequestStep
  <1>11. CASE Beat
    BY <1>11, BeatStep
  <1>12. CASE WriteLine
    BY <1>12, WriteLineStep
  <1>13. ASSUME NEW n \in 1..PipeSize, Receive(n) PROVE StreamInv'
    BY <1>13, ReceiveStep
  <1>14. CASE ConsumeLine
    BY <1>14, ConsumeResponseStep, ConsumeEventStep DEF ConsumeLine
  <1>15. CASE NextQueued
    BY <1>15, NextQueuedStep
  <1>16. CASE NextWaits
    BY <1>16, NextWaitsStep
  <1>17. CASE NextEnds
    BY <1>17, SameStep DEF NextEnds
  <1>18. CASE Finish \/ Fail \/ HandshakeTimeout \/ Close
    BY <1>18, OverStep DEF Finish, Fail, HandshakeTimeout, Close
  <1>19. CASE CloseHard
    BY <1>19, CloseHardStep
  <1>20. CASE LosePipe
    BY <1>20, LosePipeStep
  <1>21. CASE UNCHANGED vars
    BY <1>21, SameStep DEF vars
  <1>. QED BY <1>1, <1>2, <1>3, <1>4, <1>5, <1>6, <1>7, <1>8, <1>9, <1>10, <1>11, <1>12, <1>13,
              <1>14, <1>15, <1>16, <1>17, <1>18, <1>19, <1>20, <1>21
           DEF Next, CoreStep, ConsumerStep, Ending

\* Wherever the handshake of a connection is and whatever was lost, what is queued, buffered
\* and piped between the Core and the client is in order (the inductive invariant).
THEOREM StreamHolds == Spec => []StreamInv
  <1>1. Init => StreamInv
    BY StreamAssumption, InitStream
  <1>2. StreamInv /\ [Next]_vars => StreamInv'
    BY StreamAssumption, NextStream
  <1>. QED BY <1>1, <1>2, PTL DEF Spec

\* What is under way continues what the consumer has, and nothing is left out between the
\* table of the Core and the connection (#startEventSubscription, #forwardEvent, EventQueue).
THEOREM StreamIsContiguousHolds == Spec => []StreamIsContiguous
  <1>1. ASSUME StreamInv PROVE StreamIsContiguous
    <2>1. SUFFICES ASSUME Connected PROVE StreamIsContiguous
      BY DEF StreamIsContiguous
    <2>2. /\ seen \in Int /\ client.queue \in Seq(Messages) /\ client.buffer \in Seq(Messages)
          /\ pipe \in Seq(Messages) /\ conn.outbound \in Seq(Messages)
      BY <1>1, Sorts DEF StreamInv
    <2>3. Chain(seen, client.queue, client.buffer, pipe, conn.outbound)
      <3>1. Ahead => Chain(seen, client.queue, client.buffer, pipe, conn.outbound)
        BY <2>2, ChainNil DEF Ahead
      <3>. QED BY <1>1, <2>1, <3>1 DEF StreamInv, Following, Streams
    <2>4. /\ Follows(UnderWay, seen)
          /\ seen + EventsIn(UnderWay, Len(UnderWay))
                = Reach(seen, client.queue, client.buffer, pipe, conn.outbound)
      <3>1. /\ Follows(client.queue \o client.buffer \o pipe \o conn.outbound, seen)
            /\ seen + Count(client.queue \o client.buffer \o pipe \o conn.outbound)
                  = Reach(seen, client.queue, client.buffer, pipe, conn.outbound)
        BY <2>2, <2>3, ChainIsOne
      <3>. QED BY <3>1 DEF UnderWay, Count
    <2>5. conn.socket \in {"open", "ended"} /\ Handshake \notin client.pending
             => conn.after = Reach(seen, client.queue, client.buffer, pipe, conn.outbound)
      BY <1>1, <2>1 DEF StreamInv, Ahead, Following, Streams
    <2>6. conn.subscribed /\ conn.socket = "open" /\ conn.step # "replaying"
             => conn.after = Committed
      BY <1>1, <2>1 DEF StreamInv, Ahead, Following, Streams
    <2>. QED BY <2>4, <2>5, <2>6 DEF StreamIsContiguous
  <1>2. Spec => []StreamInv
    BY StreamHolds
  <1>. QED BY <1>1, <1>2, PTL

\* A step of the stream is a step of the feed, or none
LEMMA FeedStep ==
    ASSUME StreamAssumption, StreamInv, [Next]_vars
    PROVE  [Feed!Next]_<<Committed, seen>>
  <1>1. TypesOK /\ seen \in Int /\ Committed \in Nat /\ NotBegun <= seen
    BY Sorts DEF StreamInv, TypesOK
  <1>2. CASE log' = log /\ seen' = seen
    BY <1>2 DEF Committed
  <1>3. CASE log' = log /\ seen' = seen + 1 /\ seen # NotBegun /\ seen' <= Committed
    BY <1>1, <1>3 DEF Committed, NotBegun, Feed!Next, Feed!Deliver, Feed!NotBegun
  <1>4. CASE Dispatch
    <2>1. /\ conn.step = "idle" /\ conn.inbound # <<>> /\ log' = log
          /\ \/ Begins(Head(conn.inbound))
                  /\ seen' = IF Head(conn.inbound).after = LiveOnly THEN Committed
                             ELSE Head(conn.inbound).after
             \/ seen' = seen
      BY <1>4 DEF Dispatch, Begins
    <2>2. Head(conn.inbound) \in Requests
      BY <1>1, <2>1, Sorts, HeadTailProperties
    <2>3. Begins(Head(conn.inbound)) => CanStart(Head(conn.inbound))
      BY <2>1 DEF StreamInv, HandshakeOK, StartsWith
    <2>4. seen' = seen \/ (seen = NotBegun /\ seen' \in 0..Committed)
      BY <1>1, <2>1, <2>2, <2>3 DEF CanStart, Requests, NotBegun, LiveOnly, StreamInv, TypesOK
    <2>. QED BY <1>2, <2>1, <2>4 DEF Committed, NotBegun, Feed!Next, Feed!Begin, Feed!NotBegun
  <1>5. ASSUME NEW s \in EventSizes, Publish(s) PROVE [Feed!Next]_<<Committed, seen>>
    <2>1. Committed' = Committed + 1 /\ seen' = seen
      BY <1>5, PublishStep
    <2>. QED BY <2>1 DEF Feed!Next, Feed!Commit
  <1>6. CASE ConsumeEvent
    BY <1>2, <1>3, <1>6, ConsumeEventStep
  <1>7. CASE NextQueued
    BY <1>2, <1>3, <1>7, NextQueuedStep
  <1>8. CASE \/ Discard \/ Answer \/ Replay \/ Flush \/ CloseGracefully \/ EndGracefully \/ Detach
             \/ ConnectAgain \/ (\E id \in Ids : Request(id)) \/ Beat \/ WriteLine
             \/ (\E n \in 1..PipeSize : Receive(n)) \/ ConsumeResponse \/ NextWaits \/ NextEnds
    BY <1>2, <1>8 DEF Discard, Answer, Replay, Flush, CloseGracefully, EndGracefully, Detach,
          ConnectAgain, Connect, Request, Beat, WriteLine, Receive, ConsumeResponse, NextWaits, NextEnds
  <1>9. CASE Finish \/ Fail \/ HandshakeTimeout \/ Close \/ CloseHard \/ LosePipe
    BY <1>2, <1>9 DEF Finish, Fail, HandshakeTimeout, Close, Over, CloseHard, LosePipe
  <1>10. CASE UNCHANGED vars
    BY <1>2, <1>10 DEF vars
  <1>. QED BY <1>4, <1>5, <1>6, <1>7, <1>8, <1>9, <1>10
           DEF Next, CoreStep, ConsumeLine, ConsumerStep, Ending

\* Through every connection and reconnection the consumer is given the event after the last
\* one it has, each once: the stream implements the feed.
THEOREM StreamImplementsFeed == Spec => FeedSpec
  <1>1. Init => Feed!Init
    <2>1. ASSUME Init PROVE Feed!Init
      <3>1. StreamInv /\ seen = -1
        BY <2>1, StreamAssumption, InitStream DEF Init, NotBegun
      <3>2. Committed \in Nat
        BY <3>1, Sorts DEF StreamInv
      <3>. QED BY <3>1, <3>2 DEF Feed!Init, Feed!NotBegun
    <2>. QED BY <2>1
  <1>2. StreamInv /\ [Next]_vars => [Feed!Next]_<<Committed, seen>>
    BY StreamAssumption, FeedStep
  <1>3. Spec => []StreamInv
    BY StreamHolds
  <1>. QED BY <1>1, <1>2, <1>3, PTL DEF Spec, FeedSpec, Feed!Spec

-----------------------------------------------------------------------------
(* The bytes in a queue: a sum does not shrink by a message, and does not    *)
(* grow by its absence.                                                      *)

MessageBytes(s) == [i \in DOMAIN s |-> s[i].bytes]
BudgetBytes(s) == [i \in DOMAIN s |-> IF s[i].kind = "terminal" THEN 0 ELSE s[i].bytes]

LEMMA MessageTypes ==
    ASSUME NEW s \in Seq(Messages)
    PROVE  /\ Len(s) \in Nat /\ DOMAIN s = 1..Len(s) /\ IsFiniteSet(DOMAIN s)
           /\ MessageBytes(s) \in [DOMAIN s -> Nat] /\ BudgetBytes(s) \in [DOMAIN s -> Nat]
           /\ \A i \in DOMAIN s : s[i] \in Messages /\ s[i].bytes \in Nat
  <1>1. Len(s) \in Nat /\ DOMAIN s = 1..Len(s) /\ \A i \in DOMAIN s : s[i] \in Messages
    OBVIOUS
  <1>2. \A i \in DOMAIN s : s[i].bytes \in Nat
    BY <1>1 DEF Messages
  <1>3. IsFiniteSet(DOMAIN s)
    BY <1>1, FS_Interval
  <1>. QED BY <1>1, <1>2, <1>3 DEF MessageBytes, BudgetBytes

\* Sum is the sum of the bytes.
LEMMA SumIsSum ==
    ASSUME NEW s \in Seq(Messages)
    PROVE  \E f : IsSum(MessageBytes(s), DOMAIN s, f) /\ Sum(s) = f[DOMAIN s]
  <1> DEFINE S == DOMAIN s
             v == MessageBytes(s)
             P(g) == g = [u \in SUBSET S |-> IF u = {} THEN 0
                            ELSE LET x == CHOOSE y \in u : TRUE IN s[x].bytes + g[u \ {x}]]
             sum  == CHOOSE g : P(g)
  <1>1. PICK f : IsSum(v, S, f)
    BY MessageTypes, SumExists
  <1>2. P(f)
    BY <1>1, PickIsIn DEF IsSum, Pick, MessageBytes
  <1>3. P(sum)
    BY <1>2
  <1>4. Sum(s) = sum[S]
    BY DEF Sum, FoldSeq, FoldFunction, FoldFunctionOnSet, MapThenFoldSet
  <1> HIDE DEF sum
  <1>5. AddsUp(v, S, sum)
    BY <1>3, PickIsIn DEF AddsUp, Pick, MessageBytes
  <1>6. IsSum(v, S, sum)
    BY <1>5, MessageTypes, AddingUpIsSum
  <1>. QED BY <1>4, <1>6

LEMMA BudgetIsSum ==
    ASSUME NEW s \in Seq(Messages)
    PROVE  \E f : IsSum(BudgetBytes(s), DOMAIN s, f) /\ BudgetedBytes(s) = f[DOMAIN s]
  <1> DEFINE S == DOMAIN s
             v == BudgetBytes(s)
             P(g) == g = [u \in SUBSET S |-> IF u = {} THEN 0
                            ELSE LET x == CHOOSE y \in u : TRUE
                                 IN (IF s[x].kind = "terminal" THEN 0 ELSE s[x].bytes)
                                    + g[u \ {x}]]
             sum  == CHOOSE g : P(g)
  <1>1. PICK f : IsSum(v, S, f)
    BY MessageTypes, SumExists
  <1>2. P(f)
    BY <1>1, PickIsIn DEF IsSum, Pick, BudgetBytes
  <1>3. P(sum)
    BY <1>2
  <1>4. BudgetedBytes(s) = sum[S]
    BY DEF BudgetedBytes, FoldSeq, FoldFunction, FoldFunctionOnSet, MapThenFoldSet
  <1> HIDE DEF sum
  <1>5. AddsUp(v, S, sum)
    BY <1>3, PickIsIn DEF AddsUp, Pick, BudgetBytes
  <1>6. IsSum(v, S, sum)
    BY <1>5, MessageTypes, AddingUpIsSum
  <1>. QED BY <1>4, <1>6

LEMMA SumNat ==
    ASSUME NEW s \in Seq(Messages)
    PROVE  Sum(s) \in Nat /\ BudgetedBytes(s) \in Nat
  <1>1. PICK f : IsSum(MessageBytes(s), DOMAIN s, f) /\ Sum(s) = f[DOMAIN s]
    BY SumIsSum
  <1>2. PICK g : IsSum(BudgetBytes(s), DOMAIN s, g) /\ BudgetedBytes(s) = g[DOMAIN s]
    BY BudgetIsSum
  <1>. QED BY <1>1, <1>2 DEF IsSum

LEMMA SumNil == Sum(<<>>) = 0 /\ BudgetedBytes(<<>>) = 0
  <1>1. <<>> \in Seq(Messages) /\ DOMAIN <<>> = {}
    OBVIOUS
  <1>. QED BY <1>1, SumIsSum, BudgetIsSum DEF IsSum

\* One more message adds its bytes, and to the budget unless it is the terminal event.
LEMMA SumOfAppend ==
    ASSUME NEW s \in Seq(Messages), NEW m \in Messages
    PROVE  /\ Sum(Append(s, m)) <= Sum(s) + m.bytes
           /\ BudgetedBytes(Append(s, m)) <= BudgetedBytes(s)
                + (IF m.kind = "terminal" THEN 0 ELSE m.bytes)
           /\ Sum(Append(s, m)) \in Nat /\ BudgetedBytes(Append(s, m)) \in Nat
  <1> DEFINE t == Append(s, m)
             n == Len(s) + 1
             S == DOMAIN s
             T == DOMAIN t
  <1>1. /\ t \in Seq(Messages) /\ Len(s) \in Nat /\ S = 1..Len(s) /\ T = 1..n
        /\ t[n] = m /\ \A i \in 1..Len(s) : t[i] = s[i]
    OBVIOUS
  <1>2. T \ {n} = S /\ n \in T /\ T \ {n} \in SUBSET T
    BY <1>1
  <1>3. PICK f : IsSum(MessageBytes(t), T, f) /\ Sum(t) = f[T]
    BY <1>1, SumIsSum
  <1>4. PICK g : IsSum(MessageBytes(s), S, g) /\ Sum(s) = g[S]
    BY SumIsSum
  <1>5. PICK fb : IsSum(BudgetBytes(t), T, fb) /\ BudgetedBytes(t) = fb[T]
    BY <1>1, BudgetIsSum
  <1>6. PICK gb : IsSum(BudgetBytes(s), S, gb) /\ BudgetedBytes(s) = gb[S]
    BY BudgetIsSum
  <1>7. /\ IsFiniteSet(T) /\ MessageBytes(t) \in [T -> Nat] /\ BudgetBytes(t) \in [T -> Nat]
        /\ MessageBytes(s) \in [S -> Nat] /\ BudgetBytes(s) \in [S -> Nat]
    BY <1>1, MessageTypes
  <1>8. /\ \A i \in T \ {n} : MessageBytes(t)[i] <= MessageBytes(s)[i]
        /\ \A i \in T \ {n} : BudgetBytes(t)[i] <= BudgetBytes(s)[i]
    <2>1. \A i \in S : t[i] = s[i] /\ i \in T /\ s[i].bytes \in Nat
      BY <1>1, MessageTypes
    <2>. QED BY <1>2, <2>1 DEF MessageBytes, BudgetBytes, S, T
  <1>9. /\ MessageBytes(t)[n] = m.bytes
        /\ BudgetBytes(t)[n] = IF m.kind = "terminal" THEN 0 ELSE m.bytes
    BY <1>1, <1>2 DEF MessageBytes, BudgetBytes, T
  <1> HIDE DEF t, n, S, T
  <1> DEFINE v == MessageBytes(t)
             w == MessageBytes(s)
             vb == BudgetBytes(t)
             wb == BudgetBytes(s)
  <1>a. /\ IsSum(v, T, f) /\ IsSum(vb, T, fb) /\ v \in [T -> Nat] /\ vb \in [T -> Nat]
        /\ IsSum(w, T \ {n}, g) /\ IsSum(wb, T \ {n}, gb)
        /\ w \in [T \ {n} -> Nat] /\ wb \in [T \ {n} -> Nat]
        /\ \A i \in T \ {n} : v[i] <= w[i] /\ vb[i] <= wb[i]
        /\ v[n] = m.bytes /\ vb[n] = IF m.kind = "terminal" THEN 0 ELSE m.bytes
    BY <1>2, <1>3, <1>4, <1>5, <1>6, <1>7, <1>8, <1>9
  <1> HIDE DEF v, w, vb, wb
  <1>10. f[T] <= v[n] + g[T \ {n}]
    BY <1>2, <1>7, <1>a, SumOneMore
  <1>11. fb[T] <= vb[n] + gb[T \ {n}]
    BY <1>2, <1>7, <1>a, SumOneMore
  <1>12. /\ g[T \ {n}] \in Nat /\ gb[T \ {n}] \in Nat /\ f[T] \in Nat /\ fb[T] \in Nat
         /\ m.bytes \in Nat
    BY <1>2, <1>3, <1>4, <1>5, <1>6 DEF IsSum, Messages
  <1>b. /\ f[T] = Sum(t) /\ g[T \ {n}] = Sum(s) /\ v[n] = m.bytes
        /\ fb[T] = BudgetedBytes(t) /\ gb[T \ {n}] = BudgetedBytes(s)
        /\ vb[n] = IF m.kind = "terminal" THEN 0 ELSE m.bytes
    BY <1>2, <1>3, <1>4, <1>5, <1>6, <1>a
  <1>13. Sum(t) <= Sum(s) + m.bytes
    BY <1>2, <1>10, <1>12, <1>b
  <1>14. BudgetedBytes(t) <= BudgetedBytes(s) + (IF m.kind = "terminal" THEN 0 ELSE m.bytes)
    BY <1>2, <1>11, <1>12, <1>b
  <1>. QED BY <1>1, <1>13, <1>14, SumNat DEF t

\* Without its first message a queue has no more bytes than before.
LEMMA SumOfTail ==
    ASSUME NEW s \in Seq(Messages), s # <<>>
    PROVE  /\ Sum(Tail(s)) <= Sum(s) /\ BudgetedBytes(Tail(s)) <= BudgetedBytes(s)
           /\ Sum(Tail(s)) \in Nat /\ BudgetedBytes(Tail(s)) \in Nat
  <1> DEFINE t == Tail(s)
             S == DOMAIN s
             T == DOMAIN t
             h == [i \in T |-> i + 1]
  <1>1. /\ t \in Seq(Messages) /\ Len(s) \in Nat /\ S = 1..Len(s) /\ T = 1..Len(s) - 1
        /\ \A i \in T : t[i] = s[i + 1]
    OBVIOUS
  <1>2. PICK f : IsSum(MessageBytes(t), T, f) /\ Sum(t) = f[T]
    BY <1>1, SumIsSum
  <1>3. PICK g : IsSum(MessageBytes(s), S, g) /\ Sum(s) = g[S]
    BY SumIsSum
  <1>4. PICK fb : IsSum(BudgetBytes(t), T, fb) /\ BudgetedBytes(t) = fb[T]
    BY <1>1, BudgetIsSum
  <1>5. PICK gb : IsSum(BudgetBytes(s), S, gb) /\ BudgetedBytes(s) = gb[S]
    BY BudgetIsSum
  <1>6. /\ IsFiniteSet(T) /\ MessageBytes(t) \in [T -> Nat] /\ BudgetBytes(t) \in [T -> Nat]
        /\ IsFiniteSet(S) /\ MessageBytes(s) \in [S -> Nat] /\ BudgetBytes(s) \in [S -> Nat]
    BY <1>1, MessageTypes
  <1>7. \A i \in T : h[i] \in S /\ t[i] = s[h[i]]
    BY <1>1
  <1>8. \A i, j \in T : h[i] = h[j] => i = j
    BY <1>1
  <1>9. \A i \in T : /\ MessageBytes(t)[i] <= MessageBytes(s)[h[i]]
                     /\ BudgetBytes(t)[i] <= BudgetBytes(s)[h[i]]
    <2>1. \A i \in S : s[i].bytes \in Nat
      BY MessageTypes
    <2>2. \A i \in T : /\ MessageBytes(t)[i] = t[i].bytes
                       /\ BudgetBytes(t)[i] = IF t[i].kind = "terminal" THEN 0 ELSE t[i].bytes
      BY DEF MessageBytes, BudgetBytes
    <2>3. \A i \in S : /\ MessageBytes(s)[i] = s[i].bytes
                       /\ BudgetBytes(s)[i] = IF s[i].kind = "terminal" THEN 0 ELSE s[i].bytes
      BY DEF MessageBytes, BudgetBytes
    <2>. HIDE DEF t, S, T, h
    <2>. QED BY <1>7, <2>1, <2>2, <2>3, SMTT(30)
  <1> HIDE DEF t, S, T, h
  <1> DEFINE v == MessageBytes(t)
             w == MessageBytes(s)
             vb == BudgetBytes(t)
             wb == BudgetBytes(s)
  <1>a. /\ IsSum(v, T, f) /\ IsSum(vb, T, fb) /\ v \in [T -> Nat] /\ vb \in [T -> Nat]
        /\ IsSum(w, S, g) /\ IsSum(wb, S, gb) /\ w \in [S -> Nat] /\ wb \in [S -> Nat]
        /\ \A i \in T : v[i] > 0 => h[i] \in S /\ v[i] <= w[h[i]]
        /\ \A i \in T : vb[i] > 0 => h[i] \in S /\ vb[i] <= wb[h[i]]
        /\ \A i, j \in T : v[i] > 0 /\ v[j] > 0 /\ h[i] = h[j] => i = j
        /\ \A i, j \in T : vb[i] > 0 /\ vb[j] > 0 /\ h[i] = h[j] => i = j
    BY <1>2, <1>3, <1>4, <1>5, <1>6, <1>7, <1>8, <1>9
  <1> HIDE DEF v, w, vb, wb
  <1>b. IsFiniteSet(T) /\ IsFiniteSet(S)
    BY <1>6
  <1>10. f[T] <= g[S]
    <2>1. /\ IsSum(v, T, f) /\ v \in [T -> Nat] /\ IsSum(w, S, g) /\ w \in [S -> Nat]
          /\ \A i \in T : v[i] > 0 => h[i] \in S /\ v[i] <= w[h[i]]
          /\ \A i, j \in T : v[i] > 0 /\ v[j] > 0 /\ h[i] = h[j] => i = j
      BY <1>a
    <2>. QED BY <1>b, <2>1, SumAtMost
  <1>11. fb[T] <= gb[S]
    <2>1. /\ IsSum(vb, T, fb) /\ vb \in [T -> Nat] /\ IsSum(wb, S, gb) /\ wb \in [S -> Nat]
          /\ \A i \in T : vb[i] > 0 => h[i] \in S /\ vb[i] <= wb[h[i]]
          /\ \A i, j \in T : vb[i] > 0 /\ vb[j] > 0 /\ h[i] = h[j] => i = j
      BY <1>a
    <2>. QED BY <1>b, <2>1, SumAtMost
  <1>12. /\ Sum(t) <= Sum(s) /\ BudgetedBytes(t) <= BudgetedBytes(s)
         /\ Sum(t) \in Nat /\ BudgetedBytes(t) \in Nat
    BY <1>1, <1>2, <1>3, <1>4, <1>5, <1>10, <1>11, SumNat
  <1>. QED BY <1>12 DEF t

LEMMA BudgetAtMostSum ==
    ASSUME NEW s \in Seq(Messages)
    PROVE  BudgetedBytes(s) <= Sum(s)
  <1> DEFINE S == DOMAIN s
             v == BudgetBytes(s)
             w == MessageBytes(s)
             h == [i \in S |-> i]
  <1>1. PICK f : IsSum(v, S, f) /\ BudgetedBytes(s) = f[S]
    BY BudgetIsSum
  <1>2. PICK g : IsSum(w, S, g) /\ Sum(s) = g[S]
    BY SumIsSum
  <1>3. /\ IsFiniteSet(S) /\ v \in [S -> Nat] /\ w \in [S -> Nat]
        /\ \A i \in S : v[i] > 0 => h[i] \in S /\ v[i] <= w[h[i]]
        /\ \A i, j \in S : v[i] > 0 /\ v[j] > 0 /\ h[i] = h[j] => i = j
    BY MessageTypes DEF MessageBytes, BudgetBytes
  <1> HIDE DEF S, v, w, h
  <1>4. f[S] <= g[S]
    <2>1. IsSum(v, S, f) /\ IsSum(w, S, g)
      BY <1>1, <1>2
    <2>2. IsFiniteSet(S) /\ v \in [S -> Nat] /\ w \in [S -> Nat]
      BY <1>3
    <2>3. \A i \in S : v[i] > 0 => h[i] \in S /\ v[i] <= w[h[i]]
      BY <1>3
    <2>4. \A i, j \in S : v[i] > 0 /\ v[j] > 0 /\ h[i] = h[j] => i = j
      BY <1>3
    <2>. QED BY <2>1, <2>2, <2>3, <2>4, SumAtMost, SMTT(60)
  <1>. QED BY <1>1, <1>2, <1>4

-----------------------------------------------------------------------------
(* The limits: what counts against each of them only grows where the code   *)
(* has compared it with the limit before.                                   *)

ConnectionLimits ==
    /\ BudgetedBytes(conn.outbound) <= OutboundLimit
    /\ Len(conn.inbound) <= InboundLimit
    /\ conn.after <= Committed

ClientLimits ==
    /\ Len(client.queue) <= QueueLimit /\ Sum(client.queue) <= QueueBytes
    /\ client.pending \subseteq Ids \cup {Handshake}
    /\ ~Connected => client = [NoClient EXCEPT !.number = client.number, !.failed = client.failed]
    /\ end \in {"no", "done", "error"}

LimitInv == ConnectionLimits /\ ClientLimits

\* #send queues a message that fits, or loses the connection
LEMMA SentWithin ==
    ASSUME StreamAssumption, TypesOK, BudgetedBytes(conn.outbound) <= OutboundLimit,
           NEW m \in Messages, m.kind # "terminal"
    PROVE  LET s == Sent(conn, m)
           IN /\ BudgetedBytes(s.outbound) <= OutboundLimit
              /\ s.inbound = conn.inbound /\ s.after = conn.after
  <1>1. conn \in ConnectionType /\ conn.outbound \in Seq(Messages)
    BY DEF TypesOK, ConnectionType
  <1>2. OutboundLimit \in Nat /\ m.bytes \in Nat
    BY DEF StreamAssumption, Messages
  <1>3. CASE conn.socket \in {"destroyed", "closed"}
    BY <1>3 DEF Sent
  <1>4. CASE Sent(conn, m) = Destroyed(conn)
    <2>1. /\ Destroyed(conn).outbound = <<>> /\ Destroyed(conn).inbound = conn.inbound
          /\ Destroyed(conn).after = conn.after
      BY <1>1 DEF Destroyed, StopReading, ConnectionType
    <2>. QED BY <1>2, <1>4, <2>1, SumNil
  <1>5. CASE /\ ~(conn.socket \in {"destroyed", "closed"})
             /\ ~(conn.socket = "ended" \/ OutboundBytes(conn) + m.bytes > OutboundLimit)
    <2>1. Sent(conn, m) = [conn EXCEPT !.outbound = Append(conn.outbound, m)]
      BY <1>5 DEF Sent
    <2>2. BudgetedBytes(Append(conn.outbound, m)) <= BudgetedBytes(conn.outbound) + m.bytes
      BY <1>1, SumOfAppend
    <2>3. Sum(conn.outbound) + m.bytes <= OutboundLimit
      <3>1. Sum(conn.outbound) \in Nat
        BY <1>1, SumNat
      <3>2. ~(Sum(conn.outbound) + m.bytes > OutboundLimit)
        BY <1>5 DEF OutboundBytes
      <3>. QED BY <1>2, <3>1, <3>2
    <2>4. BudgetedBytes(Append(conn.outbound, m)) <= OutboundLimit
      <3>1. Append(conn.outbound, m) \in Seq(Messages)
        BY <1>1, AppendMessage
      <3>2. /\ BudgetedBytes(Append(conn.outbound, m)) \in Nat /\ BudgetedBytes(conn.outbound) \in Nat
            /\ Sum(conn.outbound) \in Nat
        BY <1>1, <3>1, SumNat
      <3>3. BudgetedBytes(conn.outbound) <= Sum(conn.outbound)
        BY <1>1, BudgetAtMostSum
      <3>. QED BY <1>2, <2>2, <2>3, <3>2, <3>3
    <2>. QED BY <1>1, <2>1, <2>4 DEF ConnectionType
  <1>. QED BY <1>3, <1>4, <1>5 DEF Sent

LEMMA ForwardedWithin ==
    ASSUME StreamAssumption, TypesOK, BudgetedBytes(conn.outbound) <= OutboundLimit,
           NEW n \in Nat, NEW bytes \in Nat
    PROVE  LET s == Forwarded(conn, n, bytes)
           IN /\ BudgetedBytes(s.outbound) <= OutboundLimit
              /\ s.inbound = conn.inbound /\ s.after \in {conn.after, n}
  <1>1. conn \in ConnectionType /\ conn.outbound \in Seq(Messages)
    BY DEF TypesOK, ConnectionType
  <1>2. /\ Event(n, bytes) \in Messages /\ Event(n, bytes).kind = "event"
        /\ StreamError(n) \in Messages /\ StreamError(n).kind = "terminal" /\ StreamError(n).bytes = 1
    BY DEF Event, StreamError, Messages
  <1>3. CASE conn.terminal \/ n <= conn.after
    BY <1>3 DEF Forwarded
  <1>4. CASE ~(conn.terminal \/ n <= conn.after) /\ bytes > OutboundLimit
    <2>1. Forwarded(conn, n, bytes) = Terminated(conn, n)
      BY <1>4 DEF Forwarded
    <2>2. CASE conn.socket \in {"destroyed", "closed"}
      BY <2>1, <2>2 DEF Terminated
    <2>3. CASE ~(conn.socket \in {"destroyed", "closed"})
      <3>1. /\ Terminated(conn, n).outbound = Append(conn.outbound, StreamError(n))
            /\ Terminated(conn, n).inbound = conn.inbound /\ Terminated(conn, n).after = conn.after
        BY <1>1, <2>3 DEF Terminated, StopReading, ConnectionType
      <3>2. BudgetedBytes(Append(conn.outbound, StreamError(n))) <= BudgetedBytes(conn.outbound) + 0
        BY <1>1, <1>2, SumOfAppend
      <3>3. /\ BudgetedBytes(Append(conn.outbound, StreamError(n))) \in Nat
            /\ BudgetedBytes(conn.outbound) \in Nat /\ OutboundLimit \in Nat
        BY <1>1, <1>2, SumOfAppend, SumNat DEF StreamAssumption
      <3>. QED BY <2>1, <3>1, <3>2, <3>3
    <2>. QED BY <2>2, <2>3
  <1>5. CASE ~(conn.terminal \/ n <= conn.after) /\ ~(bytes > OutboundLimit)
    <2>. DEFINE s == Sent(conn, Event(n, bytes))
    <2>1. Forwarded(conn, n, bytes) = IF s.socket = "open" THEN [s EXCEPT !.after = n] ELSE s
      BY <1>5 DEF Forwarded
    <2>2. /\ BudgetedBytes(s.outbound) <= OutboundLimit
          /\ s.inbound = conn.inbound /\ s.after = conn.after
      BY <1>2, SentWithin
    <2>3. s \in ConnectionType
      <3>1. \/ s = conn \/ s = Destroyed(conn)
            \/ s = [conn EXCEPT !.outbound = Append(conn.outbound, Event(n, bytes))]
        BY SentCases
      <3>2. Append(conn.outbound, Event(n, bytes)) \in Seq(Messages) /\ <<>> \in Seq(Messages)
        BY <1>1, <1>2, AppendMessage, EmptySeq
      <3>. QED BY <1>1, <3>1, <3>2 DEF Destroyed, StopReading, ConnectionType
    <2>. HIDE DEF s
    <2>. QED BY <2>1, <2>2, <2>3 DEF ConnectionType
  <1>. QED BY <1>3, <1>4, <1>5

LEMMA InitLimits == ASSUME StreamAssumption, Init PROVE LimitInv
  <1>1. Committed \in Nat /\ OutboundLimit \in Nat /\ InboundLimit \in Nat /\ QueueLimit \in Nat
        /\ QueueBytes \in Nat
    BY InitStream, LenProperties DEF StreamAssumption, StreamInv, TypesOK, Committed
  <1>2. Len(<<>>) = 0
    OBVIOUS
  <1>3. conn.outbound = <<>> /\ conn.inbound = <<>> /\ conn.after = 0
    BY DEF Init, NoConnection
  <1>4. ConnectionLimits
    BY <1>1, <1>2, <1>3, SumNil DEF ConnectionLimits
  <1>5. client.queue = <<>> /\ client.pending = {} /\ client = NoClient /\ end = "no"
    BY DEF Init, NoClient
  <1>6. NoClient = [NoClient EXCEPT !.number = NoClient.number, !.failed = NoClient.failed]
    BY DEF NoClient
  <1>. QED BY <1>1, <1>2, <1>4, <1>5, <1>6, SumNil DEF LimitInv, ClientLimits

LEMMA ConnectionLimitsStep ==
    ASSUME StreamAssumption, StreamInv, ConnectionLimits, [Next]_vars
    PROVE  ConnectionLimits'
  <1>1. /\ conn \in ConnectionType /\ conn.outbound \in Seq(Messages) /\ conn.inbound \in Seq(Requests)
        /\ conn.after \in Nat /\ Committed \in Nat /\ Len(conn.inbound) \in Nat
        /\ OutboundLimit \in Nat /\ InboundLimit \in Nat /\ TypesOK
    BY LenProperties DEF StreamAssumption, StreamInv, TypesOK, ConnectionType, Committed
  <1>2. CASE UNCHANGED <<log, conn>>
    BY <1>2 DEF ConnectionLimits, Committed
  <1>3. CASE Dispatch
    <2>1. /\ UNCHANGED log /\ conn'.outbound = conn.outbound /\ conn'.inbound = conn.inbound
          /\ conn.inbound # <<>> /\ conn.step = "idle"
      BY <1>1, <1>3 DEF Dispatch, ConnectionType
    <2>2. conn'.after <= Committed
      <3>1. CASE Begins(Head(conn.inbound))
        <4>1. CanStart(Head(conn.inbound))
          BY <2>1, <3>1 DEF StreamInv, HandshakeOK, StartsWith
        <4>2. conn'.after = IF Head(conn.inbound).after = LiveOnly THEN Committed
                            ELSE Head(conn.inbound).after
          BY <1>1, <1>3, <3>1 DEF Dispatch, ConnectionType, Begins
        <4>3. Head(conn.inbound).after = seen \/ Head(conn.inbound).after = 0
          BY <4>1 DEF CanStart
        <4>4. seen \in Int /\ seen <= Committed
          BY <1>1 DEF TypesOK
        <4>. QED BY <1>1, <4>2, <4>3, <4>4
      <3>2. CASE ~Begins(Head(conn.inbound))
        BY <1>1, <1>3, <3>2 DEF Dispatch, ConnectionType, Begins, ConnectionLimits
      <3>. QED BY <3>1, <3>2
    <2>. QED BY <2>1, <2>2 DEF ConnectionLimits, Committed
  <1>4. CASE Discard
    <2>1. UNCHANGED log /\ conn' = [conn EXCEPT !.inbound = Tail(conn.inbound)] /\ conn.inbound # <<>>
      BY <1>4 DEF Discard
    <2>2. Len(Tail(conn.inbound)) = Len(conn.inbound) - 1
      BY <1>1, <2>1
    <2>. QED BY <1>1, <2>1, <2>2 DEF ConnectionLimits, ConnectionType, Committed
  <1>5. CASE Answer
    <2>. DEFINE m == Response(Head(conn.inbound).id)
                s == Sent(conn, m)
    <2>1. conn.inbound # <<>>
      BY <1>5 DEF Answer, StreamInv, HandshakeOK
    <2>2. m \in Messages /\ m.kind # "terminal"
      <3>1. Head(conn.inbound) \in Requests
        BY <1>1, <2>1
      <3>. QED BY <3>1 DEF Response, Messages, Requests
    <2>3. /\ BudgetedBytes(s.outbound) <= OutboundLimit
          /\ s.inbound = conn.inbound /\ s.after = conn.after
      BY <1>1, <2>2, SentWithin DEF ConnectionLimits
    <2>4. s \in ConnectionType
      <3>1. s = conn \/ s = Destroyed(conn) \/ s = [conn EXCEPT !.outbound = Append(conn.outbound, m)]
        BY <1>1, SentCases
      <3>2. Append(conn.outbound, m) \in Seq(Messages) /\ <<>> \in Seq(Messages)
        BY <1>1, <2>2, AppendMessage, EmptySeq
      <3>. QED BY <1>1, <3>1, <3>2 DEF Destroyed, StopReading, ConnectionType
    <2>5. /\ UNCHANGED log
          /\ conn' = [s EXCEPT !.step = "replaying", !.subscribed = TRUE]
             \/ conn' = [s EXCEPT !.step = "idle", !.inbound = Tail(s.inbound)]
      BY <1>5 DEF Answer
    <2>6. Len(Tail(conn.inbound)) = Len(conn.inbound) - 1
      BY <1>1, <2>1
    <2>. HIDE DEF s
    <2>7. /\ conn'.outbound = s.outbound /\ conn'.after = s.after
          /\ conn'.inbound = s.inbound \/ conn'.inbound = Tail(s.inbound)
      BY <2>4, <2>5 DEF ConnectionType
    <2>8. Len(conn'.inbound) <= InboundLimit
      <3>1. Len(conn.inbound) <= InboundLimit /\ Len(Tail(conn.inbound)) <= InboundLimit
        BY <1>1, <2>6 DEF ConnectionLimits
      <3>. QED BY <2>3, <2>7, <3>1
    <2>. QED BY <2>3, <2>5, <2>7, <2>8 DEF ConnectionLimits, Committed
  <1>6. CASE Replay
    <2>1. CASE conn' = [conn EXCEPT !.step = "idle", !.inbound = Tail(conn.inbound)]
      <3>1. UNCHANGED log /\ conn.inbound # <<>>
        BY <1>6 DEF Replay, StreamInv, HandshakeOK
      <3>2. Len(Tail(conn.inbound)) = Len(conn.inbound) - 1
        BY <1>1, <3>1
      <3>. QED BY <1>1, <2>1, <3>1, <3>2 DEF ConnectionLimits, ConnectionType, Committed
    <2>2. CASE /\ ListEvents(conn.after) # <<>>
               /\ conn' = Forwarded(conn, conn.after + 1, Head(ListEvents(conn.after)))
      <3>1. conn.after < Committed /\ Head(ListEvents(conn.after)) \in Nat /\ UNCHANGED log
        BY <1>1, <1>6, <2>2, NextRow DEF Replay
      <3>2. /\ BudgetedBytes(conn'.outbound) <= OutboundLimit
            /\ conn'.inbound = conn.inbound /\ conn'.after \in {conn.after, conn.after + 1}
        BY <1>1, <2>2, <3>1, ForwardedWithin DEF ConnectionLimits
      <3>. QED BY <1>1, <3>1, <3>2 DEF ConnectionLimits, Committed
    <2>. QED BY <1>6, <2>1, <2>2 DEF Replay
  <1>7. CASE Flush
    <2>1. UNCHANGED log /\ conn.outbound # <<>> /\ conn'.outbound = Tail(conn.outbound)
          /\ conn'.inbound = conn.inbound /\ conn'.after = conn.after
      BY <1>1, <1>7 DEF Flush, ConnectionType
    <2>2. BudgetedBytes(Tail(conn.outbound)) <= BudgetedBytes(conn.outbound)
      BY <1>1, <2>1, SumOfTail
    <2>3. BudgetedBytes(Tail(conn.outbound)) \in Nat /\ BudgetedBytes(conn.outbound) \in Nat
      BY <1>1, <2>1, SumOfTail, SumNat
    <2>. QED BY <1>1, <2>1, <2>2, <2>3 DEF ConnectionLimits, Committed
  <1>8. ASSUME NEW bytes \in EventSizes, Publish(bytes) PROVE ConnectionLimits'
    <2>1. bytes \in Nat /\ Committed + 1 \in Nat
      BY <1>1 DEF StreamAssumption
    <2>2. Committed' = Committed + 1
      BY <1>1, <1>8 DEF Publish, Committed, TypesOK
    <2>3. CASE conn' = conn
      BY <1>1, <2>2, <2>3 DEF ConnectionLimits
    <2>4. CASE conn' = Forwarded(conn, Committed + 1, bytes)
      <3>1. /\ BudgetedBytes(conn'.outbound) <= OutboundLimit
            /\ conn'.inbound = conn.inbound /\ conn'.after \in {conn.after, Committed + 1}
        BY <1>1, <2>1, <2>4, ForwardedWithin DEF ConnectionLimits
      <3>. QED BY <1>1, <2>2, <3>1 DEF ConnectionLimits
    <2>. QED BY <1>8, <2>3, <2>4 DEF Publish
  <1>9. CASE EndGracefully \/ CloseGracefully
    <2>1. UNCHANGED log /\ conn'.outbound = conn.outbound /\ conn'.inbound = conn.inbound
          /\ conn'.after = conn.after
      BY <1>1, <1>9 DEF EndGracefully, CloseGracefully, StopReading, ConnectionType
    <2>. QED BY <2>1 DEF ConnectionLimits, Committed
  <1>10. CASE CloseHard \/ Detach
    <2>1. UNCHANGED log /\ conn'.outbound = <<>> /\ conn'.inbound = conn.inbound
          /\ conn'.after = conn.after
      BY <1>1, <1>10 DEF CloseHard, Detach, Destroyed, StopReading, ConnectionType
    <2>. QED BY <1>1, <2>1, SumNil DEF ConnectionLimits, Committed
  <1>11. CASE ConnectAgain
    <2>1. UNCHANGED log /\ conn'.outbound = <<>> /\ conn'.inbound = <<>> /\ conn'.after = 0
      BY <1>11 DEF ConnectAgain, Connect, NoConnection
    <2>. QED BY <1>1, <2>1, SumNil DEF ConnectionLimits, Committed
  <1>12. CASE WriteLine
    <2>. DEFINE r == Head(client.writes)
    <2>1. UNCHANGED log
      BY <1>12 DEF WriteLine
    <2>2. CASE conn' = conn
      BY <2>1, <2>2 DEF ConnectionLimits, Committed
    <2>3. CASE conn' = Destroyed(conn)
      <3>1. conn'.outbound = <<>> /\ conn'.inbound = conn.inbound /\ conn'.after = conn.after
        BY <1>1, <2>3 DEF Destroyed, StopReading, ConnectionType
      <3>. QED BY <1>1, <2>1, <3>1, SumNil DEF ConnectionLimits, Committed
    <2>4. CASE ~(Len(conn.inbound) >= InboundLimit) /\ conn' = [conn EXCEPT !.inbound = Append(conn.inbound, r)]
      <3>1. Len(Append(conn.inbound, r)) = Len(conn.inbound) + 1
        BY <1>1
      <3>. QED BY <1>1, <2>1, <2>4, <3>1 DEF ConnectionLimits, ConnectionType, Committed
    <2>. QED BY <1>12, <2>2, <2>3, <2>4 DEF WriteLine
  <1>. QED BY <1>2, <1>3, <1>4, <1>5, <1>6, <1>7, <1>8, <1>9, <1>10, <1>11, <1>12
       DEF Next, CoreStep, ConsumeLine, ConsumerStep, Ending, Request, Beat, Receive, ConsumeResponse,
           ConsumeEvent, NextQueued, NextWaits, NextEnds, LosePipe, HandshakeTimeout, Close, Finish,
           Fail, Over, vars

LEMMA ClientLimitsStep ==
    ASSUME StreamAssumption, StreamInv, ClientLimits, [Next]_vars
    PROVE  ClientLimits'
  <1>1. /\ client \in ClientType /\ client.queue \in Seq(Messages) /\ client.buffer \in Seq(Messages)
        /\ Len(client.queue) \in Nat /\ QueueLimit \in Nat /\ QueueBytes \in Nat
        /\ Sum(client.queue) \in Nat
    BY LenProperties, SumNat DEF StreamAssumption, StreamInv, TypesOK, ClientType
  <1>2. CASE UNCHANGED <<client, end>>
    BY <1>2 DEF ClientLimits, Connected
  <1>3. ASSUME NEW failed, Over(failed) PROVE ClientLimits'
    <2>1. /\ client' = [NoClient EXCEPT !.number = client.number, !.failed = failed]
          /\ end' \in {"no", "done", "error"}
      BY <1>3 DEF Over, ClientLimits
    <2>2. client'.queue = <<>> /\ client'.pending = {} /\ client'.number = client.number
          /\ client'.failed = failed
      BY <2>1 DEF NoClient
    <2>3. client' = [NoClient EXCEPT !.number = client'.number, !.failed = client'.failed]
      BY <2>1, <2>2
    <2>. QED BY <1>1, <2>1, <2>2, <2>3, SumNil DEF ClientLimits, Connected
  <1>4. CASE ConnectAgain
    <2>1. /\ client'.queue = <<>> /\ client'.pending = {Handshake} /\ client'.state = "connecting"
          /\ end' = "no"
      BY <1>4 DEF ConnectAgain, Connect, NoClient
    <2>. QED BY <1>1, <2>1, SumNil DEF ClientLimits, Connected
  <1>5. CASE (\E id \in Ids : Request(id)) \/ Beat \/ WriteLine
    <2>1. /\ client'.queue = client.queue /\ client'.state = client.state /\ end' = end /\ Connected
          /\ client'.pending \subseteq client.pending \cup Ids
      <3>1. ASSUME NEW id \in Ids, Request(id)
            PROVE  /\ client'.queue = client.queue /\ client'.state = client.state /\ end' = end
                   /\ Connected /\ client'.pending = client.pending \cup {id}
        BY <1>1, <3>1 DEF Request, ClientType, Connected
      <3>2. CASE Beat
        BY <1>1, <3>2 DEF Beat, ClientType, Connected
      <3>3. CASE WriteLine
        BY <1>1, <3>3 DEF WriteLine, ClientType, Connected
      <3>. QED BY <1>5, <3>1, <3>2, <3>3
    <2>. QED BY <2>1 DEF ClientLimits, Connected
  <1>6. CASE (\E n \in 1..PipeSize : Receive(n)) \/ NextWaits
    <2>1. /\ client'.queue = client.queue /\ client'.state = client.state /\ end' = end /\ Connected
          /\ client'.pending = client.pending
      BY <1>1, <1>6 DEF Receive, NextWaits, ClientType, Connected
    <2>. QED BY <2>1 DEF ClientLimits, Connected
  <1>7. CASE ConsumeResponse
    <2>1. Connected
      BY <1>7 DEF ConsumeResponse, StreamInv, ClientOK
    <2>2. /\ client'.queue = client.queue /\ client'.state \in {client.state, "open"} /\ end' = end
          /\ client'.pending \subseteq client.pending
      BY <1>1, <1>7 DEF ConsumeResponse, ClientType
    <2>. QED BY <2>1, <2>2 DEF ClientLimits, Connected
  <1>8. CASE ConsumeEvent
    <2>. DEFINE m == Head(client.buffer)
    <2>1. Connected /\ client.buffer # <<>>
      BY <1>8 DEF ConsumeEvent, StreamInv, ClientOK
    <2>2. /\ client'.state = client.state /\ end' = end /\ client'.pending = client.pending
          /\ \/ client'.queue = client.queue
             \/ client'.queue = Append(client.queue, m) /\ Fits(m)
      BY <1>1, <1>8 DEF ConsumeEvent, ClientType
    <2>3. ASSUME client'.queue = Append(client.queue, m), Fits(m)
          PROVE  Len(client'.queue) <= QueueLimit /\ Sum(client'.queue) <= QueueBytes
      <3>1. m \in Messages /\ m.bytes \in Nat
        BY <1>1, <2>1, FirstMessage DEF Messages
      <3>2. Len(Append(client.queue, m)) = Len(client.queue) + 1
        BY <1>1
      <3>3. Sum(Append(client.queue, m)) <= Sum(client.queue) + m.bytes
        BY <1>1, <3>1, SumOfAppend
      <3>4. Sum(Append(client.queue, m)) \in Nat
        BY <1>1, <3>1, SumOfAppend
      <3>5. Len(client.queue) < QueueLimit /\ Sum(client.queue) + m.bytes <= QueueBytes
        BY <2>3 DEF Fits
      <3>. HIDE DEF m
      <3>. QED BY <1>1, <2>3, <3>1, <3>2, <3>3, <3>4, <3>5
    <2>4. CASE client'.queue = client.queue
      BY <2>1, <2>2, <2>4 DEF ClientLimits, Connected
    <2>5. CASE client'.queue = Append(client.queue, m) /\ Fits(m)
      BY <2>1, <2>2, <2>3, <2>5 DEF ClientLimits, Connected
    <2>. QED BY <2>2, <2>4, <2>5
  <1>9. CASE NextQueued
    <2>1. Connected
      BY <1>9 DEF NextQueued, StreamInv, ClientOK
    <2>2. /\ client'.queue = Tail(client.queue) /\ client.queue # <<>> /\ client'.state = client.state
          /\ client'.pending = client.pending /\ end' = end
      BY <1>1, <1>9 DEF NextQueued, ClientType
    <2>3. Len(Tail(client.queue)) = Len(client.queue) - 1
      BY <1>1, <2>2
    <2>4. Sum(Tail(client.queue)) <= Sum(client.queue) /\ Sum(Tail(client.queue)) \in Nat
      BY <1>1, <2>2, SumOfTail
    <2>5. Len(client'.queue) <= QueueLimit /\ Sum(client'.queue) <= QueueBytes
      <3>1. Len(client.queue) <= QueueLimit /\ Sum(client.queue) <= QueueBytes
        BY DEF ClientLimits
      <3>2. Len(Tail(client.queue)) <= QueueLimit
        BY <1>1, <2>3, <3>1
      <3>3. Sum(Tail(client.queue)) <= QueueBytes
        BY <1>1, <2>4, <3>1
      <3>. QED BY <2>2, <3>2, <3>3
    <2>. QED BY <2>1, <2>2, <2>5 DEF ClientLimits, Connected
  <1>10. CASE NextEnds
    BY <1>10 DEF NextEnds, ClientLimits, Connected
  <1>11. CASE Finish \/ Fail \/ HandshakeTimeout \/ Close
    BY <1>3, <1>11 DEF Finish, Fail, HandshakeTimeout, Close
  <1>. QED BY <1>2, <1>4, <1>5, <1>6, <1>7, <1>8, <1>9, <1>10, <1>11
       DEF Next, CoreStep, ConsumeLine, ConsumerStep, Ending, Dispatch, Discard, Answer, Replay, Flush,
           Publish, EndGracefully, Detach, CloseGracefully, CloseHard, LosePipe, vars

LEMMA LimitsAreTypes == ASSUME StreamAssumption, StreamInv, LimitInv PROVE StreamTypeOK
  <1>1. Committed \in Nat
    BY LenProperties DEF StreamInv, TypesOK, Committed
  <1>2. ASSUME NEW s \in Seq(Messages), NEW i \in DOMAIN s PROVE IsMessage(s[i])
    <2>1. s[i] \in Messages
      BY MessageTypes
    <2>. QED BY <2>1 DEF Messages, IsMessage, Kinds
  <1>3. /\ conn.outbound \in Seq(Messages) /\ pipe \in Seq(Messages)
        /\ client.buffer \in Seq(Messages) /\ client.queue \in Seq(Messages)
    BY DEF StreamInv, TypesOK, ConnectionType, ClientType
  <1>4. \A s \in {conn.outbound, pipe, client.buffer, client.queue} : \A i \in DOMAIN s : IsMessage(s[i])
    BY <1>2, <1>3
  <1>5. /\ log \in Seq(EventSizes)
        /\ conn.socket \in {"open", "ended", "destroyed", "closed"}
        /\ conn.step \in {"idle", "answering", "replaying"}
        /\ client.state \in {"connecting", "open", "closed"}
    BY DEF StreamInv, TypesOK, ConnectionType, ClientType
  <1>6. conn.after \in 0..Committed /\ seen \in -1..Committed
    BY <1>1 DEF StreamInv, TypesOK, ConnectionType, LimitInv, ConnectionLimits, NotBegun
  <1>7. conn.step # "idle" => conn.inbound # <<>>
    BY DEF StreamInv, HandshakeOK
  <1>8. WithinLimits
    BY DEF LimitInv, ConnectionLimits, ClientLimits, WithinLimits
  <1>. QED BY <1>4, <1>5, <1>6, <1>7, <1>8 DEF StreamTypeOK, LimitInv, ClientLimits

\* For every limit and whatever arrives in which order: the bytes queued for the client, the
\* requests, and the events queued in the client stay within their limits, the cursor of the
\* connection never passes the table, and a client that is closed holds nothing (#send,
\* #onData, EventQueue.push).
THEOREM StreamTypesHold == Spec => []StreamTypeOK
  <1>1. Init => LimitInv
    BY StreamAssumption, InitLimits
  <1>2. StreamInv /\ LimitInv /\ [Next]_vars => LimitInv'
    BY StreamAssumption, ConnectionLimitsStep, ClientLimitsStep DEF LimitInv
  <1>3. StreamInv /\ LimitInv => StreamTypeOK
    BY StreamAssumption, LimitsAreTypes
  <1>. QED BY <1>1, <1>2, <1>3, StreamHolds, PTL DEF Spec
=============================================================================
