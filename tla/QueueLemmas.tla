---------------------------- MODULE QueueLemmas ----------------------------
(***************************************************************************)
(* Facts about natural numbers and about sequences used as FIFO queues that *)
(* the proofs of several components rest on.                               *)
(***************************************************************************)
EXTENDS Integers, Sequences, FiniteSets, SequenceTheorems, FiniteSetTheorems,
        WellFoundedInduction, TLAPS

LessThan == {ss \in Nat \X Nat : ss[1] < ss[2]}

\* A nonempty set of natural numbers has a least element.
LEMMA LeastNatural ==
  ASSUME NEW T, T \subseteq Nat, T # {}
  PROVE  \E x \in T : \A y \in T : x <= y
<1>1. OpToRel(<, Nat) = LessThan
  BY Zenon DEF OpToRel, LessThan
<1>2. IsWellFoundedOn(LessThan, Nat)
  BY <1>1, NatLessThanWellFounded, Zenon
<1>3. \E x \in T : \A y \in T : ~ (<<y, x>> \in LessThan)
  BY <1>2, WFMin, Zenon
<1>4. \A x, y \in Nat : ~ (<<y, x>> \in LessThan) => x <= y
  BY DEF LessThan
<1> QED
  BY <1>3, <1>4

\* The empty queue.
LEMMA EmptyQueue ==
  ASSUME NEW S
  PROVE  <<>> \in Seq(S) /\ Len(<<>>) = 0 /\ DOMAIN <<>> = {}
<1>1. <<>> \in Seq(S) /\ Len(<<>>) = 0
  BY EmptySeq
<1> QED
  BY <1>1

\* Putting an item at the end of a queue.
LEMMA PutFacts ==
  ASSUME NEW S, NEW q \in Seq(S), NEW e \in S
  PROVE  /\ Append(q, e) \in Seq(S)
         /\ Len(Append(q, e)) = Len(q) + 1
         /\ DOMAIN Append(q, e) = 1..(Len(q) + 1)
         /\ \A i \in 1..Len(q) : Append(q, e)[i] = q[i]
         /\ Append(q, e)[Len(q) + 1] = e
OBVIOUS

\* Taking the item at the front of a queue.
LEMMA GetFacts ==
  ASSUME NEW S, NEW q \in Seq(S), q # <<>>
  PROVE  /\ Len(q) \in Nat \ {0} /\ DOMAIN q = 1..Len(q)
         /\ Head(q) = q[1] /\ Head(q) \in S
         /\ Tail(q) \in Seq(S)
         /\ Len(Tail(q)) = Len(q) - 1
         /\ DOMAIN Tail(q) = 1..(Len(q) - 1)
         /\ \A i \in 1..(Len(q) - 1) : Tail(q)[i] = q[i + 1]
<1>1. Len(q) \in Nat /\ Len(q) # 0 /\ DOMAIN q = 1..Len(q)
  BY EmptySeq
<1> QED
  BY <1>1

-----------------------------------------------------------------------------
(* How many entries of a queue are of a kind. *)

CountIn(q, M) == Cardinality({i \in DOMAIN q : q[i] \in M})

\* The entries of a kind are a finite number of places.
LEMMA CountType ==
  ASSUME NEW S, NEW q \in Seq(S), NEW M
  PROVE  IsFiniteSet({i \in DOMAIN q : q[i] \in M}) /\ CountIn(q, M) \in Nat
<1>1. IsFiniteSet(DOMAIN q)
  <2>1. DOMAIN q = 1..Len(q) /\ Len(q) \in Nat
    OBVIOUS
  <2> QED
    BY <2>1, FS_Interval
<1>2. {i \in DOMAIN q : q[i] \in M} \in SUBSET DOMAIN q
  OBVIOUS
<1> QED
  BY <1>1, <1>2, FS_Subset, FS_CardinalityType DEF CountIn

\* The empty queue has no entry of any kind.
LEMMA CountEmpty ==
  ASSUME NEW M PROVE CountIn(<<>>, M) = 0
<1>1. {i \in DOMAIN <<>> : <<>>[i] \in M} = {}
  BY EmptyQueue
<1> QED
  BY <1>1, FS_EmptySet DEF CountIn

\* An item put at the end adds one to its kind.
LEMMA CountPut ==
  ASSUME NEW S, NEW q \in Seq(S), NEW e \in S, NEW M
  PROVE  CountIn(Append(q, e), M) = CountIn(q, M) + (IF e \in M THEN 1 ELSE 0)
<1> DEFINE qq == Append(q, e)
           K  == {i \in DOMAIN q : q[i] \in M}
           KK == {i \in DOMAIN qq : qq[i] \in M}
           n  == Len(q) + 1
<1>1. /\ DOMAIN q = 1..Len(q) /\ Len(q) \in Nat /\ DOMAIN qq = 1..n
      /\ \A i \in 1..Len(q) : qq[i] = q[i]
      /\ qq[n] = e
  BY PutFacts
<1>2. IsFiniteSet(K) /\ Cardinality(K) \in Nat
  BY CountType DEF CountIn
<1>3. n \notin K
  BY <1>1
<1>4. KK = IF e \in M THEN K \cup {n} ELSE K
  BY <1>1
<1> HIDE DEF qq, K, KK, n
<1>5. Cardinality(K \cup {n}) = Cardinality(K) + 1
  BY <1>2, <1>3, FS_AddElement
<1>6. Cardinality(KK) = Cardinality(K) + (IF e \in M THEN 1 ELSE 0)
  BY <1>2, <1>4, <1>5
<1> QED
  BY <1>6 DEF CountIn, K, KK, qq

\* An item taken from the front takes one from its kind.
LEMMA CountGet ==
  ASSUME NEW S, NEW q \in Seq(S), q # <<>>, NEW M
  PROVE  CountIn(q, M) = CountIn(Tail(q), M) + (IF Head(q) \in M THEN 1 ELSE 0)
<1> DEFINE K  == {i \in DOMAIN q : q[i] \in M}
           KK == {i \in DOMAIN Tail(q) : Tail(q)[i] \in M}
           f  == [i \in KK |-> i + 1]
<1>1. /\ Len(q) \in Nat \ {0} /\ DOMAIN q = 1..Len(q)
      /\ Head(q) = q[1]
      /\ DOMAIN Tail(q) = 1..(Len(q) - 1)
      /\ \A i \in 1..(Len(q) - 1) : Tail(q)[i] = q[i + 1]
  BY GetFacts
<1>2. IsFiniteSet(KK) /\ Cardinality(KK) \in Nat
  <2>1. Tail(q) \in Seq(S)
    BY GetFacts
  <2> QED
    BY <2>1, CountType DEF CountIn
<1>3. IsFiniteSet(K) /\ Cardinality(K) \in Nat
  BY CountType DEF CountIn
<1>4. KK \subseteq Int /\ \A i \in KK : i + 1 \in K \ {1}
  BY <1>1
<1>5. \A j \in K \ {1} : j - 1 \in KK /\ j = (j - 1) + 1
  BY <1>1
<1> HIDE DEF K, KK
<1>6. f \in Bijection(KK, K \ {1})
  <2>1. f \in [KK -> K \ {1}] /\ \A a, b \in KK : f[a] = f[b] => a = b
    BY <1>4
  <2>2. \A t \in K \ {1} : \E i \in KK : f[i] = t
    BY <1>4, <1>5
  <2> QED
    BY <2>1, <2>2 DEF Bijection, Injection, Surjection, IsInjective
<1>7. Cardinality(K \ {1}) = Cardinality(KK)
  BY <1>2, <1>6, FS_Bijection DEF ExistsBijection
<1>8. 1 \in K <=> Head(q) \in M
  BY <1>1 DEF K
<1>9. Cardinality(K \ {1}) = IF 1 \in K THEN Cardinality(K) - 1 ELSE Cardinality(K)
  BY <1>3, FS_RemoveElement
<1>10. Cardinality(K) = Cardinality(KK) + (IF Head(q) \in M THEN 1 ELSE 0)
  BY <1>2, <1>3, <1>7, <1>8, <1>9
<1> QED
  BY <1>10 DEF CountIn, K, KK
=============================================================================
