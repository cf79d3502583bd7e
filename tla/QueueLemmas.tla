----------------------------- MODULE QueueLemmas -----------------------------
(***************************************************************************)
(* Facts about the sequence operators with which the models take a job out *)
(* of a queue and put one at its tail.                                     *)
(***************************************************************************)
EXTENDS Integers, Sequences, SequencesExt, SequenceTheorems, TLAPS

\* Taking the i-th element out of a queue leaves the others in their order.
LEMMA RemoveAtQueue ==
  ASSUME NEW S, NEW q \in Seq(S), NEW i \in 1..Len(q)
  PROVE  /\ RemoveAt(q, i) \in Seq(S)
         /\ Len(RemoveAt(q, i)) = Len(q) - 1
         /\ \A k \in 1..(Len(q) - 1) :
              RemoveAt(q, i)[k] = IF k < i THEN q[k] ELSE q[k + 1]
<1> DEFINE a == SubSeq(q, 1, i - 1)
           b == SubSeq(q, i + 1, Len(q))
<1>1. /\ a \in Seq(S) /\ Len(a) = i - 1
      /\ \A k \in 1..(i - 1) : a[k] = q[k]
  OBVIOUS
<1>2. /\ b \in Seq(S) /\ Len(b) = Len(q) - i
      /\ \A k \in 1..(Len(q) - i) : b[k] = q[k + i]
  OBVIOUS
<1> HIDE DEF a, b
<1>3. /\ a \o b \in Seq(S) /\ Len(a \o b) = Len(a) + Len(b)
      /\ \A k \in 1..(Len(a) + Len(b)) :
           (a \o b)[k] = IF k <= Len(a) THEN a[k] ELSE b[k - Len(a)]
  BY <1>1, <1>2, ConcatProperties
<1>4. RemoveAt(q, i) = a \o b
  BY DEF RemoveAt, a, b
<1>5. /\ Len(q) \in Nat /\ i \in Int /\ 1 <= i /\ i <= Len(q)
      /\ Len(a) + Len(b) = Len(q) - 1
  BY <1>1, <1>2
<1>6. ASSUME NEW k \in 1..(Len(q) - 1)
      PROVE  (a \o b)[k] = IF k < i THEN q[k] ELSE q[k + 1]
  <2>1. CASE k < i
    BY <1>1, <1>3, <1>5, <2>1
  <2>2. CASE ~(k < i)
    <3>1. k - (i - 1) \in 1..(Len(q) - i) /\ k - (i - 1) + i = k + 1
      BY <1>5, <2>2
    <3>2. (a \o b)[k] = b[k - (i - 1)]
      BY <1>1, <1>3, <1>5, <2>2
    <3> QED  BY <1>2, <2>2, <3>1, <3>2
  <2> QED  BY <2>1, <2>2
<1> QED  BY <1>3, <1>4, <1>5, <1>6

Holds(q, x) == \E i \in 1..Len(q) : q[i] = x

\* Every element but the i-th is still in the queue.
LEMMA RemoveAtKeeps ==
  ASSUME NEW S, NEW q \in Seq(S), NEW i \in 1..Len(q),
         NEW m \in 1..Len(q), m # i
  PROVE  \E k \in 1..Len(RemoveAt(q, i)) : RemoveAt(q, i)[k] = q[m]
<1>1. CASE m < i
  <2>1. m \in 1..Len(RemoveAt(q, i)) /\ RemoveAt(q, i)[m] = q[m]
    <3>1. m \in 1..(Len(q) - 1)
      BY <1>1
    <3> QED  BY <1>1, <3>1, RemoveAtQueue
  <2> QED  BY <2>1
<1>2. CASE m > i
  <2>1. m - 1 \in 1..Len(RemoveAt(q, i)) /\ RemoveAt(q, i)[m - 1] = q[m]
    BY <1>2, RemoveAtQueue
  <2> QED  BY <2>1
<1> QED  BY <1>1, <1>2

\* Whatever was queued and is not what was taken out is still queued.
LEMMA RemoveAtHolds ==
  ASSUME NEW S, NEW q \in Seq(S), NEW i \in 1..Len(q), NEW x, Holds(q, x), x # q[i]
  PROVE  Holds(RemoveAt(q, i), x)
<1>1. PICK m \in 1..Len(q) : q[m] = x
  BY DEF Holds
<1>2. m # i
  BY <1>1
<1>3. \E k \in 1..Len(RemoveAt(q, i)) : RemoveAt(q, i)[k] = q[m]
  BY <1>2, RemoveAtKeeps
<1> QED  BY <1>1, <1>3 DEF Holds

\* Nothing is in the queue that was not there before.
LEMMA RemoveAtAddsNothing ==
  ASSUME NEW S, NEW q \in Seq(S), NEW i \in 1..Len(q)
  PROVE  \A k \in 1..Len(RemoveAt(q, i)) : \E m \in 1..Len(q) : RemoveAt(q, i)[k] = q[m]
<1> SUFFICES ASSUME NEW k \in 1..Len(RemoveAt(q, i))
             PROVE  \E m \in 1..Len(q) : RemoveAt(q, i)[k] = q[m]
  OBVIOUS
<1>1. k \in 1..(Len(q) - 1)
  BY RemoveAtQueue
<1>2. RemoveAt(q, i)[k] = q[k] \/ RemoveAt(q, i)[k] = q[k + 1]
  BY <1>1, RemoveAtQueue
<1> QED  BY <1>1, <1>2

\* Appending keeps what is queued and adds the new element at the tail.
LEMMA AppendQueue ==
  ASSUME NEW S, NEW q \in Seq(S), NEW x \in S
  PROVE  /\ Append(q, x) \in Seq(S)
         /\ Len(Append(q, x)) = Len(q) + 1
         /\ \A k \in 1..Len(q) : Append(q, x)[k] = q[k]
         /\ Append(q, x)[Len(q) + 1] = x
  OBVIOUS

\* What is queued stays queued when something is appended, and so does that.
LEMMA AppendHolds ==
  ASSUME NEW S, NEW q \in Seq(S), NEW y \in S
  PROVE  /\ Holds(Append(q, y), y)
         /\ \A x : Holds(q, x) => Holds(Append(q, y), x)
<1>1. Len(q) \in Nat /\ Len(Append(q, y)) = Len(q) + 1
  BY AppendQueue
<1>2. Holds(Append(q, y), y)
  <2>1. Len(q) + 1 \in 1..Len(Append(q, y)) /\ Append(q, y)[Len(q) + 1] = y
    BY <1>1, AppendQueue
  <2> QED  BY <2>1 DEF Holds
<1>3. ASSUME NEW x, NEW i \in 1..Len(q), q[i] = x
      PROVE  Holds(Append(q, y), x)
  <2>1. i \in 1..Len(Append(q, y)) /\ Append(q, y)[i] = x
    BY <1>1, <1>3, AppendQueue
  <2> QED  BY <2>1 DEF Holds
<1> QED  BY <1>2, <1>3 DEF Holds
=============================================================================
