--------------------- MODULE RelayInboundScheduler_proofs ---------------------
(***************************************************************************)
(* Proofs about RelayInboundScheduler: the counters are those of the       *)
(* queued messages, run never sleeps on work, and only history reads of a  *)
(* session are dropped.                                                    *)
(***************************************************************************)
EXTENDS RelayInboundScheduler, SumLemmas

-----------------------------------------------------------------------------
(* The loop over the old queue.                                            *)

NoRepeat(q) == \A i, j \in 1..Len(q) : q[i] = q[j] => i = j
Members(q)  == {q[i] : i \in 1..Len(q)}

\* One round of the loop for every index up to n, and the functions it leaves alone.
Loop(g, old, dropped, n) ==
  [i \in 0..n |-> IF i = 0 THEN <<>>
                  ELSE IF old[i] \in dropped THEN g[i - 1]
                  ELSE Append(g[i - 1], old[i])]
IsLoop(g, old, dropped, n) == g = Loop(g, old, dropped, n)

\* Without is the loop's value at the end of the queue.
LEMMA WithoutIsLoop ==
  ASSUME NEW old, NEW dropped
  PROVE  Without(old, dropped) = (CHOOSE g : IsLoop(g, old, dropped, Len(old)))[Len(old)]
  BY DEF Without, IsLoop, Loop

\* The loop has a value at every index.
LEMMA LoopExists ==
  ASSUME NEW old, NEW dropped, NEW n \in Nat
  PROVE  \E g : IsLoop(g, old, dropped, n)
<1> DEFINE Has(k) == \E g : IsLoop(g, old, dropped, k)
           Bad    == {k \in Nat : ~Has(k)}
<1>1. Has(0)
  <2> DEFINE g == [i \in 0..0 |-> <<>>]
  <2>1. IsLoop(g, old, dropped, 0)
    BY DEF IsLoop, Loop
  <2> QED  BY <2>1
<1>2. ASSUME NEW k \in Nat \ {0}, Has(k - 1) PROVE Has(k)
  <2>1. PICK g : IsLoop(g, old, dropped, k - 1)
    BY <1>2
  <2> DEFINE h == Loop(g, old, dropped, k)
  <2>2. ASSUME NEW i \in 0..(k - 1) PROVE h[i] = g[i]
    <3>1. i \in 0..k
      OBVIOUS
    <3>2. g[i] = Loop(g, old, dropped, k - 1)[i]
      BY <2>1 DEF IsLoop
    <3> QED  BY <3>1, <3>2 DEF Loop
  <2>3. ASSUME NEW i \in 0..k, i # 0 PROVE g[i - 1] = h[i - 1]
    <3>1. i - 1 \in 0..(k - 1)
      BY <2>3
    <3> QED  BY <2>2, <3>1
  <2> HIDE DEF h
  <2>4. h = Loop(h, old, dropped, k)
    BY <2>3 DEF Loop, h
  <2> QED  BY <2>4 DEF IsLoop
<1> HIDE DEF Has
<1>3. ASSUME Bad # {} PROVE FALSE
  <2>1. Bad \subseteq Nat
    OBVIOUS
  <2>2. PICK k \in Bad : \A m \in Bad : k <= m
    <3> HIDE DEF Bad
    <3> QED  BY <1>3, <2>1, LeastNat
  <2>3. k \in Nat \ {0} /\ ~Has(k)
    BY <1>1
  <2>4. Has(k - 1)
    <3>1. k - 1 \in Nat /\ ~(k <= k - 1)
      BY <2>3
    <3> QED  BY <2>2, <3>1
  <2> QED  BY <1>2, <2>3, <2>4
<1> QED  BY <1>3 DEF Has

\* What the loop has collected after i rounds.
Collected(g, old, dropped, S, i) ==
  /\ g[i] \in Seq(S)
  /\ Members(g[i]) = {old[j] : j \in 1..i} \ dropped
  /\ NoRepeat(g[i])

\* Appending a new element to a queue without repetitions.
LEMMA AppendNew ==
  ASSUME NEW S, NEW q \in Seq(S), NEW x \in S, NoRepeat(q), x \notin Members(q)
  PROVE  /\ Append(q, x) \in Seq(S)
         /\ Members(Append(q, x)) = Members(q) \cup {x}
         /\ NoRepeat(Append(q, x))
<1>1. /\ Append(q, x) \in Seq(S) /\ Len(q) \in Nat /\ Len(Append(q, x)) = Len(q) + 1
      /\ Append(q, x)[Len(q) + 1] = x
      /\ \A i \in 1..Len(q) : Append(q, x)[i] = q[i]
  OBVIOUS
<1> DEFINE r == Append(q, x)
<1> HIDE DEF r
<1>2. \A i \in 1..Len(r) : i = Len(q) + 1 \/ i \in 1..Len(q)
  BY <1>1 DEF r
<1>3. 1..Len(q) \subseteq 1..Len(r) /\ Len(q) + 1 \in 1..Len(r)
  BY <1>1 DEF r
<1>4. Members(r) = Members(q) \cup {x}
  BY <1>1, <1>2, <1>3 DEF Members, r
<1>5. NoRepeat(r)
  <2> SUFFICES ASSUME NEW i \in 1..Len(r), NEW j \in 1..Len(r), r[i] = r[j]
               PROVE  i = j
    BY DEF NoRepeat
  <2>1. CASE i \in 1..Len(q) /\ j \in 1..Len(q)
    BY <1>1, <2>1 DEF r, NoRepeat
  <2>2. CASE i = Len(q) + 1 /\ j \in 1..Len(q)
    BY <1>1, <2>2 DEF r, Members
  <2>3. CASE i \in 1..Len(q) /\ j = Len(q) + 1
    BY <1>1, <2>3 DEF r, Members
  <2> QED  BY <1>2, <2>1, <2>2, <2>3
<1> QED  BY <1>1, <1>4, <1>5 DEF r

\* The loop keeps exactly what is not dropped, and repeats nothing.
LEMMA WithoutKeeps ==
  ASSUME NEW S, NEW old \in Seq(S), NoRepeat(old), NEW dropped
  PROVE  /\ Without(old, dropped) \in Seq(S)
         /\ Members(Without(old, dropped)) = Members(old) \ dropped
         /\ NoRepeat(Without(old, dropped))
<1> DEFINE n == Len(old)
           g == CHOOSE g : IsLoop(g, old, dropped, n)
           Bad == {i \in 0..n : ~Collected(g, old, dropped, S, i)}
<1>1. n \in Nat /\ \A i \in 1..n : old[i] \in S
  OBVIOUS
<1>2. IsLoop(g, old, dropped, n)
  BY <1>1, LoopExists
<1> HIDE DEF g
<1>3. g[0] = <<>>
  BY <1>1, <1>2 DEF IsLoop, Loop
<1>4. \A i \in 1..n : g[i] = IF old[i] \in dropped THEN g[i - 1] ELSE Append(g[i - 1], old[i])
  <2> SUFFICES ASSUME NEW i \in 1..n
               PROVE  g[i] = IF old[i] \in dropped THEN g[i - 1] ELSE Append(g[i - 1], old[i])
    OBVIOUS
  <2>1. i \in 0..n /\ i # 0
    BY <1>1
  <2>2. g[i] = Loop(g, old, dropped, n)[i]
    BY <1>2 DEF IsLoop
  <2> QED  BY <2>1, <2>2 DEF Loop
<1>5. Collected(g, old, dropped, S, 0)
  BY <1>3 DEF Collected, Members, NoRepeat
<1>6. ASSUME NEW i \in 1..n, Collected(g, old, dropped, S, i - 1)
      PROVE  Collected(g, old, dropped, S, i)
  <2>1. {old[j] : j \in 1..i} = {old[j] : j \in 1..(i - 1)} \cup {old[i]}
    <3>1. 1..i = (1..(i - 1)) \cup {i}
      BY <1>1
    <3> QED  BY <3>1
  <2>2. CASE old[i] \in dropped
    BY <1>4, <1>6, <2>1, <2>2 DEF Collected
  <2>3. CASE old[i] \notin dropped
    <3>1. old[i] \notin {old[j] : j \in 1..(i - 1)}
      BY <1>1 DEF NoRepeat
    <3>2. /\ g[i - 1] \in Seq(S) /\ NoRepeat(g[i - 1])
          /\ old[i] \in S /\ old[i] \notin Members(g[i - 1])
      BY <1>1, <1>6, <3>1 DEF Collected
    <3>3. g[i] = Append(g[i - 1], old[i])
      BY <1>4, <2>3
    <3>4. /\ g[i] \in Seq(S) /\ NoRepeat(g[i])
          /\ Members(g[i]) = Members(g[i - 1]) \cup {old[i]}
      BY <3>2, <3>3, AppendNew
    <3> QED  BY <1>6, <2>1, <2>3, <3>4 DEF Collected
  <2> QED  BY <2>2, <2>3
<1>7. ASSUME Bad # {} PROVE FALSE
  <2>1. Bad \subseteq Nat
    BY <1>1
  <2>2. PICK i \in Bad : \A m \in Bad : i <= m
    <3> HIDE DEF Bad
    <3> QED  BY <1>7, <2>1, LeastNat
  <2>3. i \in 1..n
    BY <1>1, <1>5, <2>2
  <2>4. i - 1 \in 0..n /\ ~(i <= i - 1)
    BY <1>1, <2>3
  <2>5. Collected(g, old, dropped, S, i - 1)
    BY <2>2, <2>4
  <2> QED  BY <1>6, <2>2, <2>3, <2>5
<1>8. Collected(g, old, dropped, S, n)
  BY <1>1, <1>7
<1>9. Without(old, dropped) = g[n]
  BY WithoutIsLoop DEF g
<1> QED  BY <1>8, <1>9 DEF Collected, Members

\* Taking the head of a queue without repetitions.
LEMMA TailRest ==
  ASSUME NEW S, NEW q \in Seq(S), q # <<>>, NoRepeat(q)
  PROVE  /\ Head(q) \in S /\ Head(q) \in Members(q) /\ Tail(q) \in Seq(S)
         /\ Members(Tail(q)) = Members(q) \ {Head(q)}
         /\ NoRepeat(Tail(q))
<1>1. /\ Len(q) \in Nat /\ Len(q) > 0 /\ Head(q) = q[1]
      /\ Tail(q) \in Seq(S) /\ Len(Tail(q)) = Len(q) - 1
      /\ \A i \in 1..(Len(q) - 1) : Tail(q)[i] = q[i + 1]
      /\ \A i \in 1..Len(q) : q[i] \in S
  OBVIOUS
<1> DEFINE r == Tail(q)
<1> HIDE DEF r
<1>2. \A i \in 1..Len(r) : i + 1 \in 1..Len(q) /\ r[i] = q[i + 1] /\ i + 1 # 1
  BY <1>1 DEF r
<1>3. \A i \in 1..Len(q) : i # 1 => i - 1 \in 1..Len(r) /\ r[i - 1] = q[i]
  BY <1>1 DEF r
<1>4. 1 \in 1..Len(q)
  BY <1>1
<1>5. Members(r) \subseteq Members(q) \ {q[1]}
  BY <1>2, <1>4 DEF Members, NoRepeat
<1>6. Members(q) \ {q[1]} \subseteq Members(r)
  BY <1>3 DEF Members
<1>7. NoRepeat(r)
  <2> SUFFICES ASSUME NEW i \in 1..Len(r), NEW j \in 1..Len(r), r[i] = r[j]
               PROVE  i = j
    BY DEF NoRepeat
  <2>1. i + 1 = j + 1
    BY <1>2 DEF NoRepeat
  <2> QED  BY <2>1
<1> QED  BY <1>1, <1>4, <1>5, <1>6, <1>7 DEF r, Members

\* A queue without repetitions is as long as its set of members is large.
LEMMA MembersCount ==
  ASSUME NEW S, NEW q \in Seq(S), NoRepeat(q)
  PROVE  IsFiniteSet(Members(q)) /\ Cardinality(Members(q)) = Len(q)
<1> DEFINE f == [i \in 1..Len(q) |-> q[i]]
<1>1. f \in Bijection(1..Len(q), Members(q))
  BY DEF Members, NoRepeat, Bijection, Injection, IsInjective, Surjection
<1>2. ExistsBijection(1..Len(q), Members(q))
  BY <1>1 DEF ExistsBijection
<1>3. IsFiniteSet(1..Len(q)) /\ Cardinality(1..Len(q)) = Len(q)
  <2>1. Len(q) \in Nat
    OBVIOUS
  <2>2. IsFiniteSet(1..Len(q)) /\ Cardinality(1..Len(q)) = IF 1 > Len(q) THEN 0 ELSE Len(q) - 1 + 1
    BY <2>1, FS_Interval
  <2> QED  BY <2>1, <2>2
<1> QED  BY <1>2, <1>3, FS_Bijection

-----------------------------------------------------------------------------
(* The queues, and the messages they hold.                                 *)

WellQueued(Q) ==
  /\ Q \in [Keys -> Seq(Msgs)]
  /\ \A k \in Keys : NoRepeat(Q[k])
  /\ \A k \in Keys : \A m \in Members(Q[k]) : KeyOf[m] = k

Held(Q) == UNION {Members(Q[k]) : k \in Keys}

\* The messages held are messages, each in the queue of its key.
LEMMA HeldHome ==
  ASSUME NEW Q, WellQueued(Q)
  PROVE  /\ Held(Q) \subseteq Msgs
         /\ \A m \in Msgs : m \in Held(Q) <=> m \in Members(Q[KeyOf[m]])
<1>1. \A k \in Keys : Members(Q[k]) \subseteq Msgs
  BY DEF WellQueued, Members
<1>2. \A m \in Msgs : KeyOf[m] \in Keys
  BY SchedulerAssumption
<1> QED  BY <1>1, <1>2 DEF Held, WellQueued

\* One queue is put in the place of another.
LEMMA ReplaceQueue ==
  ASSUME NEW Q, WellQueued(Q), NEW k \in Keys, NEW r \in Seq(Msgs), NoRepeat(r),
         \A m \in Members(r) : KeyOf[m] = k
  PROVE  /\ WellQueued([Q EXCEPT ![k] = r])
         /\ Held([Q EXCEPT ![k] = r]) = (Held(Q) \ Members(Q[k])) \cup Members(r)
<1> DEFINE R == [Q EXCEPT ![k] = r]
<1>1. R \in [Keys -> Seq(Msgs)] /\ R[k] = r /\ \A x \in Keys : x # k => R[x] = Q[x]
  BY DEF WellQueued
<1> HIDE DEF R
<1>2. WellQueued(R)
  BY <1>1 DEF WellQueued
<1>3. \A m \in Members(r) : m \in Held(R)
  BY <1>1 DEF Held
<1>4. \A m \in Held(Q) \ Members(Q[k]) : m \in Held(R)
  BY <1>1 DEF Held
<1>5. \A m \in Held(R) : m \in Members(r) \/ m \in Held(Q) \ Members(Q[k])
  <2> SUFFICES ASSUME NEW m, NEW x \in Keys, m \in Members(R[x]), m \notin Members(r)
               PROVE  m \in Held(Q) /\ m \notin Members(Q[k])
    BY DEF Held
  <2>1. x # k /\ m \in Members(Q[x])
    BY <1>1
  <2> QED  BY <2>1 DEF Held, WellQueued
<1> QED  BY <1>2, <1>3, <1>4, <1>5 DEF R

\* The lengths of the queues add up to the number of messages held.
LEMMA LengthsAddUp ==
  ASSUME NEW Q, WellQueued(Q), IsFiniteSet(Held(Q))
  PROVE  SumFunctionOnSet([k \in Keys |-> Len(Q[k])], Keys) = Cardinality(Held(Q))
<1> DEFINE w       == [k \in Keys |-> Len(Q[k])]
           H(K)    == UNION {Members(Q[k]) : k \in K}
           Good(K) == SumFunctionOnSet(w, K) = Cardinality(H(K))
           C       == {K \in SUBSET Keys : ~Good(K)}
<1>1. \A k \in Keys : w[k] \in Nat /\ w[k] = Cardinality(Members(Q[k]))
                       /\ IsFiniteSet(Members(Q[k]))
  BY MembersCount DEF WellQueued
<1>2. \A K \in SUBSET Keys : IsFiniteSet(K) /\ Weights(w, K)
  BY <1>1, SchedulerAssumption, FS_Subset DEF Weights
<1>3. \A K \in SUBSET Keys : IsFiniteSet(H(K)) /\ Cardinality(H(K)) \in Nat
  BY FS_Subset, FS_CardinalityType DEF Held
<1>4. ASSUME C # {} PROVE FALSE
  <2>1. PICK K \in C : \A k \in K : K \ {k} \notin C
    <3>1. \A K \in C : IsFiniteSet(K)
      BY <1>2
    <3> HIDE DEF C
    <3> QED  BY <1>4, <3>1, MinimalSet
  <2>2. K # {}
    <3>1. SumFunctionOnSet(w, {}) = 0
      BY SumEmpty
    <3>2. H({}) = {} /\ Cardinality({}) = 0
      BY FS_EmptySet
    <3> QED  BY <2>1, <3>1, <3>2
  <2>3. PICK k \in K : TRUE
    BY <2>2
  <2> DEFINE A == H(K \ {k})
             B == Members(Q[k])
  <2>4. SumFunctionOnSet(w, K \ {k}) = Cardinality(A)
    BY <2>1
  <2>5. SumFunctionOnSet(w, K) = w[k] + SumFunctionOnSet(w, K \ {k})
    <3> HIDE DEF w
    <3> QED  BY <1>2, SumRemove
  <2>6. H(K) = A \cup B
    OBVIOUS
  <2>7. A \cap B = {}
    BY DEF WellQueued
  <2>8. IsFiniteSet(A) /\ IsFiniteSet(B) /\ Cardinality(A) \in Nat
    BY <1>1, <1>3
  <2> HIDE DEF A, B
  <2>9. Cardinality(A \cup B) = Cardinality(A) + Cardinality(B)
    <3>1. Cardinality(A \cap B) = 0 /\ Cardinality(B) \in Nat
      BY <2>7, <2>8, FS_EmptySet, FS_CardinalityType
    <3>2. Cardinality(A \cup B) = Cardinality(A) + Cardinality(B) - Cardinality(A \cap B)
      BY <2>8, FS_Union
    <3> QED  BY <2>8, <3>1, <3>2
  <2>10. Good(K)
    <3>1. w[k] = Cardinality(B) /\ w[k] \in Nat
      BY <1>1 DEF B
    <3> HIDE DEF w, H
    <3> QED  BY <2>4, <2>5, <2>6, <2>8, <2>9, <3>1
  <2> QED  BY <2>1, <2>10
<1>5. Good(Keys)
  BY <1>4
<1> QED  BY <1>5 DEF Held

-----------------------------------------------------------------------------
(* The invariant.                                                          *)

SchedTypeOK ==
  /\ queues \in [Keys -> Seq(Msgs)] /\ keys \in Seq(Keys)
  /\ cursor \in Nat /\ frames \in Nat /\ bytes \in Nat
  /\ wake \in BOOLEAN /\ stopped \in BOOLEAN /\ signalling \in BOOLEAN
  /\ rpc \in {"select", "pop", "dispatch", "exit"}
  /\ running \in Msgs \cup {NoMsg}
  /\ sent \in [Msgs -> BOOLEAN]

\* The counters, on the set of the messages held.
Counted ==
  /\ IsFiniteSet(Held(queues))
  /\ frames = Cardinality(Held(queues))
  /\ bytes = SumBytes(Held(queues))

\* Every queue with messages in it has its key in keys, where pop looks for it.
KeysKnown   == \A k \in Keys : queues[k] # <<>> => k \in ToSet(keys)
CursorKnown == cursor = 0 \/ cursor < Len(keys)

\* What is queued was sent, and is not sent again while it is.
HeldSent == \A m \in Held(queues) : sent[m]

SchedInv ==
  /\ SchedTypeOK
  /\ WellQueued(queues)
  /\ Counted
  /\ KeysKnown
  /\ CursorKnown
  /\ HeldSent
  /\ WakeupKept

\* What waits is what is held.
LEMMA WaitingHeld ==
  ASSUME WellQueued(queues)
  PROVE  \A m \in Msgs : Waiting(m) <=> m \in Held(queues)
  BY HeldHome DEF Waiting, Members

\* The counters of the property are those of the invariant.
LEMMA CountedQueues == SchedTypeOK /\ WellQueued(queues) /\ Counted => QueueCounted
<1> SUFFICES ASSUME SchedTypeOK, WellQueued(queues), Counted PROVE QueueCounted
  OBVIOUS
<1>1. \A k \in Keys : ToSet(queues[k]) = Members(queues[k])
  BY DEF SchedTypeOK, ToSet, Members
<1>2. UNION {ToSet(queues[k]) : k \in Keys} = Held(queues)
  BY <1>1 DEF Held
<1> QED  BY <1>2, LengthsAddUp DEF Counted, QueueCounted

-----------------------------------------------------------------------------
(* A message is taken in.                                                  *)

\* What m throws out is queued, is a history read, and is of m's session.
LEMMA SupersededHeld ==
  ASSUME SchedTypeOK, WellQueued(queues), NEW m \in Msgs
  PROVE  /\ Superseded(m) \subseteq Held(queues)
         /\ Superseded(m) \subseteq Members(queues[KeyOf[m]])
         /\ \A x \in Superseded(m) : IsHistory[x] /\ KeyOf[x] = KeyOf[m] /\ KeyOf[m] # FifoKey
<1>1. KeyOf[m] \in Keys
  BY SchedulerAssumption
<1>2. ToSet(queues[KeyOf[m]]) = Members(queues[KeyOf[m]])
  BY <1>1 DEF SchedTypeOK, ToSet, Members
<1> QED  BY <1>1, <1>2 DEF Superseded, Replaces, Held, WellQueued

\* The queues after m came and what it supersedes went.
LEMMA AdmitQueues ==
  ASSUME SchedInv, NEW m \in Msgs, ~sent[m], Admit(m)
  PROVE  /\ WellQueued(queues')
         /\ Held(queues') = (Held(queues) \ Superseded(m)) \cup {m}
         /\ m \notin Held(queues)
<1> DEFINE k == KeyOf[m]
           q == queues[k]
           w == Without(q, Superseded(m))
           r == Append(w, m)
<1>1. k \in Keys /\ WellQueued(queues) /\ SchedTypeOK
  BY SchedulerAssumption DEF SchedInv
<1>2. m \notin Held(queues) /\ m \notin Members(q)
  BY <1>1 DEF SchedInv, HeldSent, Held
<1>3. q \in Seq(Msgs) /\ NoRepeat(q)
  BY <1>1 DEF WellQueued
<1>4. w \in Seq(Msgs) /\ Members(w) = Members(q) \ Superseded(m) /\ NoRepeat(w)
  <2> HIDE DEF q
  <2> QED  BY <1>3, WithoutKeeps
<1>5. r \in Seq(Msgs) /\ Members(r) = Members(w) \cup {m} /\ NoRepeat(r)
  <2> HIDE DEF w
  <2> QED  BY <1>2, <1>4, AppendNew
<1>6. \A x \in Members(r) : KeyOf[x] = k
  BY <1>1, <1>4, <1>5 DEF WellQueued
<1>7. queues' = [queues EXCEPT ![k] = r]
  BY DEF Admit
<1> HIDE DEF r, w
<1>8. /\ WellQueued(queues')
      /\ Held(queues') = (Held(queues) \ Members(queues[k])) \cup Members(r)
  <2>1. /\ WellQueued([queues EXCEPT ![k] = r])
        /\ Held([queues EXCEPT ![k] = r]) = (Held(queues) \ Members(queues[k])) \cup Members(r)
    <3> HIDE DEF k
    <3> QED  BY <1>1, <1>5, <1>6, ReplaceQueue, ZenonT(60)
  <2> QED  BY <1>7, <2>1
<1>9. Superseded(m) \subseteq Members(q) /\ Members(q) \subseteq Held(queues)
  BY <1>1, SupersededHeld DEF Held
<1>10. Held(queues') = (Held(queues) \ Superseded(m)) \cup {m}
  BY <1>4, <1>5, <1>8, <1>9
<1> QED  BY <1>2, <1>8, <1>10

\* Taking a part out of a finite set and an element in, and the sums with it.
LEMMA Exchange ==
  ASSUME NEW H, NEW D, NEW m \in Msgs, IsFiniteSet(H), H \subseteq Msgs, D \subseteq H, m \notin H
  PROVE  /\ IsFiniteSet((H \ D) \cup {m})
         /\ Cardinality((H \ D) \cup {m}) = Cardinality(H) + 1 - Cardinality(D)
         /\ SumBytes((H \ D) \cup {m}) = SumBytes(H) + BytesOf[m] - SumBytes(D)
<1>1. \A S \in SUBSET H : IsFiniteSet(S) /\ Weights(BytesOf, S) /\ Cardinality(S) \in Nat
                         /\ SumBytes(S) \in Nat
  BY FS_Subset, FS_CardinalityType, SchedulerAssumption, SumType DEF Weights, SumBytes
<1>2. BytesOf[m] \in Nat
  BY SchedulerAssumption
<1>3. H \ D \in SUBSET H /\ D \in SUBSET H /\ H \in SUBSET H /\ m \notin H \ D /\ H \cap D = D
  OBVIOUS
<1>4. Cardinality(H \ D) = Cardinality(H) - Cardinality(D)
  BY <1>1, <1>3, FS_Difference
<1>5. IsFiniteSet((H \ D) \cup {m}) /\ Cardinality((H \ D) \cup {m}) = Cardinality(H \ D) + 1
  BY <1>1, <1>3, FS_AddElement
<1>6. SumBytes(H) = SumBytes(D) + SumBytes(H \ D)
  BY <1>1, <1>3, SumParts DEF SumBytes
<1>7. SumBytes((H \ D) \cup {m}) = BytesOf[m] + SumBytes(H \ D)
  BY <1>1, <1>2, <1>3, SumAdd DEF SumBytes
<1> DEFINE a == SumBytes(H \ D)
           b == SumBytes(D)
<1>8. a \in Nat /\ b \in Nat /\ Cardinality(H) \in Nat /\ Cardinality(D) \in Nat
  BY <1>1, <1>3
<1>9. BytesOf[m] + a = b + a + BytesOf[m] - b
  <2> HIDE DEF a, b
  <2> QED  BY <1>2, <1>8
<1>10. Cardinality(H) - Cardinality(D) + 1 = Cardinality(H) + 1 - Cardinality(D)
  BY <1>8
<1> QED  BY <1>4, <1>5, <1>6, <1>7, <1>9, <1>10

\* The counters follow.
LEMMA AdmitCounted ==
  ASSUME SchedInv, NEW m \in Msgs, ~sent[m], Admit(m)
  PROVE  Counted'
<1>1. /\ Held(queues') = (Held(queues) \ Superseded(m)) \cup {m}
      /\ m \notin Held(queues)
  BY AdmitQueues
<1>2. IsFiniteSet(Held(queues)) /\ Superseded(m) \subseteq Held(queues) /\ Held(queues) \subseteq Msgs
  BY SupersededHeld, HeldHome DEF SchedInv, Counted
<1>3. /\ frames = Cardinality(Held(queues)) /\ bytes = SumBytes(Held(queues))
      /\ frames' = frames + 1 - Cardinality(Superseded(m))
      /\ bytes' = bytes + BytesOf[m] - SumBytes(Superseded(m))
  BY DEF SchedInv, Counted, Admit, Recount
<1>4. /\ IsFiniteSet(Held(queues'))
      /\ frames' = Cardinality(Held(queues'))
      /\ bytes' = SumBytes(Held(queues'))
  BY <1>1, <1>2, <1>3, Exchange
<1> QED  BY <1>4 DEF Counted, SumBytes

\* The counters stay naturals.
LEMMA CountedTypes ==
  ASSUME NEW Q, WellQueued(Q), IsFiniteSet(Held(Q))
  PROVE  Cardinality(Held(Q)) \in Nat /\ SumBytes(Held(Q)) \in Nat
<1>1. Weights(BytesOf, Held(Q))
  BY HeldHome, SchedulerAssumption DEF Weights
<1> QED  BY <1>1, FS_CardinalityType, SumType DEF SumBytes

\* enqueueMessage keeps the invariant.
LEMMA EnqueueInv ==
  ASSUME SchedInv, NEW m \in Msgs, Enqueue(m)
  PROVE  SchedInv'
<1>1. Admit(m) /\ ~sent[m] /\ sent' = [sent EXCEPT ![m] = TRUE]
      /\ UNCHANGED <<executor, wake, stopped>>
  BY DEF Enqueue
<1>2. /\ WellQueued(queues')
      /\ Held(queues') = (Held(queues) \ Superseded(m)) \cup {m}
  BY <1>1, AdmitQueues
<1>3. Counted'
  BY <1>1, AdmitCounted
<1>4. frames' \in Nat /\ bytes' \in Nat
  <2>1. frames' = Cardinality(Held(queues')) /\ bytes' = SumBytes(Held(queues'))
        /\ IsFiniteSet(Held(queues'))
    BY <1>3 DEF Counted, SumBytes
  <2> QED  BY <1>2, <2>1, CountedTypes
<1> DEFINE k == KeyOf[m]
<1>5. k \in Keys /\ keys \in Seq(Keys)
  BY SchedulerAssumption DEF SchedInv, SchedTypeOK
<1>6. /\ keys' \in Seq(Keys) /\ k \in ToSet(keys') /\ ToSet(keys) \subseteq ToSet(keys')
      /\ Len(keys) <= Len(keys')
  <2>1. CASE k \in ToSet(keys)
    BY <1>1, <1>5, <2>1 DEF Admit
  <2>2. CASE k \notin ToSet(keys)
    <3>1. keys' = Append(keys, k)
      BY <1>1, <2>2 DEF Admit
    <3>2. /\ keys' \in Seq(Keys) /\ Len(keys') = Len(keys) + 1 /\ Len(keys) \in Nat
          /\ DOMAIN keys' = 1..(Len(keys) + 1) /\ DOMAIN keys = 1..Len(keys)
          /\ keys'[Len(keys) + 1] = k /\ \A i \in 1..Len(keys) : keys'[i] = keys[i]
      BY <1>5, <3>1
    <3>3. Len(keys) + 1 \in DOMAIN keys' /\ DOMAIN keys \subseteq DOMAIN keys'
      BY <3>2
    <3> QED  BY <3>2, <3>3 DEF ToSet
  <2> QED  BY <2>1, <2>2
<1>7. KeysKnown'
  <2> SUFFICES ASSUME NEW x \in Keys, queues'[x] # <<>> PROVE x \in ToSet(keys')
    BY DEF KeysKnown
  <2>1. CASE x = k
    BY <1>6, <2>1
  <2>2. CASE x # k
    <3>1. queues'[x] = queues[x]
      BY <1>1, <2>2 DEF Admit, SchedInv, SchedTypeOK
    <3> QED  BY <1>6, <3>1 DEF SchedInv, KeysKnown
  <2> QED  BY <2>1, <2>2
<1>8. CursorKnown'
  <2>1. cursor' = cursor /\ cursor \in Nat /\ Len(keys) \in Nat /\ Len(keys') \in Nat
        /\ (cursor = 0 \/ cursor < Len(keys))
    BY <1>1, <1>5, <1>6 DEF executor, SchedInv, SchedTypeOK, CursorKnown
  <2> QED  BY <1>6, <2>1 DEF CursorKnown
<1>9. HeldSent'
  BY <1>1, <1>2, HeldHome DEF SchedInv, SchedTypeOK, HeldSent
<1>10. SchedTypeOK'
  BY <1>1, <1>2, <1>4, <1>6 DEF SchedInv, SchedTypeOK, WellQueued, Admit, executor
<1>11. WakeupKept'
  BY <1>1 DEF WakeupKept, Admit
<1> QED  BY <1>2, <1>3, <1>7, <1>8, <1>9, <1>10, <1>11 DEF SchedInv

-----------------------------------------------------------------------------
(* run takes a message out, or finds none.                                 *)

\* The probes of pop reach every key that is known.
LEMMA ProbesReach ==
  ASSUME keys \in Seq(Keys), cursor \in Nat, CursorKnown, NEW k \in ToSet(keys)
  PROVE  \E o \in 0..(Len(keys) - 1) : Probe(o) = k
<1> DEFINE n == Len(keys)
<1>1. PICK j \in 1..n : keys[j] = k
  BY DEF ToSet
<1>2. n \in Nat /\ n > 0 /\ cursor < n
  BY DEF CursorKnown
<1> DEFINE o == IF j - 1 >= cursor THEN j - 1 - cursor ELSE j - 1 - cursor + n
<1>3. o \in 0..(n - 1) /\ (cursor + o = j - 1 \/ cursor + o = j - 1 + n)
  BY <1>1, <1>2
<1>4. (cursor + o) % n = j - 1
  <2>1. j - 1 \in 0..(n - 1)
    BY <1>1, <1>2
  <2> HIDE DEF o
  <2> QED  BY <1>2, <1>3, <2>1
<1>5. Probe(o) = k
  <2> HIDE DEF o
  <2>1. ((cursor + o) % n) + 1 = j
    BY <1>1, <1>2, <1>4
  <2> QED  BY <1>1, <2>1 DEF Probe
<1> QED  BY <1>3, <1>5

\* A probe looks at a known key, and the next cursor is an index of keys.
LEMMA ProbeKnown ==
  ASSUME keys \in Seq(Keys), cursor \in Nat, NEW o \in 0..(Len(keys) - 1)
  PROVE  Probe(o) \in Keys /\ NextCursor(o) \in Nat /\ NextCursor(o) < Len(keys)
<1> DEFINE n == Len(keys)
<1>1. n \in Nat /\ n > 0 /\ cursor + o \in Nat /\ cursor + o + 1 \in Nat
  OBVIOUS
<1>2. (cursor + o) % n \in 0..(n - 1) /\ (cursor + o + 1) % n \in 0..(n - 1)
  BY <1>1
<1>3. ((cursor + o) % n) + 1 \in 1..n
  BY <1>1, <1>2
<1> QED  BY <1>1, <1>2, <1>3 DEF Probe, NextCursor

\* Pop takes one message out of its queue.
LEMMA PopQueues ==
  ASSUME SchedInv, Pop
  PROVE  /\ WellQueued(queues') /\ Counted' /\ KeysKnown' /\ CursorKnown' /\ cursor' \in Nat
         /\ running' \in Held(queues) /\ Held(queues') = Held(queues) \ {running'}
<1>1. PICK o \in 0..(Len(keys) - 1) :
        /\ IsNext(o)
        /\ running' = Head(queues[Probe(o)])
        /\ queues' = [queues EXCEPT ![Probe(o)] = Tail(@)]
        /\ bytes' = bytes - BytesOf[Head(queues[Probe(o)])]
        /\ frames' = frames - 1
        /\ cursor' = NextCursor(o)
  BY DEF Pop
<1> DEFINE k == Probe(o)
           q == queues[k]
<1>2. k \in Keys /\ cursor' \in Nat /\ cursor' < Len(keys)
  BY <1>1, ProbeKnown DEF SchedInv, SchedTypeOK
<1>3. q # <<>> /\ q \in Seq(Msgs) /\ NoRepeat(q) /\ WellQueued(queues) /\ keys' = keys
  BY <1>1, <1>2 DEF IsNext, Ready, SchedInv, WellQueued, Pop
<1> HIDE DEF k
<1>4. /\ Head(q) \in Msgs /\ Head(q) \in Members(q) /\ Tail(q) \in Seq(Msgs)
      /\ Members(Tail(q)) = Members(q) \ {Head(q)}
      /\ NoRepeat(Tail(q))
  BY <1>3, TailRest
<1>5. \A x \in Members(Tail(q)) : KeyOf[x] = k
  BY <1>2, <1>3, <1>4 DEF WellQueued
<1>6. queues' = [queues EXCEPT ![k] = Tail(q)] /\ running' = Head(q)
  BY <1>1 DEF k
<1>7. /\ WellQueued(queues')
      /\ Held(queues') = (Held(queues) \ Members(q)) \cup Members(Tail(q))
  <2> DEFINE t == Tail(q)
  <2>1. t \in Seq(Msgs) /\ NoRepeat(t) /\ \A x \in Members(t) : KeyOf[x] = k
    BY <1>4, <1>5
  <2>2. queues' = [queues EXCEPT ![k] = t]
    BY <1>6
  <2> HIDE DEF t
  <2>3. /\ WellQueued([queues EXCEPT ![k] = t])
        /\ Held([queues EXCEPT ![k] = t]) = (Held(queues) \ Members(queues[k])) \cup Members(t)
    BY <1>2, <1>3, <2>1, ReplaceQueue, ZenonT(60)
  <2> QED  BY <2>2, <2>3 DEF t
<1>8. Members(q) \subseteq Held(queues)
  BY <1>2 DEF Held
<1>9. running' \in Held(queues) /\ Held(queues') = Held(queues) \ {running'}
  BY <1>4, <1>6, <1>7, <1>8
<1>10. Counted'
  <2> DEFINE H == Held(queues)
             x == running'
  <2>1. IsFiniteSet(H) /\ frames = Cardinality(H) /\ bytes = SumBytes(H)
    BY DEF SchedInv, Counted
  <2>2. frames' = frames - 1 /\ bytes' = bytes - BytesOf[x]
    BY <1>1
  <2>3. x \in H /\ Held(queues') = H \ {x} /\ H \subseteq Msgs
    BY <1>3, <1>9, HeldHome
  <2> HIDE DEF H, x
  <2>4. Weights(BytesOf, H) /\ Weights(BytesOf, H \ {x}) /\ BytesOf[x] \in Nat
    BY <2>1, <2>3, SchedulerAssumption, FS_Subset DEF Weights
  <2>5. SumBytes(H) = BytesOf[x] + SumBytes(H \ {x}) /\ SumBytes(H \ {x}) \in Nat
    BY <2>3, <2>4, SumRemove, SumType DEF SumBytes
  <2>6. IsFiniteSet(H \ {x}) /\ Cardinality(H \ {x}) = Cardinality(H) - 1
    BY <2>1, <2>3, FS_RemoveElement
  <2>7. bytes' = SumBytes(H \ {x})
    BY <2>1, <2>2, <2>4, <2>5
  <2> QED  BY <2>1, <2>2, <2>3, <2>6, <2>7 DEF Counted, SumBytes
<1>11. KeysKnown'
  BY <1>2, <1>3, <1>6 DEF KeysKnown, SchedInv, SchedTypeOK
<1>12. CursorKnown'
  BY <1>2, <1>3 DEF CursorKnown
<1> QED  BY <1>2, <1>7, <1>9, <1>10, <1>11, <1>12

\* A pop keeps the invariant.
LEMMA PopInv ==
  ASSUME SchedInv, Pop
  PROVE  SchedInv'
<1>1. /\ WellQueued(queues') /\ Counted' /\ KeysKnown' /\ CursorKnown' /\ cursor' \in Nat
      /\ running' \in Held(queues) /\ Held(queues') = Held(queues) \ {running'}
  BY PopQueues
<1>2. rpc' = "dispatch" /\ UNCHANGED <<keys, wake, stopped, signalling, sent>>
  BY DEF Pop
<1>3. frames' \in Nat /\ bytes' \in Nat
  <2>1. frames' = Cardinality(Held(queues')) /\ bytes' = SumBytes(Held(queues'))
        /\ IsFiniteSet(Held(queues'))
    BY <1>1 DEF Counted, SumBytes
  <2> QED  BY <1>1, <2>1, CountedTypes
<1>4. running' \in Msgs
  BY <1>1, HeldHome DEF SchedInv
<1>5. SchedTypeOK'
  BY <1>1, <1>2, <1>3, <1>4 DEF SchedInv, SchedTypeOK, WellQueued
<1>6. HeldSent'
  BY <1>1, <1>2 DEF SchedInv, HeldSent
<1>7. WakeupKept'
  BY <1>2 DEF WakeupKept
<1> QED  BY <1>1, <1>5, <1>6, <1>7 DEF SchedInv

\* When pop finds nothing there is nothing: the counter is right, and every queue
\* with messages is one of those that the probes look at.
LEMMA PopNoneEmpty ==
  ASSUME SchedInv, PopNone
  PROVE  ~HasWork
<1> SUFFICES ASSUME NEW k \in Keys, queues[k] # <<>> PROVE FALSE
  BY DEF HasWork
<1>1. keys \in Seq(Keys) /\ cursor \in Nat /\ CursorKnown /\ k \in ToSet(keys)
      /\ queues[k] \in Seq(Msgs)
  BY DEF SchedInv, SchedTypeOK, KeysKnown
<1>2. frames # 0
  <2>1. queues[k][1] \in Held(queues)
    <3>1. 1 \in 1..Len(queues[k])
      BY <1>1
    <3> QED  BY <3>1 DEF Held, Members
  <2>2. IsFiniteSet(Held(queues)) /\ frames = Cardinality(Held(queues))
    BY DEF SchedInv, Counted
  <2> QED  BY <2>1, <2>2, FS_EmptySet
<1>3. PICK o \in 0..(Len(keys) - 1) : Probe(o) = k
  BY <1>1, ProbesReach
<1>4. ~Ready(o)
  BY <1>2, <1>3 DEF PopNone
<1> QED  BY <1>3, <1>4 DEF Ready

-----------------------------------------------------------------------------
(* The theorems.                                                           *)

\* The new scheduler satisfies the invariant.
LEMMA SchedInvInit == SchedInit => SchedInv
<1> SUFFICES ASSUME SchedInit PROVE SchedInv
  OBVIOUS
<1>1. /\ queues = [k \in Keys |-> <<>>] /\ keys = <<>> /\ cursor = 0 /\ frames = 0 /\ bytes = 0
      /\ wake = FALSE /\ stopped = FALSE /\ rpc = "select" /\ running = NoMsg
      /\ signalling = FALSE /\ sent = [m \in Msgs |-> FALSE]
  BY DEF SchedInit
<1>2. queues \in [Keys -> Seq(Msgs)] /\ \A k \in Keys : queues[k] = <<>>
  BY <1>1
<1>3. \A k \in Keys : Members(queues[k]) = {} /\ NoRepeat(queues[k])
  BY <1>2 DEF Members, NoRepeat
<1>4. WellQueued(queues) /\ Held(queues) = {}
  BY <1>2, <1>3 DEF WellQueued, Held
<1>5. Counted
  BY <1>1, <1>4, FS_EmptySet, SumEmpty DEF Counted, SumBytes
<1>6. SchedTypeOK
  <2>1. keys \in Seq(Keys) /\ sent \in [Msgs -> BOOLEAN]
    BY <1>1
  <2>2. wake \in BOOLEAN /\ stopped \in BOOLEAN /\ signalling \in BOOLEAN
    BY <1>1
  <2> QED  BY <1>1, <1>2, <2>1, <2>2 DEF SchedTypeOK
<1>7. KeysKnown /\ CursorKnown /\ HeldSent /\ WakeupKept
  BY <1>1, <1>2, <1>4 DEF KeysKnown, CursorKnown, HeldSent, WakeupKept, HasWork
<1> QED  BY <1>4, <1>5, <1>6, <1>7 DEF SchedInv

\* A step that leaves the queues, the counters and the cursor alone.
LEMMA QuietInv ==
  ASSUME SchedInv, UNCHANGED <<queues, keys, frames, bytes, cursor>>,
         SchedTypeOK', HeldSent', WakeupKept'
  PROVE  SchedInv'
  BY DEF SchedInv, Counted, KeysKnown, CursorKnown

\* Every step keeps the invariant.
LEMMA SchedInvStep == SchedInv /\ [SchedNext]_schedVars => SchedInv'
<1> SUFFICES ASSUME SchedInv, [SchedNext]_schedVars PROVE SchedInv'
  OBVIOUS
<1> USE DEF pending, executor
<1>1. ASSUME NEW m \in Msgs, Enqueue(m) PROVE SchedInv'
  BY <1>1, EnqueueInv
<1>2. ASSUME NEW m \in Msgs, Refuse(m) PROVE SchedInv'
  <2>1. SchedTypeOK' /\ HeldSent' /\ WakeupKept'
    BY <1>2, HeldHome DEF Refuse, SchedInv, SchedTypeOK, HeldSent, WakeupKept, HasWork
  <2> QED  BY <1>2, <2>1, QuietInv DEF Refuse
<1>3. ASSUME NEW m \in Msgs, Renew(m) PROVE SchedInv'
  <2>1. m \notin Held(queues)
    BY <1>3, WaitingHeld DEF Renew, SchedInv
  <2>2. SchedTypeOK' /\ HeldSent' /\ WakeupKept'
    BY <1>3, <2>1, HeldHome DEF Renew, SchedInv, SchedTypeOK, HeldSent, WakeupKept, HasWork
  <2> QED  BY <1>3, <2>2, QuietInv DEF Renew
<1>4. CASE Signal
  <2>1. SchedTypeOK' /\ HeldSent' /\ WakeupKept'
    BY <1>4 DEF Signal, SchedInv, SchedTypeOK, HeldSent, WakeupKept, HasWork
  <2> QED  BY <1>4, <2>1, QuietInv DEF Signal
<1>5. CASE CloseScheduler
  <2>1. SchedTypeOK' /\ HeldSent' /\ WakeupKept'
    BY <1>5 DEF CloseScheduler, SchedInv, SchedTypeOK, HeldSent, WakeupKept, HasWork
  <2> QED  BY <1>5, <2>1, QuietInv DEF CloseScheduler
<1>6. CASE TakeWake
  <2>1. SchedTypeOK' /\ HeldSent' /\ WakeupKept'
    BY <1>6 DEF TakeWake, SchedInv, SchedTypeOK, HeldSent, WakeupKept, HasWork
  <2> QED  BY <1>6, <2>1, QuietInv DEF TakeWake
<1>7. CASE Exit
  <2>1. SchedTypeOK' /\ HeldSent' /\ WakeupKept'
    BY <1>7 DEF Exit, SchedInv, SchedTypeOK, HeldSent, WakeupKept, HasWork
  <2> QED  BY <1>7, <2>1, QuietInv DEF Exit
<1>8. CASE Pop
  BY <1>8, PopInv
<1>9. CASE PopNone
  <2>1. WakeupKept'
    <3>1. ~HasWork /\ queues' = queues
      BY <1>9, PopNoneEmpty DEF PopNone
    <3> QED  BY <3>1 DEF WakeupKept, HasWork
  <2>2. SchedTypeOK' /\ HeldSent'
    BY <1>9 DEF PopNone, SchedInv, SchedTypeOK, HeldSent
  <2> QED  BY <1>9, <2>1, <2>2, QuietInv DEF PopNone
<1>10. CASE Dispatched
  <2>1. SchedTypeOK' /\ HeldSent' /\ WakeupKept'
    BY <1>10 DEF Dispatched, SchedInv, SchedTypeOK, HeldSent, WakeupKept, HasWork
  <2> QED  BY <1>10, <2>1, QuietInv DEF Dispatched
<1>11. CASE UNCHANGED schedVars
  <2>1. SchedTypeOK' /\ HeldSent' /\ WakeupKept'
    BY <1>11 DEF schedVars, SchedInv, SchedTypeOK, HeldSent, WakeupKept, HasWork
  <2> QED  BY <1>11, <2>1, QuietInv DEF schedVars
<1> QED  BY <1>1, <1>2, <1>3, <1>4, <1>5, <1>6, <1>7, <1>8, <1>9, <1>10, <1>11
         DEF SchedNext, SchedRun

\* The invariant holds in every reachable state.
LEMMA SchedInvariant == SchedSpec => []SchedInv
  BY SchedInvInit, SchedInvStep, PTL DEF SchedSpec

\* Every variable of the scheduler keeps its type; the counters never go below 0.
THEOREM SchedTypes == SchedSpec => []SchedTypeOK
<1>1. SchedInv => SchedTypeOK
  BY DEF SchedInv
<1> QED  BY <1>1, SchedInvariant, PTL

\* frames and bytes are those of the queued messages (QueueCounted), for any
\* sessions, messages, sizes and caps.
THEOREM CountersExact == SchedSpec => []QueueCounted
<1>1. SchedInv => QueueCounted
  BY CountedQueues DEF SchedInv
<1> QED  BY <1>1, SchedInvariant, PTL

\* run never sleeps on queued work without a token in the wake channel, or the
\* reader about to put one there (WakeupKept).
THEOREM NoLostWakeup == SchedSpec => []WakeupKept
<1>1. SchedInv => WakeupKept
  BY DEF SchedInv
<1> QED  BY <1>1, SchedInvariant, PTL

\* What a step may take out of the queues.
DropsOnlyHistory ==
  \A m \in Msgs :
    Waiting(m) /\ ~Waiting(m)' =>
      running' = m \/ (IsHistory[m] /\ KeyOf[m] # FifoKey)

\* Every step of the scheduler drops nothing but history reads of a session.
LEMMA DropsStep == SchedInv /\ SchedInv' /\ [SchedNext]_schedVars => DropsOnlyHistory
<1> SUFFICES ASSUME SchedInv, SchedInv', [SchedNext]_schedVars,
                    NEW m \in Msgs, Waiting(m), ~Waiting(m)'
             PROVE  running' = m \/ (IsHistory[m] /\ KeyOf[m] # FifoKey)
  BY DEF DropsOnlyHistory
<1>1. m \in Held(queues)
  BY WaitingHeld DEF SchedInv
<1>2. m \notin Held(queues')
  <2>1. WellQueued(queues')
    BY DEF SchedInv
  <2>2. m \notin Members(queues'[KeyOf[m]])
    BY DEF Waiting, Members
  <2> QED  BY <2>1, <2>2, HeldHome
<1>3. queues' # queues
  BY <1>1, <1>2
<1>4. (\E n \in Msgs : Enqueue(n)) \/ Pop
  BY <1>3 DEF SchedNext, SchedRun, schedVars, pending, executor, Refuse, Renew, Signal,
              CloseScheduler, TakeWake, Exit, PopNone, Dispatched
<1>5. ASSUME NEW n \in Msgs, Enqueue(n) PROVE IsHistory[m] /\ KeyOf[m] # FifoKey
  <2>1. Admit(n) /\ ~sent[n]
    BY <1>5 DEF Enqueue
  <2>2. m \in Superseded(n)
    BY <1>1, <1>2, <2>1, AdmitQueues
  <2> QED  BY <2>2, SupersededHeld DEF SchedInv
<1>6. CASE Pop
  BY <1>1, <1>2, <1>6, PopQueues
<1> QED  BY <1>4, <1>5, <1>6

\* No message of the device FIFO, and no message that is not a history read, leaves
\* its queue other than by being dispatched (OnlyHistoryDropped).
THEOREM DropsHistoryOnly == SchedSpec => OnlyHistoryDropped
<1>1. SchedInv /\ SchedInv' /\ [SchedNext]_schedVars =>
        [\A m \in Msgs :
           Waiting(m) /\ ~Waiting(m)' =>
             running' = m \/ (IsHistory[m] /\ KeyOf[m] # FifoKey)]_schedVars
  BY DropsStep DEF DropsOnlyHistory
<1> QED  BY <1>1, SchedInvariant, PTL DEF SchedSpec, OnlyHistoryDropped
=============================================================================
