----------------------- MODULE InFlightReadBytesProofs -----------------------
(***************************************************************************)
(* For any number of workers, any sizes and any budget: the reservation    *)
(* never exceeds the budget, no wakeup is lost, the queue is exact, and    *)
(* the only overtaking the fast path allows is by a smaller request; and   *)
(* what is in use is exactly the sum of what the objects in flight hold.   *)
(*                                                                         *)
(* That sum is a fold, defined by recursion over sets.  The induction it   *)
(* takes is over a set of sets rather than a predicate: strict inclusion   *)
(* is well founded on the subsets of a finite set, so that a set of        *)
(* counterexamples has a smallest one.                                     *)
(***************************************************************************)
EXTENDS InFlightReadBytes, FiniteSetTheorems, SequenceTheorems, TLAPS

(* A set of subsets that holds every set whose proper subsets it holds     *)
(* holds them all.                                                         *)
LEMMA SubsetInduction ==
  ASSUME NEW S, IsFiniteSet(S), NEW F \in SUBSET (SUBSET S),
         \A V \in SUBSET S : (\A U \in SUBSET V : U # V => U \in F) => V \in F
  PROVE  \A V \in SUBSET S : V \in F
<1> SUFFICES ASSUME NEW W \in SUBSET S, W \notin F PROVE FALSE
  OBVIOUS
<1> DEFINE T == (SUBSET S) \ F
<1>1. T \subseteq FiniteSubsetsOf(S) /\ T # {}
  BY FS_FiniteSubsetsOfFinite
<1>2. IsWellFoundedOn(StrictSubsetOrdering(S), FiniteSubsetsOf(S))
  BY FS_StrictSubsetOrderingWellFounded
<1>3. PICK V \in T : \A U \in T : <<U, V>> \notin StrictSubsetOrdering(S)
  BY ONLY <1>1, <1>2, WFMin
<1>4. \A U \in SUBSET V : U # V => U \in F
  BY <1>3 DEF StrictSubsetOrdering
<1> QED BY <1>3, <1>4

(* MapThenSumSet over a function: the sum of g[x] for x in S, and the      *)
(* recursive functions that compute it on the subsets of D.                *)
Pick(s) == CHOOSE x \in s : TRUE
Sums(g, it, D) == it = [s \in SUBSET D |-> IF s = {} THEN 0 ELSE g[Pick(s)] + it[s \ {Pick(s)}]]
Sum(g, S) == MapThenSumSet(LAMBDA w : g[w], S)

LEMMA PickIn == \A s : s # {} => Pick(s) \in s
BY DEF Pick

(* Such functions agree wherever they are both defined, and exist. *)
LEMMA SumsAgree ==
  ASSUME NEW S, IsFiniteSet(S), NEW g, NEW D, NEW E, NEW i, NEW k,
         Sums(g, i, D), Sums(g, k, E), S \subseteq D, S \subseteq E
  PROVE  i[S] = k[S]
<1> DEFINE F == {s \in SUBSET S : i[s] = k[s]}
<1>1. ASSUME NEW V \in SUBSET S, \A U \in SUBSET V : U # V => U \in F
      PROVE  i[V] = k[V]
  <2>1. /\ i[V] = IF V = {} THEN 0 ELSE g[Pick(V)] + i[V \ {Pick(V)}]
        /\ k[V] = IF V = {} THEN 0 ELSE g[Pick(V)] + k[V \ {Pick(V)}]
    <3>1. V \in SUBSET D /\ V \in SUBSET E
      OBVIOUS
    <3> QED BY ONLY <3>1, Sums(g, i, D), Sums(g, k, E) DEF Sums
  <2>2. CASE V = {}
    BY <2>1, <2>2
  <2>3. CASE V # {}
    <3>1. V \ {Pick(V)} \in F
      BY <1>1, <2>3, PickIn
    <3> QED BY <2>1, <2>3, <3>1
  <2> QED BY <2>2, <2>3
<1>2. \A V \in SUBSET S : V \in F
  <2>1. F \in SUBSET (SUBSET S)
    OBVIOUS
  <2>2. \A V \in SUBSET S : (\A U \in SUBSET V : U # V => U \in F) => V \in F
    BY <1>1
  <2> HIDE DEF F
  <2> QED BY ONLY <2>1, <2>2, IsFiniteSet(S), SubsetInduction
<1> QED BY <1>2

LEMMA SumsExist ==
  ASSUME NEW S, IsFiniteSet(S), NEW g
  PROVE  \E it : Sums(g, it, S)
<1> DEFINE F == {s \in SUBSET S : \E it : Sums(g, it, s)}
           At(s) == CHOOSE it : Sums(g, it, s)
           At1(s) == IF s = {} THEN 0 ELSE g[Pick(s)] + At(s \ {Pick(s)})[s \ {Pick(s)}]
<1>1. ASSUME NEW V \in SUBSET S, \A U \in SUBSET V : U # V => U \in F
      PROVE  \E it : Sums(g, it, V)
  <2> DEFINE it == [s \in SUBSET V |-> At1(s)]
  <2>1. \A U \in SUBSET V : U # V => Sums(g, At(U), U)
    BY <1>1
  <2> HIDE DEF At
  <2>2. ASSUME NEW t \in SUBSET V, t # V PROVE At(t)[t] = At1(t)
    <3>1. Sums(g, At(t), t)
      BY <2>1, <2>2
    <3>2. At(t)[t] = IF t = {} THEN 0 ELSE g[Pick(t)] + At(t)[t \ {Pick(t)}]
      <4>1. t \in SUBSET t
        OBVIOUS
      <4> QED BY ONLY <3>1, <4>1 DEF Sums
    <3>3. CASE t # {}
      <4> DEFINE u == t \ {Pick(t)}
      <4>1. u \in SUBSET V /\ u # V /\ u \subseteq t /\ IsFiniteSet(u)
        BY FS_Subset, <3>3, PickIn
      <4>2. Sums(g, At(u), u)
        BY <2>1, <4>1
      <4>3. At(u)[u] = At(t)[u]
        BY ONLY <3>1, <4>1, <4>2, SumsAgree
      <4> QED BY <3>2, <3>3, <4>3
    <3> QED BY <3>2, <3>3
  <2>3. ASSUME NEW s \in SUBSET V, s # {}
        PROVE  At(s \ {Pick(s)})[s \ {Pick(s)}] = it[s \ {Pick(s)}]
    <3>1. s \ {Pick(s)} \in SUBSET V /\ s \ {Pick(s)} # V
      BY <2>3, PickIn
    <3>2. At(s \ {Pick(s)})[s \ {Pick(s)}] = At1(s \ {Pick(s)})
      BY <2>2, <3>1
    <3> HIDE DEF At1
    <3> QED BY <3>1, <3>2
  <2>4. it = [s \in SUBSET V |-> IF s = {} THEN 0 ELSE g[Pick(s)] + it[s \ {Pick(s)}]]
    <3>1. \A s \in SUBSET V : At1(s) = IF s = {} THEN 0 ELSE g[Pick(s)] + it[s \ {Pick(s)}]
      BY <2>3
    <3> HIDE DEF At1
    <3> QED BY <3>1
  <2> QED BY ONLY <2>4 DEF Sums
<1>2. \A V \in SUBSET S : V \in F
  <2>1. F \in SUBSET (SUBSET S)
    OBVIOUS
  <2>2. \A V \in SUBSET S : (\A U \in SUBSET V : U # V => U \in F) => V \in F
    BY <1>1
  <2> HIDE DEF F
  <2> QED BY ONLY <2>1, <2>2, IsFiniteSet(S), SubsetInduction
<1> QED BY <1>2

LEMMA SumValue ==
  ASSUME NEW S, IsFiniteSet(S), NEW g
  PROVE  \E it : Sums(g, it, S) /\ Sum(g, S) = it[S]
<1>1. Sum(g, S) = (CHOOSE it : Sums(g, it, S))[S]
  BY DEF Sum, Sums, Pick, MapThenSumSet, MapThenFoldSet
<1> QED BY <1>1, SumsExist

LEMMA SumOfNone == ASSUME NEW g PROVE Sum(g, {}) = 0
<1>1. PICK it : Sums(g, it, {}) /\ Sum(g, {}) = it[{}]
  BY SumValue, FS_EmptySet
<1> QED BY <1>1 DEF Sums

LEMMA SumPicks ==
  ASSUME NEW S, IsFiniteSet(S), S # {}, NEW g
  PROVE  Sum(g, S) = g[Pick(S)] + Sum(g, S \ {Pick(S)})
<1> DEFINE r == S \ {Pick(S)}
<1>1. IsFiniteSet(r) /\ r \subseteq S /\ r \subseteq r
  BY FS_Subset
<1>2. PICK it : Sums(g, it, S) /\ Sum(g, S) = it[S]
  BY SumValue
<1>3. PICK ir : Sums(g, ir, r) /\ Sum(g, r) = ir[r]
  BY SumValue, <1>1
<1>4. it[r] = ir[r]
  BY ONLY <1>1, <1>2, <1>3, SumsAgree
<1>5. it[S] = g[Pick(S)] + it[r]
  BY <1>2 DEF Sums
<1> QED BY <1>2, <1>3, <1>4, <1>5

(* The order does not matter: any element can be taken first. *)
LEMMA SumTakesAny ==
  ASSUME NEW S, IsFiniteSet(S), NEW g, \A x \in S : g[x] \in Nat
  PROVE  Sum(g, S) \in Nat /\ \A x \in S : Sum(g, S) = g[x] + Sum(g, S \ {x})
<1> DEFINE F == {s \in SUBSET S : /\ Sum(g, s) \in Nat
                                   /\ \A x \in s : Sum(g, s) = g[x] + Sum(g, s \ {x})}
<1>1. ASSUME NEW V \in SUBSET S, \A U \in SUBSET V : U # V => U \in F
      PROVE  V \in F
  <2>1. CASE V = {}
    BY <2>1, SumOfNone
  <2>2. CASE V # {}
    <3> DEFINE c == Pick(V)
    <3>1. c \in V
      BY <2>2, PickIn
    <3>2. IsFiniteSet(V)
      BY FS_Subset
    <3>3. Sum(g, V) = g[c] + Sum(g, V \ {c})
      BY <2>2, <3>2, SumPicks
    <3> HIDE DEF c
    <3>4. Sum(g, V \ {c}) \in Nat /\ \A x \in V \ {c} : Sum(g, V \ {c}) = g[x] + Sum(g, (V \ {c}) \ {x})
      BY <1>1, <3>1
    <3>5. Sum(g, V) \in Nat
      BY <3>1, <3>3, <3>4
    <3>6. ASSUME NEW x \in V, x # c PROVE Sum(g, V) = g[x] + Sum(g, V \ {x})
      <4>1. Sum(g, V \ {x}) = g[c] + Sum(g, (V \ {x}) \ {c})
        BY <1>1, <3>1, <3>6
      <4>2. (V \ {x}) \ {c} = (V \ {c}) \ {x}
        OBVIOUS
      <4>3. Sum(g, V \ {c}) = g[x] + Sum(g, (V \ {c}) \ {x})
        BY <3>4, <3>6
      <4>4. Sum(g, (V \ {c}) \ {x}) \in Nat
        BY <1>1, <3>1
      <4>5. g[c] \in Nat /\ g[x] \in Nat
        BY <3>1, <3>6
      <4> DEFINE rest == Sum(g, (V \ {c}) \ {x})
      <4>6. Sum(g, V) = g[c] + (g[x] + rest) /\ Sum(g, V \ {x}) = g[c] + rest
        BY <3>3, <4>1, <4>2, <4>3
      <4>7. rest \in Nat
        BY <4>4
      <4> HIDE DEF rest
      <4> QED BY <4>5, <4>6, <4>7
    <3> QED BY <3>3, <3>5, <3>6
  <2> QED BY <2>1, <2>2
<1>2. \A V \in SUBSET S : V \in F
  <2>1. F \in SUBSET (SUBSET S)
    OBVIOUS
  <2>2. \A V \in SUBSET S : (\A U \in SUBSET V : U # V => U \in F) => V \in F
    BY <1>1
  <2> HIDE DEF F
  <2> QED BY ONLY <2>1, <2>2, IsFiniteSet(S), SubsetInduction
<1> QED BY <1>2

LEMMA SumOfEqual ==
  ASSUME NEW S, IsFiniteSet(S), NEW g, NEW h, \A x \in S : g[x] = h[x]
  PROVE  Sum(g, S) = Sum(h, S)
<1> DEFINE F == {s \in SUBSET S : Sum(g, s) = Sum(h, s)}
<1>1. ASSUME NEW V \in SUBSET S, \A U \in SUBSET V : U # V => U \in F
      PROVE  V \in F
  <2>1. CASE V = {}
    BY <2>1, SumOfNone
  <2>2. CASE V # {}
    <3>1. IsFiniteSet(V) /\ Pick(V) \in V
      BY <2>2, FS_Subset, PickIn
    <3>2. V \ {Pick(V)} \in F
      BY <1>1, <3>1
    <3> QED BY <2>2, <3>1, <3>2, SumPicks
  <2> QED BY <2>1, <2>2
<1>2. \A V \in SUBSET S : V \in F
  <2>1. F \in SUBSET (SUBSET S)
    OBVIOUS
  <2>2. \A V \in SUBSET S : (\A U \in SUBSET V : U # V => U \in F) => V \in F
    BY <1>1
  <2> HIDE DEF F
  <2> QED BY ONLY <2>1, <2>2, IsFiniteSet(S), SubsetInduction
<1> QED BY <1>2
IInv == TypeOK /\ QueueExact /\ HeadDoesNotFit

LEMMA ReservationType ==
  ASSUME NEW size \in Sizes
  PROVE  Reservation(size) \in 0..MaxBytes
  BY BudgetAssumption DEF Reservation

(* Waiters are workers, and the queue is empty exactly when its length is. *)
LEMMA QueueFacts ==
  ASSUME IInv
  PROVE  /\ Len(q) \in Nat /\ (q = <<>> <=> Len(q) = 0)
         /\ \A i \in 1..Len(q) : /\ q[i] \in Workers
                                 /\ phase[q[i]] = "waiting" /\ grant[q[i]] > 0
         /\ q # <<>> => Head(q) = q[1] /\ 1 \in 1..Len(q)
<1>1. q \in Seq(Workers)
  BY DEF IInv, TypeOK
<1>2. Len(q) \in Nat /\ (q = <<>> <=> Len(q) = 0)
  BY <1>1, EmptySeq, LenProperties
<1>3. ASSUME NEW i \in 1..Len(q)
      PROVE  q[i] \in Workers /\ phase[q[i]] = "waiting" /\ grant[q[i]] > 0
  BY <1>1, ElementOfSeq DEF IInv, QueueExact
<1>4. q # <<>> => Head(q) = q[1]
  BY <1>1
<1> QED BY <1>2, <1>3, <1>4

(* What a wake-up leaves of the queue. *)
LEMMA WokenQueue ==
  ASSUME IInv, NEW k \in 0..Len(q)
  PROVE  /\ SubSeq(q, k + 1, Len(q)) \in Seq(Workers)
         /\ Len(SubSeq(q, k + 1, Len(q))) = Len(q) - k
         /\ \A i \in 1..(Len(q) - k) : SubSeq(q, k + 1, Len(q))[i] = q[k + i]
<1>1. Len(q) \in Nat /\ q \in Seq(Workers)
  BY QueueFacts DEF IInv, TypeOK
<1>2. \A i \in (k + 1)..Len(q) : q[i] \in Workers
  BY <1>1, QueueFacts
<1>3. /\ SubSeq(q, k + 1, Len(q)) \in Seq(Workers)
      /\ Len(SubSeq(q, k + 1, Len(q)))
           = IF k + 1 <= Len(q) THEN Len(q) - (k + 1) + 1 ELSE 0
      /\ \A i \in 1..(Len(q) - (k + 1) + 1) :
           SubSeq(q, k + 1, Len(q))[i] = q[(k + 1) + i - 1]
  BY <1>1, <1>2, SubSeqProperties
<1>4. Len(SubSeq(q, k + 1, Len(q))) = Len(q) - k
  <2>1. CASE k + 1 <= Len(q)
    BY <1>1, <1>3, <2>1
  <2>2. CASE k = Len(q)
    <3>1. SubSeq(q, k + 1, Len(q)) = << >>
      BY <1>1, <2>2, SubSeqEmpty
    <3>2. Len(q) - k = 0
      BY <1>1, <2>2
    <3> QED BY <3>1, <3>2, EmptySeq
  <2>3. \A n \in Nat : \A m \in 0..n : m + 1 <= n \/ m = n
    OBVIOUS
  <2> QED BY <1>1, <2>1, <2>2, <2>3
<1>5. ASSUME NEW i \in 1..(Len(q) - k)
      PROVE  SubSeq(q, k + 1, Len(q))[i] = q[k + i]
  <2>1. i \in 1..(Len(q) - (k + 1) + 1) /\ (k + 1) + i - 1 = k + i
    BY <1>1
  <2> QED BY <1>3, <2>1
<1> QED BY <1>3, <1>4, <1>5

LEMMA InitInv == Init => IInv
<1> SUFFICES ASSUME Init PROVE IInv
  OBVIOUS
<1>1. q \in Seq(Workers) /\ Len(q) = 0
  BY EmptySeq DEF Init
<1>2. TypeOK
  BY <1>1, BudgetAssumption DEF Init, TypeOK
<1>3. QueueExact /\ HeadDoesNotFit
  BY <1>1 DEF Init, QueueExact, HeadDoesNotFit
<1> QED BY <1>2, <1>3 DEF IInv

LEMMA AcquireStep ==
  ASSUME IInv, NEW w \in Workers, NEW size \in Sizes, Acquire(w, size)
  PROVE  IInv'
<1> DEFINE n == Reservation(size)
<1>1. n \in 0..MaxBytes
  BY ReservationType
<1> HIDE DEF n
<1>2. /\ phase[w] = "idle" /\ arrivals < MaxArrivals /\ arrivals' = arrivals + 1
      /\ grant' = [grant EXCEPT ![w] = n]
  BY DEF Acquire, n
<1>3. /\ used \in 0..MaxBytes /\ q \in Seq(Workers) /\ arrivals \in 0..MaxArrivals
      /\ phase \in [Workers -> {"idle", "waiting", "holding"}]
      /\ grant \in [Workers -> 0..MaxBytes] /\ MaxBytes \in Nat /\ MaxArrivals \in Nat
  BY BudgetAssumption DEF IInv, TypeOK
<1>4. arrivals' \in 0..MaxArrivals /\ grant' \in [Workers -> 0..MaxBytes]
  BY <1>1, <1>2, <1>3
<1>5. \A i \in 1..Len(q) : q[i] # w /\ grant'[q[i]] = grant[q[i]]
  BY <1>2, <1>3, QueueFacts
<1>6. CASE /\ used + n <= MaxBytes /\ used' = used + n
           /\ phase' = [phase EXCEPT ![w] = "holding"] /\ q' = q
  <2>1. TypeOK'
    BY <1>1, <1>3, <1>4, <1>6 DEF TypeOK
  <2>2. QueueExact'
    BY <1>2, <1>3, <1>5, <1>6, QueueFacts DEF IInv, QueueExact
  <2>3. HeadDoesNotFit'
    <3>1. SUFFICES ASSUME q # <<>> PROVE used' + grant'[q[1]] > MaxBytes
      BY <1>6, QueueFacts DEF HeadDoesNotFit
    <3>2. used + grant[q[1]] > MaxBytes /\ 1 \in 1..Len(q) /\ q[1] \in Workers
      BY <3>1, QueueFacts DEF IInv, HeadDoesNotFit
    <3>3. grant'[q[1]] = grant[q[1]] /\ grant[q[1]] \in Nat
      BY <1>3, <1>5, <3>2
    <3> QED BY <1>1, <1>3, <1>6, <3>2, <3>3
  <2> QED BY <2>1, <2>2, <2>3 DEF IInv
<1>7. CASE /\ used + n > MaxBytes /\ n > 0 /\ q' = Append(q, w)
           /\ phase' = [phase EXCEPT ![w] = "waiting"] /\ used' = used
  <2>1. /\ Append(q, w) \in Seq(Workers) /\ Len(q') = Len(q) + 1
        /\ \A i \in 1..Len(q) : q'[i] = q[i]
        /\ q'[Len(q) + 1] = w /\ q' # <<>>
    BY <1>3, <1>7, AppendProperties
  <2>2. TypeOK'
    BY <1>3, <1>4, <1>7, <2>1 DEF TypeOK
  <2>3. Len(q) \in Nat
    BY QueueFacts
  <2>4. \A i \in 1..Len(q') : i \in 1..Len(q) \/ i = Len(q) + 1
    BY <2>1, <2>3
  <2>5. QueueExact'
    <3>1. ASSUME NEW i \in 1..Len(q')
          PROVE  phase'[q'[i]] = "waiting" /\ grant'[q'[i]] > 0
      BY <1>2, <1>3, <1>5, <1>7, <2>1, <2>4, QueueFacts
    <3>2. ASSUME NEW v \in Workers, phase'[v] = "waiting"
          PROVE  \E i \in 1..Len(q') : q'[i] = v
      <4>1. CASE v = w
        BY <2>1, <2>3, <4>1
      <4>2. CASE v # w
        <5>1. PICK i \in 1..Len(q) : q[i] = v
          BY <1>3, <1>7, <3>2, <4>2 DEF IInv, QueueExact
        <5>2. i \in 1..Len(q')
          BY <2>1, <2>3
        <5> QED BY <2>1, <5>1, <5>2
      <4> QED BY <4>1, <4>2
    <3>3. ASSUME NEW i \in 1..Len(q'), NEW k \in 1..Len(q'), q'[i] = q'[k]
          PROVE  i = k
      BY <1>5, <2>1, <2>4, <3>3 DEF IInv, QueueExact
    <3> QED BY <3>1, <3>2, <3>3 DEF QueueExact
  <2>6. HeadDoesNotFit'
    <3>1. Head(q') = q'[1]
      BY <1>7, <2>1
    <3>2. CASE q = <<>>
      <4>1. q'[1] = w /\ grant'[w] = n
        BY <1>2, <1>3, <2>1, <3>2, QueueFacts
      <4> QED BY <1>7, <3>1, <4>1 DEF HeadDoesNotFit
    <3>3. CASE q # <<>>
      <4>1. q'[1] = q[1] /\ grant'[q[1]] = grant[q[1]] /\ used + grant[q[1]] > MaxBytes
        BY <1>5, <2>1, <3>3, QueueFacts DEF IInv, HeadDoesNotFit
      <4> QED BY <1>7, <3>1, <4>1 DEF HeadDoesNotFit
    <3> QED BY <3>2, <3>3
  <2> QED BY <2>2, <2>5, <2>6 DEF IInv
<1> QED BY <1>6, <1>7 DEF Acquire, n

(* The wake-ups of a release, with k waiters woken. *)
LEMMA ReleaseStep ==
  ASSUME IInv, NEW w \in Workers, Release(w)
  PROVE  IInv'
<1>1. phase[w] = "holding" /\ grant' = [grant EXCEPT ![w] = 0] /\ arrivals' = arrivals
  BY DEF Release
<1>2. /\ used \in 0..MaxBytes /\ q \in Seq(Workers) /\ arrivals \in 0..MaxArrivals
      /\ phase \in [Workers -> {"idle", "waiting", "holding"}]
      /\ grant \in [Workers -> 0..MaxBytes] /\ MaxBytes \in Nat
  BY BudgetAssumption DEF IInv, TypeOK
<1>3. grant' \in [Workers -> 0..MaxBytes] /\ arrivals' \in 0..MaxArrivals
  BY <1>1, <1>2
<1>4. \A i \in 1..Len(q) : /\ q[i] # w /\ grant'[q[i]] = grant[q[i]]
                           /\ q[i] \in Workers /\ phase[q[i]] = "waiting" /\ grant[q[i]] > 0
  BY <1>1, <1>2, QueueFacts
<1>5. Len(q) \in Nat
  BY QueueFacts
<1>6. CASE phase' = [phase EXCEPT ![w] = "idle"] /\ used' = used /\ q' = q
  <2>1. TypeOK'
    BY <1>2, <1>3, <1>6 DEF TypeOK
  <2>2. QueueExact'
    BY <1>1, <1>2, <1>4, <1>6 DEF IInv, QueueExact
  <2>3. HeadDoesNotFit'
    BY <1>2, <1>4, <1>6, QueueFacts DEF IInv, HeadDoesNotFit
  <2> QED BY <2>1, <2>2, <2>3 DEF IInv
<1>7. ASSUME NEW k \in 0..Len(q), NEW total \in 0..MaxBytes,
             k < Len(q) => total + grant[q[k + 1]] > MaxBytes,
             used' = total, q' = SubSeq(q, k + 1, Len(q)),
             phase' = [v \in Workers |-> IF \E i \in 1..k : q[i] = v
                         THEN "holding" ELSE [phase EXCEPT ![w] = "idle"][v]]
      PROVE  IInv'
  <2>1. /\ q' \in Seq(Workers) /\ Len(q') = Len(q) - k
        /\ \A i \in 1..(Len(q) - k) : q'[i] = q[k + i]
    BY <1>7, WokenQueue
  <2>2. \A i \in 1..(Len(q) - k) : k + i \in 1..Len(q) /\ k + i > k
    BY <1>5
  <2>3. TypeOK'
    <3>1. phase' \in [Workers -> {"idle", "waiting", "holding"}]
      BY <1>2, <1>7
    <3> QED BY <1>3, <1>7, <2>1, <3>1 DEF TypeOK
  <2>4. ASSUME NEW i \in 1..Len(q')
        PROVE  phase'[q'[i]] = "waiting" /\ grant'[q'[i]] > 0
    <3>1. q'[i] = q[k + i] /\ k + i \in 1..Len(q) /\ k + i > k
      BY <2>1, <2>2
    <3>2. ~ \E m \in 1..k : q[m] = q[k + i]
      <4>1. SUFFICES ASSUME NEW m \in 1..k, q[m] = q[k + i] PROVE FALSE
        OBVIOUS
      <4>2. m \in 1..Len(q) /\ m # k + i
        BY <1>5, <3>1
      <4> QED BY <3>1, <4>1, <4>2 DEF IInv, QueueExact
    <3> QED BY <1>2, <1>4, <1>7, <3>1, <3>2
  <2>5. ASSUME NEW v \in Workers, phase'[v] = "waiting"
        PROVE  \E i \in 1..Len(q') : q'[i] = v
    <3>1. phase[v] = "waiting" /\ ~ \E i \in 1..k : q[i] = v
      BY <1>2, <1>7, <2>5
    <3>2. PICK m \in 1..Len(q) : q[m] = v
      BY <3>1 DEF IInv, QueueExact
    <3>3. m > k
      BY <1>5, <3>1, <3>2
    <3>4. m - k \in 1..(Len(q) - k) /\ k + (m - k) = m
      BY <1>5, <3>3
    <3> QED BY <2>1, <3>2, <3>4
  <2>6. ASSUME NEW i \in 1..Len(q'), NEW m \in 1..Len(q'), q'[i] = q'[m]
        PROVE  i = m
    <3>1. q[k + i] = q[k + m] /\ k + i \in 1..Len(q) /\ k + m \in 1..Len(q)
      BY <2>1, <2>2, <2>6
    <3>2. k + i = k + m
      BY <3>1 DEF IInv, QueueExact
    <3> QED BY <3>2
  <2>7. HeadDoesNotFit'
    <3>1. SUFFICES ASSUME q' # <<>> PROVE used' + grant'[Head(q')] > MaxBytes
      BY DEF HeadDoesNotFit
    <3>2. Len(q') # 0 /\ Head(q') = q'[1]
      BY <2>1, <3>1, EmptySeq
    <3>3. k < Len(q) /\ 1 \in 1..(Len(q) - k) /\ k + 1 \in 1..Len(q)
      BY <1>5, <2>1, <3>2
    <3>4. q'[1] = q[k + 1]
      BY <2>1, <3>3
    <3> QED BY <1>4, <1>7, <3>2, <3>3, <3>4
  <2>8. QueueExact'
    BY <2>4, <2>5, <2>6 DEF QueueExact
  <2> QED BY <2>3, <2>7, <2>8 DEF IInv
<1> QED BY <1>6, <1>7 DEF Release, TryWake

LEMMA Inductive == IInv /\ [Next]_vars => IInv'
<1> SUFFICES ASSUME IInv, [Next]_vars PROVE IInv'
  OBVIOUS
<1>1. ASSUME NEW w \in Workers, Release(w) PROVE IInv'
  BY <1>1, ReleaseStep
<1>2. ASSUME NEW w \in Workers, NEW size \in Sizes, Acquire(w, size) PROVE IInv'
  BY <1>2, AcquireStep
<1>3. CASE UNCHANGED vars
  BY <1>3 DEF vars, IInv, TypeOK, QueueExact, HeadDoesNotFit
<1> QED BY <1>1, <1>2, <1>3 DEF Next

LEMMA Invariance == Spec => []IInv
  BY InitInv, Inductive, PTL DEF Spec

(* The reservations never exceed the budget (the bound on used). *)
THEOREM BudgetRespected == Spec => []TypeOK
<1>1. IInv => TypeOK
  BY DEF IInv
<1> QED BY <1>1, Invariance, PTL

(* No release forgets a waiter it could have served. *)
THEOREM NoLostWakeup == Spec => []HeadDoesNotFit
<1>1. IInv => HeadDoesNotFit
  BY DEF IInv
<1> QED BY <1>1, Invariance, PTL

(* A blocked object is queued exactly once, and nobody else is queued. *)
THEOREM QueueIsExact == Spec => []QueueExact
<1>1. IInv => QueueExact
  BY DEF IInv
<1> QED BY <1>1, Invariance, PTL

(***************************************************************************)
(* The fast path lets an object pass the first waiter only if it asks for  *)
(* less: the bound on the unfairness that a big object can suffer.         *)
(***************************************************************************)
THEOREM OvertakingBounded == Spec => OvertakesOnlyIfSmaller
<1> DEFINE NoOvertake ==
      \A w \in Workers : phase[w] = "idle" /\ phase'[w] = "holding" /\ q # <<>>
                           => grant'[w] < grant[Head(q)]
<1>1. IInv /\ [Next]_vars => [NoOvertake]_vars
  <2> SUFFICES ASSUME IInv, Next, NEW v \in Workers,
                      phase[v] = "idle", phase'[v] = "holding", q # <<>>
               PROVE  grant'[v] < grant[Head(q)]
    OBVIOUS
  <2>1. /\ used \in Nat /\ MaxBytes \in Nat /\ phase \in [Workers -> {"idle", "waiting", "holding"}]
        /\ grant \in [Workers -> 0..MaxBytes] /\ Len(q) \in Nat
    BY BudgetAssumption, QueueFacts DEF IInv, TypeOK
  <2>2. Head(q) \in Workers /\ used + grant[Head(q)] > MaxBytes
    BY QueueFacts DEF IInv, HeadDoesNotFit
  <2>3. ASSUME NEW w \in Workers, Release(w) PROVE FALSE
    <3>1. phase[w] = "holding"
      BY <2>3 DEF Release
    <3>2. v # w /\ \A i \in 1..Len(q) : q[i] # v
      BY <3>1, QueueFacts
    <3>3. phase' = [phase EXCEPT ![w] = "idle"] => FALSE
      BY <2>1, <3>2
    <3>4. ASSUME NEW k \in 0..Len(q),
                 phase' = [u \in Workers |-> IF \E i \in 1..k : q[i] = u
                             THEN "holding" ELSE [phase EXCEPT ![w] = "idle"][u]]
          PROVE  FALSE
      <4>1. \A i \in 1..k : i \in 1..Len(q)
        BY <2>1
      <4> QED BY <2>1, <3>2, <3>4, <4>1
    <3> QED BY <2>3, <3>3, <3>4 DEF Release, TryWake
  <2>4. ASSUME NEW w \in Workers, NEW size \in Sizes, Acquire(w, size)
        PROVE  grant'[v] < grant[Head(q)]
    <3> DEFINE n == Reservation(size)
    <3>1. n \in 0..MaxBytes
      BY ReservationType
    <3> HIDE DEF n
    <3>2. v = w /\ grant'[v] = n
      BY <2>1, <2>4 DEF Acquire, n
    <3>3. used + n <= MaxBytes
      BY <2>1, <2>4, <3>2 DEF Acquire, n
    <3> QED BY <2>1, <2>2, <3>1, <3>2, <3>3
  <2> QED BY <2>3, <2>4 DEF Next
<1> QED BY <1>1, Invariance, PTL DEF Spec, OvertakesOnlyIfSmaller

-----------------------------------------------------------------------------
(* The accounting: used is the sum of what the holders hold.               *)
(* What the first k waiters ask for, as such a sum. *)
LEMMA AskedIsSum ==
  ASSUME NEW k \in Nat
  PROVE  Asked(k) = Sum([i \in 1..k |-> grant[q[i]]], 1..k)
<1> DEFINE ask == [i \in 1..k |-> grant[q[i]]]
           Asks(it) == it = [s \in SUBSET (1..k) |-> IF s = {} THEN 0
                              ELSE grant[q[Pick(s)]] + it[s \ {Pick(s)}]]
<1>1. Asked(k) = (CHOOSE it : Asks(it))[1..k]
  BY DEF Asked, Pick, MapThenSumSet, MapThenFoldSet
<1>2. \A s \in SUBSET (1..k) : s # {} => ask[Pick(s)] = grant[q[Pick(s)]]
  BY PickIn
<1> HIDE DEF ask
<1>3. ASSUME NEW it PROVE Asks(it) <=> Sums(ask, it, 1..k)
  BY <1>2 DEF Sums
<1>4. IsFiniteSet(1..k)
  BY FS_Interval
<1>5. PICK it : Sums(ask, it, 1..k) /\ Sum(ask, 1..k) = it[1..k]
  BY <1>4, SumValue
<1>6. Asks(CHOOSE i : Asks(i))
  <2>1. Asks(it)
    BY <1>3, <1>5
  <2> HIDE DEF Asks
  <2> QED BY <2>1
<1>7. Sums(ask, CHOOSE i : Asks(i), 1..k)
  BY <1>3, <1>6
<1>8. (CHOOSE i : Asks(i))[1..k] = it[1..k]
  <2> HIDE DEF Asks
  <2> QED BY ONLY <1>4, <1>5, <1>7, SumsAgree
<1> QED BY <1>1, <1>5, <1>8 DEF ask

(* Waking waiters adds what they asked for to what others hold. *)
LEMMA SumOfWoken ==
  ASSUME NEW k \in Nat, NEW others, IsFiniteSet(others), NEW s, NEW g, NEW ask,
         \A i \in 1..k : s[i] \notin others /\ ask[i] = g[s[i]] /\ g[s[i]] \in Nat,
         \A i, j \in 1..k : s[i] = s[j] => i = j,
         \A x \in others : g[x] \in Nat
  PROVE  Sum(g, others \cup {s[i] : i \in 1..k}) = Sum(g, others) + Sum(ask, 1..k)
<1> DEFINE Woken(I) == {s[i] : i \in I}
           F == {I \in SUBSET (1..k) :
                   Sum(g, others \cup Woken(I)) = Sum(g, others) + Sum(ask, I)}
<1>0. IsFiniteSet(1..k)
  BY FS_Interval
<1>1. ASSUME NEW V \in SUBSET (1..k), \A U \in SUBSET V : U # V => U \in F
      PROVE  V \in F
  <2>0. IsFiniteSet(V) /\ Sum(g, others) \in Nat
    BY <1>0, FS_Subset, SumTakesAny
  <2>1. CASE V = {}
    <3>1. Woken(V) = {} /\ others \cup {} = others
      BY <2>1
    <3>2. Sum(ask, V) = 0
      BY <2>1, SumOfNone
    <3>3. Sum(g, others \cup Woken(V)) = Sum(g, others)
      BY <3>1
    <3> HIDE DEF Woken
    <3>4. Sum(g, others \cup Woken(V)) = Sum(g, others) + Sum(ask, V)
      BY <2>0, <3>2, <3>3
    <3> QED BY <3>4 DEF Woken
  <2>2. CASE V # {}
    <3> DEFINE c == Pick(V)
               all == others \cup Woken(V)
    <3>1. c \in V /\ c \in 1..k
      BY <2>2, PickIn
    <3>2. Sum(ask, V) = ask[c] + Sum(ask, V \ {c}) /\ ask[c] = g[s[c]] /\ ask[c] \in Nat
      BY <2>0, <2>2, <3>1, SumPicks
    <3>3. Sum(ask, V \ {c}) \in Nat
      <4>1. IsFiniteSet(V \ {c}) /\ \A i \in V \ {c} : ask[i] \in Nat
        BY <2>0, FS_Subset
      <4> QED BY <4>1, SumTakesAny
    <3> HIDE DEF c
    <3>4. Sum(g, others \cup Woken(V \ {c})) = Sum(g, others) + Sum(ask, V \ {c})
      BY <1>1, <3>1
    <3>5. others \cup Woken(V \ {c}) = all \ {s[c]}
      BY <3>1
    <3>6. IsFiniteSet(all) /\ s[c] \in all /\ \A x \in all : g[x] \in Nat
      <4>1. IsFiniteSet(Woken(V))
        <5>1. [i \in V |-> s[i]] \in Surjection(V, Woken(V))
          BY DEF Surjection
        <5> HIDE DEF Woken
        <5> QED BY ONLY <2>0, <5>1, FS_Surjection
      <4>2. IsFiniteSet(all)
        <5> HIDE DEF Woken
        <5> QED BY <4>1, FS_Union
      <4>3. s[c] \in all /\ \A x \in all : g[x] \in Nat
        BY <3>1
      <4> QED BY <4>2, <4>3
    <3>7. Sum(g, all) = g[s[c]] + Sum(g, all \ {s[c]})
      BY <3>6, SumTakesAny
    <3> HIDE DEF all, Woken
    <3>8. Sum(g, all) = g[s[c]] + (Sum(g, others) + Sum(ask, V \ {c}))
      BY <3>4, <3>5, <3>7
    <3>9. Sum(g, all) = Sum(g, others) + Sum(ask, V)
      <4> DEFINE m == Sum(g, others)  n == Sum(ask, V \ {c})
      <4>1. m \in Nat /\ n \in Nat /\ Sum(g, all) = ask[c] + (m + n) /\ Sum(ask, V) = ask[c] + n
        BY <2>0, <3>2, <3>3, <3>8
      <4> HIDE DEF m, n
      <4>2. Sum(g, all) = m + Sum(ask, V)
        BY <3>2, <4>1
      <4> QED BY <4>2 DEF m
    <3> QED BY <3>9 DEF all
  <2> QED BY <2>1, <2>2
<1>2. \A V \in SUBSET (1..k) : V \in F
  <2>1. F \in SUBSET (SUBSET (1..k))
    OBVIOUS
  <2>2. \A V \in SUBSET (1..k) : (\A U \in SUBSET V : U # V => U \in F) => V \in F
    BY <1>1
  <2> HIDE DEF F
  <2> QED BY ONLY <2>1, <2>2, <1>0, SubsetInduction
<1>3. 1..k \in F
  BY <1>2
<1> QED BY <1>3

(* Only holders hold, and they are finitely many. *)
LEMMA HoldersFinite ==
  ASSUME IInv
  PROVE  /\ IsFiniteSet(Holding) /\ Holding \subseteq Workers
         /\ \A x \in Workers : grant[x] \in Nat
BY BudgetAssumption, FS_Subset DEF Holding, IInv, TypeOK

(* AccountingExact in terms of Sum, before and after a step. *)
LEMMA AccountingIsSum ==
  /\ AccountingExact <=> used = Sum(grant, Holding)
  /\ AccountingExact' <=> used' = Sum(grant', Holding')
<1>1. AccountingExact <=> used = Sum(grant, Holding)
  BY DEF AccountingExact, Sum, MapThenSumSet, MapThenFoldSet
<1>2. AccountingExact' <=> used' = Sum(grant', Holding')
  BY DEF AccountingExact, Sum, MapThenSumSet, MapThenFoldSet
<1> QED BY <1>1, <1>2

LEMMA AccountingAcquire ==
  ASSUME IInv, AccountingExact, NEW w \in Workers, NEW size \in Sizes, Acquire(w, size)
  PROVE  AccountingExact'
<1> DEFINE n == Reservation(size)
<1>1. n \in Nat /\ used \in Nat
  BY ReservationType, BudgetAssumption DEF IInv, TypeOK
<1> HIDE DEF n
<1>2. phase[w] = "idle" /\ grant' = [grant EXCEPT ![w] = n]
  BY DEF Acquire, n
<1>3. /\ phase \in [Workers -> {"idle", "waiting", "holding"}]
      /\ grant \in [Workers -> 0..MaxBytes]
  BY DEF IInv, TypeOK
<1>4. IsFiniteSet(Holding) /\ w \notin Holding /\ \A x \in Holding : grant'[x] = grant[x]
  BY <1>2, <1>3, HoldersFinite DEF Holding
<1>5. Sum(grant', Holding) = Sum(grant, Holding) /\ Sum(grant, Holding) = used
  BY <1>4, SumOfEqual, AccountingIsSum
<1>6. CASE used' = used + n /\ phase' = [phase EXCEPT ![w] = "holding"]
  <2>1. Holding' = Holding \cup {w}
    BY <1>3, <1>6 DEF Holding
  <2>2. IsFiniteSet(Holding') /\ \A x \in Holding' : grant'[x] \in Nat
    <3>1. IsFiniteSet(Holding \cup {w})
      BY <1>4, FS_AddElement
    <3>2. \A x \in Holding \cup {w} : grant'[x] \in Nat
      BY <1>1, <1>2, <1>3, <1>4, HoldersFinite
    <3> QED BY <2>1, <3>1, <3>2
  <2>3. Holding' \ {w} = Holding /\ w \in Holding'
    BY <1>4, <2>1
  <2>4. Sum(grant', Holding') = grant'[w] + Sum(grant', Holding' \ {w})
    BY ONLY <2>2, <2>3, SumTakesAny
  <2>5. Sum(grant', Holding') = n + used /\ used' = n + used
    BY <1>1, <1>2, <1>3, <1>5, <1>6, <2>3, <2>4
  <2> QED BY <2>5, AccountingIsSum
<1>7. CASE used' = used /\ phase' = [phase EXCEPT ![w] = "waiting"]
  <2>1. Holding' = Holding
    BY <1>2, <1>3, <1>7 DEF Holding
  <2>2. used' = Sum(grant', Holding')
    BY <1>5, <1>7, <2>1
  <2> QED BY <2>2, AccountingIsSum
<1> QED BY <1>6, <1>7 DEF Acquire, n

LEMMA AccountingRelease ==
  ASSUME IInv, AccountingExact, NEW w \in Workers, Release(w)
  PROVE  AccountingExact'
<1> DEFINE others == Holding \ {w}
<1>1. phase[w] = "holding" /\ grant' = [grant EXCEPT ![w] = 0]
  BY DEF Release
<1>2. /\ phase \in [Workers -> {"idle", "waiting", "holding"}]
      /\ grant \in [Workers -> 0..MaxBytes] /\ used \in Nat
  BY BudgetAssumption DEF IInv, TypeOK
<1>3. w \in Holding /\ IsFiniteSet(Holding) /\ \A x \in Holding : grant[x] \in Nat
  BY <1>1, HoldersFinite DEF Holding
<1>4. IsFiniteSet(others) /\ \A x \in others : grant[x] \in Nat /\ grant'[x] = grant[x]
  <2>1. others \subseteq Holding /\ \A x \in others : x \in Workers /\ x # w
    BY DEF Holding
  <2>2. IsFiniteSet(others)
    BY <1>3, <2>1, FS_Subset
  <2>3. \A x \in others : grant[x] \in Nat /\ grant'[x] = grant[x]
    BY <1>1, <1>2, <1>3, <2>1
  <2> QED BY <2>2, <2>3
<1>5. used = grant[w] + Sum(grant, others) /\ Sum(grant, others) \in Nat
  <2>1. used = Sum(grant, Holding)
    BY AccountingIsSum
  <2>2. Sum(grant, Holding) = grant[w] + Sum(grant, others)
    BY <1>3, SumTakesAny
  <2>3. Sum(grant, others) \in Nat
    BY <1>4, SumTakesAny
  <2> QED BY <2>1, <2>2, <2>3
<1>6. Sum(grant', others) = Sum(grant, others)
  BY <1>4, SumOfEqual
<1> DEFINE rest == Sum(grant, others)
           left == IF grant[w] <= used THEN used - grant[w] ELSE 0
           done == [phase EXCEPT ![w] = "idle"]
<1>7. left = rest /\ rest \in Nat
  <2> HIDE DEF rest
  <2>1. used = grant[w] + rest /\ rest \in Nat /\ grant[w] \in Nat
    BY <1>3, <1>5 DEF rest
  <2> QED BY <2>1
<1>8. CASE grant[w] = 0 /\ phase' = done /\ used' = used
  <2>1. Holding' = others
    BY <1>1, <1>2, <1>8 DEF Holding
  <2>2. used' = rest
    <3> HIDE DEF rest
    <3> QED BY <1>5, <1>7, <1>8 DEF rest
  <2>3. used' = Sum(grant', Holding')
    BY <1>6, <2>1, <2>2
  <2> QED BY <2>3, AccountingIsSum
<1>9. CASE TryWake(left, done)
  <2>1. PICK k \in 0..Len(q) :
          /\ used' = left + Asked(k)
          /\ phase' = [v \in Workers |-> IF \E i \in 1..k : q[i] = v THEN "holding" ELSE done[v]]
    BY <1>9 DEF TryWake
  <2> DEFINE ask == [i \in 1..k |-> grant[q[i]]]
  <2>2. k \in Nat /\ \A i \in 1..k : i \in 1..Len(q)
    BY QueueFacts
  <2>3. \A i \in 1..k : q[i] \in Workers /\ phase[q[i]] = "waiting" /\ q[i] # w
    BY <1>1, <2>2, QueueFacts
  <2>4. \A i \in 1..k : /\ q[i] \notin others /\ ask[i] = grant'[q[i]]
                        /\ grant'[q[i]] \in Nat
    BY <1>1, <1>2, <2>3 DEF Holding
  <2>5. \A i, j \in 1..k : q[i] = q[j] => i = j
    BY <2>2 DEF IInv, QueueExact
  <2>6. Holding' = others \cup {q[i] : i \in 1..k}
    BY <1>1, <1>2, <2>1, <2>3 DEF Holding
  <2>7. \A x \in others : grant'[x] \in Nat
    BY <1>4
  <2> HIDE DEF ask, others, left, done, rest
  <2>8. Sum(grant', others \cup {q[i] : i \in 1..k}) = Sum(grant', others) + Sum(ask, 1..k)
    BY <1>4, <2>2, <2>4, <2>5, <2>7, SumOfWoken
  <2>9. Asked(k) = Sum(ask, 1..k)
    BY <2>2, AskedIsSum DEF ask
  <2>10. used' = Sum(grant', Holding')
    BY <1>6, <1>7, <2>1, <2>6, <2>8, <2>9 DEF rest
  <2> QED BY <2>10, AccountingIsSum
<1> QED BY <1>8, <1>9 DEF Release

(* What is in use is exactly what the objects in flight hold: the clamp at *)
(* zero in release never hides a double release, and no grant leaks.       *)
THEOREM AccountingIsExact == Spec => []AccountingExact
<1>1. Init => AccountingExact
  <2> SUFFICES ASSUME Init PROVE AccountingExact
    OBVIOUS
  <2>1. Holding = {} /\ used = 0
    BY DEF Init, Holding
  <2> QED BY <2>1, SumOfNone, AccountingIsSum
<1>2. IInv /\ AccountingExact /\ [Next]_vars => AccountingExact'
  <2> SUFFICES ASSUME IInv, AccountingExact, [Next]_vars PROVE AccountingExact'
    OBVIOUS
  <2>1. CASE UNCHANGED vars
    
    <3>1. Holding' = Holding /\ used' = used /\ grant' = grant
      BY <2>1 DEF vars, Holding
    <3> QED BY <3>1, AccountingIsSum
  <2> QED BY <2>1, AccountingAcquire, AccountingRelease DEF Next
<1> QED BY <1>1, <1>2, Invariance, PTL DEF Spec
=============================================================================
