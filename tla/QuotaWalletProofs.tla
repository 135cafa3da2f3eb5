--------------------------- MODULE QuotaWalletProofs ---------------------------
(***************************************************************************)
(* Proofs about QuotaWallet, for all values of its constants.  The hard    *)
(* limits need only the store's own check, and overage caps that no two    *)
(* calls contend for them.  That counters are accounted for, that calls    *)
(* are atomic grants and that they do not deny each other rest on the      *)
(* routes: every request visits its wallets in one order.                  *)
(***************************************************************************)
EXTENDS QuotaWallet, FiniteSetTheorems, SequenceTheorems, TLAPS

(***************************************************************************)
(* Hard limits                                                             *)
(***************************************************************************)

\* The inductive invariant: the counters are numbers within the hard limits.
CountersOK == used \in [Wallets -> [Periods -> Nat]] /\ WithinLimit

\* Consumption that the store accepts respects a hard limit.
LEMMA AddWithin ==
  ASSUME CountersOK, NEW r \in Requests, NEW w, NEW p, Accepts(<<w, p>>, Amount[r]),
         Add(<<w, p>>, Amount[r])
  PROVE  CountersOK'
<1>1. Amount[r] \in Nat
  BY WalletAssumption
<1>2. used' = [used EXCEPT ![w][p] = used[w][p] + Amount[r]]
  BY DEF Add
<1>3. CASE w \in Wallets /\ p \in Periods
  <2>1. used' \in [Wallets -> [Periods -> Nat]]
    BY <1>1, <1>2, <1>3 DEF CountersOK, WithinLimit
  <2> SUFFICES ASSUME NEW v \in Hard, NEW q \in Periods PROVE used'[v][q] <= Limit[v]
    BY <2>1 DEF CountersOK, WithinLimit
  <2>2. v \in Wallets /\ ~HasOverage(v)
    BY DEF Hard
  <2>3. CASE v = w /\ q = p
    <3>1. used'[v][q] = used[w][p] + Amount[r]
      BY <1>2, <1>3, <2>3 DEF CountersOK, WithinLimit
    <3>2. used[w][p] + Amount[r] <= Limit[w]
      BY <2>2, <2>3 DEF Accepts, Fits
    <3> QED BY <2>3, <3>1, <3>2
  <2>4. CASE ~(v = w /\ q = p)
    <3>1. used'[v][q] = used[v][q]
      BY <1>2, <1>3, <2>2, <2>4 DEF CountersOK, WithinLimit
    <3> QED BY <3>1 DEF CountersOK, WithinLimit
  <2> QED BY <2>3, <2>4
<1>4. CASE ~(w \in Wallets /\ p \in Periods)
  <2>1. used' = used
    BY <1>2, <1>4 DEF CountersOK, WithinLimit
  <2> QED BY <2>1 DEF CountersOK, WithinLimit
<1> QED BY <1>3, <1>4

\* Giving units back cannot exceed a limit.
LEMMA SubtractWithin ==
  ASSUME CountersOK, NEW r \in Requests, NEW w, NEW p, Subtract(<<w, p>>, Amount[r])
  PROVE  CountersOK'
<1>1. Amount[r] \in Nat
  BY WalletAssumption
<1> DEFINE Less(m) == IF m > Amount[r] THEN m - Amount[r] ELSE 0
<1>l. \A m \in Nat : Less(m) \in Nat /\ Less(m) <= m
  BY <1>1
<1>2. used' = [used EXCEPT ![w][p] = Less(used[w][p])]
  BY DEF Subtract
<1> HIDE DEF Less
<1>3. CASE w \in Wallets /\ p \in Periods
  <2>1. used' \in [Wallets -> [Periods -> Nat]]
    BY <1>l, <1>2, <1>3 DEF CountersOK, WithinLimit
  <2> SUFFICES ASSUME NEW v \in Hard, NEW q \in Periods PROVE used'[v][q] <= Limit[v]
    BY <2>1 DEF CountersOK, WithinLimit
  <2>2. v \in Wallets /\ Limit[v] \in Nat
    BY DEF Hard
  <2>3. used'[v][q] \in Nat /\ used[v][q] \in Nat /\ used'[v][q] <= used[v][q]
    BY <1>l, <1>2, <1>3, <2>1, <2>2 DEF CountersOK, WithinLimit
  <2> QED BY <2>2, <2>3 DEF CountersOK, WithinLimit
<1>4. CASE ~(w \in Wallets /\ p \in Periods)
  <2>1. used' = used
    BY <1>2, <1>4 DEF CountersOK, WithinLimit
  <2> QED BY <2>1 DEF CountersOK, WithinLimit
<1> QED BY <1>3, <1>4

\* A charge names its wallet and a period.
LEMMA ChargeIsPair ==
  ASSUME NEW r, NEW w
  PROVE  \E p : Charge(r, w) = <<w, p>>
BY DEF Charge

\* Every step keeps the counters within their limits.
LEMMA WithinStep ==
  ASSUME CountersOK, [Next]_vars
  PROVE  CountersOK'
<1>1. CASE used' = used
  BY <1>1 DEF CountersOK, WithinLimit
<1>2. ASSUME NEW r \in Requests, NEW w, Accepts(Charge(r, w), Amount[r]),
             Add(Charge(r, w), Amount[r])
      PROVE  CountersOK'
  BY <1>2, AddWithin, ChargeIsPair
<1>3. ASSUME NEW r \in Requests, NEW c, Subtract(c, Amount[r])
      PROVE  CountersOK'
  <2>1. Subtract(<<c[1], c[2]>>, Amount[r])
    BY <1>3 DEF Subtract
  <2> QED BY <2>1, SubtractWithin
<1>4. ASSUME NEW r \in Requests, Step(r)
      PROVE  \/ used' = used
             \/ \E w : Accepts(Charge(r, w), Amount[r]) /\ Add(Charge(r, w), Amount[r])
             \/ \E c : Subtract(c, Amount[r])
  <2>1. CASE Consume(r) \/ StoreThrows(r)
    BY <2>1 DEF Consume, StoreThrows
  <2>2. CASE Rollback(r) \/ Refund(r) \/ RefundThrows(r)
    BY <2>2 DEF Rollback, Refund, RefundThrows
  <2>3. CASE Begin(r) \/ Resolve(r) \/ Check(r) \/ Deny(r) \/ Unconsume(r) \/ Reresolve(r)
    BY <2>3 DEF Begin, Resolve, Check, Deny, Unconsume, Reresolve
  <2> QED BY <1>4, <2>1, <2>2, <2>3 DEF Step
<1>5. used' = used \/ \E r \in Requests : Step(r)
  BY DEF Next, NewPeriod, vars
<1> QED BY <1>1, <1>2, <1>3, <1>4, <1>5

\* No interleaving of requests, failures of the store or change of period charges
\* a wallet beyond its hard limit.
THEOREM HardLimitsHold == Spec => []WithinLimit
<1>1. Init => CountersOK
  <2> SUFFICES ASSUME Init PROVE CountersOK
    OBVIOUS
  <2>1. used = [w \in Wallets |-> [p \in Periods |-> 0]]
    BY DEF Init
  <2>2. \A w \in Hard : w \in Wallets /\ Limit[w] \in Nat
    BY DEF Hard
  <2> QED BY <2>1, <2>2 DEF CountersOK, WithinLimit
<1>2. CountersOK /\ [Next]_vars => CountersOK'
  BY WithinStep
<1>3. CountersOK => WithinLimit
  BY DEF CountersOK
<1> QED BY <1>1, <1>2, <1>3, PTL DEF Spec

(***************************************************************************)
(* Units held, counted                                                     *)
(***************************************************************************)

AllUnits(R) == UNION {Units(r) : r \in R}
Held(R) == Cardinality(AllUnits(R))

\* Of one request.
LEMMA UnitsCounted ==
  ASSUME NEW r \in Requests
  PROVE  IsFiniteSet(Units(r)) /\ Cardinality(Units(r)) = Amount[r] /\ Amount[r] \in Nat /\ Amount[r] # 0
<1>1. Amount[r] \in Nat /\ Amount[r] # 0
  BY WalletAssumption
<1>2. IsFiniteSet(1..Amount[r]) /\ Cardinality(1..Amount[r]) = Amount[r]
  BY <1>1, FS_Interval
<1>3. IsFiniteSet({r}) /\ Cardinality({r}) = 1
  BY FS_Singleton
<1>4. IsFiniteSet(Units(r)) /\ Cardinality(Units(r)) = 1 * Amount[r]
  BY <1>2, <1>3, FS_Product, Zenon DEF Units
<1> QED
  BY <1>1, <1>4

\* What finitely many requests hold is a number of units.
LEMMA UnitsFinite ==
  ASSUME NEW R \in SUBSET Requests
  PROVE  IsFiniteSet(AllUnits(R)) /\ Held(R) \in Nat
<1> DEFINE T == {Units(r) : r \in R}
           f == [r \in R |-> Units(r)]
<1>1. IsFiniteSet(R)
  BY WalletAssumption, FS_Subset
<1>2. f \in Surjection(R, T)
  BY DEF Surjection
<1>3. IsFiniteSet(T)
  <2> HIDE DEF T, f
  <2> QED BY <1>1, <1>2, FS_Surjection
<1>4. \A U \in T : IsFiniteSet(U)
  BY UnitsCounted
<1>5. IsFiniteSet(AllUnits(R))
  <2>1. AllUnits(R) = UNION T
    BY DEF AllUnits
  <2> HIDE DEF T
  <2> QED BY <1>3, <1>4, <2>1, FS_UNION
<1> QED
  BY <1>5, FS_CardinalityType DEF Held

\* One more holder adds its amount.
LEMMA HeldGrows ==
  ASSUME NEW R \in SUBSET Requests, NEW r \in Requests, r \notin R
  PROVE  Held(R \cup {r}) = Held(R) + Amount[r]
<1>1. AllUnits(R \cup {r}) = AllUnits(R) \cup Units(r)
  BY DEF AllUnits
<1>2. AllUnits(R) \cap Units(r) = {}
  BY DEF AllUnits, Units
<1>3. IsFiniteSet(AllUnits(R)) /\ IsFiniteSet(Units(r)) /\ Cardinality(Units(r)) = Amount[r] /\ Amount[r] \in Nat
  BY UnitsFinite, UnitsCounted
<1>4. Held(R \cup {r}) = Held(R) + Amount[r] - Cardinality({})
  BY <1>1, <1>2, <1>3, FS_Union DEF Held
<1>5. Cardinality({}) = 0
  BY FS_EmptySet
<1>6. Held(R) \in Nat
  BY UnitsFinite
<1> QED
  BY <1>3, <1>4, <1>5, <1>6

\* More holders hold no less.
LEMMA HeldMonotone ==
  ASSUME NEW T \in SUBSET Requests, NEW R \in SUBSET T
  PROVE  Held(R) <= Held(T)
<1>1. AllUnits(R) \subseteq AllUnits(T)
  BY DEF AllUnits
<1>2. IsFiniteSet(AllUnits(T))
  BY UnitsFinite
<1> QED
  BY <1>1, <1>2, FS_Subset DEF Held

\* Whoever holds something: its amount is part of what is held.
LEMMA HeldIsSome ==
  ASSUME NEW R \in SUBSET Requests, Held(R) # 0
  PROVE  R # {}
<1>1. R = {} => AllUnits(R) = {}
  BY DEF AllUnits
<1> QED
  BY <1>1, FS_EmptySet DEF Held

(***************************************************************************)
(* Flattened sequences                                                     *)
(***************************************************************************)

\* A set of numbers has a least one.
LEMMA LeastOf ==
  ASSUME NEW T \in SUBSET Nat, T # {}
  PROVE  \E n \in T : \A m \in T : ~(m < n)
<1> DEFINE Less == {p \in Nat \X Nat : p[1] < p[2]}
<1>1. IsWellFoundedOn(Less, Nat)
  <2>1. OpToRel(<, Nat) = Less
    BY Zenon DEF OpToRel
  <2> HIDE DEF Less
  <2> QED BY <2>1, NatLessThanWellFounded, Zenon
<1>2. PICK n \in T : \A m \in T : <<m, n>> \notin Less
  <2> HIDE DEF Less
  <2> QED BY <1>1, WFMin
<1>3. \A m \in T : <<m, n>> \in Nat \X Nat
  OBVIOUS
<1> QED BY <1>2, <1>3

\* f[n] is what the first n sequences give, one after the other.
Flattens(f, n, seqs) ==
  \A i \in 1..n : f[i] = IF i = 1 THEN seqs[i] ELSE f[i - 1] \o seqs[i]

\* There is such a function.
LEMMA FlattensExists ==
  ASSUME NEW S, NEW seqs \in Seq(Seq(S)), NEW n \in 1..Len(seqs)
  PROVE  \E f \in [1..n -> Seq(S)] : Flattens(f, n, seqs)
<1> DEFINE Bad == {m \in 1..Len(seqs) : ~\E f \in [1..m -> Seq(S)] : Flattens(f, m, seqs)}
<1>1. SUFFICES ASSUME Bad # {} PROVE FALSE
  OBVIOUS
<1>2. Bad \in SUBSET Nat
  OBVIOUS
<1>3. PICK m \in Bad : \A k \in Bad : ~(k < m)
  <2> HIDE DEF Bad
  <2> QED BY <1>1, <1>2, LeastOf
<1>4. m \in 1..Len(seqs) /\ Len(seqs) \in Nat
  OBVIOUS
<1>5. seqs[m] \in Seq(S)
  BY <1>4
<1>6. CASE m = 1
  <2> DEFINE g == [i \in 1..1 |-> seqs[1]]
  <2>1. g \in [1..m -> Seq(S)] /\ Flattens(g, m, seqs)
    BY <1>5, <1>6 DEF Flattens
  <2> HIDE DEF g
  <2> QED BY <2>1
<1>7. CASE m # 1
  <2>0. m - 1 \in 1..Len(seqs) /\ m - 1 < m
    BY <1>4, <1>7
  <2>1. m - 1 \in 1..Len(seqs) /\ m - 1 \notin Bad
    <3> HIDE DEF Bad
    <3> QED BY <1>3, <2>0
  <2>2. PICK f \in [1..(m - 1) -> Seq(S)] : Flattens(f, m - 1, seqs)
    BY <2>1
  <2> DEFINE g == [i \in 1..m |-> IF i = m THEN f[m - 1] \o seqs[m] ELSE f[i]]
  <2>3. f[m - 1] \in Seq(S)
    BY <2>1
  <2>4. f[m - 1] \o seqs[m] \in Seq(S)
    BY <1>5, <2>3, ConcatProperties
  <2>5. g \in [1..m -> Seq(S)]
    <3> SUFFICES ASSUME NEW i \in 1..m PROVE (IF i = m THEN f[m - 1] \o seqs[m] ELSE f[i]) \in Seq(S)
      OBVIOUS
    <3>1. i # m => i \in 1..(m - 1)
      BY <1>4
    <3> QED BY <2>4, <3>1
  <2>6. Flattens(g, m, seqs)
    <3> SUFFICES ASSUME NEW i \in 1..m PROVE g[i] = IF i = 1 THEN seqs[i] ELSE g[i - 1] \o seqs[i]
      BY DEF Flattens
    <3>1. CASE i = m
      <4>1. g[i] = f[m - 1] \o seqs[m]
        BY <3>1
      <4>2. m - 1 \in 1..m /\ m - 1 # m
        BY <1>4, <1>7
      <4>3. g[i - 1] = f[m - 1]
        BY <3>1, <4>2
      <4> HIDE DEF g
      <4> QED BY <1>7, <3>1, <4>1, <4>3
    <3>2. CASE i # m
      <4>1. i \in 1..(m - 1)
        BY <1>4, <3>2
      <4>2. g[i] = f[i]
        BY <3>2
      <4>3. i # 1 => i - 1 \in 1..m /\ i - 1 # m
        BY <1>4, <4>1
      <4>4. i # 1 => g[i - 1] = f[i - 1]
        BY <4>3
      <4>5. f[i] = IF i = 1 THEN seqs[i] ELSE f[i - 1] \o seqs[i]
        BY <2>2, <4>1 DEF Flattens
      <4> HIDE DEF g
      <4> QED BY <4>2, <4>4, <4>5
    <3> QED BY <3>1, <3>2
  <2> HIDE DEF g
  <2> QED BY <2>5, <2>6
<1> QED BY <1>6, <1>7

\* FlattenSeq is its last value.
LEMMA FlattenIs ==
  ASSUME NEW S, NEW seqs \in Seq(Seq(S)), seqs # <<>>
  PROVE  \E f : Flattens(f, Len(seqs), seqs) /\ FlattenSeq(seqs) = f[Len(seqs)]
<1> DEFINE n == Len(seqs)
<1>1. n \in Nat /\ n # 0 /\ n \in 1..Len(seqs)
  BY EmptySeq
<1> DEFINE flatten == CHOOSE f : f = [i \in 1..n |-> IF i = 1 THEN seqs[i] ELSE f[i - 1] \o seqs[i]]
<1>2. PICK f \in [1..n -> Seq(S)] : Flattens(f, n, seqs)
  <2> HIDE DEF n
  <2> QED BY <1>1, FlattensExists
<1>3. f = [i \in 1..n |-> IF i = 1 THEN seqs[i] ELSE f[i - 1] \o seqs[i]]
  <2> HIDE DEF n
  <2> QED BY <1>2 DEF Flattens
<1>4. flatten = [i \in 1..n |-> IF i = 1 THEN seqs[i] ELSE flatten[i - 1] \o seqs[i]]
  <2> HIDE DEF n
  <2> QED BY <1>3, Zenon
<1>5. Flattens(flatten, n, seqs)
  <2> HIDE DEF flatten, n
  <2> QED BY <1>4 DEF Flattens
<1>6. FlattenSeq(seqs) = flatten[n]
  BY <1>1, Zenon DEF FlattenSeq
<1> HIDE DEF flatten
<1> QED BY <1>5, <1>6

\* What is in f[n] is an element of one of the first n sequences, and of two
\* elements the first is from an earlier sequence, or stands before the other.
InBlocks(s, n, seqs) ==
  /\ \A i \in DOMAIN s : \E a \in 1..n : \E x \in DOMAIN seqs[a] : s[i] = seqs[a][x]
  /\ \A i, j \in DOMAIN s : i < j =>
       \E a, b \in 1..n : \E x \in DOMAIN seqs[a], y \in DOMAIN seqs[b] :
         /\ s[i] = seqs[a][x] /\ s[j] = seqs[b][y]
         /\ a < b \/ (a = b /\ x < y)

\* One more sequence behind keeps the blocks in order.
LEMMA BlocksGrow ==
  ASSUME NEW S, NEW seqs \in Seq(Seq(S)), NEW n \in 1..Len(seqs), n # 1,
         NEW s \in Seq(S), InBlocks(s, n - 1, seqs)
  PROVE  s \o seqs[n] \in Seq(S) /\ InBlocks(s \o seqs[n], n, seqs)
<1> DEFINE t == seqs[n]
           u == s \o t
<1>1. t \in Seq(S) /\ Len(s) \in Nat /\ Len(t) \in Nat /\ n \in Nat
  OBVIOUS
<1>2. /\ u \in Seq(S) /\ Len(u) = Len(s) + Len(t)
      /\ \A i \in 1..(Len(s) + Len(t)) : u[i] = IF i <= Len(s) THEN s[i] ELSE t[i - Len(s)]
  <2> HIDE DEF t
  <2> QED BY <1>1, ConcatProperties
<1>3. DOMAIN u = 1..(Len(s) + Len(t)) /\ DOMAIN s = 1..Len(s) /\ DOMAIN t = 1..Len(t)
  <2> HIDE DEF t, u
  <2> QED BY <1>1, <1>2, LenProperties
<1> HIDE DEF u
<1>4. \A i \in DOMAIN u : (i \in DOMAIN s /\ u[i] = s[i])
                          \/ (i \notin DOMAIN s /\ i > Len(s) /\ i - Len(s) \in DOMAIN t /\ u[i] = t[i - Len(s)])
  <2> HIDE DEF t
  <2> QED BY <1>1, <1>2, <1>3
<1>5. \A a \in 1..(n - 1) : a \in 1..n /\ a < n
  BY <1>1
<1>6. n \in 1..n
  BY <1>1
<1>7. ASSUME NEW i \in DOMAIN u
      PROVE  \E a \in 1..n : \E x \in DOMAIN seqs[a] : u[i] = seqs[a][x]
  <2>1. CASE i \in DOMAIN s /\ u[i] = s[i]
    BY <1>5, <2>1 DEF InBlocks
  <2>2. CASE i - Len(s) \in DOMAIN t /\ u[i] = t[i - Len(s)]
    BY <1>6, <2>2
  <2> QED BY <1>4, <2>1, <2>2
<1>8. ASSUME NEW i \in DOMAIN u, NEW j \in DOMAIN u, i < j
      PROVE  \E a, b \in 1..n : \E x \in DOMAIN seqs[a], y \in DOMAIN seqs[b] :
               /\ u[i] = seqs[a][x] /\ u[j] = seqs[b][y]
               /\ a < b \/ (a = b /\ x < y)
  <2>1. CASE i \in DOMAIN s /\ j \in DOMAIN s
    <3>1. u[i] = s[i] /\ u[j] = s[j]
      BY <1>3, <1>4, <2>1
    <3>2. PICK a \in 1..(n - 1), b \in 1..(n - 1) : \E x \in DOMAIN seqs[a], y \in DOMAIN seqs[b] :
               /\ s[i] = seqs[a][x] /\ s[j] = seqs[b][y]
               /\ a < b \/ (a = b /\ x < y)
      BY <1>8, <2>1 DEF InBlocks
    <3> QED BY <1>5, <3>1, <3>2
  <2>2. CASE i \in DOMAIN s /\ j \notin DOMAIN s
    <3>1. u[i] = s[i] /\ j - Len(s) \in DOMAIN t /\ u[j] = t[j - Len(s)]
      BY <1>4, <2>2
    <3>2. PICK a \in 1..(n - 1) : \E x \in DOMAIN seqs[a] : s[i] = seqs[a][x]
      BY <2>2 DEF InBlocks
    <3> QED BY <1>5, <1>6, <3>1, <3>2
  <2>3. CASE i \notin DOMAIN s
    <3>1. j \notin DOMAIN s
      BY <1>1, <1>3, <1>8, <2>3
    <3>2. /\ i - Len(s) \in DOMAIN t /\ u[i] = t[i - Len(s)]
          /\ j - Len(s) \in DOMAIN t /\ u[j] = t[j - Len(s)]
      BY <1>4, <2>3, <3>1
    <3>3. i - Len(s) < j - Len(s)
      BY <1>1, <1>3, <1>8
    <3> QED BY <1>6, <3>2, <3>3
  <2> QED BY <2>1, <2>2, <2>3
<1> QED BY <1>2, <1>7, <1>8 DEF InBlocks, u

\* The elements of a flattened sequence, in the order of its sequences.
LEMMA FlattenOrdered ==
  ASSUME NEW S, NEW seqs \in Seq(Seq(S))
  PROVE  FlattenSeq(seqs) \in Seq(S) /\ InBlocks(FlattenSeq(seqs), Len(seqs), seqs)
<1>1. CASE seqs = <<>>
  <2>1. FlattenSeq(seqs) = <<>>
    BY <1>1, EmptySeq, Zenon DEF FlattenSeq
  <2>2. <<>> \in Seq(S) /\ DOMAIN <<>> = {}
    OBVIOUS
  <2>3. InBlocks(<<>>, Len(seqs), seqs)
    BY <2>2 DEF InBlocks
  <2> QED BY <2>1, <2>2, <2>3
<1>2. CASE seqs # <<>>
  <2>1. PICK f : Flattens(f, Len(seqs), seqs) /\ FlattenSeq(seqs) = f[Len(seqs)]
    BY <1>2, FlattenIs
  <2> DEFINE Bad == {n \in 1..Len(seqs) : ~(f[n] \in Seq(S) /\ InBlocks(f[n], n, seqs))}
  <2>2. Len(seqs) \in 1..Len(seqs)
    BY <1>2, EmptySeq
  <2>3. ASSUME Bad # {} PROVE FALSE
    <3>1. PICK n \in Bad : \A m \in Bad : ~(m < n)
      <4>1. Bad \in SUBSET Nat
        OBVIOUS
      <4> HIDE DEF Bad
      <4> QED BY <2>3, <4>1, LeastOf
    <3>2. n \in 1..Len(seqs) /\ Len(seqs) \in Nat
      OBVIOUS
    <3>3. f[n] = IF n = 1 THEN seqs[n] ELSE f[n - 1] \o seqs[n]
      BY <2>1, <3>2 DEF Flattens
    <3>4. CASE n = 1
      <4>1. f[n] = seqs[1] /\ seqs[1] \in Seq(S)
        BY <3>2, <3>3, <3>4
      <4>2. DOMAIN seqs[1] = 1..Len(seqs[1])
        BY <4>1
      <4>3. InBlocks(seqs[1], 1, seqs)
        <5>1. 1 \in 1..1
          OBVIOUS
        <5> QED BY <5>1, Zenon DEF InBlocks
      <4> QED BY <3>1, <3>4, <4>1, <4>3
    <3>5. CASE n # 1
      <4>1. n - 1 \in 1..Len(seqs) /\ n - 1 \notin Bad
        BY <3>1, <3>2, <3>5
      <4>2. f[n - 1] \in Seq(S) /\ InBlocks(f[n - 1], n - 1, seqs)
        BY <4>1
      <4>3. f[n] \in Seq(S) /\ InBlocks(f[n], n, seqs)
        <5> HIDE DEF Bad
        <5> QED BY <3>2, <3>3, <3>5, <4>2, BlocksGrow
      <4> QED BY <3>1, <4>3
    <3> QED BY <3>4, <3>5
  <2>4. Len(seqs) \notin Bad
    <3> HIDE DEF Bad
    <3> QED BY <2>3
  <2>5. f[Len(seqs)] \in Seq(S) /\ InBlocks(f[Len(seqs)], Len(seqs), seqs)
    BY <2>2, <2>4
  <2> QED BY <2>1, <2>5
<1> QED BY <1>1, <1>2

(***************************************************************************)
(* Routes                                                                  *)
(***************************************************************************)

\* The order in which every route visits its wallets: tenants by their depth, and
\* the limits of one tenant in the order of the keys.
Depth(w) == Len(Ancestors[w[1]])
Before(w, v) ==
  \/ Depth(w) < Depth(v)
  \/ w[1] = v[1] /\ \E i, j \in DOMAIN Keys : i < j /\ w[2] = Keys[i] /\ v[2] = Keys[j]

\* A function on 1..n is a sequence.
LEMMA FunctionIsSeq ==
  ASSUME NEW S, NEW n \in Nat, NEW f \in [1..n -> S]
  PROVE  f \in Seq(S) /\ Len(f) = n
<1>1. f \in UNION {[1..m -> S] : m \in Nat}
  OBVIOUS
<1>2. f \in Seq(S)
  BY <1>1, SeqDef, Zenon
<1>3. DOMAIN f = 1..n /\ DOMAIN f = 1..Len(f) /\ Len(f) \in Nat
  BY <1>2, LenProperties
<1> QED BY <1>2, <1>3

\* Keys are listed once.
LEMMA KeyPositions ==
  /\ DOMAIN Keys \subseteq Nat
  /\ \A i \in DOMAIN Keys : Keys[i] \in Range(Keys)
  /\ \A i, j \in DOMAIN Keys : Keys[i] = Keys[j] => i = j
<1>1. Keys \in Seq(Range(Keys)) /\ \A i, j \in DOMAIN Keys : Keys[i] = Keys[j] => i = j
  BY WalletAssumption
<1>2. DOMAIN Keys = 1..Len(Keys) /\ Len(Keys) \in Nat
  BY <1>1, LenProperties
<1> QED BY <1>1, <1>2 DEF Range

\* Depths are numbers.
LEMMA DepthIsNat ==
  ASSUME NEW w \in Wallets
  PROVE  Depth(w) \in Nat
<1>1. w[1] \in Orgs
  BY DEF Wallets
<1>2. Ancestors[w[1]] \in Seq(Orgs)
  BY <1>1, WalletAssumption
<1> QED BY <1>2, LenProperties DEF Depth

\* The common order is transitive ...
LEMMA BeforeTransitive ==
  ASSUME NEW u \in Wallets, NEW v \in Wallets, NEW w \in Wallets, Before(u, v), Before(v, w)
  PROVE  Before(u, w)
<1>1. Depth(u) \in Nat /\ Depth(v) \in Nat /\ Depth(w) \in Nat
  BY DepthIsNat
<1>2. \A x, y : x[1] = y[1] => Depth(x) = Depth(y)
  BY DEF Depth
<1>3. CASE Depth(u) < Depth(v) \/ Depth(v) < Depth(w)
  <2>1. (Depth(u) < Depth(v) \/ Depth(u) = Depth(v)) /\ (Depth(v) < Depth(w) \/ Depth(v) = Depth(w))
    BY <1>2, Zenon DEF Before
  <2> QED BY <1>1, <1>3, <2>1 DEF Before
<1>4. CASE ~(Depth(u) < Depth(v) \/ Depth(v) < Depth(w))
  <2>1. PICK i, j \in DOMAIN Keys : i < j /\ u[2] = Keys[i] /\ v[2] = Keys[j]
    BY <1>4, Zenon DEF Before
  <2>2. PICK k, l \in DOMAIN Keys : k < l /\ v[2] = Keys[k] /\ w[2] = Keys[l]
    BY <1>4, Zenon DEF Before
  <2>3. j = k
    BY <2>1, <2>2, KeyPositions
  <2>4. i < l
    BY <2>1, <2>2, <2>3, KeyPositions
  <2>5. u[1] = w[1]
    BY <1>4, Zenon DEF Before
  <2> QED BY <2>1, <2>2, <2>4, <2>5 DEF Before
<1> QED BY <1>3, <1>4

\* ... and no wallet is before itself.
LEMMA BeforeIrreflexive ==
  ASSUME NEW w \in Wallets
  PROVE  ~Before(w, w)
BY DepthIsNat, KeyPositions DEF Before

\* The limits of a tenant.
LEMMA LimitOfIs ==
  ASSUME NEW o \in Orgs, NEW k \in Range(Keys)
  PROVE  /\ LimitOf(o, k) \in Seq(Wallets)
         /\ \A x \in DOMAIN LimitOf(o, k) :
              x = 1 /\ LimitOf(o, k)[x] = <<o, k>> /\ Limit[<<o, k>>] # NoLimit
<1>1. <<o, k>> \in Wallets
  BY DEF Wallets
<1>2. CASE Limit[<<o, k>>] = NoLimit
  <2>1. LimitOf(o, k) = <<>>
    BY <1>2 DEF LimitOf
  <2>2. <<>> \in Seq(Wallets) /\ DOMAIN <<>> = {}
    OBVIOUS
  <2> QED BY <2>1, <2>2
<1>3. CASE Limit[<<o, k>>] # NoLimit
  <2> DEFINE w == <<o, k>>
  <2>1. LimitOf(o, k) = <<w>>
    BY <1>3 DEF LimitOf
  <2> HIDE DEF w
  <2>2. w \in Wallets
    BY <1>1 DEF w
  <2>3. <<w>> \in Seq(Wallets) /\ DOMAIN <<w>> = {1} /\ <<w>>[1] = w
    BY <2>2
  <2> QED BY <1>3, <2>1, <2>3 DEF w
<1> QED BY <1>2, <1>3

\* The limits of one tenant are in the common order.
LEMMA LimitsOfOrdered ==
  ASSUME NEW o \in Orgs
  PROVE  /\ LimitsOf(o) \in Seq(Wallets)
         /\ \A x \in DOMAIN LimitsOf(o) : LimitsOf(o)[x][1] = o /\ Limit[LimitsOf(o)[x]] # NoLimit
         /\ \A x, y \in DOMAIN LimitsOf(o) : x < y => Before(LimitsOf(o)[x], LimitsOf(o)[y])
<1> DEFINE seqs == [i \in DOMAIN Keys |-> LimitOf(o, Keys[i])]
           s == LimitsOf(o)
<1>1. seqs \in Seq(Seq(Wallets)) /\ Len(seqs) = Len(Keys) /\ DOMAIN seqs = DOMAIN Keys
  <2>1. Keys \in Seq(Range(Keys))
    BY WalletAssumption
  <2>2. DOMAIN Keys = 1..Len(Keys) /\ Len(Keys) \in Nat
    BY <2>1, LenProperties
  <2>3. \A i \in DOMAIN Keys : LimitOf(o, Keys[i]) \in Seq(Wallets)
    BY KeyPositions, LimitOfIs
  <2>4. seqs \in [1..Len(Keys) -> Seq(Wallets)]
    BY <2>2, <2>3
  <2> HIDE DEF seqs
  <2>5. seqs \in Seq(Seq(Wallets))
    BY <2>2, <2>4, FunctionIsSeq
  <2>6. DOMAIN seqs = 1..Len(Keys) /\ DOMAIN seqs = 1..Len(seqs) /\ Len(seqs) \in Nat
    BY <2>4, <2>5, LenProperties
  <2> QED BY <2>2, <2>5, <2>6
<1>2. s = FlattenSeq(seqs)
  BY Zenon DEF LimitsOf
<1>3. \A i \in DOMAIN seqs : \A x \in DOMAIN seqs[i] :
        x = 1 /\ seqs[i][x] = <<o, Keys[i]>> /\ Limit[seqs[i][x]] # NoLimit
  <2> SUFFICES ASSUME NEW i \in DOMAIN Keys, NEW x \in DOMAIN LimitOf(o, Keys[i])
               PROVE  x = 1 /\ LimitOf(o, Keys[i])[x] = <<o, Keys[i]>> /\ Limit[LimitOf(o, Keys[i])[x]] # NoLimit
    BY <1>1
  <2>1. Keys[i] \in Range(Keys)
    BY KeyPositions
  <2> DEFINE k == Keys[i]
  <2> HIDE DEF k
  <2>2. k \in Range(Keys) /\ x \in DOMAIN LimitOf(o, k)
    BY <2>1 DEF k
  <2>3. x = 1 /\ LimitOf(o, k)[x] = <<o, k>> /\ Limit[<<o, k>>] # NoLimit
    BY <2>2, LimitOfIs
  <2> QED BY <2>3 DEF k
<1>4. 1..Len(seqs) = DOMAIN Keys
  <2> HIDE DEF seqs
  <2> QED BY <1>1, LenProperties
<1> HIDE DEF seqs, s
<1>5. s \in Seq(Wallets) /\ InBlocks(s, Len(seqs), seqs)
  BY <1>1, <1>2, FlattenOrdered
<1>6. ASSUME NEW x \in DOMAIN s
      PROVE  s[x][1] = o /\ Limit[s[x]] # NoLimit
  <2>1. PICK a \in 1..Len(seqs) : \E z \in DOMAIN seqs[a] : s[x] = seqs[a][z]
    BY <1>5, Zenon DEF InBlocks
  <2>2. PICK z \in DOMAIN seqs[a] : s[x] = seqs[a][z]
    BY <2>1
  <2>3. a \in DOMAIN seqs
    BY <1>1, <1>4
  <2>4. seqs[a][z] = <<o, Keys[a]>> /\ Limit[seqs[a][z]] # NoLimit
    BY <1>3, <2>2, <2>3, Zenon
  <2> QED BY <2>2, <2>4
<1>7. ASSUME NEW x \in DOMAIN s, NEW y \in DOMAIN s, x < y
      PROVE  Before(s[x], s[y])
  <2>1. PICK a, b \in 1..Len(seqs) : \E z \in DOMAIN seqs[a], v \in DOMAIN seqs[b] :
               /\ s[x] = seqs[a][z] /\ s[y] = seqs[b][v]
               /\ a < b \/ (a = b /\ z < v)
    BY <1>5, <1>7, Zenon DEF InBlocks
  <2>2. a < b /\ s[x] = <<o, Keys[a]>> /\ s[y] = <<o, Keys[b]>>
    <3>1. PICK z \in DOMAIN seqs[a], v \in DOMAIN seqs[b] :
               /\ s[x] = seqs[a][z] /\ s[y] = seqs[b][v]
               /\ a < b \/ (a = b /\ z < v)
      BY <2>1
    <3>2. a \in DOMAIN seqs /\ b \in DOMAIN seqs
      BY <1>1, <1>4
    <3>3. z = 1 /\ v = 1 /\ seqs[a][z] = <<o, Keys[a]>> /\ seqs[b][v] = <<o, Keys[b]>>
      BY <1>3, <3>1, <3>2, Zenon
    <3> QED BY <3>1, <3>3
  <2>3. a \in DOMAIN Keys /\ b \in DOMAIN Keys
    BY <1>4
  <2> QED BY <2>2, <2>3 DEF Before
<1> QED BY <1>5, <1>6, <1>7 DEF s

\* The tenants of a request, each one deeper than those before it.
LEMMA ChainDepth ==
  ASSUME NEW o \in Orgs
  PROVE  /\ RootToLeaf(o) \in Seq(Orgs)
         /\ \A a \in DOMAIN RootToLeaf(o) : Len(Ancestors[RootToLeaf(o)[a]]) = a - 1
<1> DEFINE up == Ancestors[o]
           n == Len(up)
           down == Reverse(up)
           c == RootToLeaf(o)
<1>1. up \in Seq(Orgs) /\ n \in Nat /\ DOMAIN up = 1..n /\ \A i \in 1..n : up[i] \in Orgs
  <2>1. up \in Seq(Orgs)
    BY WalletAssumption
  <2> HIDE DEF up
  <2> QED BY <2>1, LenProperties, ElementOfSeq
<1>2. \A i \in DOMAIN up : Ancestors[up[i]] = SubSeq(up, i + 1, n)
  BY WalletAssumption
<1>3. down \in Seq(Orgs) /\ Len(down) = n /\ \A i \in 1..n : down[i] = up[n - i + 1]
  <2>1. down = [i \in 1..n |-> up[(n - i) + 1]]
    BY Zenon DEF Reverse
  <2> HIDE DEF up, n, down
  <2>2. down \in [1..n -> Orgs]
    BY <1>1, <2>1
  <2>3. down \in Seq(Orgs)
    BY <1>1, <2>2, FunctionIsSeq
  <2>4. DOMAIN down = 1..n /\ DOMAIN down = 1..Len(down) /\ Len(down) \in Nat
    BY <2>2, <2>3, LenProperties
  <2> QED BY <1>1, <2>1, <2>3, <2>4
<1>4. c = down \o <<o>>
  BY Zenon DEF RootToLeaf
<1> HIDE DEF c, down
<1>5. <<o>> \in Seq(Orgs) /\ Len(<<o>>) = 1 /\ <<o>>[1] = o
  OBVIOUS
<1>6. c \in Seq(Orgs) /\ Len(c) = n + 1 /\ \A i \in 1..(n + 1) : c[i] = IF i <= n THEN down[i] ELSE <<o>>[i - n]
  <2> HIDE DEF n, up
  <2> QED BY <1>1, <1>3, <1>4, <1>5, ConcatProperties
<1>7. ASSUME NEW a \in DOMAIN c
      PROVE  Len(Ancestors[c[a]]) = a - 1
  <2>1. a \in 1..(n + 1)
    <3> HIDE DEF n, up
    <3> QED BY <1>6, LenProperties
  <2>2. CASE a <= n
    <3>1. a \in 1..n /\ n - a + 1 \in 1..n
      <4> HIDE DEF n, up
      <4> QED BY <1>1, <2>1, <2>2
    <3>2. c[a] = up[n - a + 1]
      <4> HIDE DEF n, up
      <4> QED BY <1>3, <1>6, <2>1, <2>2, <3>1
    <3>3. Ancestors[c[a]] = SubSeq(up, (n - a + 1) + 1, n)
      <4> HIDE DEF n, up
      <4> QED BY <1>1, <1>2, <3>1, <3>2
    <3> DEFINE m == (n - a + 1) + 1
    <3>4. m \in Int /\ m \in 1..(n + 1) /\ n - m + 1 = a - 1
      <4> HIDE DEF n, up
      <4> QED BY <1>1, <3>1
    <3>5. \A i \in m..n : up[i] \in Orgs
      <4> HIDE DEF n, up, m
      <4> QED BY <1>1, <3>4
    <3>6. Len(SubSeq(up, m, n)) = IF m <= n THEN n - m + 1 ELSE 0
      <4> HIDE DEF n, up, m
      <4> QED BY <1>1, <3>4, <3>5, SubSeqProperties
    <3>7. m <= n \/ a - 1 = 0
      <4> HIDE DEF n, up
      <4> QED BY <1>1, <3>1
    <3>8. Len(Ancestors[c[a]]) = Len(SubSeq(up, m, n))
      BY <3>3
    <3> HIDE DEF m
    <3> QED BY <3>4, <3>6, <3>7, <3>8
  <2>3. CASE ~(a <= n)
    <3>1. a = n + 1 /\ c[a] = o
      <4> HIDE DEF n, up
      <4> QED BY <1>1, <1>5, <1>6, <2>1, <2>3
    <3> QED BY <1>1, <3>1
  <2> QED BY <2>2, <2>3
<1> QED BY <1>6, <1>7 DEF c

\* A route visits wallets that have a limit, each once and in the common order.
LEMMA RouteOrdered ==
  ASSUME NEW r \in Requests
  PROVE  /\ Route[r] \in Seq(Wallets)
         /\ \A i \in DOMAIN Route[r] : Limit[Route[r][i]] # NoLimit
         /\ \A i, j \in DOMAIN Route[r] : i < j => Before(Route[r][i], Route[r][j])
<1> DEFINE o == OrgOf[r]
           c == RootToLeaf(o)
           seqs == [i \in DOMAIN c |-> LimitsOf(c[i])]
           s == Route[r]
<1>1. o \in Orgs
  BY WalletAssumption
<1>2. c \in Seq(Orgs) /\ \A a \in DOMAIN c : Len(Ancestors[c[a]]) = a - 1
  <2> HIDE DEF o
  <2> QED BY <1>1, ChainDepth
<1>3. s = FlattenSeq(seqs)
  BY Zenon DEF Route
<1> HIDE DEF c, s
<1>4. DOMAIN c = 1..Len(c) /\ Len(c) \in Nat /\ \A a \in DOMAIN c : c[a] \in Orgs
  BY <1>2, LenProperties, ElementOfSeq
<1>5. seqs \in Seq(Seq(Wallets)) /\ 1..Len(seqs) = DOMAIN c
  <2>1. seqs \in [1..Len(c) -> Seq(Wallets)]
    BY <1>4, LimitsOfOrdered
  <2>2. DOMAIN seqs = 1..Len(c)
    BY <1>4
  <2> HIDE DEF seqs
  <2>3. seqs \in Seq(Seq(Wallets))
    BY <1>4, <2>1, FunctionIsSeq
  <2>4. DOMAIN seqs = 1..Len(seqs)
    BY <2>3, LenProperties
  <2> QED BY <1>4, <2>2, <2>3, <2>4
<1>6. \A a \in DOMAIN c : seqs[a] = LimitsOf(c[a])
  OBVIOUS
<1> HIDE DEF seqs
<1>7. s \in Seq(Wallets) /\ InBlocks(s, Len(seqs), seqs)
  BY <1>3, <1>5, FlattenOrdered
<1>8. ASSUME NEW i \in DOMAIN s
      PROVE  Limit[s[i]] # NoLimit
  <2>1. PICK a \in 1..Len(seqs) : \E z \in DOMAIN seqs[a] : s[i] = seqs[a][z]
    BY <1>7, Zenon DEF InBlocks
  <2> QED BY <1>4, <1>5, <1>6, <2>1, LimitsOfOrdered
<1>9. ASSUME NEW i \in DOMAIN s, NEW j \in DOMAIN s, i < j
      PROVE  Before(s[i], s[j])
  <2>1. PICK a, b \in 1..Len(seqs) : \E z \in DOMAIN seqs[a], v \in DOMAIN seqs[b] :
               /\ s[i] = seqs[a][z] /\ s[j] = seqs[b][v]
               /\ a < b \/ (a = b /\ z < v)
    BY <1>7, <1>9, Zenon DEF InBlocks
  <2>5. a \in DOMAIN c /\ b \in DOMAIN c
    BY <1>5
  <2>2. s[i][1] = c[a] /\ s[j][1] = c[b]
    BY <1>4, <1>6, <2>1, <2>5, LimitsOfOrdered
  <2>3. CASE a < b
    <3>1. Depth(s[i]) = a - 1 /\ Depth(s[j]) = b - 1
      BY <1>2, <2>2, <2>5 DEF Depth
    <3>2. Depth(s[i]) < Depth(s[j])
      BY <1>4, <2>3, <2>5, <3>1
    <3> QED BY <3>2 DEF Before
  <2>4. CASE a = b /\ ~(a < b)
    BY <1>4, <1>6, <2>1, <2>4, <2>5, LimitsOfOrdered
  <2> QED BY <2>1, <2>3, <2>4
<1> QED BY <1>7, <1>8, <1>9 DEF s

(***************************************************************************)
(* Types and places                                                        *)
(***************************************************************************)

UsedOK == used \in [Wallets -> [Periods -> Nat]]

\* What consumption does to the counters.
LEMMA AddIs ==
  ASSUME UsedOK, NEW c \in Wallets \X Periods, NEW n \in Nat, Add(c, n)
  PROVE  /\ UsedOK'
         /\ \A w \in Wallets, p \in Periods :
              used'[w][p] = IF <<w, p>> = c THEN used[w][p] + n ELSE used[w][p]
<1>1. PICK v \in Wallets, q \in Periods : c = <<v, q>>
  OBVIOUS
<1>2. used' = [used EXCEPT ![v][q] = used[v][q] + n]
  BY <1>1 DEF Add
<1> QED BY <1>1, <1>2 DEF UsedOK

\* What giving back does to them.
LEMMA SubtractIs ==
  ASSUME UsedOK, NEW c \in Wallets \X Periods, NEW n \in Nat, Subtract(c, n)
  PROVE  /\ UsedOK'
         /\ \A w \in Wallets, p \in Periods :
              used'[w][p] = IF <<w, p>> # c THEN used[w][p]
                            ELSE IF used[w][p] > n THEN used[w][p] - n ELSE 0
<1>1. PICK v \in Wallets, q \in Periods : c = <<v, q>>
  OBVIOUS
<1> DEFINE Less(m) == IF m > n THEN m - n ELSE 0
<1>2. used' = [used EXCEPT ![v][q] = Less(used[v][q])]
  BY <1>1 DEF Subtract
<1>3. \A m \in Nat : Less(m) \in Nat
  OBVIOUS
<1> HIDE DEF Less
<1>4. /\ UsedOK'
      /\ \A w \in Wallets, p \in Periods :
              used'[w][p] = IF <<w, p>> = c THEN Less(used[w][p]) ELSE used[w][p]
  BY <1>1, <1>2, <1>3 DEF UsedOK
<1> QED BY <1>4 DEF Less

\* A request is at a wallet of its route, unless the route is empty.
PlaceOK(r) ==
  /\ Route[r] # <<>> => at[r] \in DOMAIN Route[r]
  /\ Route[r] = <<>> => pc[r] \in {"ready", "denied"}
  /\ pc[r] = "ready" => at[r] = 1 /\ charged[r] = <<>>
  /\ pc[r] = "consume" => Limit[Here(r)] \in Nat

PlaceInv == TypeOK /\ \A r \in Requests : PlaceOK(r)

\* The positions of a route.
LEMMA RouteDomain ==
  ASSUME NEW r \in Requests
  PROVE  Len(Route[r]) \in Nat /\ DOMAIN Route[r] = 1..Len(Route[r]) /\ (Route[r] # <<>> => Len(Route[r]) # 0)
<1>1. Route[r] \in Seq(Wallets)
  BY RouteOrdered
<1> QED BY <1>1, LenProperties, EmptySeq

\* A request is at a wallet with a maximum, or an unlimited one.
LEMMA HereIs ==
  ASSUME NEW r \in Requests, PlaceOK(r), Route[r] # <<>>
  PROVE  /\ Here(r) \in Wallets /\ Limit[Here(r)] # NoLimit
         /\ Limit[Here(r)] \in Nat \cup {Unlimited}
<1>1. at[r] \in 1..Len(Route[r]) /\ at[r] \in DOMAIN Route[r]
  BY RouteDomain DEF PlaceOK
<1>2. Here(r) \in Wallets /\ Limit[Here(r)] # NoLimit
  BY <1>1, RouteOrdered, ElementOfSeq DEF Here
<1>3. Limit[Here(r)] \in Nat \cup {Unlimited, NoLimit}
  BY <1>2, WalletAssumption
<1> QED BY <1>2, <1>3

\* A charge is to a wallet in a period.
LEMMA ChargeTyped ==
  ASSUME NEW r \in Requests, NEW w \in Wallets, due[r] \in Periods
  PROVE  Charge(r, w) \in Wallets \X Periods /\ Charge(r, w)[1] = w
<1>1. 1 \in Periods
  BY WalletAssumption DEF Periods
<1> QED BY <1>1 DEF Charge

\* The position moves on by one, or the loop ends.
LEMMA AdvanceIs ==
  ASSUME PlaceInv, NEW r \in Requests, Route[r] # <<>>, NEW a, NEW b, NEW e, Advance(r, a, b, e)
  PROVE  /\ \A q \in Requests \ {r} : pc'[q] = pc[q] /\ at'[q] = at[q]
         /\ \/ at[r] = Len(Route[r]) /\ at' = at /\ pc' = [pc EXCEPT ![r] = e]
            \/ /\ at[r] # Len(Route[r]) /\ at' = [at EXCEPT ![r] = at[r] + 1]
               /\ at[r] + 1 \in DOMAIN Route[r]
               /\ pc' = [pc EXCEPT ![r] = a] \/ pc' = [pc EXCEPT ![r] = b]
<1>1. at[r] \in 1..Len(Route[r]) /\ Len(Route[r]) \in Nat /\ DOMAIN Route[r] = 1..Len(Route[r])
  BY RouteDomain DEF PlaceInv, PlaceOK
<1>2. at \in [Requests -> Nat \ {0}]
  BY DEF PlaceInv, TypeOK
<1>3. pc \in [Requests -> {"ready"} \cup Awaiting \cup Ended]
  BY DEF PlaceInv, TypeOK
<1>4. CASE IsLast(r)
  <2>1. at' = at /\ pc' = [pc EXCEPT ![r] = e]
    BY <1>4 DEF Advance, Goto
  <2>2. at[r] = Len(Route[r])
    BY <1>4 DEF IsLast
  <2> QED BY <1>3, <2>1, <2>2
<1>5. CASE ~IsLast(r)
  <2>1. at' = [at EXCEPT ![r] = at[r] + 1] /\ (pc' = [pc EXCEPT ![r] = a] \/ pc' = [pc EXCEPT ![r] = b])
    BY <1>5 DEF Advance, Goto
  <2>2. at[r] # Len(Route[r])
    BY <1>5 DEF IsLast
  <2>3. at[r] + 1 \in DOMAIN Route[r]
    BY <1>1, <2>2
  <2> QED BY <1>2, <1>3, <2>1, <2>2, <2>3
<1> QED BY <1>4, <1>5

\* What one step of r changes: nothing of the others.
LEMMA StepLocal ==
  ASSUME PlaceInv, NEW r \in Requests, Step(r)
  PROVE  /\ now' = now
         /\ \A q \in Requests \ {r} : /\ pc'[q] = pc[q] /\ at'[q] = at[q] /\ due'[q] = due[q]
                                      /\ charged'[q] = charged[q]
<1> USE DEF Goto
<1>0. /\ pc \in [Requests -> {"ready"} \cup Awaiting \cup Ended]
      /\ at \in [Requests -> Nat \ {0}] /\ due \in [Requests -> Periods]
      /\ charged \in [Requests -> Seq(Wallets \X Periods)]
  BY DEF PlaceInv, TypeOK
<1>1. CASE Begin(r) \/ Resolve(r) \/ Deny(r) \/ StoreThrows(r)
  BY <1>0, <1>1 DEF Begin, Resolve, Deny, StoreThrows
<1>2. CASE Rollback(r) \/ Unconsume(r) \/ Reresolve(r) \/ RefundThrows(r)
  BY <1>0, <1>2 DEF Rollback, Unconsume, Reresolve, RefundThrows, Returned
<1>3. CASE Check(r) \/ Consume(r) \/ Refund(r)
  <2>1. Route[r] # <<>>
    BY <1>3 DEF Check, Consume, Refund, PlaceInv, PlaceOK
  <2>2. /\ now' = now /\ due' = due
        /\ \A q \in Requests \ {r} : charged'[q] = charged[q]
    BY <1>0, <1>3 DEF Check, Consume, Refund, Returned
  <2>3. \/ at' = at /\ \E x : pc' = [pc EXCEPT ![r] = x]
        \/ \E a, b, e : Advance(r, a, b, e)
    BY <1>3 DEF Check, Consume, Refund
  <2>4. \A q \in Requests \ {r} : pc'[q] = pc[q] /\ at'[q] = at[q]
    BY <1>0, <2>1, <2>3, AdvanceIs
  <2> QED BY <2>2, <2>4
<1> QED BY <1>1, <1>2, <1>3 DEF Step

\* Each action leaves every variable of its request well typed and in place.
LEMMA PlaceStep ==
  ASSUME PlaceInv, NEW r \in Requests, Step(r)
  PROVE  PlaceInv'
<1> DEFINE Labels == {"ready"} \cup Awaiting \cup Ended
<1> USE DEF Goto
<1>0. /\ pc \in [Requests -> Labels]
      /\ at \in [Requests -> Nat \ {0}] /\ due \in [Requests -> Periods]
      /\ charged \in [Requests -> Seq(Wallets \X Periods)]
      /\ UsedOK /\ now \in Periods /\ faults \in 0..MaxFaults /\ MaxFaults \in Nat
  BY WalletAssumption DEF PlaceInv, TypeOK, UsedOK
<1>n. Amount[r] \in Nat
  BY WalletAssumption
<1>p. PlaceOK(r)
  BY DEF PlaceInv
<1>a. Route[r] # <<>> => at[r] \in DOMAIN Route[r] /\ at[r] + 1 \in Nat \ {0}
  BY <1>0, <1>p DEF PlaceOK
<1>h. Route[r] # <<>> => /\ Here(r) \in Wallets
                         /\ Charge(r, Here(r)) \in Wallets \X Periods
  BY <1>0, <1>p, HereIs, ChargeTyped
<1>c. charged[r] \in Seq(Wallets \X Periods)
  BY <1>0
<1>t. charged[r] # <<>> => Head(charged[r]) \in Wallets \X Periods /\ Tail(charged[r]) \in Seq(Wallets \X Periods)
  <2> DEFINE s == charged[r]
             T == Wallets \X Periods
  <2>1. s \in Seq(T)
    BY <1>c
  <2> HIDE DEF s, T
  <2>2. s # <<>> => Head(s) \in T /\ Tail(s) \in Seq(T)
    BY <2>1, HeadTailProperties
  <2> QED BY <2>2 DEF s, T
<1>e. \A q \in Requests \ {r} : PlaceOK(q)'
  <2> SUFFICES ASSUME NEW q \in Requests \ {r} PROVE PlaceOK(q)'
    OBVIOUS
  <2>1. pc'[q] = pc[q] /\ at'[q] = at[q] /\ charged'[q] = charged[q]
    BY StepLocal
  <2>2. PlaceOK(q)
    BY DEF PlaceInv
  <2> QED BY <2>1, <2>2 DEF PlaceOK, Here
\* The new state of r itself.
<1> DEFINE Typed == /\ UsedOK' /\ now' \in Periods /\ faults' \in 0..MaxFaults
                    /\ pc' \in [Requests -> Labels]
                    /\ at' \in [Requests -> Nat \ {0}] /\ due' \in [Requests -> Periods]
                    /\ charged' \in [Requests -> Seq(Wallets \X Periods)]
<1>1. CASE Begin(r)
  <2>1. Typed
    BY <1>0, <1>1 DEF Begin, UsedOK, Awaiting, Ended
  <2>2. PlaceOK(r)'
    BY <1>0, <1>1, <1>p DEF Begin, PlaceOK
  <2> QED BY <1>e, <2>1, <2>2 DEF PlaceInv, TypeOK, UsedOK
<1>2. CASE Resolve(r) \/ Reresolve(r)
  <2>1. Typed
    BY <1>0, <1>2 DEF Resolve, Reresolve, UsedOK, Awaiting, Ended
  <2>2. PlaceOK(r)'
    BY <1>0, <1>2, <1>p DEF Resolve, Reresolve, PlaceOK
  <2> QED BY <1>e, <2>1, <2>2 DEF PlaceInv, TypeOK, UsedOK
<1>3. CASE Deny(r)
  <2>1. Typed
    BY <1>0, <1>3 DEF Deny, UsedOK, Awaiting, Ended
  <2>2. PlaceOK(r)'
    BY <1>0, <1>3, <1>p DEF Deny, PlaceOK
  <2> QED BY <1>e, <2>1, <2>2 DEF PlaceInv, TypeOK, UsedOK
<1>4. CASE Unconsume(r)
  <2>1. Typed
    BY <1>0, <1>4 DEF Unconsume, UsedOK, Awaiting, Ended
  <2>2. Route[r] # <<>> /\ 1 \in DOMAIN Route[r]
    BY <1>4, <1>p, RouteDomain DEF Unconsume, PlaceOK
  <2>3. PlaceOK(r)'
    BY <1>0, <1>4, <1>p, <2>2 DEF Unconsume, PlaceOK
  <2> QED BY <1>e, <2>1, <2>3 DEF PlaceInv, TypeOK, UsedOK
<1>5. CASE Rollback(r)
  <2>1. UsedOK'
    <3>1. CASE UNCHANGED used
      BY <1>0, <3>1 DEF UsedOK
    <3>2. CASE Subtract(Head(charged[r]), Amount[r])
      <4>1. Head(charged[r]) \in Wallets \X Periods
        BY <1>5, <1>t DEF Rollback
      <4> QED BY <1>0, <1>n, <3>2, <4>1, SubtractIs
    <3> QED BY <1>5, <3>1, <3>2 DEF Rollback
  <2>2. Typed
    <3>1. charged' \in [Requests -> Seq(Wallets \X Periods)]
      BY <1>0, <1>5, <1>t DEF Rollback, Remaining
    <3>2. faults' \in 0..MaxFaults
      BY <1>0, <1>5 DEF Rollback
    <3>3. pc' = pc /\ at' = at /\ due' = due /\ now' = now
      BY <1>5 DEF Rollback
    <3> HIDE DEF Labels
    <3> QED BY <1>0, <2>1, <3>1, <3>2, <3>3
  <2>3. PlaceOK(r)'
    BY <1>0, <1>5, <1>p DEF Rollback, PlaceOK
  <2> QED BY <1>e, <2>2, <2>3 DEF PlaceInv, TypeOK, UsedOK
<1>6. CASE StoreThrows(r)
  <2>r. Route[r] # <<>>
    BY <1>6, <1>p DEF StoreThrows, PlaceOK
  <2>1. UsedOK'
    <3>1. CASE UNCHANGED used
      BY <1>0, <3>1 DEF UsedOK
    <3>2. CASE Add(Charge(r, Here(r)), Amount[r])
      BY <1>0, <1>n, <1>h, <2>r, <3>2, AddIs
    <3> QED BY <1>6, <3>1, <3>2 DEF StoreThrows
  <2>2. Typed
    <3>1. faults' \in 0..MaxFaults
      BY <1>0, <1>6 DEF StoreThrows
    <3>2. pc' \in [Requests -> Labels]
      BY <1>0, <1>6 DEF StoreThrows, Ended
    <3>3. charged' = charged /\ at' = at /\ due' = due /\ now' = now
      BY <1>6 DEF StoreThrows
    <3> HIDE DEF Labels
    <3> QED BY <1>0, <2>1, <3>1, <3>2, <3>3
  <2>3. PlaceOK(r)'
    BY <1>0, <1>6, <1>p, <2>r DEF StoreThrows, PlaceOK
  <2> QED BY <1>e, <2>2, <2>3 DEF PlaceInv, TypeOK, UsedOK
<1>7. CASE RefundThrows(r)
  <2>r. Route[r] # <<>>
    BY <1>7, <1>p DEF RefundThrows, PlaceOK
  <2>1. UsedOK'
    <3>1. CASE UNCHANGED used
      BY <1>0, <3>1 DEF UsedOK
    <3>2. CASE Subtract(Charge(r, Here(r)), Amount[r])
      BY <1>0, <1>n, <1>h, <2>r, <3>2, SubtractIs
    <3> QED BY <1>7, <3>1, <3>2 DEF RefundThrows
  <2>2. Typed
    <3>1. faults' \in 0..MaxFaults
      BY <1>0, <1>7 DEF RefundThrows
    <3>2. pc' \in [Requests -> Labels]
      BY <1>0, <1>7 DEF RefundThrows, Ended
    <3>3. charged' \in [Requests -> Seq(Wallets \X Periods)]
      BY <1>0, <1>7, <1>t DEF RefundThrows, Returned
    <3>4. at' = at /\ due' = due /\ now' = now
      BY <1>7 DEF RefundThrows
    <3> HIDE DEF Labels
    <3> QED BY <1>0, <2>1, <3>1, <3>2, <3>3, <3>4
  <2>3. PlaceOK(r)'
    BY <1>0, <1>7, <1>p, <2>r DEF RefundThrows, PlaceOK
  <2> QED BY <1>e, <2>2, <2>3 DEF PlaceInv, TypeOK, UsedOK
<1>8. ASSUME Route[r] # <<>>, NEW a \in {"resolve", "reresolve"}, NEW b \in {"check", "refund"},
             NEW e \in {"granted", "refunded"}, Advance(r, a, b, e)
      PROVE  pc' \in [Requests -> Labels] /\ at' \in [Requests -> Nat \ {0}] /\ PlaceOK(r)'
  <2>1. CASE at' = at /\ pc' = [pc EXCEPT ![r] = e]
    BY <1>0, <1>8, <1>a, <2>1 DEF PlaceOK, Awaiting, Ended
  <2>2. CASE /\ at' = [at EXCEPT ![r] = at[r] + 1] /\ at[r] + 1 \in DOMAIN Route[r]
             /\ pc' = [pc EXCEPT ![r] = a] \/ pc' = [pc EXCEPT ![r] = b]
    BY <1>0, <1>8, <1>a, <2>2 DEF PlaceOK, Awaiting, Ended
  <2> QED BY <1>8, <2>1, <2>2, AdvanceIs
<1>9. CASE Check(r)
  <2>r. Route[r] # <<>>
    BY <1>9, <1>p DEF Check, PlaceOK
  <2>1. pc' \in [Requests -> Labels] /\ at' \in [Requests -> Nat \ {0}] /\ PlaceOK(r)'
    <3>1. CASE Advance(r, "resolve", "check", "granted")
      BY <1>8, <2>r, <3>1
    <3>2. CASE Limit[Here(r)] \in Nat /\ at' = at /\ \E x \in {"rollback", "consume"} : pc' = [pc EXCEPT ![r] = x]
      <4>1. Here(r)' = Here(r)
        BY <3>2 DEF Here
      <4> QED BY <1>0, <1>a, <2>r, <3>2, <4>1 DEF PlaceOK, Awaiting, Ended
    <3> QED BY <1>9, <3>1, <3>2 DEF Check
  <2>2. UNCHANGED <<used, now, due, charged, faults>>
    BY <1>9 DEF Check
  <2> QED BY <1>0, <1>e, <2>1, <2>2 DEF PlaceInv, TypeOK, UsedOK
<1>10. CASE Consume(r)
  <2>r. Route[r] # <<>>
    BY <1>10, <1>p DEF Consume, PlaceOK
  <2> DEFINE c == Charge(r, Here(r))
  <2>1. CASE Accepts(c, Amount[r])
    <3>1. Add(c, Amount[r]) /\ charged' = [charged EXCEPT ![r] = Append(charged[r], c)]
          /\ Advance(r, "resolve", "check", "granted")
      BY <1>10, <2>1 DEF Consume
    <3>2. pc' \in [Requests -> Labels] /\ at' \in [Requests -> Nat \ {0}] /\ PlaceOK(r)'
      BY <1>8, <2>r, <3>1
    <3>3. c \in Wallets \X Periods
      BY <1>h, <2>r
    <3> HIDE DEF c
    <3>4. Append(charged[r], c) \in Seq(Wallets \X Periods)
      <4> DEFINE s == charged[r]
                 T == Wallets \X Periods
      <4>1. s \in Seq(T) /\ c \in T
        BY <1>c, <3>3
      <4> HIDE DEF s, T
      <4>2. Append(s, c) \in Seq(T)
        BY <4>1, AppendProperties
      <4> QED BY <4>2 DEF s, T
    <3>5. UsedOK'
      BY <1>0, <1>n, <3>1, <3>3, AddIs
    <3>6. charged' \in [Requests -> Seq(Wallets \X Periods)]
      BY <1>0, <3>1, <3>4
    <3>7. now' = now /\ due' = due /\ faults' = faults
      BY <1>10 DEF Consume
    <3> QED BY <1>0, <1>e, <3>2, <3>5, <3>6, <3>7 DEF PlaceInv, TypeOK, UsedOK
  <2>2. CASE ~Accepts(c, Amount[r])
    <3>1. pc' = [pc EXCEPT ![r] = "rollback"] /\ UNCHANGED <<used, charged, at, now, due, faults>>
      BY <1>10, <2>2 DEF Consume
    <3>2. Typed
      BY <1>0, <3>1 DEF UsedOK, Awaiting, Ended
    <3>3. PlaceOK(r)'
      BY <1>0, <1>a, <2>r, <3>1 DEF PlaceOK
    <3> QED BY <1>e, <3>2, <3>3 DEF PlaceInv, TypeOK, UsedOK
  <2> QED BY <2>1, <2>2
<1>11. CASE Refund(r)
  <2>r. Route[r] # <<>>
    BY <1>11, <1>p DEF Refund, PlaceOK
  <2>1. pc' \in [Requests -> Labels] /\ at' \in [Requests -> Nat \ {0}] /\ PlaceOK(r)'
    BY <1>8, <1>11, <2>r DEF Refund
  <2>2. UsedOK'
    <3>1. CASE UNCHANGED used
      BY <1>0, <3>1 DEF UsedOK
    <3>2. CASE Subtract(Charge(r, Here(r)), Amount[r])
      BY <1>0, <1>n, <1>h, <2>r, <3>2, SubtractIs
    <3> QED BY <1>11, <3>1, <3>2 DEF Refund
  <2>3. charged' \in [Requests -> Seq(Wallets \X Periods)]
    BY <1>0, <1>11, <1>t DEF Refund, Returned
  <2>4. now' = now /\ due' = due /\ faults' = faults
    BY <1>11 DEF Refund
  <2> QED BY <1>0, <1>e, <2>1, <2>2, <2>3, <2>4 DEF PlaceInv, TypeOK, UsedOK
<1> QED BY <1>1, <1>2, <1>3, <1>4, <1>5, <1>6, <1>7, <1>9, <1>10, <1>11 DEF Step

\* Initially so.
LEMMA PlaceInit == Init => PlaceInv
<1> SUFFICES ASSUME Init PROVE PlaceInv
  OBVIOUS
<1>1. TypeOK
  <2>1. 1 \in Periods /\ <<>> \in Seq(Wallets \X Periods) /\ 0 \in 0..MaxFaults
    BY WalletAssumption DEF Periods
  <2> QED BY <2>1 DEF Init, TypeOK
<1>2. ASSUME NEW r \in Requests PROVE PlaceOK(r)
  <2>1. Route[r] # <<>> => 1 \in DOMAIN Route[r]
    BY RouteDomain
  <2> QED BY <2>1 DEF Init, PlaceOK
<1> QED BY <1>1, <1>2 DEF PlaceInv

\* Every step keeps it so.
LEMMA PlaceNext == PlaceInv /\ [Next]_vars => PlaceInv'
<1> SUFFICES ASSUME PlaceInv, [Next]_vars PROVE PlaceInv'
  OBVIOUS
<1>1. CASE NewPeriod
  <2>1. now + 1 \in Periods
    BY <1>1, WalletAssumption DEF NewPeriod, PlaceInv, TypeOK, Periods
  <2>2. now' \in Periods /\ UNCHANGED <<used, pc, at, due, charged, faults>>
    BY <1>1, <2>1 DEF NewPeriod
  <2>3. TypeOK'
    BY <2>2 DEF PlaceInv, TypeOK
  <2>4. \A r \in Requests : PlaceOK(r)'
    BY <2>2 DEF PlaceInv, PlaceOK, Here
  <2> QED BY <2>3, <2>4 DEF PlaceInv
<1>2. CASE vars' = vars
  BY <1>2 DEF vars, PlaceInv, TypeOK, PlaceOK, Here
<1>3. CASE \E r \in Requests : Step(r)
  BY <1>3, PlaceStep
<1> QED BY <1>1, <1>2, <1>3 DEF Next

\* Every variable has its type, and every request is at a wallet of its route.
THEOREM TypesHold == Spec => []TypeOK
<1>1. PlaceInv => TypeOK
  BY DEF PlaceInv
<1> QED BY <1>1, PlaceInit, PlaceNext, PTL DEF Spec

(***************************************************************************)
(* Charges                                                                 *)
(***************************************************************************)

\* Charges in the order of the routes, those to lifetime limits in period 1.
InOrder(s) == \A i, j \in DOMAIN s : i < j => Before(s[i][1], s[j][1])
Lifetime(s) == \A c \in Range(s) : c[1][2] \notin Periodic => c[2] = 1
Names(s) == {c[1] : c \in Range(s)}

\* The wallets on positions i to j of a route that have a maximum.
Limited(r, i, j) == {w \in Wallets : \E k \in DOMAIN Route[r] :
                        k \in i..j /\ w = Route[r][k] /\ Limit[w] # Unlimited}

\* The charges of a sequence.
LEMMA RangeFacts ==
  ASSUME NEW s \in Seq(Wallets \X Periods)
  PROVE  /\ Len(s) \in Nat /\ DOMAIN s = 1..Len(s)
         /\ \A i \in DOMAIN s : s[i] \in Range(s) /\ s[i] \in Wallets \X Periods
         /\ \A c \in Range(s) : c \in Wallets \X Periods /\ \E i \in DOMAIN s : c = s[i]
         /\ s # <<>> => 1 \in DOMAIN s /\ Head(s) = s[1]
<1> DEFINE T == Wallets \X Periods
<1>1. s \in Seq(T)
  OBVIOUS
<1> HIDE DEF T
<1>2. Len(s) \in Nat /\ DOMAIN s = 1..Len(s) /\ \A i \in 1..Len(s) : s[i] \in T
  BY <1>1, LenProperties, ElementOfSeq
<1>3. Range(s) = {s[i] : i \in DOMAIN s}
  BY DEF Range
<1>4. s # <<>> => 1 \in DOMAIN s /\ Head(s) = s[1]
  BY <1>1, <1>2, EmptySeq
<1> QED BY <1>2, <1>3, <1>4 DEF T

\* A charge to a later wallet keeps the order.
LEMMA AppendInOrder ==
  ASSUME NEW s \in Seq(Wallets \X Periods), InOrder(s), NEW c \in Wallets \X Periods,
         \A d \in Range(s) : Before(d[1], c[1])
  PROVE  /\ InOrder(Append(s, c))
         /\ Range(Append(s, c)) = Range(s) \cup {c}
         /\ Names(Append(s, c)) = Names(s) \cup {c[1]}
<1> DEFINE T == Wallets \X Periods
           u == Append(s, c)
<1>1. s \in Seq(T) /\ c \in T
  OBVIOUS
<1>2. u \in Seq(T) /\ Len(u) = Len(s) + 1 /\ (\A i \in 1..Len(s) : u[i] = s[i]) /\ u[Len(s) + 1] = c
  <2> HIDE DEF T
  <2> QED BY <1>1, AppendProperties
<1> HIDE DEF u
<1>3. Len(s) \in Nat /\ DOMAIN s = 1..Len(s) /\ DOMAIN u = 1..(Len(s) + 1)
  BY <1>2, RangeFacts
<1>4. Range(u) = Range(s) \cup {c}
  BY <1>2, <1>3 DEF Range
<1>5. InOrder(u)
  <2> SUFFICES ASSUME NEW i \in DOMAIN u, NEW j \in DOMAIN u, i < j
               PROVE  Before(u[i][1], u[j][1])
    BY DEF InOrder
  <2>1. i \in DOMAIN s /\ u[i] = s[i]
    BY <1>2, <1>3
  <2>2. CASE j \in DOMAIN s
    BY <1>2, <1>3, <2>1, <2>2 DEF InOrder
  <2>3. CASE j \notin DOMAIN s
    <3>1. u[j] = c
      BY <1>2, <1>3, <2>3
    <3>2. s[i] \in Range(s)
      BY <2>1, RangeFacts
    <3> QED BY <2>1, <3>1, <3>2
  <2> QED BY <2>2, <2>3
<1>6. Names(u) = Names(s) \cup {c[1]}
  BY <1>4 DEF Names
<1> QED BY <1>4, <1>5, <1>6 DEF u

\* So does taking the first one back.
LEMMA TailInOrder ==
  ASSUME NEW s \in Seq(Wallets \X Periods), InOrder(s), s # <<>>
  PROVE  /\ Tail(s) \in Seq(Wallets \X Periods) /\ InOrder(Tail(s))
         /\ Head(s) \in Range(s) /\ Head(s) \notin Range(Tail(s))
         /\ Range(Tail(s)) = Range(s) \ {Head(s)}
         /\ Names(Tail(s)) = Names(s) \ {Head(s)[1]}
         /\ \A d \in Range(s) : d = Head(s) \/ Before(Head(s)[1], d[1])
<1> DEFINE T == Wallets \X Periods
           t == Tail(s)
<1>1. t \in Seq(T) /\ Len(t) = Len(s) - 1 /\ (\A i \in 1..Len(t) : t[i] = s[i + 1])
  <2>1. s \in Seq(T)
    OBVIOUS
  <2> HIDE DEF T
  <2> QED BY <2>1, HeadTailProperties
<1> HIDE DEF t
<1>2. Len(s) \in Nat /\ DOMAIN s = 1..Len(s) /\ DOMAIN t = 1..(Len(s) - 1)
      /\ 1 \in DOMAIN s /\ Head(s) = s[1]
  BY <1>1, RangeFacts
<1>3. \A i \in DOMAIN t : i + 1 \in DOMAIN s /\ 1 < i + 1 /\ t[i] = s[i + 1]
  BY <1>1, <1>2
<1>4. \A j \in DOMAIN s : j # 1 => j - 1 \in DOMAIN t /\ t[j - 1] = s[j] /\ 1 < j
  BY <1>1, <1>2
<1>5. InOrder(t)
  <2> SUFFICES ASSUME NEW i \in DOMAIN t, NEW j \in DOMAIN t, i < j
               PROVE  Before(t[i][1], t[j][1])
    BY DEF InOrder
  <2>1. i + 1 < j + 1
    BY <1>2
  <2> QED BY <1>3, <2>1 DEF InOrder
<1>6. \A j \in DOMAIN s : j # 1 => Before(s[1][1], s[j][1])
  BY <1>2, <1>4 DEF InOrder
<1>7. \A j \in DOMAIN s : s[j] \in Wallets \X Periods
  BY RangeFacts
<1>8. \A j \in DOMAIN s : j # 1 => s[j][1] # s[1][1]
  BY <1>2, <1>6, <1>7, BeforeIrreflexive
<1>9. Range(t) = {s[j] : j \in DOMAIN s \ {1}}
  BY <1>3, <1>4 DEF Range
<1>10. Range(s) = Range(t) \cup {s[1]}
  BY <1>2, <1>9 DEF Range
<1>11. \A d \in Range(t) : d[1] # s[1][1] /\ Before(s[1][1], d[1])
  BY <1>6, <1>8, <1>9
<1>12. Range(t) = Range(s) \ {s[1]} /\ s[1] \notin Range(t)
  BY <1>10, <1>11
<1>13. Names(t) = Names(s) \ {s[1][1]}
  BY <1>10, <1>11 DEF Names
<1> QED BY <1>1, <1>2, <1>5, <1>10, <1>11, <1>12, <1>13 DEF t

\* The wallets with a maximum up to a position, at it, and from it on.
LEMMA LimitedAt ==
  ASSUME NEW r \in Requests, NEW i \in DOMAIN Route[r], NEW w, w = Route[r][i]
  PROVE  /\ w \in Wallets
         /\ Limit[w] = Unlimited => /\ Limited(r, 1, i) = Limited(r, 1, i - 1)
                                    /\ Limited(r, i, Len(Route[r])) = Limited(r, i + 1, Len(Route[r]))
         /\ Limit[w] # Unlimited => /\ Limited(r, 1, i) = Limited(r, 1, i - 1) \cup {w}
                                    /\ Limited(r, i, Len(Route[r])) = Limited(r, i + 1, Len(Route[r])) \cup {w}
         /\ \A v \in Limited(r, 1, i - 1) : v \in Wallets /\ Before(v, w)
         /\ \A v \in Limited(r, i + 1, Len(Route[r])) : v \in Wallets /\ Before(w, v)
         /\ w \notin Limited(r, 1, i - 1) /\ w \notin Limited(r, i + 1, Len(Route[r]))
<1> DEFINE s == Route[r]
           here == IF Limit[w] # Unlimited THEN {w} ELSE {}
           n == Len(s)
<1>1. /\ \A k, l \in DOMAIN s : k < l => Before(s[k], s[l])
      /\ DOMAIN s = 1..n /\ n \in Nat /\ \A k \in DOMAIN s : s[k] \in Wallets
  BY RouteOrdered, RouteDomain, ElementOfSeq
<1> HIDE DEF s, n
<1>2. \A a, b : Limited(r, a, b) = {v \in Wallets : \E k \in DOMAIN s : k \in a..b /\ v = s[k] /\ Limit[v] # Unlimited}
  BY DEF Limited, s
<1>3. i \in DOMAIN s /\ w \in Wallets /\ w = s[i]
  BY <1>1 DEF s
<1>4. Limited(r, 1, i) = Limited(r, 1, i - 1) \cup here
  <2>1. \A k \in DOMAIN s : k \in 1..i <=> k \in 1..(i - 1) \/ k = i
    BY <1>1, <1>3
  <2> QED BY <1>2, <1>3, <2>1
<1>5. Limited(r, i, n) = Limited(r, i + 1, n) \cup here
  <2>1. \A k \in DOMAIN s : k \in i..n <=> k \in (i + 1)..n \/ k = i
    BY <1>1, <1>3
  <2> QED BY <1>2, <1>3, <2>1
<1>6. \A v \in Limited(r, 1, i - 1) : v \in Wallets /\ Before(v, w)
  <2>1. \A k \in DOMAIN s : k \in 1..(i - 1) => k < i
    BY <1>1, <1>3
  <2> QED BY <1>1, <1>2, <1>3, <2>1
<1>7. \A v \in Limited(r, i + 1, n) : v \in Wallets /\ Before(w, v)
  <2>1. \A k \in DOMAIN s : k \in (i + 1)..n => i < k
    BY <1>1, <1>3
  <2> QED BY <1>1, <1>2, <1>3, <2>1
<1>8. w \notin Limited(r, 1, i - 1) /\ w \notin Limited(r, i + 1, n)
  BY <1>3, <1>6, <1>7, BeforeIrreflexive
<1> QED BY <1>3, <1>4, <1>5, <1>6, <1>7, <1>8 DEF s, n

\* Before the first position and behind the last there is none.
LEMMA LimitedNone ==
  ASSUME NEW r \in Requests
  PROVE  Limited(r, 1, 0) = {} /\ Limited(r, Len(Route[r]) + 1, Len(Route[r])) = {}
BY RouteDomain DEF Limited

\* None of the limits of a request is renewed each period.
LifetimeRoute(r) == \A i \in DOMAIN Route[r] :
  Limit[Route[r][i]] # Unlimited => Route[r][i][2] \notin Periodic

\* No failure of the store has let a request pass without its charges.
NoneLetPass == FailOpen => faults = 0

\* What unconsume has taken back, or is about to, is what was charged.
Refunding == {"reresolve", "refund", "refunded"}
RefundsMatch == \A r \in Requests : pc[r] \in Refunding => LifetimeRoute(r) /\ NoneLetPass

\* Up to the grant a request has been charged to the limits it has passed; during
\* unconsume, to those that it has not passed yet.
NamesOK(r) ==
  /\ pc[r] \in {"ready", "resolve", "check", "consume"} =>
       Names(charged[r]) = Limited(r, 1, at[r] - 1)
  /\ pc[r] \in {"rollback", "denied"} => Names(charged[r]) \subseteq Limited(r, 1, at[r] - 1)
  /\ pc[r] = "granted" /\ NoneLetPass => Names(charged[r]) = Limited(r, 1, Len(Route[r]))
  /\ pc[r] \in {"reresolve", "refund"} /\ NoneLetPass =>
       Names(charged[r]) = Limited(r, at[r], Len(Route[r]))
  /\ pc[r] \in Refunding => r \in Refundable

ChargedOK(r) == InOrder(charged[r]) /\ Lifetime(charged[r]) /\ NamesOK(r)

ChargeInv == PlaceInv /\ \A r \in Requests : ChargedOK(r)

\* What a step of r does to the counters and to its charges.
Added(r, c)   == c \notin Range(charged[r]) /\ Range(charged'[r]) = Range(charged[r]) \cup {c}
Removed(r, c) == c \in Range(charged[r]) /\ Range(charged'[r]) = Range(charged[r]) \ {c}
Kept(r)       == charged'[r] = charged[r]
Fault         == faults' = faults + 1

Effect(r) ==
  \/ Kept(r) /\ used' = used /\ (faults' = faults \/ Fault)
  \/ \E c \in Wallets \X Periods : Added(r, c) /\ Add(c, Amount[r]) /\ faults' = faults
  \/ \E c \in Wallets \X Periods : Removed(r, c) /\ Subtract(c, Amount[r]) /\ (faults' = faults \/ Fault)
  \/ \E c \in Wallets \X Periods : Removed(r, c) /\ used' = used /\ Fault
  \/ \E c \in Wallets \X Periods : Kept(r) /\ Add(c, Amount[r]) /\ Fault

\* The invariant, for one request.
LEMMA StepFacts ==
  ASSUME ChargeInv, NEW r \in Requests
  PROVE  /\ pc \in [Requests -> {"ready"} \cup Awaiting \cup Ended]
         /\ at \in [Requests -> Nat \ {0}] /\ due \in [Requests -> Periods]
         /\ charged \in [Requests -> Seq(Wallets \X Periods)]
         /\ faults \in Nat
         /\ PlaceOK(r) /\ ChargedOK(r)
         /\ charged[r] \in Seq(Wallets \X Periods)
         /\ Amount[r] \in Nat
<1>1. MaxFaults \in Nat /\ Amount[r] \in Nat
  BY WalletAssumption
<1>2. TypeOK /\ PlaceOK(r) /\ ChargedOK(r)
  BY DEF ChargeInv, PlaceInv
<1> QED BY <1>1, <1>2 DEF TypeOK

\* Steps that leave the charges alone.
LEMMA QuietStep ==
  ASSUME ChargeInv, NEW r \in Requests, Begin(r) \/ Resolve(r) \/ Deny(r) \/ Unconsume(r) \/ Reresolve(r)
  PROVE  ChargedOK(r)' /\ Effect(r)
<1> USE DEF Goto, NoneLetPass, Refunding
<1>0. /\ pc \in [Requests -> {"ready"} \cup Awaiting \cup Ended]
      /\ at \in [Requests -> Nat \ {0}] /\ PlaceOK(r) /\ ChargedOK(r)
  BY StepFacts
<1>1. charged' = charged /\ used' = used /\ faults' = faults
  BY DEF Begin, Resolve, Deny, Unconsume, Reresolve
<1>2. NamesOK(r)'
  <2>1. CASE Begin(r) \/ Resolve(r) \/ Deny(r) \/ Reresolve(r)
    BY <1>0, <1>1, <2>1 DEF Begin, Resolve, Deny, Reresolve, ChargedOK, NamesOK
  <2>2. CASE Unconsume(r)
    BY <1>0, <1>1, <2>2 DEF Unconsume, ChargedOK, NamesOK
  <2> QED BY <2>1, <2>2
<1>3. Effect(r)
  BY <1>1 DEF Effect, Kept
<1> QED BY <1>0, <1>1, <1>2, <1>3 DEF ChargedOK

\* An unlimited wallet is passed without a charge.
LEMMA CheckStep ==
  ASSUME ChargeInv, NEW r \in Requests, Check(r)
  PROVE  ChargedOK(r)' /\ Effect(r)
<1> DEFINE n == Len(Route[r])
<1>0. /\ pc \in [Requests -> {"ready"} \cup Awaiting \cup Ended]
      /\ at \in [Requests -> Nat \ {0}] /\ PlaceOK(r) /\ ChargedOK(r)
  BY StepFacts
<1>1. charged' = charged /\ used' = used /\ faults' = faults /\ pc[r] = "check"
  BY DEF Check
<1>r. Route[r] # <<>> /\ at[r] \in DOMAIN Route[r] /\ at[r] \in Nat
  BY <1>0, <1>1 DEF PlaceOK
<1>2. Names(charged[r]) = Limited(r, 1, at[r] - 1)
  BY <1>0, <1>1 DEF ChargedOK, NamesOK
<1>3. CASE Limit[Here(r)] = Unlimited /\ Advance(r, "resolve", "check", "granted")
  <2>1. Names(charged[r]) = Limited(r, 1, at[r])
    BY <1>r, <1>2, <1>3, LimitedAt DEF Here
  <2>2. PlaceInv
    BY DEF ChargeInv
  <2>5. NamesOK(r)'
    <3>1. CASE at[r] = Len(Route[r]) /\ at' = at /\ pc' = [pc EXCEPT ![r] = "granted"]
      BY <1>0, <1>1, <2>1, <3>1 DEF NamesOK, Refunding
    <3>2. CASE /\ at' = [at EXCEPT ![r] = at[r] + 1]
               /\ pc' = [pc EXCEPT ![r] = "resolve"] \/ pc' = [pc EXCEPT ![r] = "check"]
      <4>1. at'[r] - 1 = at[r] /\ pc'[r] \in {"resolve", "check"}
        BY <1>0, <1>r, <3>2
      <4> QED BY <1>1, <2>1, <4>1 DEF NamesOK, Refunding
    <3> QED BY <1>r, <1>3, <2>2, <3>1, <3>2, AdvanceIs
  <2> QED BY <1>0, <1>1, <2>5 DEF ChargedOK, Effect, Kept
<1>4. CASE at' = at /\ \E x \in {"rollback", "consume"} : pc' = [pc EXCEPT ![r] = x]
  <2>1. NamesOK(r)'
    BY <1>0, <1>1, <1>2, <1>4 DEF NamesOK, Refunding
  <2> QED BY <1>0, <1>1, <2>1 DEF ChargedOK, Effect, Kept
<1>5. \/ Limit[Here(r)] = Unlimited /\ Advance(r, "resolve", "check", "granted")
      \/ at' = at /\ \E x \in {"rollback", "consume"} : pc' = [pc EXCEPT ![r] = x]
  BY DEF Check, Goto
<1> QED BY <1>3, <1>4, <1>5

\* A consumed wallet is passed with its charge.
LEMMA ConsumeStep ==
  ASSUME ChargeInv, NEW r \in Requests, Consume(r)
  PROVE  ChargedOK(r)' /\ Effect(r)
<1>0. /\ pc \in [Requests -> {"ready"} \cup Awaiting \cup Ended]
      /\ at \in [Requests -> Nat \ {0}] /\ PlaceOK(r) /\ ChargedOK(r)
      /\ due \in [Requests -> Periods]
      /\ charged \in [Requests -> Seq(Wallets \X Periods)]
      /\ charged[r] \in Seq(Wallets \X Periods)
  BY StepFacts
<1>t. pc \in [Requests -> {"ready"} \cup Awaiting \cup Ended] /\ at \in [Requests -> Nat \ {0}]
  BY <1>0
<1>1. faults' = faults /\ pc[r] = "consume"
  BY DEF Consume
<1>r. Route[r] # <<>> /\ at[r] \in DOMAIN Route[r] /\ at[r] \in Nat
  BY <1>0, <1>1 DEF PlaceOK
<1>2. Names(charged[r]) = Limited(r, 1, at[r] - 1) /\ InOrder(charged[r]) /\ Lifetime(charged[r])
  BY <1>0, <1>1 DEF ChargedOK, NamesOK
<1> DEFINE s == charged[r]
           c == Charge(r, Here(r))
<1>3. c \in Wallets \X Periods /\ c[1] = Here(r)
  BY <1>0, <1>r, HereIs, ChargeTyped
<1>4. \A d \in Range(s) : d[1] \in Names(s)
  BY DEF Names
<1>5. CASE Accepts(c, Amount[r])
  <2>1. Add(c, Amount[r]) /\ charged' = [charged EXCEPT ![r] = Append(s, c)]
        /\ Advance(r, "resolve", "check", "granted")
    BY <1>5 DEF Consume
  <2>2. Limit[Here(r)] # Unlimited
    BY <1>0, <1>1, WalletAssumption DEF PlaceOK
  <2>3. Limited(r, 1, at[r]) = Names(s) \cup {c[1]}
    BY <1>r, <1>2, <1>3, <2>2, LimitedAt DEF Here
  <2>4. \A v \in Names(s) : Before(v, c[1])
    BY <1>r, <1>2, <1>3, LimitedAt DEF Here
  <2>5. c[1] \notin Names(s)
    BY <1>r, <1>2, <1>3, LimitedAt DEF Here
  <2>6. c[1][2] \notin Periodic => c[2] = 1
    BY <1>3 DEF Charge
  <2>7. charged'[r] = Append(s, c)
    BY <1>0, <2>1
  <2> HIDE DEF s, c
  <2>s. s \in Seq(Wallets \X Periods) /\ InOrder(s) /\ Lifetime(s)
    BY <1>0, <1>2 DEF s
  <2>8. /\ InOrder(charged'[r])
        /\ Range(charged'[r]) = Range(s) \cup {c}
        /\ Names(charged'[r]) = Names(s) \cup {c[1]}
    BY <1>3, <1>4, <2>4, <2>7, <2>s, AppendInOrder
  <2>9. Lifetime(charged'[r])
    BY <2>6, <2>8, <2>s DEF Lifetime
  <2>10. Effect(r)
    <3>1. c \notin Range(s)
      BY <1>4, <2>5
    <3>2. Added(r, c)
      BY <2>8, <3>1 DEF Added, s
    <3> QED BY <1>1, <1>3, <2>1, <3>2 DEF Effect
  <2>11. PlaceInv
    BY DEF ChargeInv
  <2>12. NamesOK(r)'
    <3>1. CASE at[r] = Len(Route[r]) /\ at' = at /\ pc' = [pc EXCEPT ![r] = "granted"]
      BY <1>0, <2>3, <2>8, <3>1 DEF NamesOK, Refunding
    <3>2. CASE /\ at' = [at EXCEPT ![r] = at[r] + 1]
               /\ pc' = [pc EXCEPT ![r] = "resolve"] \/ pc' = [pc EXCEPT ![r] = "check"]
      <4>1. at'[r] - 1 = at[r] /\ pc'[r] \in {"resolve", "check"}
        BY <1>t, <1>r, <3>2
      <4> QED BY <2>3, <2>8, <4>1 DEF NamesOK, Refunding
    <3> QED BY <1>r, <2>1, <2>11, <3>1, <3>2, AdvanceIs
  <2> QED BY <2>8, <2>9, <2>10, <2>12 DEF ChargedOK
<1>6. CASE ~Accepts(c, Amount[r])
  <2>1. pc' = [pc EXCEPT ![r] = "rollback"] /\ UNCHANGED <<used, charged, at>>
    BY <1>6 DEF Consume, Goto
  <2>2. NamesOK(r)'
    BY <1>0, <1>2, <2>1 DEF NamesOK, Refunding
  <2> QED BY <1>0, <1>1, <2>1, <2>2 DEF ChargedOK, Effect, Kept
<1> QED BY <1>5, <1>6

\* A failure of the store ends the call with its charges.
LEMMA ThrowStep ==
  ASSUME ChargeInv, NEW r \in Requests, StoreThrows(r)
  PROVE  ChargedOK(r)' /\ Effect(r)
<1>0. /\ pc \in [Requests -> {"ready"} \cup Awaiting \cup Ended]
      /\ due \in [Requests -> Periods] /\ PlaceOK(r) /\ ChargedOK(r)
  BY StepFacts
<1>1. charged' = charged /\ Fault /\ pc'[r] = IF FailOpen THEN "granted" ELSE "denied"
  BY <1>0 DEF StoreThrows, Fault, Goto
<1>2. Route[r] # <<>>
  BY <1>0 DEF StoreThrows, PlaceOK
<1>3. Charge(r, Here(r)) \in Wallets \X Periods
  BY <1>0, <1>2, HereIs, ChargeTyped
<1>4. used' = used \/ Add(Charge(r, Here(r)), Amount[r])
  BY DEF StoreThrows
<1>5. Effect(r)
  BY <1>1, <1>3, <1>4 DEF Effect, Kept
<1>6. NamesOK(r)'
  <2>1. at' = at /\ pc[r] \in {"check", "consume"}
    BY DEF StoreThrows
  <2>2. FailOpen => ~NoneLetPass'
    <3>1. faults \in Nat
      BY StepFacts
    <3> QED BY <1>1, <3>1 DEF Fault, NoneLetPass
  <2> QED BY <1>0, <1>1, <2>1, <2>2 DEF ChargedOK, NamesOK, Refunding
<1> QED BY <1>0, <1>1, <1>5, <1>6 DEF ChargedOK

\* The rollback takes the first charge back, or loses it.
LEMMA RollbackStep ==
  ASSUME ChargeInv, NEW r \in Requests, Rollback(r)
  PROVE  ChargedOK(r)' /\ Effect(r)
<1>0. /\ pc \in [Requests -> {"ready"} \cup Awaiting \cup Ended]
      /\ charged \in [Requests -> Seq(Wallets \X Periods)]
      /\ ChargedOK(r) /\ charged[r] \in Seq(Wallets \X Periods)
  BY StepFacts
<1> DEFINE s == charged[r]
           c == Head(s)
<1>1. /\ s # <<>> /\ charged'[r] = Tail(s) /\ pc' = pc /\ at' = at /\ pc[r] = "rollback"
      /\ \/ Subtract(c, Amount[r]) /\ (faults' = faults \/ Fault)
         \/ used' = used /\ Fault
  BY <1>0 DEF Rollback, Fault, Remaining
<1>2. InOrder(s) /\ Lifetime(s) /\ Names(s) \subseteq Limited(r, 1, at[r] - 1)
  BY <1>0, <1>1 DEF ChargedOK, NamesOK
<1>3. s \in Seq(Wallets \X Periods)
  BY <1>0
<1> HIDE DEF s
<1>4. /\ InOrder(Tail(s)) /\ c \in Range(s) /\ Range(Tail(s)) = Range(s) \ {c}
      /\ Names(Tail(s)) = Names(s) \ {c[1]} /\ c \in Wallets \X Periods
  BY <1>1, <1>2, <1>3, TailInOrder, RangeFacts
<1>5. Lifetime(Tail(s))
  BY <1>2, <1>4 DEF Lifetime
<1>6. Removed(r, c)
  BY <1>1, <1>4 DEF Removed, s
<1>7. Effect(r)
  BY <1>1, <1>4, <1>6 DEF Effect
<1>8. NamesOK(r)'
  BY <1>1, <1>2, <1>4 DEF NamesOK, Refunding
<1> QED BY <1>1, <1>4, <1>5, <1>7, <1>8 DEF ChargedOK

\* The next wallet to refund is the one of the first charge that is left ...
LEMMA RefundNames ==
  ASSUME ChargeInv, NoneLetPass, NEW r \in Requests, pc[r] = "refund", Limit[Here(r)] # Unlimited
  PROVE  /\ charged[r] # <<>> /\ Head(charged[r])[1] = Here(r)
         /\ Head(charged[r]) \in Range(charged[r]) /\ Head(charged[r]) \in Wallets \X Periods
         /\ Names(Tail(charged[r])) = Limited(r, at[r] + 1, Len(Route[r]))
<1>0. PlaceOK(r) /\ ChargedOK(r) /\ charged[r] \in Seq(Wallets \X Periods)
  BY StepFacts
<1>r. Route[r] # <<>> /\ at[r] \in DOMAIN Route[r]
  BY <1>0 DEF PlaceOK
<1> DEFINE s == charged[r]
           w == Here(r)
           rest == Limited(r, at[r] + 1, Len(Route[r]))
<1>1. InOrder(s) /\ Names(s) = Limited(r, at[r], Len(Route[r]))
  BY <1>0 DEF ChargedOK, NamesOK
<1>2. /\ w \in Wallets /\ Names(s) = rest \cup {w} /\ w \notin rest
      /\ \A v \in rest : v \in Wallets /\ Before(w, v)
  BY <1>r, <1>1, LimitedAt DEF Here
<1>5. s \in Seq(Wallets \X Periods)
  BY <1>0
<1> HIDE DEF s, w, rest
<1>6. PICK d \in Range(s) : d[1] = w
  BY <1>2 DEF Names
<1>7. s # <<>>
  BY <1>5, <1>6, RangeFacts
<1> DEFINE h == Head(s)
<1>8. /\ h \in Range(s) /\ (d = h \/ Before(h[1], w)) /\ h \in Wallets \X Periods
      /\ Names(Tail(s)) = Names(s) \ {h[1]}
  BY <1>1, <1>5, <1>6, <1>7, TailInOrder, RangeFacts
<1> HIDE DEF h
<1>9. h[1] = w
  <2>1. h[1] \in rest \cup {w}
    BY <1>2, <1>8 DEF Names
  <2>2. CASE h[1] \in rest
    <3>1. Before(w, h[1]) /\ h[1] \in Wallets
      BY <1>2, <2>2
    <3>2. h[1] # w
      BY <1>2, <2>2
    <3>3. Before(h[1], w)
      BY <1>6, <1>8, <3>2
    <3> QED BY <1>2, <3>1, <3>3, BeforeTransitive, BeforeIrreflexive
  <2> QED BY <2>1, <2>2
<1>12. Names(Tail(s)) = rest
  BY <1>2, <1>8, <1>9
<1> QED BY <1>7, <1>8, <1>9, <1>12 DEF s, w, rest, h

\* ... and of the same period, unless the limit is renewed.
LEMMA RefundIsFirst ==
  ASSUME ChargeInv, RefundsMatch, NEW r \in Requests, pc[r] = "refund", Limit[Here(r)] # Unlimited
  PROVE  Head(charged[r]) = Charge(r, Here(r)) /\ charged[r] # <<>> /\ Route[r] # <<>>
<1>0. PlaceOK(r) /\ ChargedOK(r) /\ LifetimeRoute(r) /\ NoneLetPass
  BY StepFacts DEF RefundsMatch, Refunding
<1>r. Route[r] # <<>> /\ at[r] \in DOMAIN Route[r]
  BY <1>0 DEF PlaceOK
<1> DEFINE h == Head(charged[r])
           w == Here(r)
<1>1. /\ charged[r] # <<>> /\ h[1] = w /\ h \in Range(charged[r]) /\ h \in Wallets \X Periods
      /\ Lifetime(charged[r])
  BY <1>0, RefundNames DEF ChargedOK
<1>2. w[2] \notin Periodic
  BY <1>0, <1>r DEF LifetimeRoute, Here
<1>3. Charge(r, w) = <<w, 1>>
  BY <1>2 DEF Charge
<1> HIDE DEF h, w
<1>4. h[2] = 1
  BY <1>1, <1>2 DEF Lifetime
<1>5. h = Charge(r, w)
  BY <1>1, <1>3, <1>4
<1> QED BY <1>r, <1>1, <1>5 DEF h, w

\* Returning takes the first charge back, or none.
LEMMA ReturnedOK ==
  ASSUME ChargeInv, NEW r \in Requests, Returned(r)
  PROVE  /\ InOrder(charged'[r]) /\ Lifetime(charged'[r])
         /\ charged'[r] = IF charged[r] # <<>> /\ Head(charged[r])[1] = Here(r)
                           THEN Tail(charged[r]) ELSE charged[r]
<1>0. /\ charged \in [Requests -> Seq(Wallets \X Periods)]
      /\ ChargedOK(r) /\ charged[r] \in Seq(Wallets \X Periods)
  BY StepFacts
<1> DEFINE s == charged[r]
<1>1. charged'[r] = IF s # <<>> /\ Head(s)[1] = Here(r) THEN Tail(s) ELSE s
  BY <1>0 DEF Returned
<1>2. InOrder(s) /\ Lifetime(s) /\ s \in Seq(Wallets \X Periods)
  BY <1>0 DEF ChargedOK
<1>3. s # <<>> => InOrder(Tail(s)) /\ Lifetime(Tail(s))
  <2> HIDE DEF s
  <2>1. s # <<>> => InOrder(Tail(s)) /\ Range(Tail(s)) = Range(s) \ {Head(s)}
    BY <1>2, TailInOrder
  <2> QED BY <1>2, <2>1 DEF Lifetime
<1> QED BY <1>1, <1>2, <1>3

\* What matches is removed from the counter and from the charges.
LEMMA RefundedOK ==
  ASSUME ChargeInv, RefundsMatch, NEW r \in Requests, pc[r] = "refund", Limit[Here(r)] # Unlimited,
         Returned(r)
  PROVE  Removed(r, Charge(r, Here(r))) /\ Charge(r, Here(r)) \in Wallets \X Periods
<1>0. /\ ChargedOK(r) /\ charged[r] \in Seq(Wallets \X Periods)
      /\ due \in [Requests -> Periods] /\ PlaceOK(r)
  BY StepFacts
<1> DEFINE s == charged[r]
           c == Charge(r, Here(r))
<1>1. s # <<>> /\ Head(s) = c /\ Route[r] # <<>>
  BY RefundIsFirst
<1>2. c \in Wallets \X Periods /\ c[1] = Here(r)
  BY <1>0, <1>1, HereIs, ChargeTyped
<1>3. charged'[r] = Tail(s)
  BY <1>1, <1>2, ReturnedOK
<1>4. InOrder(s) /\ s \in Seq(Wallets \X Periods)
  BY <1>0 DEF ChargedOK
<1> HIDE DEF s, c
<1>5. c \in Range(s) /\ Range(Tail(s)) = Range(s) \ {c}
  BY <1>1, <1>4, TailInOrder
<1>7. Removed(r, c)
  BY <1>3, <1>5 DEF Removed, s
<1> QED BY <1>2, <1>7 DEF s, c

\* unconsume passes the wallet whose charge it returned.
LEMMA RefundStep ==
  ASSUME ChargeInv, NEW r \in Requests, Refund(r)
  PROVE  ChargedOK(r)' /\ (RefundsMatch => Effect(r))
<1>0. /\ pc \in [Requests -> {"ready"} \cup Awaiting \cup Ended]
      /\ at \in [Requests -> Nat \ {0}] /\ PlaceOK(r) /\ ChargedOK(r)
  BY StepFacts
<1>1. pc[r] = "refund" /\ faults' = faults /\ Advance(r, "reresolve", "refund", "refunded")
  BY DEF Refund
<1>r. Route[r] # <<>> /\ at[r] \in DOMAIN Route[r] /\ at[r] \in Nat
  BY <1>0, <1>1 DEF PlaceOK
<1>2. (NoneLetPass => Names(charged[r]) = Limited(r, at[r], Len(Route[r]))) /\ r \in Refundable
  BY <1>0, <1>1 DEF ChargedOK, NamesOK, Refunding
<1> DEFINE rest == Limited(r, at[r] + 1, Len(Route[r]))
<1>3. /\ InOrder(charged'[r]) /\ Lifetime(charged'[r])
      /\ NoneLetPass => Names(charged'[r]) = rest
      /\ RefundsMatch => Effect(r)
  <2>1. CASE Limit[Here(r)] = Unlimited
    <3>1. used' = used /\ charged' = charged
      BY <2>1 DEF Refund
    <3>2. NoneLetPass => Names(charged[r]) = rest
      BY <1>r, <1>2, <2>1, LimitedAt DEF Here
    <3> QED BY <1>0, <1>1, <3>1, <3>2 DEF ChargedOK, Effect, Kept
  <2>2. CASE Limit[Here(r)] # Unlimited
    <3>1. Subtract(Charge(r, Here(r)), Amount[r]) /\ Returned(r)
      BY <2>2 DEF Refund
    <3>2. /\ InOrder(charged'[r]) /\ Lifetime(charged'[r])
          /\ charged'[r] = IF charged[r] # <<>> /\ Head(charged[r])[1] = Here(r)
                            THEN Tail(charged[r]) ELSE charged[r]
      BY <3>1, ReturnedOK
    <3>3. NoneLetPass => Names(charged'[r]) = rest
      BY <1>1, <2>2, <3>2, RefundNames
    <3>4. RefundsMatch => Effect(r)
      BY <1>1, <2>2, <3>1, RefundedOK DEF Effect
    <3> QED BY <3>2, <3>3, <3>4
  <2> QED BY <2>1, <2>2
<1>4. NamesOK(r)'
  <2> HIDE DEF rest
  <2>1. PlaceInv /\ (NoneLetPass <=> NoneLetPass')
    BY <1>1 DEF ChargeInv, NoneLetPass
  <2>2. CASE at' = at /\ pc' = [pc EXCEPT ![r] = "refunded"]
    BY <1>0, <1>2, <2>2 DEF NamesOK, Refunding
  <2>3. CASE /\ at' = [at EXCEPT ![r] = at[r] + 1]
             /\ pc' = [pc EXCEPT ![r] = "reresolve"] \/ pc' = [pc EXCEPT ![r] = "refund"]
    <3>1. at'[r] = at[r] + 1 /\ pc'[r] \in {"reresolve", "refund"}
      BY <1>0, <2>3
    <3> QED BY <1>2, <1>3, <2>1, <3>1 DEF NamesOK, rest, Refunding
  <2> QED BY <1>1, <1>r, <2>1, <2>2, <2>3, AdvanceIs
<1> QED BY <1>3, <1>4 DEF ChargedOK

\* A failure ends unconsume with the charges that are left.
LEMMA RefundThrowStep ==
  ASSUME ChargeInv, NEW r \in Requests, RefundThrows(r)
  PROVE  ChargedOK(r)' /\ (RefundsMatch => Effect(r))
<1>0. /\ pc \in [Requests -> {"ready"} \cup Awaiting \cup Ended] /\ ChargedOK(r)
  BY StepFacts
<1>1. pc[r] = "refund" /\ Limit[Here(r)] # Unlimited /\ Fault /\ pc'[r] = "refunded"
  BY <1>0 DEF RefundThrows, Fault, Goto
<1>2. NamesOK(r)'
  BY <1>0, <1>1 DEF ChargedOK, NamesOK, Refunding
<1>3. CASE used' = used /\ charged' = charged
  BY <1>0, <1>1, <1>2, <1>3 DEF ChargedOK, Effect, Kept
<1>4. CASE Subtract(Charge(r, Here(r)), Amount[r]) /\ Returned(r)
  <2>1. InOrder(charged'[r]) /\ Lifetime(charged'[r])
    BY <1>4, ReturnedOK
  <2>2. RefundsMatch => Effect(r)
    BY <1>1, <1>4, RefundedOK DEF Effect
  <2> QED BY <1>2, <2>1, <2>2 DEF ChargedOK
<1> QED BY <1>3, <1>4 DEF RefundThrows

\* What has failed or is being refunded remains so.
LEMMA PassStays ==
  ASSUME ChargeInv, NEW r \in Requests, Step(r)
  PROVE  /\ NoneLetPass' => NoneLetPass
         /\ pc[r] \in Refunding => pc'[r] \in Refunding
<1>0. pc \in [Requests -> {"ready"} \cup Awaiting \cup Ended] /\ faults \in Nat /\ PlaceOK(r)
  BY StepFacts
<1>1. faults' = faults \/ faults' = faults + 1
  BY DEF Step, Begin, Resolve, Check, Consume, StoreThrows, Rollback, Deny,
         Unconsume, Reresolve, Refund, RefundThrows
<1>2. NoneLetPass' => NoneLetPass
  BY <1>0, <1>1 DEF NoneLetPass
<1>3. ASSUME pc[r] \in Refunding PROVE pc'[r] \in Refunding
  <2>1. Reresolve(r) \/ Refund(r) \/ RefundThrows(r)
    BY <1>3 DEF Refunding, Step, Begin, Resolve, Check, Consume, StoreThrows, Rollback, Deny, Unconsume
  <2>2. CASE Reresolve(r) \/ RefundThrows(r)
    BY <1>0, <2>2 DEF Reresolve, RefundThrows, Goto, Refunding
  <2>3. CASE Refund(r)
    <3>1. /\ Advance(r, "reresolve", "refund", "refunded") /\ PlaceInv
          /\ Route[r] # <<>> /\ at[r] \in DOMAIN Route[r]
      BY <1>0, <2>3 DEF Refund, PlaceOK, ChargeInv
    <3>2. pc'[r] \in {"reresolve", "refund", "refunded"}
      BY <1>0, <3>1, AdvanceIs
    <3> QED BY <3>2 DEF Refunding
  <2> QED BY <2>1, <2>2, <2>3
<1> QED BY <1>2, <1>3

\* Every step keeps the charges in place, with an effect on the counters as above.
LEMMA ChargedStep ==
  ASSUME ChargeInv, NEW r \in Requests, Step(r)
  PROVE  ChargeInv' /\ (RefundsMatch' => RefundsMatch /\ Effect(r))
<1>1. ChargedOK(r)' /\ (RefundsMatch => Effect(r))
  BY QuietStep, CheckStep, ConsumeStep, ThrowStep, RollbackStep, RefundStep, RefundThrowStep DEF Step
<1>2. PlaceInv /\ PlaceInv'
  BY PlaceStep DEF ChargeInv
<1>4. NoneLetPass' => NoneLetPass
  BY PassStays
<1>3. \A q \in Requests \ {r} : ChargedOK(q)'
  <2> SUFFICES ASSUME NEW q \in Requests \ {r} PROVE ChargedOK(q)'
    OBVIOUS
  <2>1. pc'[q] = pc[q] /\ at'[q] = at[q] /\ charged'[q] = charged[q]
    BY <1>2, StepLocal
  <2>2. ChargedOK(q)
    BY DEF ChargeInv
  <2> QED BY <1>4, <2>1, <2>2 DEF ChargedOK, NamesOK
<1>5. RefundsMatch' => RefundsMatch
  <2>1. \A q \in Requests : pc[q] \in Refunding => pc'[q] \in Refunding
    <3> SUFFICES ASSUME NEW q \in Requests, pc[q] \in Refunding PROVE pc'[q] \in Refunding
      OBVIOUS
    <3>1. q # r => pc'[q] = pc[q]
      BY <1>2, StepLocal
    <3> QED BY <3>1, PassStays
  <2> QED BY <1>4, <2>1 DEF RefundsMatch, LifetimeRoute
<1> QED BY <1>1, <1>2, <1>3, <1>5 DEF ChargeInv

(***************************************************************************)
(* Accounting                                                              *)
(***************************************************************************)

\* Who holds units of wallet w in period p, by their charges.
Holders(ch, w, p) == {q \in Requests : <<w, p>> \in Range(ch[q])}

\* The units held are those of the holders.
LEMMA HeldByHolders ==
  ASSUME NEW w, NEW p
  PROVE  /\ HeldBy(Requests, w, p) = Held(Holders(charged, w, p))
         /\ HeldBy(Requests, w, p)' = Held(Holders(charged', w, p))
BY DEF HeldBy, Held, AllUnits, Holders

AccountedAt(w, p) ==
  /\ used[w][p] >= Held(Holders(charged, w, p))
  /\ faults = 0 => used[w][p] = Held(Holders(charged, w, p))

\* Counter by counter.
LEMMA AccountedIs ==
  /\ Accounted <=> \A w \in Wallets, p \in Periods : AccountedAt(w, p)
  /\ Accounted' <=> \A w \in Wallets, p \in Periods : AccountedAt(w, p)'
BY HeldByHolders DEF Accounted, AccountedAt

\* Each effect changes a counter and what is held by the same amount.
LEMMA AccountStep ==
  ASSUME ChargeInv, Accounted, NEW r \in Requests, Effect(r),
         \A q \in Requests \ {r} : charged'[q] = charged[q]
  PROVE  Accounted'
<1> SUFFICES ASSUME NEW w \in Wallets, NEW p \in Periods PROVE AccountedAt(w, p)'
  BY AccountedIs
<1> DEFINE H == Holders(charged, w, p)
           K == Holders(charged', w, p)
           n == Amount[r]
           u == used[w][p]
           v == used'[w][p]
           c == <<w, p>>
<1>0. UsedOK /\ faults \in Nat /\ n \in Nat /\ u \in Nat
  BY StepFacts DEF ChargeInv, PlaceInv, TypeOK, UsedOK
<1>1. u >= Held(H) /\ (faults = 0 => u = Held(H))
  BY AccountedIs DEF AccountedAt
<1>2. H \in SUBSET Requests /\ K \in SUBSET Requests /\ Held(H) \in Nat /\ Held(K) \in Nat
  BY UnitsFinite DEF Holders
<1>3. \A q \in Requests \ {r} : q \in H <=> q \in K
  BY DEF Holders
<1>4. (r \in H <=> c \in Range(charged[r])) /\ (r \in K <=> c \in Range(charged'[r]))
  BY DEF Holders
<1>k. (r \in H <=> r \in K) => K = H
  BY <1>2, <1>3
<1>p. r \notin H /\ r \in K => Held(K) = Held(H) + n
  <2> SUFFICES ASSUME r \notin H, r \in K PROVE Held(K) = Held(H) + n
    OBVIOUS
  <2>1. K = H \cup {r}
    BY <1>2, <1>3
  <2> HIDE DEF H, K
  <2> QED BY <1>2, <2>1, HeldGrows
<1>m. r \in H /\ r \notin K => Held(H) = Held(K) + n
  <2> SUFFICES ASSUME r \in H, r \notin K PROVE Held(H) = Held(K) + n
    OBVIOUS
  <2>1. H = K \cup {r}
    BY <1>2, <1>3
  <2> HIDE DEF H, K
  <2> QED BY <1>2, <2>1, HeldGrows
<1>g. v >= Held(K) /\ (faults' = 0 => v = Held(K))
  <2> HIDE DEF H, K, n, c
  <2>1. CASE Kept(r) /\ used' = used /\ (faults' = faults \/ Fault)
    <3>1. K = H
      BY <1>4, <1>k, <2>1 DEF Kept
    <3> QED BY <1>0, <1>1, <2>1, <3>1 DEF Fault
  <2>2. ASSUME NEW d \in Wallets \X Periods, Added(r, d), Add(d, Amount[r]), faults' = faults
        PROVE  v >= Held(K) /\ (faults' = 0 => v = Held(K))
    <3>1. v = IF c = d THEN u + n ELSE u
      BY <1>0, <2>2, AddIs DEF n, c
    <3>2. CASE c = d
      <4>1. Held(K) = Held(H) + n
        BY <1>4, <1>p, <2>2, <3>2 DEF Added
      <4> QED BY <1>0, <1>1, <1>2, <2>2, <3>1, <3>2, <4>1
    <3>3. CASE c # d
      <4>1. K = H
        BY <1>4, <1>k, <2>2, <3>3 DEF Added
      <4> QED BY <1>1, <2>2, <3>1, <3>3, <4>1
    <3> QED BY <3>2, <3>3
  <2>3. ASSUME NEW d \in Wallets \X Periods, Removed(r, d), Subtract(d, Amount[r]), faults' = faults \/ Fault
        PROVE  v >= Held(K) /\ (faults' = 0 => v = Held(K))
    <3>1. v = IF c # d THEN u ELSE IF u > n THEN u - n ELSE 0
      BY <1>0, <2>3, SubtractIs DEF n, c
    <3>2. CASE c = d
      <4>1. Held(H) = Held(K) + n
        BY <1>4, <1>m, <2>3, <3>2 DEF Removed
      <4> QED BY <1>0, <1>1, <1>2, <2>3, <3>1, <3>2, <4>1 DEF Fault
    <3>3. CASE c # d
      <4>1. K = H
        BY <1>4, <1>k, <2>3, <3>3 DEF Removed
      <4> QED BY <1>0, <1>1, <2>3, <3>1, <3>3, <4>1 DEF Fault
    <3> QED BY <3>2, <3>3
  <2>4. ASSUME NEW d \in Wallets \X Periods, Removed(r, d), used' = used, Fault
        PROVE  v >= Held(K) /\ (faults' = 0 => v = Held(K))
    <3>1. v = u /\ faults' # 0
      BY <1>0, <2>4 DEF Fault
    <3>2. Held(K) <= Held(H)
      <4>1. r \notin H \/ r \in H
        OBVIOUS
      <4>2. r \in K => r \in H
        BY <1>4, <2>4 DEF Removed
      <4> QED BY <1>0, <1>2, <1>k, <1>m, <4>2
    <3> QED BY <1>0, <1>1, <1>2, <3>1, <3>2
  <2>5. ASSUME NEW d \in Wallets \X Periods, Kept(r), Add(d, Amount[r]), Fault
        PROVE  v >= Held(K) /\ (faults' = 0 => v = Held(K))
    <3>1. v = IF c = d THEN u + n ELSE u
      BY <1>0, <2>5, AddIs DEF n, c
    <3>2. K = H
      BY <1>4, <1>k, <2>5 DEF Kept
    <3> QED BY <1>0, <1>1, <1>2, <2>5, <3>1, <3>2 DEF Fault
  <2> QED BY <2>1, <2>2, <2>3, <2>4, <2>5 DEF Effect
<1> QED BY <1>g DEF AccountedAt

AccountInv == ChargeInv /\ (RefundsMatch => Accounted)

\* Initially nothing is counted and nothing is held.
LEMMA AccountInit == Init => AccountInv
<1> SUFFICES ASSUME Init PROVE AccountInv
  OBVIOUS
<1>1. PlaceInv
  BY PlaceInit
<1>e. \A q \in Requests : charged[q] = <<>> /\ pc[q] = "ready" /\ at[q] = 1
  BY DEF Init
<1>r. Range(<<>>) = {}
  BY DEF Range
<1>2. ASSUME NEW r \in Requests PROVE ChargedOK(r)
  <2>1. InOrder(<<>>) /\ Lifetime(<<>>) /\ Names(<<>>) = {}
    BY <1>r DEF InOrder, Lifetime, Names
  <2>2. Limited(r, 1, at[r] - 1) = {}
    BY <1>e, LimitedNone
  <2> QED BY <1>e, <2>1, <2>2 DEF ChargedOK, NamesOK, Refunding
<1>3. ASSUME NEW w \in Wallets, NEW p \in Periods PROVE AccountedAt(w, p)
  <2>1. Holders(charged, w, p) = {}
    BY <1>e, <1>r DEF Holders
  <2>2. Held({}) = 0
    <3>1. AllUnits({}) = {}
      BY DEF AllUnits
    <3> QED BY <3>1, FS_EmptySet DEF Held
  <2>3. used[w][p] = 0
    BY DEF Init
  <2> QED BY <2>1, <2>2, <2>3 DEF AccountedAt
<1> QED BY <1>1, <1>2, <1>3, AccountedIs DEF AccountInv, ChargeInv

\* Every step keeps the account.
LEMMA AccountNext ==
  ASSUME AccountInv, [Next]_vars
  PROVE  AccountInv'
<1>1. CASE \E r \in Requests : Step(r)
  <2>1. PICK r \in Requests : Step(r)
    BY <1>1
  <2>2. ChargeInv' /\ (RefundsMatch' => RefundsMatch /\ Effect(r))
    BY <2>1, ChargedStep DEF AccountInv
  <2>3. \A q \in Requests \ {r} : charged'[q] = charged[q]
    BY <2>1, StepLocal DEF AccountInv, ChargeInv
  <2> QED BY <2>2, <2>3, AccountStep DEF AccountInv
<1>2. CASE UNCHANGED <<used, pc, at, due, charged, faults>>
  <2>1. PlaceInv'
    BY PlaceNext DEF AccountInv, ChargeInv
  <2>2. \A r \in Requests : ChargedOK(r)'
    BY <1>2 DEF AccountInv, ChargeInv, ChargedOK, NamesOK, NoneLetPass
  <2>3. ASSUME RefundsMatch' PROVE Accounted'
    <3>0. RefundsMatch
      BY <1>2, <2>3 DEF RefundsMatch, NoneLetPass, LifetimeRoute
    <3>1. \A w \in Wallets, p \in Periods : AccountedAt(w, p)
      BY <3>0, AccountedIs DEF AccountInv
    <3>2. \A w \in Wallets, p \in Periods : AccountedAt(w, p)'
      BY <1>2, <3>1 DEF AccountedAt
    <3> QED BY <3>2, AccountedIs
  <2> QED BY <2>1, <2>2, <2>3 DEF AccountInv, ChargeInv
<1>3. (\E r \in Requests : Step(r)) \/ UNCHANGED <<used, pc, at, due, charged, faults>>
  BY DEF Next, NewPeriod, vars
<1> QED BY <1>1, <1>2, <1>3

\* What may be given back was charged, and to a limit that does not renew.
LifetimeRefunds == \A r \in Requests \cap Refundable : LifetimeRoute(r)
StoreNeverPasses == FailOpen => MaxFaults = 0
RefundsOfCharges == LifetimeRefunds /\ (StoreNeverPasses \/ Requests \cap Refundable = {})

\* No failure ever lets a request pass.
LEMMA NonePasses == ChargeInv /\ StoreNeverPasses => NoneLetPass
<1>1. ChargeInv => faults \in 0..MaxFaults /\ MaxFaults \in Nat
  BY WalletAssumption DEF ChargeInv, PlaceInv, TypeOK
<1> QED BY <1>1 DEF StoreNeverPasses, NoneLetPass

\* Then every refund matches.
LEMMA MatchingRefunds == ChargeInv /\ RefundsOfCharges => RefundsMatch
<1> SUFFICES ASSUME ChargeInv, RefundsOfCharges, NEW r \in Requests, pc[r] \in Refunding
             PROVE  LifetimeRoute(r) /\ NoneLetPass
  BY DEF RefundsMatch
<1>1. r \in Refundable
  BY StepFacts DEF ChargedOK, NamesOK
<1> QED BY <1>1, NonePasses DEF RefundsOfCharges, LifetimeRefunds

\* AccountInv is inductive, whatever the constants.
LEMMA AccountAlways == Spec => []AccountInv
<1>1. AccountInv /\ [Next]_vars => AccountInv'
  BY AccountNext
<1> QED BY <1>1, AccountInit, PTL DEF Spec

\* If refunds are of charges to limits that do not renew, the store counts exactly
\* what the requests hold, whatever the order of their steps; lost answers only add
\* to it, and so do requests that an outage lets pass.
THEOREM CountersAreAccounted ==
  ASSUME RefundsOfCharges
  PROVE  Spec => []Accounted
<1>1. AccountInv => Accounted
  BY MatchingRefunds DEF AccountInv
<1> QED BY <1>1, AccountAlways, PTL

(***************************************************************************)
(* Atomic grants                                                           *)
(***************************************************************************)

\* The abstract state: what the granted requests hold.
LHeld == [r \in Requests |-> IF pc[r] = "granted" THEN Range(charged[r]) ELSE {}]

\* A request is charged once to a wallet.
LEMMA OneChargePerWallet ==
  ASSUME NEW s \in Seq(Wallets \X Periods), InOrder(s), NEW c \in Range(s), NEW d \in Range(s), c[1] = d[1]
  PROVE  c = d
<1>1. PICK i \in DOMAIN s, j \in DOMAIN s : c = s[i] /\ d = s[j]
  BY RangeFacts
<1>2. i \in Nat /\ j \in Nat /\ c[1] \in Wallets
  BY <1>1, RangeFacts
<1>3. i < j => Before(c[1], d[1])
  BY <1>1 DEF InOrder
<1>4. j < i => Before(d[1], c[1])
  BY <1>1 DEF InOrder
<1>5. ~(i < j) /\ ~(j < i)
  BY <1>2, <1>3, <1>4, BeforeIrreflexive
<1> QED BY <1>1, <1>2, <1>5

\* What a request holds when it is granted is one charge for each limit it needs.
GrantsCharge == \A q \in Requests : pc[q] = "granted" => Range(charged[q]) \in Ledger!Charges(q)

\* Granted requests hold such charges.
LEMMA GrantCharges == ChargeInv /\ NoneLetPass => GrantsCharge
<1> SUFFICES ASSUME ChargeInv, NoneLetPass, NEW r \in Requests, pc[r] = "granted"
             PROVE  Range(charged[r]) \in Ledger!Charges(r)
  BY DEF GrantsCharge
<1> DEFINE s == charged[r]
           need == {w \in Range(Route[r]) : Limit[w] # Unlimited}
           f == [w \in need |-> CHOOSE p \in Periods : <<w, p>> \in Range(s)]
<1>1. s \in Seq(Wallets \X Periods) /\ InOrder(s) /\ Names(s) = Limited(r, 1, Len(Route[r]))
  BY StepFacts DEF ChargedOK, NamesOK
<1>2. need = Names(s)
  <2>1. DOMAIN Route[r] = 1..Len(Route[r]) /\ \A k \in DOMAIN Route[r] : Route[r][k] \in Wallets
    BY RouteDomain, RouteOrdered, ElementOfSeq
  <2> QED BY <1>1, <2>1 DEF Limited, Range
<1> HIDE DEF s, need
<1>3. \A c \in Range(s) : c \in Wallets \X Periods /\ c = <<c[1], c[2]>> /\ c[2] \in Periods /\ c[1] \in need
  <2>1. \A c \in Range(s) : c \in Wallets \X Periods
    BY <1>1, RangeFacts
  <2> QED BY <1>2, <2>1 DEF Names
<1>4. \A w \in need : \E p \in Periods : <<w, p>> \in Range(s)
  BY <1>2, <1>3 DEF Names
<1>5. \A w \in need : f[w] \in Periods /\ <<w, f[w]>> \in Range(s)
  BY <1>4
<1>6. f \in [need -> Periods]
  BY <1>5
<1> HIDE DEF f
<1>7. Range(s) = {<<w, f[w]>> : w \in need}
  <2>1. \A c \in Range(s) : c = <<c[1], f[c[1]]>>
    <3> SUFFICES ASSUME NEW c \in Range(s) PROVE c = <<c[1], f[c[1]]>>
      OBVIOUS
    <3> DEFINE d == <<c[1], f[c[1]]>>
    <3>1. d \in Range(s) /\ d[1] = c[1]
      BY <1>3, <1>5
    <3> HIDE DEF d
    <3>2. c = d
      BY <1>1, <3>1, OneChargePerWallet
    <3> QED BY <3>2 DEF d
  <2> QED BY <1>3, <1>5, <2>1
<1>8. Ledger!Charges(r) = {{<<w, g[w]>> : w \in need} : g \in [need -> Periods]}
  BY DEF Ledger!Charges, need
<1> QED BY <1>6, <1>7, <1>8 DEF s

\* The totals of the ledger are units held.
LEMMA TotalIs ==
  ASSUME NEW h, NEW w, NEW p
  PROVE  Ledger!Total(h, w, p) = Held({q \in Requests : <<w, p>> \in h[q]})
<1>1. \A S : Ledger!Cardinality(S) = Cardinality(S)
  BY DEF Ledger!Cardinality, Cardinality
<1> QED BY <1>1 DEF Ledger!Total, Ledger!Units, Held, AllUnits, Units

\* The granted requests hold no more than a hard limit.
LEMMA GrantedWithinLimit ==
  AccountInv /\ RefundsMatch /\ WithinLimit => \A w \in Hard, p \in Periods : Ledger!Total(LHeld, w, p) <= Limit[w]
<1> SUFFICES ASSUME AccountInv, RefundsMatch, WithinLimit, NEW w \in Hard, NEW p \in Periods
             PROVE  Ledger!Total(LHeld, w, p) <= Limit[w]
  OBVIOUS
<1> DEFINE R == {q \in Requests : <<w, p>> \in LHeld[q]}
           T == Holders(charged, w, p)
<1>1. R \in SUBSET T /\ T \in SUBSET Requests
  BY DEF LHeld, Holders
<1>2. w \in Wallets /\ Limit[w] \in Nat /\ used[w][p] <= Limit[w]
  BY DEF WithinLimit, Hard
<1>3. AccountedAt(w, p) /\ used[w][p] \in Nat
  BY <1>2, AccountedIs DEF AccountInv, ChargeInv, PlaceInv, TypeOK
<1> HIDE DEF R, T
<1>4. Held(R) <= Held(T) /\ Held(R) \in Nat /\ Held(T) \in Nat
  <2>1. R \in SUBSET Requests
    BY <1>1
  <2> QED BY <1>1, <2>1, HeldMonotone, UnitsFinite
<1>5. used[w][p] >= Held(T)
  BY <1>3 DEF AccountedAt, T
<1>6. Ledger!Total(LHeld, w, p) = Held(R)
  BY TotalIs DEF R
<1> QED BY <1>2, <1>3, <1>4, <1>5, <1>6

\* Every step is a grant, a release, or changes nothing the ledger sees.
LEMMA LedgerStep ==
  /\ AccountInv /\ AccountInv' /\ WithinLimit' /\ RefundsMatch' /\ NoneLetPass' /\ [Next]_vars
  => [Ledger!LNext]_LHeld
<1> SUFFICES ASSUME AccountInv, AccountInv', WithinLimit', RefundsMatch', NoneLetPass', [Next]_vars
             PROVE  [Ledger!LNext]_LHeld
  OBVIOUS
<1>1. CASE UNCHANGED <<pc, charged>>
  BY <1>1 DEF LHeld
<1>2. CASE \E r \in Requests : Step(r)
  <2>1. PICK r \in Requests : Step(r)
    BY <1>2
  <2>2. \A q \in Requests \ {r} : pc'[q] = pc[q] /\ charged'[q] = charged[q]
    BY <2>1, StepLocal DEF AccountInv, ChargeInv
  <2>3. \A q \in Requests \ {r} : LHeld'[q] = LHeld[q]
    BY <2>2 DEF LHeld
  <2>4. LHeld' = [LHeld EXCEPT ![r] = LHeld'[r]]
    BY <2>3 DEF LHeld
  <2>5. CASE pc'[r] # "granted"
    <3>1. LHeld'[r] = {}
      BY <2>5 DEF LHeld
    <3>2. Ledger!Release(r)
      BY <2>4, <3>1 DEF Ledger!Release, LHeld
    <3> QED BY <3>2 DEF Ledger!LNext
  <2>6. CASE pc'[r] = "granted"
    <3>1. pc[r] # "granted"
      <4> SUFFICES ASSUME pc[r] = "granted" PROVE FALSE
        OBVIOUS
      <4>1. Unconsume(r)
        BY <2>1 DEF Step, Begin, Resolve, Check, Consume, StoreThrows, Rollback, Deny,
                    Unconsume, Reresolve, Refund, RefundThrows
      <4>2. pc \in [Requests -> {"ready"} \cup Awaiting \cup Ended]
        BY StepFacts DEF AccountInv
      <4> QED BY <2>6, <4>1, <4>2 DEF Unconsume, Goto
    <3>2. LHeld[r] = {}
      BY <3>1 DEF LHeld
    <3>3. LHeld'[r] = Range(charged'[r])
      BY <2>6 DEF LHeld
    <3>4. GrantsCharge'
      <4>1. ChargeInv'
        BY DEF AccountInv
      <4> QED BY <4>1, GrantCharges, PTL
    <3>5. LHeld'[r] \in Ledger!Charges(r)
      BY <2>6, <3>3, <3>4 DEF GrantsCharge
    <3>6. \A c \in LHeld'[r] : c[1] \in Hard => Ledger!Total(LHeld', c[1], c[2]) <= Limit[c[1]]
      <4>1. (\A w \in Hard, p \in Periods : Ledger!Total(LHeld, w, p) <= Limit[w])'
        BY GrantedWithinLimit, PTL
      <4>2. \A c \in LHeld'[r] : c[2] \in Periods
        <5>1. charged' \in [Requests -> Seq(Wallets \X Periods)]
          BY DEF AccountInv, ChargeInv, PlaceInv, TypeOK
        <5>2. charged'[r] \in Seq(Wallets \X Periods)
          BY <5>1
        <5>3. \A c \in Range(charged'[r]) : c \in Wallets \X Periods
          <6> DEFINE s == charged'[r]
          <6>1. s \in Seq(Wallets \X Periods)
            BY <5>2
          <6> HIDE DEF s
          <6>2. \A c \in Range(s) : c \in Wallets \X Periods
            BY <6>1, RangeFacts
          <6> QED BY <6>2 DEF s
        <5> QED BY <3>3, <5>3
      <4> QED BY <4>1, <4>2
    <3>7. Ledger!Grant(r)
      BY <2>4, <3>2, <3>5, <3>6 DEF Ledger!Grant, LHeld
    <3> QED BY <3>7 DEF Ledger!LNext
  <2> QED BY <2>5, <2>6
<1> QED BY <1>1, <1>2 DEF Next, NewPeriod, vars

\* Where an outage lets no request pass and what is refunded does not renew, a
\* call of canAndConsume() has the effect of one atomic grant: all charges of a
\* request or none are those of a granted one, and none passes a hard limit.
THEOREM CallsAreAtomicGrants ==
  ASSUME StoreNeverPasses, LifetimeRefunds
  PROVE  Spec => ImplementsLedger
<1>1. Init => Ledger!LInit
  BY DEF Init, Ledger!LInit
<1>2. AccountInv => RefundsMatch /\ NoneLetPass
  BY MatchingRefunds, NonePasses DEF AccountInv, RefundsOfCharges
<1>3. Spec => []WithinLimit
  BY HardLimitsHold
<1>4. ImplementsLedger <=> (Ledger!LInit /\ [][Ledger!LNext]_LHeld)
  BY DEF ImplementsLedger, Ledger!LSpec, LHeld
<1> QED BY <1>1, <1>2, <1>3, <1>4, AccountAlways, LedgerStep, PTL DEF Spec

\* Granted requests together never hold more than a hard limit, also when the store
\* fails, unless refunds are of renewing limits, or of requests an outage let pass.
THEOREM GrantsNeverExceed ==
  ASSUME RefundsOfCharges
  PROVE  Spec => []NeverOverGrants
<1>1. AccountInv /\ WithinLimit => NeverOverGrants
  <2> SUFFICES ASSUME AccountInv, WithinLimit, NEW w \in Hard, NEW p \in Periods
               PROVE  HeldBy({r \in Requests : pc[r] = "granted"}, w, p) <= Limit[w]
    BY DEF NeverOverGrants
  <2>1. Ledger!Total(LHeld, w, p) <= Limit[w]
    BY MatchingRefunds, GrantedWithinLimit DEF AccountInv
  <2>2. {q \in Requests : <<w, p>> \in LHeld[q]}
          = {q \in {r \in Requests : pc[r] = "granted"} : <<w, p>> \in Range(charged[q])}
    BY DEF LHeld
  <2>3. HeldBy({r \in Requests : pc[r] = "granted"}, w, p)
          = Held({q \in {r \in Requests : pc[r] = "granted"} : <<w, p>> \in Range(charged[q])})
    BY DEF HeldBy, Held, AllUnits
  <2> QED BY <2>1, <2>2, <2>3, TotalIs
<1> QED BY <1>1, AccountAlways, HardLimitsHold, PTL

(***************************************************************************)
(* Denial                                                                  *)
(***************************************************************************)

\* q has gone past the wallet that r is at, or has been granted.
After == {"granted", "reresolve", "refund", "refunded"}
Passed(r, q) == pc[q] \in After \/ (Route[q] # <<>> /\ Before(Here(r), Here(q)))

\* A request that alone would fit is denied only behind another one.
BehindSome(r) ==
  faults = 0 /\ pc[r] \in {"rollback", "denied"} /\ FitsAlone(r) => \E q \in Requests : Passed(r, q)

DenialInv == AccountInv /\ \A r \in Requests : BehindSome(r)

\* A request never goes back on its route, but for unconsume().
LEMMA NeverBack ==
  ASSUME PlaceInv, NEW q \in Requests, Step(q)
  PROVE  \/ pc'[q] \in After
         \/ /\ pc[q] \notin After
            /\ at'[q] = at[q] \/ (at[q] \in DOMAIN Route[q] /\ at'[q] = at[q] + 1 /\ at'[q] \in DOMAIN Route[q])
<1> USE DEF Goto
<1>0. /\ pc \in [Requests -> {"ready"} \cup Awaiting \cup Ended]
      /\ at \in [Requests -> Nat \ {0}] /\ PlaceOK(q)
  BY DEF PlaceInv, TypeOK
<1>1. CASE Begin(q) \/ Resolve(q) \/ StoreThrows(q) \/ Rollback(q) \/ Deny(q)
  BY <1>0, <1>1 DEF Begin, Resolve, StoreThrows, Rollback, Deny, After
<1>2. CASE Unconsume(q) \/ Reresolve(q) \/ RefundThrows(q)
  BY <1>0, <1>2 DEF Unconsume, Reresolve, RefundThrows, After
<1>3. CASE Check(q) \/ Consume(q) \/ Refund(q)
  <2>1. Route[q] # <<>> /\ at[q] \in DOMAIN Route[q]
    BY <1>0, <1>3 DEF Check, Consume, Refund, PlaceOK
  <2>2. ASSUME Advance(q, "resolve", "check", "granted"), pc[q] \notin After
        PROVE  \/ pc'[q] \in After
               \/ at'[q] = at[q] \/ (at'[q] = at[q] + 1 /\ at'[q] \in DOMAIN Route[q])
    BY <1>0, <2>1, <2>2, AdvanceIs
  <2>3. ASSUME Advance(q, "reresolve", "refund", "refunded")
        PROVE  pc'[q] \in After
    BY <1>0, <2>1, <2>3, AdvanceIs DEF After
  <2>4. CASE Check(q) \/ Consume(q)
    BY <1>0, <2>1, <2>2, <2>4 DEF Check, Consume, After
  <2>5. CASE Refund(q)
    BY <2>3, <2>5 DEF Refund
  <2> QED BY <1>3, <2>4, <2>5
<1> QED BY <1>1, <1>2, <1>3 DEF Step

\* Who has passed a wallet has passed it for good.
LEMMA PassedStays ==
  ASSUME PlaceInv, NEW r \in Requests, NEW q \in Requests, Passed(r, q), Route[r] # <<>>, at'[r] = at[r],
         NEW s \in Requests, Step(s)
  PROVE  Passed(r, q)'
<1>1. Here(r)' = Here(r) /\ Here(r) \in Wallets
  BY HereIs DEF Here, PlaceInv
<1>2. CASE q # s
  <2>1. pc'[q] = pc[q] /\ at'[q] = at[q]
    BY <1>2, StepLocal
  <2> QED BY <1>1, <2>1 DEF Passed, Here
<1>3. CASE q = s
  <2>1. CASE pc'[q] \in After
    BY <2>1 DEF Passed
  <2>2. CASE pc[q] \notin After /\ at'[q] = at[q]
    BY <1>1, <2>2 DEF Passed, Here
  <2>3. CASE pc[q] \notin After /\ at[q] \in DOMAIN Route[q] /\ at'[q] = at[q] + 1 /\ at'[q] \in DOMAIN Route[q]
    <3>1. Route[q] # <<>> /\ Before(Here(r), Here(q))
      BY <2>3 DEF Passed
    <3>2. at[q] < at'[q]
      BY <2>3, RouteDomain
    <3>3. Before(Here(q), Here(q)')
      BY <2>3, <3>2, RouteOrdered DEF Here
    <3>4. Here(q) \in Wallets /\ Here(q)' \in Wallets
      BY <2>3, RouteDomain, RouteOrdered, ElementOfSeq DEF Here
    <3>5. Before(Here(r), Here(q)')
      BY <1>1, <3>1, <3>3, <3>4, BeforeTransitive
    <3>6. Before(Here(r), Here(q))'
      BY <1>1, <3>5 DEF Before, Depth
    <3> QED BY <3>1, <3>6 DEF Passed
  <2> QED BY <1>3, <2>1, <2>2, <2>3, NeverBack
<1> QED BY <1>2, <1>3

\* Whoever holds units of a wallet has passed it.
LEMMA HolderPassed ==
  ASSUME ChargeInv, NEW r \in Requests, NEW q \in Requests, NEW p, <<Here(r), p>> \in Range(charged[q])
  PROVE  Passed(r, q)
<1>0. PlaceOK(q) /\ NamesOK(q) /\ pc[q] \in {"ready"} \cup Awaiting \cup Ended
      /\ at \in [Requests -> Nat \ {0}]
  BY StepFacts DEF ChargedOK
<1>1. Here(r) \in Names(charged[q])
  BY DEF Names
<1>2. CASE pc[q] \in After
  BY <1>2 DEF Passed
<1>3. CASE pc[q] \notin After
  <2>1. Here(r) \in Limited(q, 1, at[q] - 1)
    BY <1>0, <1>1, <1>3 DEF NamesOK, After, Awaiting, Ended
  <2>2. Route[q] # <<>>
    BY <2>1, RouteDomain DEF Limited
  <2>3. at[q] \in DOMAIN Route[q]
    BY <1>0, <2>2 DEF PlaceOK
  <2>4. Before(Here(r), Here(q))
    BY <2>1, <2>3, LimitedAt DEF Here
  <2> QED BY <2>2, <2>4 DEF Passed
<1> QED BY <1>2, <1>3

\* A request that alone would fit fits each limit of its route.
LEMMA FitsFacts ==
  ASSUME NEW r \in Requests, FitsAlone(r), NEW i \in DOMAIN Route[r], NEW w, w = Route[r][i], Limit[w] \in Nat
  PROVE  /\ Limit[w] # 0
         /\ Overage[w] = NoOverage => Amount[r] <= Limit[w]
         /\ Overage[w] \in Nat => Amount[r] <= Limit[w] + Overage[w]
<1>1. w \in Range(Route[r])
  BY DEF Range
<1>2. Limit[w] # Unlimited
  BY WalletAssumption
<1> DEFINE extra == CASE Overage[w] = NoOverage -> 0
                      [] Overage[w] = NoCap -> Amount[r]
                      [] OTHER -> Overage[w]
<1>3. Limit[w] # 0 /\ Amount[r] <= Limit[w] + extra
  BY <1>1, <1>2 DEF FitsAlone
<1>4. Overage[w] = NoOverage => extra = 0
  BY WalletAssumption
<1>5. Overage[w] \in Nat => extra = Overage[w]
  BY WalletAssumption
<1> HIDE DEF extra
<1>6. Limit[w] + 0 = Limit[w]
  OBVIOUS
<1> QED BY <1>3, <1>4, <1>5, <1>6

\* What refuses a request that alone would fit is a counter above zero.
LEMMA RefusedByHolder ==
  ASSUME AccountInv, RefundsMatch, faults = 0, NEW r \in Requests, FitsAlone(r), at[r] \in DOMAIN Route[r], Limit[Here(r)] \in Nat,
         Blocked(Charge(r, Here(r)), Amount[r]) \/ ~Accepts(Charge(r, Here(r)), Amount[r])
  PROVE  \E q \in Requests : Passed(r, q)
<1> DEFINE w == Here(r)
           c == Charge(r, w)
           p == c[2]
           n == Amount[r]
<1>1. w \in Wallets /\ w = Route[r][at[r]]
  BY RouteDomain, RouteOrdered, ElementOfSeq DEF Here
<1>2. c = <<w, p>> /\ c[1] = w /\ p \in Periods
  <2>1. due[r] \in Periods
    BY StepFacts DEF AccountInv
  <2> HIDE DEF w
  <2>2. Charge(r, w) \in Wallets \X Periods /\ Charge(r, w)[1] = w
    BY <1>1, <2>1, ChargeTyped
  <2> QED BY <2>2
<1>3. used[w][p] \in Nat /\ n \in Nat /\ Limit[w] \in Nat
  BY <1>1, <1>2, WalletAssumption DEF AccountInv, ChargeInv, PlaceInv, TypeOK
<1>4. /\ Limit[w] # 0
      /\ Overage[w] = NoOverage => n <= Limit[w]
      /\ Overage[w] \in Nat => n <= Limit[w] + Overage[w]
  BY <1>1, FitsFacts
<1>5. used[w][p] # 0
  <2> HIDE DEF w, c, p, n
  <2>1. CASE CapHit(c, n)
    BY <1>2, <1>3, <1>4, <2>1 DEF CapHit
  <2>2. CASE ~Accepts(c, n)
    BY <1>2, <1>3, <1>4, <2>2 DEF Accepts, Fits, HasOverage
  <2>3. Limit[c[1]] # 0
    BY <1>2, <1>4
  <2>4. CapHit(c, n) \/ ~Accepts(c, n)
    BY <2>3 DEF Blocked, w, c, n
  <2> QED BY <2>1, <2>2, <2>4
<1>6. AccountedAt(w, p)
  BY <1>1, <1>2, AccountedIs DEF AccountInv
<1>7. Held(Holders(charged, w, p)) # 0
  BY <1>5, <1>6 DEF AccountedAt
<1>8. Holders(charged, w, p) # {}
  <2>1. Holders(charged, w, p) \in SUBSET Requests
    BY DEF Holders
  <2> QED BY <1>7, <2>1, HeldIsSome
<1>9. PICK q \in Requests : <<Here(r), p>> \in Range(charged[q])
  BY <1>8 DEF Holders
<1> QED BY <1>9, HolderPassed DEF AccountInv

\* Every step keeps it so, a refusing one because somebody holds what is missing.
LEMMA BehindStep ==
  ASSUME DenialInv, NEW s \in Requests, Step(s), NEW r \in Requests
  PROVE  BehindSome(r)'
<1> USE DEF Goto
<1>0. /\ pc \in [Requests -> {"ready"} \cup Awaiting \cup Ended]
      /\ at \in [Requests -> Nat \ {0}] /\ PlaceOK(r) /\ faults \in Nat
      /\ PlaceInv /\ ChargeInv /\ AccountInv /\ BehindSome(r)
  BY StepFacts DEF DenialInv, AccountInv, ChargeInv
<1> SUFFICES ASSUME faults' = 0, pc'[r] \in {"rollback", "denied"}, FitsAlone(r)
             PROVE  \E q \in Requests : Passed(r, q)'
  BY DEF BehindSome, FitsAlone
<1>1. Route[r] # <<>> /\ at[r] \in DOMAIN Route[r]
  BY <1>0 DEF FitsAlone, PlaceOK
<1>2. faults = 0 /\ faults' = faults
  BY <1>0 DEF Step, Begin, Resolve, Check, Consume, StoreThrows, Rollback, Deny,
                Unconsume, Reresolve, Refund, RefundThrows
<1>3. ASSUME \E q \in Requests : Passed(r, q), at'[r] = at[r]
      PROVE  \E q \in Requests : Passed(r, q)'
  BY <1>0, <1>1, <1>3, PassedStays
<1>m. ~RefundsMatch => \E q \in Requests : Passed(r, q)
  <2>1. NoneLetPass
    BY <1>2 DEF NoneLetPass
  <2>2. ~RefundsMatch => \E q \in Requests : pc[q] \in Refunding
    BY DEF RefundsMatch
  <2> QED BY <2>2 DEF Passed, After, Refunding
<1>4. CASE r # s
  <2>1. pc'[r] = pc[r] /\ at'[r] = at[r]
    BY <1>0, <1>4, StepLocal
  <2> QED BY <1>0, <1>2, <1>3, <2>1 DEF BehindSome
<1>5. CASE r = s
  <2>1. CASE pc[r] = "rollback"
    <3>1. at'[r] = at[r]
      BY <1>5, <2>1 DEF Step, Begin, Resolve, Check, Consume, StoreThrows, Rollback, Deny,
                Unconsume, Reresolve, Refund, RefundThrows
    <3> QED BY <1>0, <1>2, <1>3, <2>1, <3>1 DEF BehindSome
  <2>2. CASE pc[r] # "rollback"
    <3>1. Check(r) \/ Consume(r)
      <4>1. ~Begin(r)
        BY <1>0, <1>1 DEF Begin
      <4>2. ~StoreThrows(r)
        BY <1>0, <1>2 DEF StoreThrows
      <4>3. ~Resolve(r) /\ ~Unconsume(r) /\ ~Reresolve(r) /\ ~RefundThrows(r)
        BY <1>0, <1>2 DEF Resolve, Unconsume, Reresolve, RefundThrows
      <4>4. ~Rollback(r) /\ ~Deny(r)
        BY <2>2 DEF Rollback, Deny
      <4>5. ~Refund(r)
        <5> SUFFICES ASSUME Refund(r) PROVE FALSE
          OBVIOUS
        <5>1. Advance(r, "reresolve", "refund", "refunded")
          BY DEF Refund
        <5>2. pc'[r] \in {"reresolve", "refund", "refunded"}
          BY <1>0, <1>1, <5>1, AdvanceIs
        <5> QED BY <5>2
      <4> QED BY <1>5, <4>1, <4>2, <4>3, <4>4, <4>5 DEF Step
    <3>2. ~Advance(r, "resolve", "check", "granted")
      <4> SUFFICES ASSUME Advance(r, "resolve", "check", "granted") PROVE FALSE
        OBVIOUS
      <4>1. pc'[r] \in {"resolve", "check", "granted"}
        BY <1>0, <1>1, AdvanceIs
      <4> QED BY <4>1
    <3>3. CASE Check(r)
      <4>1. Limit[Here(r)] \in Nat /\ at' = at /\ Blocked(Charge(r, Here(r)), Amount[r])
        <5>1. Limit[Here(r)] \in Nat /\ at' = at
              /\ pc' = [pc EXCEPT ![r] = IF Blocked(Charge(r, Here(r)), Amount[r]) THEN "rollback" ELSE "consume"]
          BY <3>2, <3>3 DEF Check
        <5> QED BY <1>0, <5>1
      <4> QED BY <1>0, <1>1, <1>2, <1>3, <1>m, <4>1, RefusedByHolder
    <3>4. CASE Consume(r)
      <4>1. at' = at /\ ~Accepts(Charge(r, Here(r)), Amount[r]) /\ Limit[Here(r)] \in Nat
        BY <1>0, <3>2, <3>4 DEF Consume, PlaceOK
      <4> QED BY <1>0, <1>1, <1>2, <1>3, <1>m, <4>1, RefusedByHolder
    <3> QED BY <3>1, <3>3, <3>4
  <2> QED BY <2>1, <2>2
<1> QED BY <1>4, <1>5

\* All denied and all fitting alone, each one behind another, is impossible: the
\* requests are finitely many, and what is behind has more before it.
LEMMA NotAllBehind ==
  ASSUME DenialInv, Requests # {}
  PROVE  NoMutualDenial
<1> SUFFICES ASSUME faults = 0, \A r \in Requests : pc[r] = "denied",
                    \A r \in Requests : FitsAlone(r)
             PROVE  FALSE
  BY DEF NoMutualDenial
<1>1. \A r \in Requests : Route[r] # <<>> /\ Here(r) \in Wallets
  BY HereIs DEF FitsAlone, DenialInv, AccountInv, ChargeInv, PlaceInv
<1>2. \A r \in Requests : \E q \in Requests : Before(Here(r), Here(q))
  BY DEF DenialInv, BehindSome, Passed, After
<1> DEFINE Ahead(r) == {q \in Requests : Before(Here(r), Here(q))}
           T == {Cardinality(Ahead(r)) : r \in Requests}
<1>3. \A r \in Requests : IsFiniteSet(Ahead(r)) /\ Cardinality(Ahead(r)) \in Nat
  <2>1. IsFiniteSet(Requests)
    BY WalletAssumption
  <2> SUFFICES ASSUME NEW r \in Requests PROVE IsFiniteSet(Ahead(r)) /\ Cardinality(Ahead(r)) \in Nat
    OBVIOUS
  <2>2. Ahead(r) \in SUBSET Requests
    OBVIOUS
  <2> HIDE DEF Ahead
  <2> QED BY <2>1, <2>2, FS_Subset, FS_CardinalityType
<1>4. PICK n \in T : \A m \in T : ~(m < n)
  <2>1. T \in SUBSET Nat
    BY <1>3
  <2>2. T # {}
    OBVIOUS
  <2> HIDE DEF T
  <2> QED BY <2>1, <2>2, LeastOf
<1>5. PICK r \in Requests : n = Cardinality(Ahead(r))
  OBVIOUS
<1>6. PICK q \in Requests : Before(Here(r), Here(q))
  BY <1>2
<1>7. Ahead(q) \subseteq Ahead(r)
  BY <1>1, <1>6, BeforeTransitive
<1>8. q \in Ahead(r) /\ q \notin Ahead(q)
  BY <1>1, <1>6, BeforeIrreflexive
<1>9. Cardinality(Ahead(q)) \in T
  OBVIOUS
<1> HIDE DEF T, Ahead
<1>10. Cardinality(Ahead(q)) <= Cardinality(Ahead(r)) /\ Cardinality(Ahead(q)) # Cardinality(Ahead(r))
  BY <1>3, <1>7, <1>8, FS_Subset
<1> QED BY <1>3, <1>4, <1>5, <1>9, <1>10

\* And so does the clock.
LEMMA BehindNext ==
  ASSUME DenialInv, [Next]_vars
  PROVE  DenialInv'
<1>1. AccountInv'
  BY AccountNext DEF DenialInv
<1>2. CASE \E r \in Requests : Step(r)
  BY <1>1, <1>2, BehindStep DEF DenialInv
<1>3. CASE UNCHANGED <<used, pc, at, due, charged, faults>>
  <2>1. \A r \in Requests : BehindSome(r)'
    BY <1>3 DEF DenialInv, BehindSome, Passed, FitsAlone, Here, Before, Depth
  <2> QED BY <1>1, <2>1 DEF DenialInv
<1> QED BY <1>1, <1>2, <1>3 DEF Next, NewPeriod, vars

\* Calls that charge the tenants from the root down never deny each other: if all
\* are denied and the store did not fail, one asked for more than a limit allows.
THEOREM NoneDeniesAll ==
  ASSUME Requests # {}
  PROVE  Spec => []NoMutualDenial
<1>1. Init => DenialInv
  <2> SUFFICES ASSUME Init PROVE DenialInv
    OBVIOUS
  <2>1. AccountInv
    BY AccountInit
  <2>2. \A r \in Requests : pc[r] = "ready"
    BY DEF Init
  <2> QED BY <2>1, <2>2 DEF DenialInv, BehindSome
<1>2. DenialInv /\ [Next]_vars => DenialInv'
  BY BehindNext
<1>3. DenialInv => NoMutualDenial
  BY NotAllBehind
<1> QED BY <1>1, <1>2, <1>3, PTL DEF Spec

\* A call that is denied while the store has not failed holds nothing.
DeniedHoldNothing == \A r \in Requests : pc[r] = "denied" /\ faults = 0 => charged[r] = <<>>

\* "All-or-nothing: if any limit fails, no consumption" (access-context.ts:770) is
\* true of a store that never fails: denied calls have been charged to no limit.
THEOREM DeniedTakeNothing ==
  ASSUME MaxFaults = 0
  PROVE  Spec => []AllOrNothing
<1>1. Init => DeniedHoldNothing
  BY DEF Init, DeniedHoldNothing
<1>2. PlaceInv /\ ChargeInv /\ DeniedHoldNothing /\ [Next]_vars => DeniedHoldNothing'
  <2> SUFFICES ASSUME PlaceInv, ChargeInv, DeniedHoldNothing, [Next]_vars, NEW q \in Requests,
                      pc'[q] = "denied", faults' = 0
               PROVE  charged'[q] = <<>>
    BY DEF DeniedHoldNothing
  <2>1. CASE UNCHANGED <<pc, charged, faults>>
    BY <2>1 DEF DeniedHoldNothing
  <2>2. ASSUME NEW r \in Requests, Step(r) PROVE charged'[q] = <<>>
    <3>0. /\ pc \in [Requests -> {"ready"} \cup Awaiting \cup Ended] /\ faults \in Nat
          /\ PlaceOK(r) /\ ChargedOK(r)
      BY StepFacts
    <3>1. faults = 0 /\ faults' = faults
      BY <2>2, <3>0 DEF Step, Begin, Resolve, Check, Consume, StoreThrows, Rollback, Deny,
                        Unconsume, Reresolve, Refund, RefundThrows
    <3>2. CASE q # r
      <4>1. pc'[q] = pc[q] /\ charged'[q] = charged[q]
        BY <2>2, <3>2, StepLocal
      <4> QED BY <3>1, <4>1 DEF DeniedHoldNothing
    <3>3. CASE q = r
      <4>1. CASE Begin(r)
        <5>1. Names(charged[r]) = {} /\ charged' = charged
          <6>1. pc[r] = "ready" /\ Route[r] = <<>>
            BY <3>0, <3>3, <4>1 DEF Begin, Goto
          <6>2. Limited(r, 1, at[r] - 1) = {}
            BY <6>1, RouteDomain DEF Limited
          <6> QED BY <3>0, <4>1, <6>1, <6>2 DEF Begin, ChargedOK, NamesOK
        <5>2. charged[r] \in Seq(Wallets \X Periods)
          BY StepFacts
        <5> DEFINE s == charged[r]
        <5>3. s = <<>>
          <6>1. s \in Seq(Wallets \X Periods) /\ Names(s) = {}
            BY <5>1, <5>2
          <6> HIDE DEF s
          <6>2. Range(s) = {}
            BY <6>1 DEF Names
          <6>3. s # <<>> => Head(s) \in Range(s)
            BY <6>1, RangeFacts
          <6> QED BY <6>2, <6>3
        <5> QED BY <3>3, <5>1, <5>3
      <4>2. CASE Deny(r)
        BY <3>3, <4>2 DEF Deny
      <4>3. ASSUME Resolve(r) \/ Rollback(r) \/ Unconsume(r) \/ Reresolve(r) PROVE FALSE
        BY <3>0, <3>3, <4>3 DEF Resolve, Rollback, Unconsume, Reresolve, Goto
      <4>4. ASSUME Check(r) \/ Consume(r) \/ Refund(r) PROVE FALSE
        <5>1. Route[r] # <<>> /\ at[r] \in DOMAIN Route[r]
          BY <3>0, <4>4 DEF Check, Consume, Refund, PlaceOK
        <5>2. ~Advance(r, "resolve", "check", "granted") /\ ~Advance(r, "reresolve", "refund", "refunded")
          BY <3>0, <3>3, <5>1, AdvanceIs
        <5> QED BY <3>0, <3>3, <4>4, <5>2 DEF Check, Consume, Refund, Goto
      <4>5. ASSUME StoreThrows(r) \/ RefundThrows(r) PROVE FALSE
        BY <3>0, <3>1, <4>5 DEF StoreThrows, RefundThrows
      <4> QED BY <2>2, <4>1, <4>2, <4>3, <4>4, <4>5 DEF Step
    <3> QED BY <3>2, <3>3
  <2> QED BY <2>1, <2>2 DEF Next, NewPeriod, vars
<1>3. ChargeInv /\ DeniedHoldNothing => AllOrNothing
  <2>1. ChargeInv => faults = 0
    BY DEF ChargeInv, PlaceInv, TypeOK
  <2> QED BY <2>1 DEF DeniedHoldNothing, AllOrNothing
<1>4. AccountInv => ChargeInv /\ PlaceInv
  BY DEF AccountInv, ChargeInv
<1> QED BY <1>1, <1>2, <1>3, <1>4, AccountAlways, PTL DEF Spec

(***************************************************************************)
(* Overage caps                                                            *)
(***************************************************************************)
\* Two calls are between the check of an overage cap and its consumption at once:
\* checkOverageCap() has read the counter for both (access-context.ts:845).
CapContended ==
  \E r, q \in Requests : /\ r # q /\ pc[r] = "consume" /\ pc[q] = "consume"
                         /\ Here(r) = Here(q) /\ Overage[Here(r)] \in Nat

\* What a call has checked still fits below the cap.
RoomKept ==
  \A r \in Requests : pc[r] = "consume" /\ Overage[Here(r)] \in Nat =>
    LET c == Charge(r, Here(r))
    IN  used[c[1]][c[2]] + Amount[r] <= Limit[c[1]] + Overage[c[1]]

\* A step of a call adds to one counter only what the call has checked, and keeps
\* what another one has checked unless both are at the cap.
LEMMA CapStep ==
  ASSUME PlaceInv, CapRespected, RoomKept, ~CapContended, NEW r \in Requests, Step(r)
  PROVE  CapRespected' /\ RoomKept'
<1>0. /\ pc \in [Requests -> {"ready"} \cup Awaiting \cup Ended] /\ UsedOK
      /\ due \in [Requests -> Periods] /\ at \in [Requests -> Nat \ {0}]
      /\ PlaceOK(r) /\ Amount[r] \in Nat /\ \A q \in Requests : Amount[q] \in Nat
  BY WalletAssumption DEF PlaceInv, TypeOK, UsedOK
<1> DEFINE c == Charge(r, Here(r))
           Adds == pc[r] = "consume" /\ Add(c, Amount[r])
           Lower == \A w \in Wallets, p \in Periods : used'[w][p] <= used[w][p]
<1>1. \A q \in Requests \ {r} : pc'[q] = pc[q] /\ at'[q] = at[q] /\ due'[q] = due[q]
  BY StepLocal
<1>2. pc[r] = "consume" => c \in Wallets \X Periods /\ c[1] = Here(r) /\ Limit[Here(r)] \in Nat
  BY <1>0, HereIs, ChargeTyped DEF PlaceOK
<1>t. \A w \in Wallets, p \in Periods : used[w][p] \in Nat
  BY <1>0 DEF UsedOK
<1>u. \A w \in Wallets, p \in Periods : used'[w][p] \in Nat
  BY PlaceStep DEF PlaceInv, TypeOK
<1>3. Adds \/ Lower
  <2>1. used' = used => Lower
    BY <1>t
  <2>2. ASSUME NEW d \in Wallets \X Periods, Subtract(d, Amount[r]) PROVE Lower
    <3>1. \A w \in Wallets, p \in Periods :
             used'[w][p] = IF <<w, p>> # d THEN used[w][p]
                           ELSE IF used[w][p] > Amount[r] THEN used[w][p] - Amount[r] ELSE 0
      BY <1>0, <2>2, SubtractIs
    <3> QED BY <1>0, <1>t, <3>1
  <2>3. CASE Rollback(r)
    <3>1. charged[r] \in Seq(Wallets \X Periods) /\ charged[r] # <<>>
      BY <2>3 DEF Rollback, PlaceInv, TypeOK
    <3>2. Head(charged[r]) \in Wallets \X Periods
      BY <3>1, HeadTailProperties
    <3> QED BY <2>1, <2>2, <2>3, <3>2 DEF Rollback
  <2>4. CASE Refund(r) \/ RefundThrows(r)
    <3>1. c \in Wallets \X Periods
      BY <1>0, <2>4, HereIs, ChargeTyped DEF Refund, RefundThrows, PlaceOK
    <3> QED BY <2>1, <2>2, <2>4, <3>1 DEF Refund, RefundThrows
  <2>5. CASE Consume(r) \/ StoreThrows(r)
    BY <2>1, <2>5 DEF Consume, StoreThrows
  <2>6. CASE Begin(r) \/ Resolve(r) \/ Check(r) \/ Deny(r) \/ Unconsume(r) \/ Reresolve(r)
    BY <2>1, <2>6 DEF Begin, Resolve, Check, Deny, Unconsume, Reresolve
  <2> QED BY <2>3, <2>4, <2>5, <2>6 DEF Step
<1>4. Adds => \A w \in Wallets, p \in Periods :
                used'[w][p] = IF <<w, p>> = c THEN used[w][p] + Amount[r] ELSE used[w][p]
  BY <1>0, <1>2, AddIs
<1>5. CapRespected'
  <2> SUFFICES ASSUME NEW w \in Wallets, NEW p \in Periods, Limit[w] \in Nat, Overage[w] \in Nat
               PROVE  used'[w][p] <= Limit[w] + Overage[w]
    BY DEF CapRespected
  <2>1. used[w][p] <= Limit[w] + Overage[w]
    BY DEF CapRespected
  <2>2. CASE Lower
    <3>1. used'[w][p] <= used[w][p] /\ used'[w][p] \in Nat
      BY <1>u, <2>2
    <3> QED BY <1>t, <2>1, <3>1
  <2>3. CASE Adds
    <3>1. used'[w][p] = IF <<w, p>> = c THEN used[w][p] + Amount[r] ELSE used[w][p]
      BY <1>4, <2>3
    <3>2. <<w, p>> = c => used[w][p] + Amount[r] <= Limit[w] + Overage[w]
      <4> SUFFICES ASSUME <<w, p>> = c PROVE used[w][p] + Amount[r] <= Limit[w] + Overage[w]
        OBVIOUS
      <4>1. w = Here(r) /\ w = c[1] /\ p = c[2]
        BY <1>2, <2>3
      <4> QED BY <2>3, <4>1 DEF RoomKept
    <3> QED BY <2>1, <3>1, <3>2
  <2> QED BY <1>3, <2>2, <2>3
<1>6. RoomKept'
  <2> DEFINE Room(u, d, q) == u[d[1]][d[2]] + Amount[q] <= Limit[d[1]] + Overage[d[1]]
  <2>1. ASSUME NEW q \in Requests \ {r}, pc'[q] = "consume", Overage[Here(q)'] \in Nat
        PROVE  Room(used', Charge(q, Here(q))', q)
    <3> DEFINE d == Charge(q, Here(q))
    <3>1. pc[q] = "consume" /\ Here(q)' = Here(q) /\ d' = d
      BY <1>1, <2>1 DEF Here, Charge
    <3>2. PlaceOK(q) /\ due[q] \in Periods /\ Overage[Here(q)] \in Nat
      BY <1>0, <2>1, <3>1 DEF PlaceInv
    <3>3. d \in Wallets \X Periods /\ d[1] = Here(q) /\ Limit[Here(q)] \in Nat
      BY <3>1, <3>2, HereIs, ChargeTyped DEF PlaceOK
    <3>4. Room(used, d, q)
      BY <3>1, <3>2 DEF RoomKept
    <3> HIDE DEF d
    <3>5. d[1] \in Wallets /\ d[2] \in Periods /\ d = <<d[1], d[2]>>
      BY <3>3
    <3>6. used'[d[1]][d[2]] <= used[d[1]][d[2]]
      <4>1. CASE Lower
        BY <3>5, <4>1
      <4>2. CASE Adds
        <5>1. Here(q) # Here(r)
          BY <2>1, <3>1, <3>2, <4>2 DEF CapContended
        <5>2. d # c
          BY <1>2, <3>3, <4>2, <5>1
        <5> HIDE DEF c
        <5>3. used'[d[1]][d[2]] = used[d[1]][d[2]]
          BY <1>4, <3>5, <4>2, <5>2
        <5> QED BY <1>t, <3>5, <5>3
      <4> QED BY <1>3, <4>1, <4>2
    <3>7. used'[d[1]][d[2]] \in Nat /\ used[d[1]][d[2]] \in Nat /\ Amount[q] \in Nat
      BY <1>0, <1>t, <1>u, <3>5
    <3>8. Limit[d[1]] \in Nat /\ Overage[d[1]] \in Nat
      BY <3>2, <3>3
    <3>9. Room(used', d, q)
      BY <3>4, <3>6, <3>7, <3>8
    <3> QED BY <3>1, <3>9 DEF d
  <2>2. ASSUME pc'[r] = "consume", Overage[Here(r)'] \in Nat
        PROVE  Room(used', Charge(r, Here(r))', r)
    <3>1. Check(r) /\ ~Advance(r, "resolve", "check", "granted")
      <4>1. ~(Begin(r) \/ Resolve(r) \/ StoreThrows(r) \/ Rollback(r) \/ Deny(r)
                \/ Unconsume(r) \/ Reresolve(r) \/ RefundThrows(r))
        BY <1>0, <2>2 DEF Begin, Resolve, StoreThrows, Rollback, Deny,
                          Unconsume, Reresolve, RefundThrows, Goto
      <4>2. ASSUME Check(r) \/ Consume(r) \/ Refund(r)
            PROVE  ~Advance(r, "resolve", "check", "granted") /\ ~Advance(r, "reresolve", "refund", "refunded")
        <5>1. Route[r] # <<>> /\ at[r] \in DOMAIN Route[r]
          BY <1>0, <4>2 DEF Check, Consume, Refund, PlaceOK
        <5> QED BY <1>0, <2>2, <5>1, AdvanceIs
      <4>3. ~Consume(r) /\ ~Refund(r)
        BY <1>0, <2>2, <4>2 DEF Consume, Refund, Goto
      <4> QED BY <4>1, <4>2, <4>3 DEF Step
    <3>2. /\ used' = used /\ at' = at /\ due' = due /\ Limit[Here(r)] \in Nat
          /\ ~Blocked(c, Amount[r])
      <4>1. /\ used' = used /\ at' = at /\ due' = due /\ Limit[Here(r)] \in Nat
            /\ pc' = [pc EXCEPT ![r] = IF Blocked(c, Amount[r]) THEN "rollback" ELSE "consume"]
        BY <3>1 DEF Check, Goto
      <4> QED BY <1>0, <2>2, <4>1
    <3>3. Here(r)' = Here(r) /\ c' = c
      BY <3>2 DEF Here, Charge
    <3>4. c[1] = Here(r) /\ c[1] \in Wallets /\ c[2] \in Periods
      <4>1. c \in Wallets \X Periods /\ c[1] = Here(r)
        BY <1>0, <3>1, HereIs, ChargeTyped DEF Check, PlaceOK
      <4> QED BY <4>1
    <3> HIDE DEF c
    <3>5. used[c[1]][c[2]] \in Nat /\ Limit[c[1]] \in Nat /\ Overage[c[1]] \in Nat
      BY <1>t, <2>2, <3>2, <3>3, <3>4
    <3>6. Room(used, c, r)
      BY <1>0, <3>2, <3>5 DEF Blocked, CapHit
    <3> QED BY <3>2, <3>3, <3>6 DEF c
  <2> QED BY <2>1, <2>2 DEF RoomKept
<1> QED BY <1>5, <1>6

\* The cap is kept as long as no two calls contend for it: the race between its
\* check and the consumption is the only way past it ("overage cap is the maximum
\* overage charge per period", define-access.ts:73).
THEOREM CapHoldsUncontended == Spec /\ []~CapContended => []CapRespected
<1>1. Init => CapRespected /\ RoomKept
  <2> SUFFICES ASSUME Init PROVE CapRespected /\ RoomKept
    OBVIOUS
  <2>1. \A w \in Wallets, p \in Periods : used[w][p] = 0
    BY DEF Init
  <2>2. \A r \in Requests : pc[r] = "ready"
    BY DEF Init
  <2> QED BY <2>1, <2>2 DEF CapRespected, RoomKept
<1>2. PlaceInv /\ CapRespected /\ RoomKept /\ ~CapContended /\ [Next]_vars => CapRespected' /\ RoomKept'
  <2> SUFFICES ASSUME PlaceInv, CapRespected, RoomKept, ~CapContended, [Next]_vars
               PROVE  CapRespected' /\ RoomKept'
    OBVIOUS
  <2>1. CASE UNCHANGED <<used, pc, at, due>>
    BY <2>1 DEF CapRespected, RoomKept, Here, Charge
  <2> QED BY <2>1, CapStep DEF Next, NewPeriod, vars
<1>3. Spec => []PlaceInv
  BY PlaceInit, PlaceNext, PTL DEF Spec
<1> QED BY <1>1, <1>2, <1>3, PTL DEF Spec

(***************************************************************************)
(* Returning                                                               *)
(***************************************************************************)
\* How many awaits a call has before it at most: on each wallet of the route that
\* is left it resolves, checks and consumes, then takes every charge back.
AwaitsLeft(r) ==
  LET left == Len(Route[r]) - at[r]
      held == Len(charged[r])
  IN  CASE pc[r] = "resolve"   -> 4 * left + held + 4
        [] pc[r] = "check"     -> 4 * left + held + 3
        [] pc[r] = "consume"   -> 4 * left + held + 2
        [] pc[r] = "rollback"  -> held + 1
        [] pc[r] = "reresolve" -> 2 * left + 2
        [] pc[r] = "refund"    -> 2 * left + 1
        [] OTHER               -> 0

CallOf(r) == <<pc[r], at[r], due[r], charged[r]>>

\* A call that awaits has awaits left, and every await that settles leaves fewer,
\* whatever is done by other calls, the clock and a failing store.
AwaitsRunOut ==
  \A r \in Requests : pc[r] \in Awaiting =>
    /\ AwaitsLeft(r) \in Nat \ {0}
    /\ CallOf(r)' = CallOf(r) \/ (AwaitsLeft(r)' \in Nat /\ AwaitsLeft(r)' < AwaitsLeft(r))

\* Label by label, before and after a step.
LEMMA AwaitsLeftAt ==
  ASSUME NEW r \in Requests
  PROVE  LET n == Len(Route[r])
         IN  /\ pc[r] = "resolve"    => AwaitsLeft(r) = 4 * (n - at[r]) + Len(charged[r]) + 4
             /\ pc[r] = "check"      => AwaitsLeft(r) = 4 * (n - at[r]) + Len(charged[r]) + 3
             /\ pc[r] = "consume"    => AwaitsLeft(r) = 4 * (n - at[r]) + Len(charged[r]) + 2
             /\ pc[r] = "rollback"   => AwaitsLeft(r) = Len(charged[r]) + 1
             /\ pc[r] = "reresolve"  => AwaitsLeft(r) = 2 * (n - at[r]) + 2
             /\ pc[r] = "refund"     => AwaitsLeft(r) = 2 * (n - at[r]) + 1
             /\ pc[r] \notin Awaiting => AwaitsLeft(r) = 0
             /\ pc'[r] = "resolve"   => AwaitsLeft(r)' = 4 * (n - at'[r]) + Len(charged'[r]) + 4
             /\ pc'[r] = "check"     => AwaitsLeft(r)' = 4 * (n - at'[r]) + Len(charged'[r]) + 3
             /\ pc'[r] = "consume"   => AwaitsLeft(r)' = 4 * (n - at'[r]) + Len(charged'[r]) + 2
             /\ pc'[r] = "rollback"  => AwaitsLeft(r)' = Len(charged'[r]) + 1
             /\ pc'[r] = "reresolve" => AwaitsLeft(r)' = 2 * (n - at'[r]) + 2
             /\ pc'[r] = "refund"    => AwaitsLeft(r)' = 2 * (n - at'[r]) + 1
             /\ pc'[r] \notin Awaiting => AwaitsLeft(r)' = 0
BY DEF AwaitsLeft, Awaiting

\* The number of awaits left is a number.
LEMMA AwaitsLeftIs ==
  ASSUME PlaceInv, NEW r \in Requests, pc[r] \in Awaiting
  PROVE  AwaitsLeft(r) \in Nat \ {0} /\ Len(charged[r]) \in Nat /\ at[r] \in 1..Len(Route[r]) /\ Len(Route[r]) \in Nat
<1>1. PlaceOK(r) /\ charged[r] \in Seq(Wallets \X Periods) /\ pc[r] \in {"ready"} \cup Awaiting \cup Ended
  BY DEF PlaceInv, TypeOK
<1>2. Route[r] # <<>> /\ at[r] \in 1..Len(Route[r]) /\ Len(Route[r]) \in Nat
  BY <1>1, RouteDomain DEF PlaceOK, Awaiting
<1>3. Len(charged[r]) \in Nat
  BY <1>1, LenProperties
<1> DEFINE left == Len(Route[r]) - at[r]
           held == Len(charged[r])
<1>4. left \in Nat /\ held \in Nat
  BY <1>2, <1>3
<1> HIDE DEF left, held
<1>5. AwaitsLeft(r) \in {4 * left + held + 4, 4 * left + held + 3, 4 * left + held + 2, held + 1,
                         2 * left + 2, 2 * left + 1}
  BY AwaitsLeftAt DEF Awaiting, left, held
<1>6. AwaitsLeft(r) \in Nat \ {0}
  BY <1>4, <1>5
<1> QED BY <1>2, <1>3, <1>6

\* A step of the call itself.
LEMMA AwaitSettles ==
  ASSUME PlaceInv, PlaceInv', NEW r \in Requests, Step(r), pc[r] \in Awaiting
  PROVE  AwaitsLeft(r)' \in Nat /\ AwaitsLeft(r)' < AwaitsLeft(r)
<1> DEFINE n == Len(Route[r])
           h == Len(charged[r])
<1>0. /\ pc \in [Requests -> {"ready"} \cup Awaiting \cup Ended]
      /\ at \in [Requests -> Nat \ {0}] /\ PlaceOK(r)
      /\ charged \in [Requests -> Seq(Wallets \X Periods)]
      /\ charged[r] \in Seq(Wallets \X Periods)
  BY DEF PlaceInv, TypeOK
<1>1. h \in Nat /\ at[r] \in 1..n /\ n \in Nat /\ Route[r] # <<>>
  BY <1>0, AwaitsLeftIs DEF PlaceOK, Awaiting
<1>t. pc \in [Requests -> {"ready"} \cup Awaiting \cup Ended] /\ at \in [Requests -> Nat \ {0}]
  BY <1>0
<1> DEFINE left == n - at[r]
           next == n - at'[r]
           held == Len(charged'[r])
<1>a. left \in Nat /\ h \in Nat
  BY <1>1
<1>b. /\ pc[r] = "resolve"    => AwaitsLeft(r) = 4 * left + h + 4
      /\ pc[r] = "check"      => AwaitsLeft(r) = 4 * left + h + 3
      /\ pc[r] = "consume"    => AwaitsLeft(r) = 4 * left + h + 2
      /\ pc[r] = "rollback"   => AwaitsLeft(r) = h + 1
      /\ pc[r] = "reresolve"  => AwaitsLeft(r) = 2 * left + 2
      /\ pc[r] = "refund"     => AwaitsLeft(r) = 2 * left + 1
      /\ pc'[r] = "resolve"   => AwaitsLeft(r)' = 4 * next + held + 4
      /\ pc'[r] = "check"     => AwaitsLeft(r)' = 4 * next + held + 3
      /\ pc'[r] = "consume"   => AwaitsLeft(r)' = 4 * next + held + 2
      /\ pc'[r] = "rollback"  => AwaitsLeft(r)' = held + 1
      /\ pc'[r] = "reresolve" => AwaitsLeft(r)' = 2 * next + 2
      /\ pc'[r] = "refund"    => AwaitsLeft(r)' = 2 * next + 1
      /\ pc'[r] \notin Awaiting => AwaitsLeft(r)' = 0
  BY AwaitsLeftAt
<1>c. at'[r] = at[r] => next = left
  OBVIOUS
<1>d. at'[r] = at[r] + 1 /\ at[r] + 1 \in 1..n => next \in Nat /\ left = next + 1
  BY <1>1
<1>e. charged' = charged => held = h
  OBVIOUS
<1> HIDE DEF left, next, held, h
<1>2. CASE Resolve(r) \/ Reresolve(r) \/ Deny(r) \/ StoreThrows(r) \/ RefundThrows(r)
  <2>1. CASE Resolve(r)
    BY <1>t, <1>a, <1>b, <1>c, <1>e, <2>1 DEF Resolve, Goto
  <2>2. CASE Reresolve(r)
    BY <1>t, <1>a, <1>b, <1>c, <1>e, <2>2 DEF Reresolve, Goto
  <2>3. CASE Deny(r)
    BY <1>t, <1>a, <1>b, <1>e, <2>3 DEF Deny, Goto, Awaiting
  <2>4. CASE StoreThrows(r) \/ RefundThrows(r)
    <3>1. pc'[r] \notin Awaiting
      BY <1>t, <2>4 DEF StoreThrows, RefundThrows, Goto, Awaiting
    <3>2. AwaitsLeft(r)' = 0
      BY <1>b, <3>1
    <3> QED BY <3>2, AwaitsLeftIs
  <2> QED BY <1>2, <2>1, <2>2, <2>3, <2>4
<1>3. CASE Rollback(r)
  <2>1. charged'[r] = Tail(charged[r]) /\ charged[r] # <<>> /\ pc' = pc /\ pc[r] = "rollback"
    BY <1>0, <1>3 DEF Rollback, Remaining
  <2>2. Len(charged'[r]) = h - 1 /\ h - 1 \in Nat
    BY <1>0, <2>1, HeadTailProperties, EmptySeq, LenProperties DEF h
  <2> QED BY <1>a, <1>b, <2>1, <2>2 DEF held
<1>4. ASSUME Advance(r, "resolve", "check", "granted"), pc[r] \in {"check", "consume"},
             held = h \/ (pc[r] = "consume" /\ held = h + 1)
      PROVE  AwaitsLeft(r)' \in Nat /\ AwaitsLeft(r)' < AwaitsLeft(r)
  <2>1. CASE pc'[r] = "granted"
    <3>1. AwaitsLeft(r)' = 0
      BY <1>b, <2>1 DEF Awaiting
    <3> QED BY <3>1, AwaitsLeftIs
  <2>2. CASE pc'[r] \in {"resolve", "check"} /\ at'[r] = at[r] + 1 /\ at[r] + 1 \in 1..n
    BY <1>a, <1>b, <1>d, <1>4, <2>2
  <2>3. DOMAIN Route[r] = 1..n
    BY RouteDomain
  <2> QED BY <1>t, <1>1, <1>4, <2>1, <2>2, <2>3, AdvanceIs
<1>5. ASSUME Advance(r, "reresolve", "refund", "refunded"), pc[r] = "refund"
      PROVE  AwaitsLeft(r)' \in Nat /\ AwaitsLeft(r)' < AwaitsLeft(r)
  <2>1. CASE pc'[r] = "refunded"
    <3>1. AwaitsLeft(r)' = 0
      BY <1>b, <2>1 DEF Awaiting
    <3> QED BY <3>1, AwaitsLeftIs
  <2>2. CASE pc'[r] \in {"reresolve", "refund"} /\ at'[r] = at[r] + 1 /\ at[r] + 1 \in 1..n
    BY <1>a, <1>b, <1>d, <1>5, <2>2
  <2>3. DOMAIN Route[r] = 1..n
    BY RouteDomain
  <2> QED BY <1>t, <1>1, <1>5, <2>1, <2>2, <2>3, AdvanceIs
<1>6. CASE Check(r)
  <2>1. charged' = charged /\ pc[r] = "check"
    BY <1>6 DEF Check
  <2>2. CASE Advance(r, "resolve", "check", "granted")
    BY <1>4, <1>e, <2>1, <2>2
  <2>3. CASE at' = at /\ pc'[r] \in {"rollback", "consume"}
    BY <1>a, <1>b, <1>c, <1>e, <2>1, <2>3
  <2> QED BY <1>t, <1>6, <2>2, <2>3 DEF Check, Goto
<1>7. CASE Consume(r)
  <2>0. pc[r] = "consume"
    BY <1>7 DEF Consume
  <2>1. CASE Advance(r, "resolve", "check", "granted") /\ charged' = [charged EXCEPT ![r] = Append(@, Charge(r, Here(r)))]
    <3>1. Charge(r, Here(r)) \in Wallets \X Periods
      <4>1. due[r] \in Periods /\ Here(r) \in Wallets
        BY <1>0, <1>1, HereIs DEF PlaceInv, TypeOK
      <4> QED BY <4>1, ChargeTyped
    <3>2. held = h + 1
      BY <1>0, <2>1, <3>1, AppendProperties DEF held, h
    <3> QED BY <1>4, <2>0, <2>1, <3>2
  <2>2. CASE pc'[r] = "rollback" /\ charged' = charged
    BY <1>a, <1>b, <1>e, <2>0, <2>2
  <2> QED BY <1>t, <1>7, <2>1, <2>2 DEF Consume, Goto
<1>8. CASE Refund(r)
  BY <1>5, <1>8 DEF Refund
<1>9. ~Begin(r) /\ ~Unconsume(r)
  BY DEF Begin, Unconsume, Awaiting
<1> QED BY <1>2, <1>3, <1>6, <1>7, <1>8, <1>9 DEF Step

\* Every call of canAndConsume() and unconsume() settles after a bounded number of
\* awaits: no order of other calls, of periods and of failures makes it start over,
\* wait for another call or take the same charge back twice.
THEOREM CallsRunOut == Spec => [][AwaitsRunOut]_vars
<1>1. PlaceInv /\ PlaceInv' /\ [Next]_vars => [AwaitsRunOut]_vars
  <2> SUFFICES ASSUME PlaceInv, PlaceInv', Next, NEW q \in Requests, pc[q] \in Awaiting
               PROVE  /\ AwaitsLeft(q) \in Nat \ {0}
                      /\ CallOf(q)' = CallOf(q) \/ (AwaitsLeft(q)' \in Nat /\ AwaitsLeft(q)' < AwaitsLeft(q))
    BY DEF AwaitsRunOut
  <2>1. CASE NewPeriod
    BY <2>1, AwaitsLeftIs DEF NewPeriod, CallOf
  <2>2. ASSUME NEW r \in Requests, Step(r)
        PROVE  CallOf(q)' = CallOf(q) \/ (AwaitsLeft(q)' \in Nat /\ AwaitsLeft(q)' < AwaitsLeft(q))
    <3>1. CASE q = r
      BY <2>2, <3>1, AwaitSettles
    <3>2. CASE q # r
      BY <2>2, <3>2, StepLocal DEF CallOf
    <3> QED BY <3>1, <3>2
  <2> QED BY <2>1, <2>2, AwaitsLeftIs DEF Next
<1>2. Spec => []PlaceInv
  BY PlaceInit, PlaceNext, PTL DEF Spec
<1> QED BY <1>1, <1>2, PTL DEF Spec
================================================================================
