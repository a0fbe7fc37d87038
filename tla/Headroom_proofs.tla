---------------------------- MODULE Headroom_proofs ----------------------------
(***************************************************************************)
(* The arithmetic of ensure_headroom, and the ledger of blocks through the *)
(* writes that follow it, for every block size, image and set of files.    *)
(***************************************************************************)
EXTENDS Headroom, FiniteSetTheorems, WellFoundedInduction, TLAPS

\* -(-a // b) is a ceiling: that many blocks of b bytes hold a bytes, and one
\* block less does not.
LEMMA CeilIsCeiling ==
    ASSUME NEW a \in Int, NEW b \in Nat \ {0}
    PROVE  /\ Ceil(a, b) \in Int
           /\ Ceil(a, b) * b >= a
           /\ (Ceil(a, b) - 1) * b < a
<1> DEFINE q == (-a) \div b
<1>1. q \in Int /\ -a = q * b + ((-a) % b) /\ (-a) % b \in 0 .. (b - 1)
    OBVIOUS
<1> QED
    BY <1>1 DEF Ceil

LEMMA TimesMonotone ==
    ASSUME NEW a \in Int, NEW b \in Int, NEW m \in Nat, a <= b
    PROVE  a * m <= b * m
OBVIOUS

\* The image resize2fs is asked for has room for what the graft needs, and is
\* larger than the one it replaces.
THEOREM GrownImageHolds ==
    ASSUME NEW c \in Nat, NEW fr \in Nat, NEW need \in Nat, fr * Bs < need
    PROVE  /\ NewCount(c, fr, need) \in Int
           /\ NewCount(c, fr, need) > c
           /\ (fr + (NewCount(c, fr, need) - c)) * Bs >= need
<1> DEFINE short == need - fr * Bs
           grow == Ceil(short, Bs)
           n == Ceil(c + grow, Round)
           k == n * Round
<1>1. Bs \in Nat \ {0} /\ Round \in Nat \ {0}
    BY HeadroomAssumption
<1>2. short \in Int /\ short > 0
    BY <1>1
<1>3. grow \in Int /\ grow * Bs >= short
    BY <1>1, <1>2, CeilIsCeiling
<1>4. grow >= 1
    <2>1. grow <= 0 => grow * Bs <= 0 * Bs
        BY <1>1, <1>3, TimesMonotone
    <2> QED
        BY <1>1, <1>2, <1>3, <2>1
<1>5. n \in Int /\ k >= c + grow
    <2>1. c + grow \in Int
        BY <1>3
    <2> HIDE DEF grow
    <2> QED
        BY <1>1, <2>1, CeilIsCeiling
<1>6. k \in Int /\ k = NewCount(c, fr, need)
    BY <1>1, <1>5 DEF NewCount
<1>7. (fr + grow) * Bs <= (fr + (k - c)) * Bs
    <2>1. fr + grow <= fr + (k - c) /\ fr + grow \in Int /\ fr + (k - c) \in Int
        BY <1>3, <1>5, <1>6
    <2> HIDE DEF grow, k
    <2> QED
        BY <1>1, <2>1, TimesMonotone
<1>8. (fr + grow) * Bs = fr * Bs + grow * Bs
    <2> HIDE DEF grow
    <2> QED
        BY <1>1, <1>3
<1> HIDE DEF k, grow
<1> QED
    BY <1>1, <1>2, <1>3, <1>4, <1>5, <1>6, <1>7, <1>8

-----------------------------------------------------------------------------
(* Sums over a finite set.  Induction is by a least counterexample: among  *)
(* the subsets of a finite set that lack a property one has no smaller one *)
(* that lacks it.                                                          *)

Pick(s) == CHOOSE x \in s : TRUE
IsSum(g, U) ==
   g = [s \in SUBSET U |-> IF s = {} THEN 0 ELSE size[Pick(s)] + g[s \ {Pick(s)}]]

LEMMA BytesDef == \A S : Bytes(S) = (CHOOSE g : IsSum(g, S))[S]
BY DEF Bytes, MapThenSumSet, MapThenFoldSet, IsSum, Pick

LEMMA Least ==
    ASSUME NEW F, IsFiniteSet(F), NEW T \in SUBSET SUBSET F, T # {}
    PROVE  \E s \in T : \A r \in T : r \subseteq s => r = s
<1>1. IsWellFoundedOn(StrictSubsetOrdering(F), FiniteSubsetsOf(F))
  BY FS_StrictSubsetOrderingWellFounded
<1>2. FiniteSubsetsOf(F) = SUBSET F
  BY FS_FiniteSubsetsOfFinite
<1>3. PICK s \in T : \A r \in T : <<r, s>> \notin StrictSubsetOrdering(F)
  BY <1>1, <1>2, WFMin
<1> QED BY <1>3 DEF StrictSubsetOrdering

LEMMA SumAt ==
    ASSUME NEW U, NEW g, IsSum(g, U), NEW s \in SUBSET U
    PROVE  g[s] = IF s = {} THEN 0 ELSE size[Pick(s)] + g[s \ {Pick(s)}]
BY DEF IsSum

LEMMA Picked == ASSUME NEW s, s # {} PROVE Pick(s) \in s
BY DEF Pick

\* Sums over one set agree, whatever sets they are defined on.
LEMMA SumsAgree ==
    ASSUME NEW U, NEW W, IsFiniteSet(U), NEW g, NEW h, IsSum(g, U), IsSum(h, W)
    PROVE  \A s \in SUBSET (U \cap W) : g[s] = h[s]
<1> DEFINE T == {s \in SUBSET (U \cap W) : g[s] # h[s]}
<1>1. SUFFICES ASSUME T # {} PROVE FALSE
  OBVIOUS
<1>2. T \in SUBSET SUBSET U
  OBVIOUS
<1>3. PICK s \in T : \A r \in T : r \subseteq s => r = s
  <2> HIDE DEF T
  <2> QED BY <1>1, <1>2, Least
<1>4. s \in SUBSET U /\ s \in SUBSET W /\ g[s] # h[s]
  OBVIOUS
<1>5. s # {}
  BY <1>4, SumAt
<1>6. g[s \ {Pick(s)}] = h[s \ {Pick(s)}]
  BY <1>3, <1>5, Picked
<1> QED BY <1>4, <1>5, <1>6, SumAt

LEMMA SumExists ==
    ASSUME NEW F, IsFiniteSet(F)
    PROVE  \E g : IsSum(g, F)
<1> DEFINE T == {s \in SUBSET F : ~ \E g : IsSum(g, s)}
<1>1. SUFFICES ASSUME F \in T PROVE FALSE
  OBVIOUS
<1>2. PICK s \in T : \A r \in T : r \subseteq s => r = s
  <2>1. T # {} /\ T \in SUBSET SUBSET F
    BY <1>1
  <2> HIDE DEF T
  <2> QED BY <2>1, Least
<1> DEFINE G(r) == CHOOSE g : IsSum(g, r)
           Less(r) == r \ {Pick(r)}
           h == [r \in SUBSET s |-> IF r = {} THEN 0 ELSE size[Pick(r)] + G(Less(r))[Less(r)]]
<1>3. \A r \in SUBSET s : r # s => IsSum(G(r), r)
  BY <1>2
<1>4. ASSUME NEW r \in SUBSET s, r # s
      PROVE  h[r] = G(r)[r]
  <2>1. IsSum(G(r), r)
    BY <1>3, <1>4
  <2>2. CASE r = {}
    <3>1. G(r)[r] = 0
      BY <2>1, <2>2, SumAt
    <3> QED BY <2>2, <3>1
  <2>3. CASE r # {}
    <3>1. Less(r) \in SUBSET r /\ Less(r) # s /\ Less(r) \in SUBSET s
      BY <1>4, <2>3, Picked
    <3>2. IsSum(G(Less(r)), Less(r))
      BY <1>3, <3>1
    <3>3. IsFiniteSet(r)
      BY FS_Subset
    <3>4. G(r)[Less(r)] = G(Less(r))[Less(r)]
      <4> HIDE DEF G, Less
      <4> QED BY <2>1, <3>1, <3>2, <3>3, SumsAgree
    <3>5. G(r)[r] = size[Pick(r)] + G(r)[Less(r)]
      BY <2>1, <2>3, SumAt
    <3> QED BY <2>3, <3>4, <3>5
  <2> QED BY <2>2, <2>3
<1>5. ASSUME NEW r \in SUBSET s, r # {}
      PROVE  h[r] = size[Pick(r)] + h[Less(r)]
  <2>1. Less(r) \in SUBSET s /\ Less(r) # s
    BY <1>5, Picked
  <2> QED BY <1>4, <1>5, <2>1
<1>6. IsSum(h, s)
  <2> HIDE DEF G
  <2> QED BY <1>5 DEF IsSum
<1> QED BY <1>2, <1>6

LEMMA BytesKept ==
    size' = size =>
        Bytes(todo \cap Grafts)' =
            (CHOOSE g : IsSum(g, todo' \cap Grafts))[todo' \cap Grafts]
BY DEF Bytes, MapThenSumSet, MapThenFoldSet, IsSum, Pick

\* The bytes of a set of files are those of one of them and of the others.
LEMMA BytesOf ==
    ASSUME size \in [Grafts -> Nat]
    PROVE  /\ Bytes({}) = 0
           /\ \A S \in SUBSET Grafts : Bytes(S) \in Nat
           /\ \A S \in SUBSET Grafts : \A f \in S : Bytes(S) = size[f] + Bytes(S \ {f})
<1>1. PICK g : IsSum(g, Grafts)
  BY HeadroomAssumption, SumExists
<1>2. ASSUME NEW S \in SUBSET Grafts PROVE Bytes(S) = g[S]
  <2>1. IsFiniteSet(S)
    BY HeadroomAssumption, FS_Subset
  <2>2. PICK h : h = (CHOOSE k : IsSum(k, S))
    OBVIOUS
  <2>3. IsSum(h, S)
    BY <2>1, <2>2, SumExists
  <2>4. h[S] = g[S]
    <3>1. S \in SUBSET (S \cap Grafts)
      OBVIOUS
    <3> QED BY <1>1, <2>1, <2>3, <3>1, SumsAgree
  <2> QED BY <2>2, <2>4, BytesDef
<1>3. \A S \in SUBSET Grafts : g[S] = IF S = {} THEN 0 ELSE size[Pick(S)] + g[S \ {Pick(S)}]
  BY <1>1, SumAt
<1>4. \A S \in SUBSET Grafts : g[S] \in Nat
  <2> DEFINE T == {S \in SUBSET Grafts : g[S] \notin Nat}
  <2>1. SUFFICES ASSUME T # {} PROVE FALSE
    OBVIOUS
  <2>2. PICK s \in T : \A r \in T : r \subseteq s => r = s
    <3>1. T \in SUBSET SUBSET Grafts
      OBVIOUS
    <3> HIDE DEF T
    <3> QED BY <2>1, <3>1, HeadroomAssumption, Least
  <2>3. s # {} /\ Pick(s) \in s
    <3>1. s \in SUBSET Grafts /\ g[s] \notin Nat
      OBVIOUS
    <3>2. g[{}] = 0
      BY <1>3
    <3>3. s # {}
      BY <3>1, <3>2
    <3> QED BY <3>3, Picked
  <2>4. g[s \ {Pick(s)}] \in Nat
    BY <2>2, <2>3
  <2>5. size[Pick(s)] \in Nat
    BY <2>3
  <2> QED BY <1>3, <2>3, <2>4, <2>5
<1>5. \A S \in SUBSET Grafts : \A f \in S : g[S] = size[f] + g[S \ {f}]
  <2> DEFINE T == {S \in SUBSET Grafts : \E f \in S : g[S] # size[f] + g[S \ {f}]}
  <2>1. SUFFICES ASSUME T # {} PROVE FALSE
    OBVIOUS
  <2>2. PICK s \in T : \A r \in T : r \subseteq s => r = s
    <3>1. T \in SUBSET SUBSET Grafts
      OBVIOUS
    <3> HIDE DEF T
    <3> QED BY <2>1, <3>1, HeadroomAssumption, Least
  <2>3. PICK f \in s : g[s] # size[f] + g[s \ {f}]
    OBVIOUS
  <2> DEFINE p == Pick(s)
  <2>4. p \in s /\ g[s] = size[p] + g[s \ {p}]
    BY <1>3, <2>3, Picked
  <2>5. f # p
    BY <2>3, <2>4
  <2>6. g[s \ {p}] = size[f] + g[(s \ {p}) \ {f}]
    BY <2>2, <2>4, <2>5
  <2>7. g[s \ {f}] = size[p] + g[(s \ {f}) \ {p}]
    BY <2>2, <2>4, <2>5
  <2>8. (s \ {p}) \ {f} = (s \ {f}) \ {p}
    OBVIOUS
  <2>9. size[f] \in Nat /\ size[p] \in Nat /\ g[(s \ {p}) \ {f}] \in Nat
    BY <1>4, <2>4
  <2>10. \A a, b, c \in Nat : a + (b + c) = b + (a + c)
    OBVIOUS
  <2>11. g[s] = size[p] + (size[f] + g[(s \ {p}) \ {f}])
    BY <2>4, <2>6
  <2>12. size[f] + g[s \ {f}] = size[f] + (size[p] + g[(s \ {p}) \ {f}])
    BY <2>7, <2>8
  <2> HIDE DEF p
  <2> QED BY <2>3, <2>9, <2>10, <2>11, <2>12
<1> QED BY <1>2, <1>3, <1>4, <1>5

-----------------------------------------------------------------------------

\* The blocks that the writes still to come may take beyond the bytes counted.
Reserve(files) ==
    Cardinality(files \cap Grafts) * (1 + Meta) + Cardinality(files \cap Policies) * Growth

Ledger == free * Bs >= Bytes(todo \cap Grafts) + Bs * Reserve(todo)

IInv ==
    /\ TypeOK
    /\ ~cut
    /\ pc = "headroom" => todo = Grafts \cup Policies
    /\ pc = "write" => Ledger

LEMMA Finite ==
    ASSUME NEW S \in SUBSET (Grafts \cup Policies)
    PROVE  /\ IsFiniteSet(S \cap Grafts) /\ Cardinality(S \cap Grafts) \in Nat
           /\ IsFiniteSet(S \cap Policies) /\ Cardinality(S \cap Policies) \in Nat
<1>1. IsFiniteSet(S \cap Grafts) /\ IsFiniteSet(S \cap Policies)
  BY HeadroomAssumption, FS_Intersection
<1> QED BY <1>1, FS_CardinalityType

LEMMA Distribute ==
    ASSUME NEW a \in Int, NEW b \in Int, NEW m \in Int
    PROVE  (a + b) * m = a * m + b * m /\ m * (a + b) = m * a + m * b
OBVIOUS

\* A write that is done frees what was reserved for it.
LEMMA ReserveOf ==
    ASSUME NEW S \in SUBSET (Grafts \cup Policies)
    PROVE  /\ Reserve(S) \in Nat
           /\ \A f \in S \cap Grafts : Reserve(S \ {f}) + 1 + Meta <= Reserve(S)
           /\ \A p \in S \cap Policies : Reserve(S \ {p}) + Growth <= Reserve(S)
<1> DEFINE G(s) == Cardinality(s \cap Grafts)
           P(s) == Cardinality(s \cap Policies)
<1>1. Meta \in Nat /\ Growth \in Nat
  BY HeadroomAssumption
<1>2. G(S) \in Nat /\ P(S) \in Nat /\ IsFiniteSet(S \cap Grafts) /\ IsFiniteSet(S \cap Policies)
  BY Finite
<1>3. ASSUME NEW x \in S
      PROVE  /\ G(S \ {x}) \in Nat /\ P(S \ {x}) \in Nat
             /\ G(S \ {x}) = IF x \in Grafts THEN G(S) - 1 ELSE G(S)
             /\ P(S \ {x}) = IF x \in Policies THEN P(S) - 1 ELSE P(S)
  <2>1. /\ (S \ {x}) \cap Grafts = (S \cap Grafts) \ {x}
        /\ (S \ {x}) \cap Policies = (S \cap Policies) \ {x}
    OBVIOUS
  <2>2. S \ {x} \in SUBSET (Grafts \cup Policies)
    OBVIOUS
  <2>3. G(S \ {x}) \in Nat /\ P(S \ {x}) \in Nat
    BY <2>2, Finite
  <2>4. Cardinality((S \cap Grafts) \ {x}) =
           IF x \in S \cap Grafts THEN G(S) - 1 ELSE G(S)
    BY <1>2, FS_RemoveElement
  <2>5. Cardinality((S \cap Policies) \ {x}) =
           IF x \in S \cap Policies THEN P(S) - 1 ELSE P(S)
    BY <1>2, FS_RemoveElement
  <2> QED BY <1>3, <2>1, <2>3, <2>4, <2>5
<1>4. \A s : Reserve(s) = G(s) * (1 + Meta) + P(s) * Growth
  BY DEF Reserve
<1> HIDE DEF G, P
<1>5. Reserve(S) \in Nat
  <2>1. \A a, b \in Nat : a * b \in Nat
    OBVIOUS
  <2> QED BY <1>1, <1>2, <1>4, <2>1
<1>6. ASSUME NEW f \in S \cap Grafts
      PROVE  Reserve(S \ {f}) + 1 + Meta <= Reserve(S)
  <2>1. G(S \ {f}) \in Nat /\ P(S \ {f}) \in Nat /\ G(S) = G(S \ {f}) + 1
        /\ P(S \ {f}) <= P(S)
    BY <1>2, <1>3
  <2>2. G(S) * (1 + Meta) = G(S \ {f}) * (1 + Meta) + 1 * (1 + Meta)
    BY <1>1, <2>1, Distribute
  <2>3. P(S \ {f}) * Growth <= P(S) * Growth
    BY <1>1, <1>2, <2>1, TimesMonotone
  <2> QED BY <1>1, <1>2, <1>4, <2>1, <2>2, <2>3
<1>7. ASSUME NEW p \in S \cap Policies
      PROVE  Reserve(S \ {p}) + Growth <= Reserve(S)
  <2>1. G(S \ {p}) \in Nat /\ P(S \ {p}) \in Nat /\ P(S) = P(S \ {p}) + 1
        /\ G(S \ {p}) <= G(S)
    BY <1>2, <1>3
  <2>2. P(S) * Growth = P(S \ {p}) * Growth + 1 * Growth
    BY <1>1, <2>1, Distribute
  <2>3. G(S \ {p}) * (1 + Meta) <= G(S) * (1 + Meta)
    BY <1>1, <1>2, <2>1, TimesMonotone
  <2> QED BY <1>1, <1>2, <1>4, <2>1, <2>2, <2>3
<1> QED BY <1>5, <1>6, <1>7

\* The blocks of a file are less than one more than its bytes fill.
LEMMA BlocksOf ==
    ASSUME NEW n \in Nat
    PROVE  Blocks(n) \in Nat /\ Blocks(n) * Bs < n + Bs
<1>1. Bs \in Nat \ {0}
  BY HeadroomAssumption
<1> DEFINE q == (n + Bs - 1) \div Bs
<1>2. q \in Int /\ n + Bs - 1 = Bs * q + ((n + Bs - 1) % Bs) /\ (n + Bs - 1) % Bs \in 0 .. Bs - 1
  BY <1>1
<1>3. q >= 0
  BY <1>1, <1>2
<1> HIDE DEF q
<1> QED BY <1>1, <1>2, <1>3 DEF Blocks, q

-----------------------------------------------------------------------------

LEMMA InitIInv == Init => IInv
<1> SUFFICES ASSUME Init PROVE IInv
  OBVIOUS
<1>1. count \in Nat /\ free \in Nat
  BY HeadroomAssumption DEF Init
<1> QED BY <1>1 DEF Init, IInv, TypeOK

\* With everything still to be written, the need covers the ledger.
LEMMA NeedCovers ==
    ASSUME TypeOK, todo = Grafts \cup Policies
    PROVE  /\ Need \in Nat
           /\ Need >= Bytes(todo \cap Grafts) + Bs * Reserve(todo) + Bs * ResizeMeta
<1>1. todo \cap Grafts = Grafts /\ todo \cap Policies = Policies
  OBVIOUS
<1>2. Bytes(Grafts) \in Nat
  <2>1. size \in [Grafts -> Nat]
    BY HeadroomAssumption DEF TypeOK
  <2> QED BY <2>1, BytesOf
<1>3. Reserve(todo) \in Nat
  BY ReserveOf
<1>4. Slack >= Bs * (Reserve(todo) + ResizeMeta)
  BY <1>1, SlackCovers DEF Reserve
<1>5. Bs \in Nat /\ ResizeMeta \in Nat /\ Slack \in Nat
  BY HeadroomAssumption
<1>6. Bs * (Reserve(todo) + ResizeMeta) = Bs * Reserve(todo) + Bs * ResizeMeta
  BY <1>3, <1>5, Distribute
<1>7. Bs * Reserve(todo) \in Nat /\ Bs * ResizeMeta \in Nat
  <2>1. \A a, b \in Nat : a * b \in Nat
    OBVIOUS
  <2> QED BY <1>3, <1>5, <2>1
<1> DEFINE reserved == Bs * Reserve(todo)
           tables == Bs * ResizeMeta
<1>8. reserved \in Nat /\ tables \in Nat /\ Slack >= reserved + tables
  BY <1>4, <1>6, <1>7
<1> HIDE DEF reserved, tables
<1>9. Bytes(Grafts) + Slack >= Bytes(Grafts) + reserved + tables
  BY <1>2, <1>5, <1>8
<1>10. Need \in Nat /\ Need = Bytes(Grafts) + Slack
  BY <1>2, <1>5 DEF Need
<1>11. Bytes(todo \cap Grafts) = Bytes(Grafts)
  BY <1>1
<1> QED BY <1>9, <1>10, <1>11 DEF reserved, tables

LEMMA EnsureHeadroomKeeps == ASSUME IInv, EnsureHeadroom PROVE IInv'
<1> USE DEF IInv
<1>1. /\ pc' = "write" /\ size' = size /\ todo' = todo /\ cut' = cut
      /\ todo = Grafts \cup Policies
  BY DEF EnsureHeadroom
<1>2. Bytes(todo \cap Grafts)' = Bytes(todo \cap Grafts) /\ Reserve(todo)' = Reserve(todo)
  BY <1>1, BytesKept, BytesDef DEF Reserve
<1> DEFINE owed == Bytes(todo \cap Grafts) + Bs * Reserve(todo)
<1>3. Bs \in Nat \ {0} /\ ResizeMeta \in Nat /\ count \in Nat /\ free \in Nat
  BY HeadroomAssumption DEF TypeOK
<1>4. Need \in Nat /\ Need >= owed + Bs * ResizeMeta /\ owed \in Nat
  <2>1. size \in [Grafts -> Nat] /\ todo \cap Grafts \in SUBSET Grafts
    BY HeadroomAssumption DEF TypeOK
  <2>2. Bytes(todo \cap Grafts) \in Nat
    BY <2>1, BytesOf
  <2>3. Reserve(todo) \in Nat
    BY <1>1, ReserveOf
  <2>4. Bs * Reserve(todo) \in Nat
    BY <1>3, <2>3
  <2> QED BY <1>1, <2>2, <2>4, NeedCovers
<1>5. Bs * ResizeMeta \in Nat
  BY <1>3
<1> HIDE DEF owed
<1>6. /\ count' \in Nat /\ free' \in Nat
      /\ free' * Bs >= owed
  <2>1. CASE free * Bs >= Need
    <3>1. free' = free /\ count' = count
      BY <2>1 DEF EnsureHeadroom
    <3>2. free * Bs \in Nat
      BY <1>3
    <3> QED BY <1>3, <1>4, <1>5, <2>1, <3>1, <3>2
  <2>2. CASE ~(free * Bs >= Need)
    <3> DEFINE grown == NewCount(count, free, Need)
    <3>1. PICK m \in 0 .. ResizeMeta : count' = grown /\ free' = free + (count' - count) - m
      BY <2>2 DEF EnsureHeadroom
    <3>2. free * Bs < Need
      BY <1>3, <1>4, <2>2
    <3>3. grown \in Int /\ grown > count /\ (free + (grown - count)) * Bs >= Need
      BY <1>3, <1>4, <3>2, GrownImageHolds
    <3> HIDE DEF grown
    <3> DEFINE all == free + (grown - count)
    <3>4. all \in Int /\ all * Bs >= Need /\ m \in Nat /\ m <= ResizeMeta
      BY <1>3, <3>1, <3>3
    <3>5. m * Bs <= ResizeMeta * Bs /\ ResizeMeta * Bs = Bs * ResizeMeta
      BY <1>3, <3>4, TimesMonotone
    <3>6. free' = all - m
      BY <1>3, <3>1, <3>3
    <3> HIDE DEF all
    <3>7. (all - m) * Bs = all * Bs - m * Bs /\ all * Bs \in Int /\ m * Bs \in Int
      BY <1>3, <3>4
    <3>8. (all - m) * Bs >= owed
      BY <1>4, <1>5, <3>4, <3>5, <3>7
    <3>9. all - m >= 0
      <4>1. all - m < 0 => (all - m) * Bs < 0
        BY <1>3, <3>4
      <4> QED BY <1>3, <1>4, <3>4, <3>8, <4>1
    <3> QED BY <1>3, <3>1, <3>3, <3>4, <3>6, <3>8, <3>9
  <2> QED BY <2>1, <2>2
<1>7. TypeOK'
  BY <1>1, <1>6 DEF TypeOK
<1>8. Ledger'
  BY <1>1, <1>2, <1>6 DEF Ledger, owed
<1> QED BY <1>1, <1>7, <1>8

\* A write that takes no more blocks than it was counted for is not cut short.
LEMMA TakeKeeps ==
    ASSUME IInv, pc = "write", NEW p \in todo, NEW n \in Nat, Take(p, n),
           Bytes((todo \ {p}) \cap Grafts) + Bs * Reserve(todo \ {p}) + n * Bs
              <= Bytes(todo \cap Grafts) + Bs * Reserve(todo)
    PROVE  IInv'
<1> USE DEF IInv
<1>1. todo' = todo \ {p} /\ pc' = pc /\ size' = size /\ count' = count
  BY DEF Take
<1>2. Bs \in Nat \ {0} /\ free \in Nat
  BY HeadroomAssumption DEF TypeOK
<1>3. size \in [Grafts -> Nat] /\ todo \subseteq Grafts \cup Policies
  BY HeadroomAssumption DEF TypeOK
<1> DEFINE owed(s) == Bytes(s \cap Grafts) + Bs * Reserve(s)
<1>4. owed(todo) \in Nat /\ owed(todo \ {p}) \in Nat
  <2>1. \A s \in SUBSET (Grafts \cup Policies) : owed(s) \in Nat
    <3> SUFFICES ASSUME NEW s \in SUBSET (Grafts \cup Policies) PROVE owed(s) \in Nat
      OBVIOUS
    <3>1. s \cap Grafts \in SUBSET Grafts
      OBVIOUS
    <3>2. Bytes(s \cap Grafts) \in Nat
      BY <1>3, <3>1, BytesOf
    <3>3. Reserve(s) \in Nat
      BY ReserveOf
    <3> QED BY <1>2, <3>2, <3>3
  <2>2. todo \ {p} \in SUBSET (Grafts \cup Policies)
    BY <1>3
  <2> HIDE DEF owed
  <2> QED BY <1>3, <2>1, <2>2
<1>5. Bytes(todo \cap Grafts)' = Bytes((todo \ {p}) \cap Grafts)
      /\ Reserve(todo)' = Reserve(todo \ {p})
  BY <1>1, BytesKept, BytesDef DEF Reserve
<1>6. free * Bs >= owed(todo) /\ owed(todo \ {p}) + n * Bs <= owed(todo)
  BY DEF Ledger
<1>7. Ledger' = (free' * Bs >= owed(todo \ {p}))
  BY <1>5 DEF Ledger
<1> HIDE DEF owed
<1>8. n * Bs <= free * Bs /\ n * Bs \in Nat /\ free * Bs \in Nat
  BY <1>2, <1>4, <1>6
<1>9. n <= free
  <2>1. n > free => n * Bs > free * Bs
    BY <1>2
  <2> QED BY <1>2, <1>8, <2>1
<1>10. free' = free - n /\ cut' = cut
  BY <1>9 DEF Take
<1>11. (free - n) * Bs = free * Bs - n * Bs
  BY <1>2
<1>12. free' \in Nat /\ free' * Bs >= owed(todo \ {p})
  BY <1>2, <1>4, <1>6, <1>8, <1>9, <1>10, <1>11
<1>13. TypeOK'
  BY <1>1, <1>10, <1>12 DEF TypeOK
<1> QED BY <1>1, <1>7, <1>10, <1>12, <1>13

LEMMA WriteGraftKeeps == ASSUME IInv, WriteGraft PROVE IInv'
<1>1. PICK f \in todo \cap Grafts, m \in 0 .. Meta : Take(f, Blocks(size[f]) + m)
  BY DEF WriteGraft
<1>2. /\ size \in [Grafts -> Nat] /\ todo \subseteq Grafts \cup Policies
      /\ Bs \in Nat \ {0} /\ Meta \in Nat /\ m \in Nat /\ m <= Meta
  <2>1. size \in [Grafts -> Nat] /\ todo \subseteq Grafts \cup Policies
    BY HeadroomAssumption DEF IInv, TypeOK
  <2> QED BY <2>1, HeadroomAssumption
<1>3. size[f] \in Nat
  BY <1>2
<1> DEFINE b == Blocks(size[f])
           rest == Bytes((todo \cap Grafts) \ {f})
           r == Reserve(todo \ {f})
<1>4. b \in Nat /\ b * Bs < size[f] + Bs
  BY <1>3, BlocksOf
<1>5. Bytes(todo \cap Grafts) = size[f] + rest /\ rest \in Nat
      /\ (todo \ {f}) \cap Grafts = (todo \cap Grafts) \ {f}
  <2>1. todo \cap Grafts \in SUBSET Grafts /\ (todo \cap Grafts) \ {f} \in SUBSET Grafts
    OBVIOUS
  <2> QED BY <1>2, <2>1, BytesOf
<1>6. r + (1 + Meta) <= Reserve(todo) /\ r \in Nat /\ Reserve(todo) \in Nat
  <2>1. todo \in SUBSET (Grafts \cup Policies) /\ todo \ {f} \in SUBSET (Grafts \cup Policies)
    BY <1>2
  <2>2. r \in Nat /\ Reserve(todo) \in Nat
    BY <2>1, ReserveOf
  <2>3. r + 1 + Meta <= Reserve(todo)
    BY <2>1, ReserveOf
  <2> HIDE DEF r
  <2> QED BY <1>2, <2>2, <2>3
<1> HIDE DEF b, rest, r
<1>7. (b + m) * Bs <= size[f] + Bs * (1 + Meta)
  <2>1. (b + m) * Bs = b * Bs + m * Bs /\ Bs * (1 + Meta) = Bs + Meta * Bs
    BY <1>2, <1>4
  <2>2. m * Bs <= Meta * Bs
    BY <1>2, TimesMonotone
  <2>3. b * Bs \in Int /\ m * Bs \in Int /\ Meta * Bs \in Int
    BY <1>2, <1>4
  <2> QED BY <1>2, <1>3, <1>4, <2>1, <2>2, <2>3
<1>8. Bs * r + Bs * (1 + Meta) <= Bs * Reserve(todo)
  <2>1. (r + (1 + Meta)) * Bs <= Reserve(todo) * Bs
    BY <1>2, <1>6, TimesMonotone
  <2>2. (r + (1 + Meta)) * Bs = Bs * r + Bs * (1 + Meta)
    BY <1>2, <1>6
  <2>3. Reserve(todo) * Bs = Bs * Reserve(todo)
    BY <1>2, <1>6
  <2> QED BY <2>1, <2>2, <2>3
<1>9. rest + Bs * r + (b + m) * Bs <= (size[f] + rest) + Bs * Reserve(todo)
  <2>1. Bs * r \in Int /\ (b + m) * Bs \in Int /\ Bs * (1 + Meta) \in Int /\ Bs * Reserve(todo) \in Int
    BY <1>2, <1>4, <1>6
  <2> QED BY <1>3, <1>5, <1>7, <1>8, <2>1
<1>10. b + m \in Nat
  BY <1>2, <1>4
<1>11. pc = "write" /\ f \in todo
  BY DEF WriteGraft
<1> QED BY <1>1, <1>5, <1>9, <1>10, <1>11, TakeKeeps DEF b, rest, r

LEMMA WritePolicyKeeps == ASSUME IInv, WritePolicy PROVE IInv'
<1>1. PICK p \in todo, g \in 0 .. Growth : Take(p, g)
  BY DEF WritePolicy
<1>2. /\ todo \subseteq Grafts \cup Policies /\ todo \cap Grafts = {}
      /\ Bs \in Nat \ {0} /\ Growth \in Nat /\ g \in Nat /\ g <= Growth /\ pc = "write"
  BY HeadroomAssumption DEF IInv, TypeOK, WritePolicy
<1> DEFINE r == Reserve(todo \ {p})
           rest == Bytes(todo \cap Grafts)
<1>3. r + Growth <= Reserve(todo) /\ r \in Nat /\ Reserve(todo) \in Nat
  <2>1. todo \in SUBSET (Grafts \cup Policies) /\ todo \ {p} \in SUBSET (Grafts \cup Policies)
        /\ p \in todo \cap Policies
    BY <1>2
  <2> QED BY <2>1, ReserveOf
<1>4. (todo \ {p}) \cap Grafts = todo \cap Grafts
  BY <1>2
<1>5. rest \in Nat
  <2>1. size \in [Grafts -> Nat] /\ todo \cap Grafts \in SUBSET Grafts
    BY HeadroomAssumption DEF IInv, TypeOK
  <2> QED BY <2>1, BytesOf
<1> HIDE DEF r, rest
<1>6. Bs * r + g * Bs <= Bs * Reserve(todo)
  <2>1. (r + g) * Bs <= Reserve(todo) * Bs
    BY <1>2, <1>3, TimesMonotone
  <2>2. (r + g) * Bs = Bs * r + g * Bs /\ Reserve(todo) * Bs = Bs * Reserve(todo)
    BY <1>2, <1>3
  <2> QED BY <2>1, <2>2
<1>7. rest + Bs * r + g * Bs <= rest + Bs * Reserve(todo)
  <2>1. Bs * r \in Int /\ g * Bs \in Int /\ Bs * Reserve(todo) \in Int
    BY <1>2, <1>3
  <2> QED BY <1>5, <1>6, <2>1
<1> QED BY <1>1, <1>2, <1>4, <1>7, TakeKeeps DEF r, rest

LEMMA AlwaysIInv == Spec => []IInv
<1>1. ASSUME IInv, ResizeFails PROVE IInv'
  BY <1>1 DEF ResizeFails, IInv, TypeOK
<1>2. ASSUME IInv, UNCHANGED vars PROVE IInv'
  <2>1. /\ pc' = pc /\ size' = size /\ count' = count /\ free' = free
        /\ todo' = todo /\ cut' = cut
    BY <1>2 DEF vars
  <2>2. Ledger' = Ledger
    BY <2>1, BytesKept, BytesDef DEF Ledger, Reserve
  <2> QED BY <1>2, <2>1, <2>2 DEF IInv, TypeOK
<1>3. IInv /\ [Next]_vars => IInv'
  BY <1>1, <1>2, EnsureHeadroomKeeps, WriteGraftKeeps, WritePolicyKeeps DEF Next
<1> QED BY InitIInv, <1>3, PTL DEF Spec

\* The ledger's variables have the types TypeOK says, with any bounds.
THEOREM HeadroomTypeCorrect == Spec => []TypeOK
<1>1. IInv => TypeOK
  BY DEF IInv
<1> QED BY <1>1, AlwaysIInv, PTL

\* For every set of files of any sizes, every block size and every image, as
\* long as the slack covers what it is for: no write of the graft is cut short.
THEOREM NeverTruncated == Spec => []NeverTruncates
<1>1. IInv => NeverTruncates
  BY DEF IInv, NeverTruncates
<1> QED BY <1>1, AlwaysIInv, PTL

\* The free blocks hold what is still to be grafted, at every point of the graft.
THEOREM BudgetAlwaysHolds == Spec => []BudgetHolds
<1>1. ASSUME IInv PROVE BudgetHolds
  <2>1. SUFFICES ASSUME pc = "write" PROVE free * Bs >= Bytes(todo \cap Grafts)
    BY DEF BudgetHolds
  <2>2. size \in [Grafts -> Nat] /\ todo \in SUBSET (Grafts \cup Policies)
        /\ Bs \in Nat /\ free \in Nat
    BY <1>1, HeadroomAssumption DEF IInv, TypeOK
  <2>3. Bytes(todo \cap Grafts) \in Nat
    <3>1. todo \cap Grafts \in SUBSET Grafts
      OBVIOUS
    <3> QED BY <2>2, <3>1, BytesOf
  <2>4. Bs * Reserve(todo) \in Nat /\ free * Bs \in Nat
    <3>1. Reserve(todo) \in Nat
      BY <2>2, ReserveOf
    <3> QED BY <2>2, <3>1
  <2>5. free * Bs >= Bytes(todo \cap Grafts) + Bs * Reserve(todo)
    BY <1>1, <2>1 DEF IInv, Ledger
  <2> QED BY <2>3, <2>4, <2>5
<1> QED BY <1>1, AlwaysIInv, PTL
=============================================================================
