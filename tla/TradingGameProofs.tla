------------------------- MODULE TradingGameProofs -------------------------
(* What TradingGame promises, proved for any instruments, quotes, number   *)
(* of positions and overlapping fetches.                                   *)
EXTENDS TradingGame, FiniteSetTheorems, WellFoundedInduction, TLAPS

UniqueIds ==
    /\ \A p \in activePositions : p.id \in 1..opened
    /\ \A p, q \in activePositions : p.id = q.id => p = q

(* Every open position is subscribed, and nothing else is.                 *)
Subscribed == subscriptions = {p.id : p \in activePositions}

GameInv ==
    /\ GameTypeOK
    /\ IsFiniteSet(activePositions)
    /\ UniqueIds
    /\ Subscribed
    /\ MarksAreCurrent
    /\ PositionsMatchFills

-----------------------------------------------------------------------------
(* The helpers.                                                            *)

LEMMA QuoteType ==
    ASSUME NEW q \in Quotes
    PROVE  /\ IsPrice(q.bid) => q.bid \in Nat
           /\ IsPrice(q.ask) => q.ask \in Nat
  BY ChainAssumption DEF IsPrice

LEMMA MarkType ==
    ASSUME NEW q \in Quotes \cup {NoQuote}, Marks(q)
    PROVE  MarkOf(q) \in Nat
  <1>1. q \in Quotes /\ q.bid \in Nat
    BY QuoteType DEF Marks
  <1>2. CASE q.bid > 0
    BY <1>1, <1>2 DEF MarkOf
  <1>3. CASE ~(q.bid > 0)
    <2>1. q.ask \in Nat
      BY <1>1, <1>3, QuoteType DEF Marks
    <2>2. (q.ask + q.bid) \div 2 \in Nat
      BY <1>1, <2>1
    <2> QED
      BY <1>3, <2>2 DEF MarkOf
  <1> QED
    BY <1>2, <1>3

LEMMA RemarkType ==
    ASSUME NEW q \in Quotes \cup {NoQuote}, NEW mark \in Nat
    PROVE  Remark(mark, q) \in Nat
  BY MarkType DEF Remark

LEMMA SmallestNat ==
    ASSUME NEW N, N \subseteq Nat, N # {}
    PROVE  \E n \in N : \A m \in N : n <= m
  <1> DEFINE R == OpToRel(<, Nat)
  <1>1. IsWellFoundedOn(R, Nat)
    BY NatLessThanWellFounded
  <1>2. R = {ss \in Nat \X Nat : ss[1] < ss[2]}
    BY DEF OpToRel
  <1> HIDE DEF R
  <1>3. PICK n \in N : \A m \in N : <<m, n>> \notin R
    BY <1>1, WFMin
  <1>4. \A m \in N : n <= m
    <2> SUFFICES ASSUME NEW m \in N PROVE n <= m
      OBVIOUS
    <2>1. ~(m < n)
      BY <1>2, <1>3
    <2> QED
      BY <2>1
  <1> QED
    BY <1>4

(* Of any open positions one is the earliest.                              *)
LEMMA EarliestIsOne ==
    ASSUME NEW S, S \subseteq Active, S # {}
    PROVE  Earliest(S) \in S
  <1> DEFINE ids == {p.id : p \in S}
  <1>1. ids \subseteq Nat /\ ids # {}
    BY DEF Active
  <1>2. PICK n \in ids : \A m \in ids : n <= m
    <2> HIDE DEF ids
    <2> QED
      BY <1>1, SmallestNat
  <1>3. PICK p \in S : p.id = n
    BY <1>2
  <1>4. \A q \in S : p.id <= q.id
    BY <1>2, <1>3
  <1> QED
    BY <1>4 DEF Earliest

(* Counting the positions on an instrument.                                *)
LEMMA CountAdd ==
    ASSUME NEW S, IsFiniteSet(S), NEW x, x \notin S, NEW i
    PROVE  Cardinality(On(i, S \cup {x})) =
               Cardinality(On(i, S)) + (IF x.instrument = i THEN 1 ELSE 0)
  <1>1. IsFiniteSet(On(i, S)) /\ Cardinality(On(i, S)) \in Nat
    BY FS_Subset, FS_CardinalityType DEF On
  <1>2. On(i, S \cup {x}) = IF x.instrument = i THEN On(i, S) \cup {x} ELSE On(i, S)
    BY DEF On
  <1>3. x \notin On(i, S)
    BY DEF On
  <1>4. Cardinality(On(i, S) \cup {x}) = Cardinality(On(i, S)) + 1
    BY <1>1, <1>3, FS_AddElement
  <1> QED
    BY <1>1, <1>2, <1>4

LEMMA CountRemove ==
    ASSUME NEW S, IsFiniteSet(S), NEW x \in S, NEW i
    PROVE  Cardinality(On(i, S \ {x})) =
               Cardinality(On(i, S)) - (IF x.instrument = i THEN 1 ELSE 0)
  <1>1. IsFiniteSet(On(i, S)) /\ Cardinality(On(i, S)) \in Nat
    BY FS_Subset, FS_CardinalityType DEF On
  <1>2. On(i, S \ {x}) = IF x.instrument = i THEN On(i, S) \ {x} ELSE On(i, S)
    BY DEF On
  <1>3. x.instrument = i => x \in On(i, S)
    BY DEF On
  <1>4. x.instrument = i => Cardinality(On(i, S) \ {x}) = Cardinality(On(i, S)) - 1
    BY <1>1, <1>3, FS_RemoveElement
  <1> QED
    BY <1>1, <1>2, <1>4

-----------------------------------------------------------------------------
(* Sums, as SumFunction computes them: element by element, in some order.  *)

Pick(s) == CHOOSE x \in s : TRUE

IsSum(g, w, S) ==
    g = [s \in SUBSET S |-> IF s = {} THEN 0 ELSE w[Pick(s)] + g[s \ {Pick(s)}]]

Sums(w, S) == CHOOSE g : IsSum(g, w, S)

LEMMA SumFunctionIs ==
    ASSUME NEW w PROVE SumFunction(w) = Sums(w, DOMAIN w)[DOMAIN w]
  BY DEF SumFunction, SumFunctionOnSet, FoldFunctionOnSet, MapThenFoldSet, Sums, IsSum, Pick

(* Of some subsets of a finite set one has none of them inside.            *)
LEMMA SmallestSubset ==
    ASSUME NEW S, IsFiniteSet(S), NEW Some, Some \subseteq SUBSET S, Some # {}
    PROVE  \E s \in Some : \A x \in s : s \ {x} \notin Some
  <1> DEFINE N == {Cardinality(s) : s \in Some}
  <1>1. \A s \in Some : IsFiniteSet(s) /\ Cardinality(s) \in Nat
    BY FS_Subset, FS_CardinalityType
  <1>2. PICK n \in N : \A m \in N : n <= m
    <2>1. N \subseteq Nat /\ N # {}
      BY <1>1
    <2> HIDE DEF N
    <2> QED
      BY <2>1, SmallestNat
  <1>3. PICK s \in Some : Cardinality(s) = n
    BY <1>2
  <1>4. ASSUME NEW x \in s, s \ {x} \in Some PROVE FALSE
    <2>1. Cardinality(s \ {x}) = Cardinality(s) - 1
      BY <1>1, FS_RemoveElement
    <2>2. n <= Cardinality(s \ {x})
      BY <1>2, <1>4
    <2> QED
      BY <1>1, <1>3, <2>1, <2>2
  <1> QED
    BY <1>4

LEMMA SumExists ==
    ASSUME NEW S, IsFiniteSet(S), NEW w
    PROVE  \E g : IsSum(g, w, S)
  <1> DEFINE Upto(n) == {s \in SUBSET S : Cardinality(s) <= n}
             Is(g, n) == g = [s \in Upto(n) |->
                                IF s = {} THEN 0 ELSE w[Pick(s)] + g[s \ {Pick(s)}]]
             N == {n \in Nat : ~\E g : Is(g, n)}
  <1>1. \A s \in SUBSET S : IsFiniteSet(s) /\ Cardinality(s) \in Nat
    BY FS_Subset, FS_CardinalityType
  <1>2. ASSUME N # {} PROVE FALSE
    <2>1. PICK n \in N : \A m \in N : n <= m
      <3>1. N \subseteq Nat
        OBVIOUS
      <3> HIDE DEF N
      <3> QED
        BY <1>2, <3>1, SmallestNat
    <2>2. CASE n = 0
      <3>1. Upto(0) = {{}}
        <4>1. Cardinality({}) = 0
          BY FS_EmptySet
        <4>2. \A s \in SUBSET S : Cardinality(s) <= 0 => s = {}
          BY <1>1, FS_EmptySet
        <4> QED
          BY <4>1, <4>2
      <3> DEFINE g == [s \in {{}} |-> 0]
      <3>2. Is(g, n)
        BY <2>2, <3>1
      <3>3. ~\E f : Is(f, n)
        BY <2>1
      <3> HIDE DEF g, Is
      <3> QED
        BY <3>2, <3>3
    <2>3. CASE n # 0
      <3>1. n \in Nat /\ n - 1 \in Nat /\ n - 1 \notin N
        <4>1. n \in Nat
          BY <2>1
        <4> HIDE DEF N
        <4> QED
          BY <2>1, <2>3, <4>1
      <3>2. PICK g : Is(g, n - 1)
        BY <3>1
      <3> DEFINE h == [s \in Upto(n) |->
                          IF s = {} THEN 0 ELSE w[Pick(s)] + g[s \ {Pick(s)}]]
      <3>3. \A s \in Upto(n) : s # {} => Pick(s) \in s /\ s \ {Pick(s)} \in Upto(n - 1)
        <4> SUFFICES ASSUME NEW s \in Upto(n), s # {}
                     PROVE  Pick(s) \in s /\ s \ {Pick(s)} \in Upto(n - 1)
          OBVIOUS
        <4>1. Pick(s) \in s
          BY DEF Pick
        <4>2. IsFiniteSet(s) /\ Cardinality(s) \in Nat /\ Cardinality(s) <= n
          BY <1>1
        <4>3. Cardinality(s \ {Pick(s)}) = Cardinality(s) - 1
          BY <4>1, <4>2, FS_RemoveElement
        <4>4. Cardinality(s \ {Pick(s)}) <= n - 1
          BY <3>1, <4>2, <4>3
        <4> QED
          BY <4>1, <4>4
      <3>4. \A t \in Upto(n - 1) : t \in Upto(n) /\ h[t] = g[t]
        <4> SUFFICES ASSUME NEW t \in Upto(n - 1) PROVE t \in Upto(n) /\ h[t] = g[t]
          OBVIOUS
        <4>1. t \in SUBSET S /\ Cardinality(t) <= n
          BY <1>1, <3>1
        <4>2. g[t] = IF t = {} THEN 0 ELSE w[Pick(t)] + g[t \ {Pick(t)}]
          BY <3>2
        <4> QED
          BY <4>1, <4>2
      <3>5. \A s \in Upto(n) :
               h[s] = IF s = {} THEN 0 ELSE w[Pick(s)] + h[s \ {Pick(s)}]
        BY <3>3, <3>4
      <3>6. Is(h, n)
        BY <3>5
      <3> QED
        BY <2>1, <3>6
    <2> QED
      BY <2>2, <2>3
  <1>3. Cardinality(S) \in Nat /\ Upto(Cardinality(S)) = SUBSET S
    BY <1>1, FS_Subset
  <1>4. PICK g : Is(g, Cardinality(S))
    BY <1>2, <1>3
  <1>5. IsSum(g, w, S)
    BY <1>3, <1>4 DEF IsSum
  <1> QED
    BY <1>5

Weighs(w, S) == \A x \in S : w[x] \in Int

(* Element by element, in any order.                                       *)
Adds(g, w, S) ==
    /\ g \in [SUBSET S -> Int]
    /\ g[{}] = 0
    /\ \A s \in SUBSET S : \A x \in s : g[s] = w[x] + g[s \ {x}]

(* The order in which the elements are added does not matter.              *)
LEMMA SumsFacts ==
    ASSUME NEW S, IsFiniteSet(S), NEW w, Weighs(w, S)
    PROVE  Adds(Sums(w, S), w, S)
  <1> DEFINE G == Sums(w, S)
  <1>1. IsSum(G, w, S)
    BY SumExists DEF Sums
  <1> HIDE DEF G
  <1>2. /\ G = [s \in SUBSET S |-> G[s]]
        /\ \A s \in SUBSET S : G[s] = IF s = {} THEN 0 ELSE w[Pick(s)] + G[s \ {Pick(s)}]
    BY <1>1 DEF IsSum
  <1>3. \A s \in SUBSET S : s # {} => Pick(s) \in s
    BY DEF Pick
  <1>w. \A x \in S : w[x] \in Int
    BY DEF Weighs
  <1>z. G[{}] = 0
    BY <1>2
  <1>4. \A s \in SUBSET S : G[s] \in Int
    <2> DEFINE Some == {s \in SUBSET S : G[s] \notin Int}
    <2> SUFFICES ASSUME Some # {} PROVE FALSE
      OBVIOUS
    <2>1. PICK s \in Some : \A x \in s : s \ {x} \notin Some
      <3>1. Some \subseteq SUBSET S
        OBVIOUS
      <3> HIDE DEF Some
      <3> QED
        BY <3>1, SmallestSubset
    <2>2. s # {}
      <3>1. G[s] \notin Int
        BY <2>1
      <3> HIDE DEF Some
      <3> QED
        BY <1>z, <3>1
    <2>3. Pick(s) \in s /\ w[Pick(s)] \in Int /\ G[s \ {Pick(s)}] \in Int
      BY <1>3, <1>w, <2>1, <2>2
    <2>4. G[s] = w[Pick(s)] + G[s \ {Pick(s)}]
      BY <1>2, <2>1, <2>2
    <2> QED
      BY <2>1, <2>3, <2>4
  <1>5. \A s \in SUBSET S : \A x \in s : G[s] = w[x] + G[s \ {x}]
    <2> DEFINE Some == {s \in SUBSET S : \E x \in s : G[s] # w[x] + G[s \ {x}]}
    <2> SUFFICES ASSUME Some # {} PROVE FALSE
      OBVIOUS
    <2>1. PICK s \in Some : \A x \in s : s \ {x} \notin Some
      <3>1. Some \subseteq SUBSET S
        OBVIOUS
      <3> HIDE DEF Some
      <3> QED
        BY <3>1, SmallestSubset
    <2>2. PICK x \in s : G[s] # w[x] + G[s \ {x}]
      BY <2>1
    <2> DEFINE p == Pick(s)
    <2>3. s \in SUBSET S /\ p \in s /\ G[s] = w[p] + G[s \ {p}]
      BY <1>2, <1>3, <2>1, <2>2
    <2> HIDE DEF p
    <2>4. p # x
      BY <2>2, <2>3
    <2>5. s \ {p} \in SUBSET S /\ s \ {x} \in SUBSET S /\ x \in s \ {p} /\ p \in s \ {x}
      BY <2>2, <2>3, <2>4
    <2>6. G[s \ {p}] = w[x] + G[(s \ {p}) \ {x}] /\ G[s \ {x}] = w[p] + G[(s \ {x}) \ {p}]
      BY <2>1, <2>2, <2>3, <2>5
    <2> DEFINE rest == (s \ {p}) \ {x}
    <2>7. (s \ {x}) \ {p} = rest /\ rest \in SUBSET S
      BY <2>3
    <2>8. w[x] \in Int /\ w[p] \in Int /\ G[rest] \in Int
      BY <1>4, <1>w, <2>2, <2>3, <2>7
    <2>9. G[s \ {p}] = w[x] + G[rest] /\ G[s \ {x}] = w[p] + G[rest]
      BY <2>6, <2>7
    <2> HIDE DEF rest, Some
    <2> QED
      BY <2>2, <2>3, <2>8, <2>9
  <1>6. G \in [SUBSET S -> Int]
    BY <1>2, <1>4
  <1>7. Adds(G, w, S)
    BY <1>z, <1>5, <1>6 DEF Adds
  <1> QED
    BY <1>7 DEF G

(* Functions of the subsets that grow alike are alike.                     *)
GrowAlike(A, B, S) ==
    /\ A[{}] = B[{}]
    /\ \A s \in SUBSET S : s # {} =>
          \E x \in s : A[s \ {x}] = B[s \ {x}] => A[s] = B[s]

LEMMA SumsAgree ==
    ASSUME NEW S, IsFiniteSet(S), NEW A, NEW B, GrowAlike(A, B, S)
    PROVE  A[S] = B[S]
  <1> DEFINE Some == {s \in SUBSET S : A[s] # B[s]}
  <1> SUFFICES ASSUME Some # {} PROVE FALSE
    OBVIOUS
  <1>1. PICK s \in Some : \A x \in s : s \ {x} \notin Some
    <2>1. Some \subseteq SUBSET S
      OBVIOUS
    <2> HIDE DEF Some
    <2> QED
      BY <2>1, SmallestSubset
  <1>2. s # {}
    BY <1>1 DEF GrowAlike
  <1>3. PICK x \in s : A[s \ {x}] = B[s \ {x}] => A[s] = B[s]
    BY <1>1, <1>2 DEF GrowAlike
  <1> QED
    BY <1>1, <1>3

LEMMA SumAdd ==
    ASSUME NEW S, IsFiniteSet(S), NEW x, x \notin S, NEW w, NEW v,
           Weighs(w, S \cup {x}), \A y \in S : v[y] = w[y]
    PROVE  /\ Sums(w, S \cup {x})[S \cup {x}] = Sums(v, S)[S] + w[x]
           /\ Sums(v, S)[S] \in Int
  <1> DEFINE T == S \cup {x}
             G == Sums(w, T)
             H == Sums(v, S)
  <1>1. IsFiniteSet(T)
    BY FS_AddElement
  <1>2. Adds(G, w, T)
    <2>1. Weighs(w, T)
      OBVIOUS
    <2> HIDE DEF T
    <2> QED
      BY <1>1, <2>1, SumsFacts
  <1>3. Weighs(v, S) /\ w[x] \in Int
    BY DEF Weighs
  <1>4. Adds(H, v, S)
    BY <1>3, SumsFacts
  <1> HIDE DEF G, H
  <1>5. GrowAlike(G, H, S)
    <2>1. ASSUME NEW s \in SUBSET S, s # {}
          PROVE  \E y \in s : G[s \ {y}] = H[s \ {y}] => G[s] = H[s]
      <3>1. PICK y \in s : TRUE
        BY <2>1
      <3>2. G[s] = w[y] + G[s \ {y}] /\ H[s] = v[y] + H[s \ {y}] /\ v[y] = w[y]
        BY <1>2, <1>4, <3>1 DEF Adds
      <3> QED
        BY <3>1, <3>2
    <2> QED
      BY <1>2, <1>4, <2>1 DEF Adds, GrowAlike
  <1>6. G[S] = H[S]
    BY <1>5, SumsAgree
  <1>7. T \ {x} = S /\ x \in T /\ T \in SUBSET T
    OBVIOUS
  <1>8. G[T] = w[x] + G[S]
    BY <1>2, <1>7 DEF Adds
  <1>9. H[S] \in Int
    BY <1>4 DEF Adds
  <1>10. G[T] = H[S] + w[x]
    <2> HIDE DEF T
    <2> QED
      BY <1>3, <1>6, <1>8, <1>9
  <1> QED
    BY <1>9, <1>10 DEF G, H

(* A sum stays when the elements are replaced one by one.                  *)
LEMMA SumMoved ==
    ASSUME NEW S, IsFiniteSet(S), NEW f, NEW w, NEW v, Weighs(w, S),
           \A x, y \in S : f[x] = f[y] => x = y,
           \A x \in S : v[f[x]] = w[x]
    PROVE  LET T == {f[x] : x \in S} IN Sums(v, T)[T] = Sums(w, S)[S]
  <1> DEFINE Image(s) == {f[x] : x \in s}
             T == Image(S)
             G == Sums(w, S)
             H == Sums(v, T)
             B == [s \in SUBSET S |-> H[Image(s)]]
  <1>1. IsFiniteSet(T)
    <2> DEFINE g == [x \in S |-> f[x]]
    <2>1. g \in Bijection(S, T)
      BY DEF Bijection, Injection, Surjection, IsInjective
    <2>2. ExistsBijection(S, T)
      BY <2>1 DEF ExistsBijection
    <2> HIDE DEF T
    <2> QED
      BY <2>2, FS_Bijection
  <1>2. Adds(G, w, S)
    BY SumsFacts
  <1>3. Adds(H, v, T)
    <2>1. Weighs(v, T)
      BY DEF Weighs
    <2> HIDE DEF T
    <2> QED
      BY <1>1, <2>1, SumsFacts
  <1> HIDE DEF G, H
  <1>4. ASSUME NEW s \in SUBSET S, s # {}
        PROVE  \E x \in s : G[s \ {x}] = B[s \ {x}] => G[s] = B[s]
    <2>1. PICK x \in s : TRUE
      BY <1>4
    <2>2. Image(s) \in SUBSET T /\ f[x] \in Image(s)
      BY <2>1
    <2>3. Image(s \ {x}) = Image(s) \ {f[x]}
      BY <2>1
    <2>4. G[s] = w[x] + G[s \ {x}] /\ v[f[x]] = w[x]
      BY <1>2, <2>1 DEF Adds
    <2>5. H[Image(s)] = v[f[x]] + H[Image(s) \ {f[x]}]
      <3> HIDE DEF Image, T
      <3> QED
        BY <1>3, <2>2 DEF Adds
    <2>6. B[s] = H[Image(s)] /\ B[s \ {x}] = H[Image(s \ {x})]
      BY <2>1
    <2> HIDE DEF Image, B
    <2> QED
      BY <2>1, <2>3, <2>4, <2>5, <2>6
  <1>5. G[{}] = B[{}]
    <2>1. Image({}) = {}
      OBVIOUS
    <2>2. B[{}] = H[Image({})]
      OBVIOUS
    <2> HIDE DEF Image, B, T
    <2> QED
      BY <1>2, <1>3, <2>1, <2>2 DEF Adds
  <1>6. GrowAlike(G, B, S)
    <2> HIDE DEF B
    <2> QED
      BY <1>4, <1>5 DEF GrowAlike
  <1>7. G[S] = B[S]
    <2> HIDE DEF B
    <2> QED
      BY <1>6, SumsAgree
  <1>8. B[S] = H[T]
    OBVIOUS
  <1> QED
    BY <1>7, <1>8 DEF G, H

-----------------------------------------------------------------------------
(* The steps of the market data.                                           *)

LEMMA ChainSteps ==
    ASSUME ChainTypeOK,
           \/ UNCHANGED chainVars
           \/ Move
           \/ \E s \in Slots : Fetching(s) \/ Publish(s)
    PROVE  ChainTypeOK'
  <1>1. CASE UNCHANGED chainVars
    BY <1>1 DEF ChainTypeOK, chainVars, worldVars, fetchVars
  <1>2. CASE Move
    <2>1. moves' \in 0..MaxMoves
      BY <1>2, ChainAssumption DEF Move, ChainTypeOK
    <2> QED
      BY <1>2, <2>1 DEF Move, ChainTypeOK, Quoted, fetchVars
  <1>3. ASSUME NEW s \in Slots, Tick(s) PROVE ChainTypeOK'
    BY <1>3 DEF Tick, ChainTypeOK, worldVars
  <1>4. ASSUME NEW s \in Slots, NEW batch \in SUBSET Instruments, ReadBatch(s, batch)
        PROVE  ChainTypeOK'
    <2>1. answer' \in [Slots -> Quoted]
      BY <1>4 DEF ReadBatch, ChainTypeOK, Quoted
    <2> QED
      BY <1>4, <2>1 DEF ReadBatch, ChainTypeOK, worldVars
  <1>5. ASSUME NEW s \in Slots, Publish(s) PROVE ChainTypeOK'
    <2>1. Empty \in Quoted
      BY DEF Empty, Quoted
    <2>2. market' \in Quoted /\ FetchEnds(s) /\ UNCHANGED worldVars
      BY <1>5, <2>1 DEF Publish, Apply, FetchFails, Replaced, ChainTypeOK
    <2> QED
      BY <2>1, <2>2 DEF FetchEnds, ChainTypeOK, worldVars
  <1> QED
    BY <1>1, <1>2, <1>3, <1>4, <1>5 DEF Fetching

-----------------------------------------------------------------------------
(* The invariant.                                                          *)

LEMMA InitGameInv == Init => GameInv
  <1> SUFFICES ASSUME Init PROVE GameInv
    OBVIOUS
  <1>1. ChainTypeOK
    BY ChainAssumption DEF Init, InitChain, ChainTypeOK, Quoted, Empty
  <1>2. GameTypeOK
    BY <1>1, GameAssumption DEF Init, Fresh, GameTypeOK
  <1>3. IsFiniteSet(activePositions)
    BY FS_EmptySet DEF Init, Fresh
  <1>4. UniqueIds /\ Subscribed /\ MarksAreCurrent
    BY DEF Init, Fresh, UniqueIds, Subscribed, MarksAreCurrent
  <1>5. PositionsMatchFills
    <2>1. \A i \in Instruments : On(i, activePositions) = {}
      BY DEF Init, Fresh, On
    <2> QED
      BY <2>1, FS_EmptySet DEF Init, Fresh, PositionsMatchFills
  <1> QED
    BY <1>2, <1>3, <1>4, <1>5 DEF GameInv

LEMMA OpenPositionInv ==
    ASSUME GameInv, NEW i \in Instruments, OpenPosition(i)
    PROVE  GameInv'
  <1> DEFINE q == Quote(i)
             id == opened + 1
             p == [id |-> id, instrument |-> i, entry |-> q.ask, mark |-> Remark(q.ask, q)]
  <1>1. /\ opened \in Nat /\ opened < MaxPositions
        /\ opened' = id /\ activePositions' = activePositions \cup {p}
        /\ subscriptions' = subscriptions \cup {id}
        /\ cash' = cash - q.ask /\ held' = [held EXCEPT ![i] = @ + 1]
        /\ UNCHANGED <<chainVars, closedPositions>>
    BY DEF OpenPosition, GameInv, GameTypeOK
  <1>2. q \in Quotes /\ q.ask \in Nat
    BY QuoteType DEF OpenPosition, GameInv, GameTypeOK, ChainTypeOK, Quoted, Quote
  <1>3. p \in Active
    BY <1>1, <1>2, RemarkType DEF Active
  <1>4. p \notin activePositions /\ \A r \in activePositions : r.id # id
    BY <1>1 DEF GameInv, UniqueIds
  <1>5. ChainTypeOK'
    BY <1>1, ChainSteps DEF GameInv, GameTypeOK
  <1>6. market' = market
    BY <1>1 DEF chainVars
  <1>7. GameTypeOK'
    <2>1. opened' \in 0..MaxPositions /\ 1..opened \subseteq 1..opened' /\ id \in 1..opened'
      BY <1>1, GameAssumption
    <2>2. cash' \in Int /\ held' \in [Instruments -> Int]
      BY <1>1, <1>2 DEF GameInv, GameTypeOK
    <2>3. activePositions' \subseteq Active /\ closedPositions' \subseteq Sold
      BY <1>1, <1>3 DEF GameInv, GameTypeOK
    <2>4. subscriptions' \subseteq 1..opened'
      BY <1>1, <2>1 DEF GameInv, GameTypeOK
    <2> QED
      BY <1>5, <2>1, <2>2, <2>3, <2>4 DEF GameTypeOK
  <1>8. IsFiniteSet(activePositions')
    BY <1>1, FS_AddElement DEF GameInv
  <1>9. UniqueIds' /\ Subscribed'
    BY <1>1, <1>4 DEF GameInv, UniqueIds, Subscribed
  <1>10. MarksAreCurrent'
    BY <1>1, <1>6 DEF GameInv, MarksAreCurrent, Remark, Quote
  <1>11. PositionsMatchFills'
    <2>1. SUFFICES ASSUME NEW j \in Instruments
                   PROVE  Cardinality(On(j, activePositions')) = held'[j]
      BY DEF PositionsMatchFills
    <2>2. Cardinality(On(j, activePositions)) = held[j]
      BY DEF GameInv, PositionsMatchFills
    <2>3. held' \in [Instruments -> Int] /\ held'[j] = held[j] + (IF i = j THEN 1 ELSE 0)
      BY <1>1 DEF GameInv, GameTypeOK
    <2>4. p.instrument = i
      OBVIOUS
    <2> HIDE DEF p
    <2> QED
      BY <1>1, <1>4, <2>2, <2>3, <2>4, CountAdd DEF GameInv
  <1> QED
    BY <1>7, <1>8, <1>9, <1>10, <1>11 DEF GameInv

LEMMA ClosePositionInv ==
    ASSUME GameInv, NEW p \in activePositions, ClosePosition(p)
    PROVE  GameInv'
  <1> DEFINE q == Quote(p.instrument)
             sold == Earliest(Matching(p))
             closed == [id |-> sold.id, instrument |-> sold.instrument,
                        entry |-> sold.entry, exit |-> q.bid]
  <1>1. /\ activePositions' = activePositions \ {sold}
        /\ closedPositions' = closedPositions \cup {closed}
        /\ subscriptions' = subscriptions \ {sold.id}
        /\ cash' = cash + q.bid /\ held' = [held EXCEPT ![p.instrument] = @ - 1]
        /\ UNCHANGED <<chainVars, opened>>
    BY DEF ClosePosition, Unsubscribed, ExitPrice
  <1>2. p \in Active /\ p.instrument \in Instruments
    BY DEF GameInv, GameTypeOK, Active
  <1>3. q \in Quotes /\ q.bid \in Nat
    BY <1>2, QuoteType DEF ClosePosition, GameInv, GameTypeOK, ChainTypeOK, Quoted, Quote
  <1>4. sold \in activePositions /\ sold \in Active /\ sold.instrument = p.instrument
    <2>1. Matching(p) \subseteq Active /\ Matching(p) # {}
      BY DEF Matching, On, GameInv, GameTypeOK
    <2>2. sold \in Matching(p)
      BY <2>1, EarliestIsOne
    <2> QED
      BY <2>1, <2>2 DEF Matching, On
  <1> HIDE DEF sold
  <1>5. ChainTypeOK' /\ market' = market
    BY <1>1, ChainSteps DEF GameInv, GameTypeOK, chainVars
  <1>6. GameTypeOK'
    <2>1. closed \in Sold
      BY <1>3, <1>4 DEF Sold, Active
    <2>2. cash' \in Int /\ held' \in [Instruments -> Int]
      BY <1>1, <1>2, <1>3 DEF GameInv, GameTypeOK
    <2> QED
      BY <1>1, <1>5, <2>1, <2>2 DEF GameInv, GameTypeOK
  <1>7. IsFiniteSet(activePositions')
    BY <1>1, FS_RemoveElement DEF GameInv
  <1>8. UniqueIds' /\ Subscribed'
    BY <1>1, <1>4 DEF GameInv, UniqueIds, Subscribed
  <1>9. MarksAreCurrent'
    BY <1>1, <1>5 DEF GameInv, MarksAreCurrent
  <1>10. PositionsMatchFills'
    <2>1. SUFFICES ASSUME NEW j \in Instruments
                   PROVE  Cardinality(On(j, activePositions')) = held'[j]
      BY DEF PositionsMatchFills
    <2>2. Cardinality(On(j, activePositions)) = held[j]
      BY DEF GameInv, PositionsMatchFills
    <2>3. held'[j] = held[j] - (IF sold.instrument = j THEN 1 ELSE 0)
      BY <1>1, <1>2, <1>4 DEF GameInv, GameTypeOK
    <2> QED
      BY <1>1, <1>4, <2>2, <2>3, CountRemove DEF GameInv
  <1> QED
    BY <1>6, <1>7, <1>8, <1>9, <1>10 DEF GameInv

LEMMA ResetInv ==
    ASSUME GameInv, Reset
    PROVE  GameInv'
  <1>1. ChainTypeOK'
    BY ChainSteps DEF GameInv, GameTypeOK, Reset
  <1>2. GameTypeOK'
    BY <1>1, GameAssumption DEF Reset, GameTypeOK
  <1>3. IsFiniteSet(activePositions')
    BY FS_EmptySet DEF Reset
  <1>4. UniqueIds' /\ Subscribed' /\ MarksAreCurrent'
    BY DEF Reset, UniqueIds, Subscribed, MarksAreCurrent
  <1>5. PositionsMatchFills'
    <2>1. \A i \in Instruments : On(i, activePositions') = {}
      BY DEF Reset, On
    <2> QED
      BY <2>1, FS_EmptySet DEF Reset, PositionsMatchFills
  <1> QED
    BY <1>2, <1>3, <1>4, <1>5 DEF GameInv

(* New market data changes the marks and nothing else of the positions.    *)
LEMMA UpdatedType ==
    ASSUME GameInv, ChainTypeOK', NEW p \in activePositions
    PROVE  /\ Updated(p) \in Active
           /\ Updated(p).id = p.id /\ Updated(p).instrument = p.instrument
           /\ Updated(p).mark = Remark(p.mark, market'[p.instrument])
  <1>1. p \in Active /\ p.instrument \in Instruments /\ p.id \in subscriptions
    BY DEF GameInv, GameTypeOK, Active, Subscribed
  <1>2. market'[p.instrument] \in Quotes \cup {NoQuote}
    BY <1>1 DEF ChainTypeOK, Quoted
  <1>3. Remark(p.mark, market'[p.instrument]) \in Nat
    BY <1>1, <1>2, RemarkType DEF Active
  <1>4. Updated(p) = [p EXCEPT !.mark = Remark(p.mark, market'[p.instrument])]
    BY <1>1 DEF Updated
  <1> QED
    BY <1>1, <1>3, <1>4 DEF Active

LEMMA MarketDataInv ==
    ASSUME GameInv, NEW s \in Slots, MarketData(s)
    PROVE  GameInv'
  <1>1. ChainTypeOK'
    BY ChainSteps DEF GameInv, GameTypeOK, MarketData
  <1>2. /\ activePositions' = {Updated(p) : p \in activePositions}
        /\ UNCHANGED <<opened, closedPositions, subscriptions, historyVars>>
    BY DEF MarketData
  <1>3. \A p \in activePositions :
           /\ Updated(p) \in Active
           /\ Updated(p).id = p.id /\ Updated(p).instrument = p.instrument
           /\ Updated(p).mark = Remark(p.mark, market'[p.instrument])
    BY <1>1, UpdatedType
  <1>4. GameTypeOK'
    BY <1>1, <1>2, <1>3 DEF GameInv, GameTypeOK, historyVars
  <1>5. UniqueIds' /\ Subscribed'
    BY <1>2, <1>3 DEF GameInv, UniqueIds, Subscribed
  <1>6. MarksAreCurrent'
    BY <1>2, <1>3 DEF MarksAreCurrent, Remark
  <1>7. ASSUME NEW S \in SUBSET activePositions
        PROVE  LET T == {Updated(p) : p \in S}
               IN  IsFiniteSet(T) /\ Cardinality(T) = Cardinality(S)
    <2> DEFINE T == {Updated(p) : p \in S}
               f == [p \in S |-> Updated(p)]
    <2>1. IsFiniteSet(S)
      BY FS_Subset DEF GameInv
    <2>2. \A p, q \in S : f[p] = f[q] => p = q
      BY <1>3 DEF GameInv, UniqueIds
    <2>3. f \in Bijection(S, T)
      BY <2>2 DEF Bijection, Injection, Surjection, IsInjective
    <2>4. ExistsBijection(S, T)
      BY <2>3 DEF ExistsBijection
    <2> QED
      BY <2>1, <2>4, FS_Bijection
  <1>8. IsFiniteSet(activePositions')
    BY <1>2, <1>7
  <1>9. PositionsMatchFills'
    <2>1. SUFFICES ASSUME NEW i \in Instruments
                   PROVE  Cardinality(On(i, activePositions')) = held'[i]
      BY DEF PositionsMatchFills
    <2>2. On(i, activePositions') = {Updated(p) : p \in On(i, activePositions)}
      BY <1>2, <1>3 DEF On
    <2>3. On(i, activePositions) \in SUBSET activePositions
      BY DEF On
    <2>4. Cardinality(On(i, activePositions')) = Cardinality(On(i, activePositions))
      BY <1>7, <2>2, <2>3
    <2> QED
      BY <1>2, <2>4 DEF GameInv, PositionsMatchFills, historyVars
  <1> QED
    BY <1>4, <1>5, <1>6, <1>8, <1>9 DEF GameInv

LEMMA OtherInv ==
    ASSUME GameInv, ChainTypeOK', UNCHANGED <<market, gameVars>>
    PROVE  GameInv'
  BY DEF GameInv, GameTypeOK, UniqueIds, Subscribed, MarksAreCurrent,
         PositionsMatchFills, gameVars, historyVars

LEMMA NextGameInv == GameInv /\ [Next]_vars => GameInv'
  <1> SUFFICES ASSUME GameInv, [Next]_vars PROVE GameInv'
    OBVIOUS
  <1>1. ASSUME NEW i \in Instruments, OpenPosition(i) PROVE GameInv'
    BY <1>1, OpenPositionInv
  <1>2. ASSUME NEW p \in activePositions, ClosePosition(p) PROVE GameInv'
    BY <1>2, ClosePositionInv
  <1>3. CASE Reset
    BY <1>3, ResetInv
  <1>4. ASSUME NEW s \in Slots, MarketData(s) PROVE GameInv'
    BY <1>4, MarketDataInv
  <1>5. CASE (Move \/ \E s \in Slots : Fetching(s)) /\ UNCHANGED gameVars
    <2>1. ChainTypeOK'
      BY <1>5, ChainSteps DEF GameInv, GameTypeOK
    <2>2. market' = market
      BY <1>5 DEF Move, Fetching, Tick, ReadBatch
    <2> QED
      BY <1>5, <2>1, <2>2, OtherInv
  <1>6. CASE UNCHANGED vars
    <2>1. ChainTypeOK'
      BY <1>6, ChainSteps DEF GameInv, GameTypeOK, vars
    <2> QED
      BY <1>6, <2>1, OtherInv DEF vars, chainVars
  <1> QED
    BY <1>1, <1>2, <1>3, <1>4, <1>5, <1>6 DEF Next

THEOREM GameInvHolds == Spec => []GameInv
  BY InitGameInv, NextGameInv, PTL DEF Spec

-----------------------------------------------------------------------------
(* Profit.                                                                 *)

(* Positions are closed once, and the books balance.                       *)
ProfitInv ==
    /\ IsFiniteSet(closedPositions)
    /\ \A c \in closedPositions :
          c.id \in 1..opened /\ \A p \in activePositions : p.id # c.id
    /\ ProfitIsPaid

(* What one position more adds to the sum.                                 *)
LEMMA CostAdd ==
    ASSUME NEW S, IsFiniteSet(S), NEW x, x \notin S, \A p \in S \cup {x} : p.entry \in Int
    PROVE  /\ SumFunction([p \in S \cup {x} |-> p.entry])
                 = SumFunction([p \in S |-> p.entry]) + x.entry
           /\ SumFunction([p \in S |-> p.entry]) \in Int
  <1> DEFINE T == S \cup {x}
             w == [p \in T |-> p.entry]
             v == [p \in S |-> p.entry]
  <1>1. Weighs(w, T) /\ (\A y \in S : v[y] = w[y]) /\ w[x] = x.entry
    BY DEF Weighs
  <1>2. SumFunction(w) = Sums(w, T)[T] /\ SumFunction(v) = Sums(v, S)[S]
    BY SumFunctionIs
  <1> HIDE DEF w, v
  <1>3. /\ Sums(w, S \cup {x})[S \cup {x}] = Sums(v, S)[S] + w[x]
        /\ Sums(v, S)[S] \in Int
    BY <1>1, SumAdd
  <1> QED
    BY <1>1, <1>2, <1>3 DEF w, v

LEMMA ProfitAdd ==
    ASSUME NEW S, IsFiniteSet(S), NEW x, x \notin S, \A p \in S \cup {x} : Profit(p) \in Int
    PROVE  /\ SumFunction([p \in S \cup {x} |-> Profit(p)])
                 = SumFunction([p \in S |-> Profit(p)]) + Profit(x)
           /\ SumFunction([p \in S |-> Profit(p)]) \in Int
  <1> DEFINE T == S \cup {x}
             w == [p \in T |-> Profit(p)]
             v == [p \in S |-> Profit(p)]
  <1>1. Weighs(w, T) /\ (\A y \in S : v[y] = w[y]) /\ w[x] = Profit(x)
    BY DEF Weighs
  <1>2. SumFunction(w) = Sums(w, T)[T] /\ SumFunction(v) = Sums(v, S)[S]
    BY SumFunctionIs
  <1> HIDE DEF w, v
  <1>3. /\ Sums(w, S \cup {x})[S \cup {x}] = Sums(v, S)[S] + w[x]
        /\ Sums(v, S)[S] \in Int
    BY <1>1, SumAdd
  <1> QED
    BY <1>1, <1>2, <1>3 DEF w, v

LEMMA NothingAdds ==
    /\ SumFunction([p \in {} |-> p.entry]) = 0
    /\ SumFunction([p \in {} |-> Profit(p)]) = 0
  <1> DEFINE w == [p \in {} |-> p.entry]
             v == [p \in {} |-> Profit(p)]
  <1>1. DOMAIN w = {} /\ DOMAIN v = {} /\ Weighs(w, {}) /\ Weighs(v, {}) /\ IsFiniteSet({})
    BY FS_EmptySet DEF Weighs
  <1>2. SumFunction(w) = Sums(w, {})[{}] /\ SumFunction(v) = Sums(v, {})[{}]
    BY <1>1, SumFunctionIs
  <1> HIDE DEF w, v
  <1>3. Sums(w, {})[{}] = 0 /\ Sums(v, {})[{}] = 0
    BY <1>1, SumsFacts DEF Adds
  <1> QED
    BY <1>2, <1>3 DEF w, v

LEMMA ProfitInit == Init => ProfitInv
  <1> SUFFICES ASSUME Init PROVE ProfitInv
    OBVIOUS
  <1>1. activePositions = {} /\ closedPositions = {} /\ cash = 0
    BY DEF Init, Fresh
  <1>2. TotalPL = 0 /\ SumFunction([p \in activePositions |-> p.entry]) = 0
    BY <1>1, NothingAdds DEF TotalPL
  <1> QED
    BY <1>1, <1>2, FS_EmptySet DEF ProfitInv, ProfitIsPaid

LEMMA OpenPositionPays ==
    ASSUME GameInv, ProfitInv, NEW i \in Instruments, OpenPosition(i)
    PROVE  ProfitInv'
  <1> DEFINE q == Quote(i)
             p == [id |-> opened + 1, instrument |-> i, entry |-> q.ask,
                   mark |-> Remark(q.ask, q)]
  <1>1. /\ opened \in Nat /\ opened' = opened + 1 /\ cash \in Int
        /\ activePositions' = activePositions \cup {p}
        /\ cash' = cash - q.ask /\ closedPositions' = closedPositions
    BY DEF OpenPosition, GameInv, GameTypeOK
  <1>2. q.ask \in Nat
    BY QuoteType DEF OpenPosition, GameInv, GameTypeOK, ChainTypeOK, Quoted, Quote
  <1>3. p \notin activePositions /\ p.entry = q.ask /\ p.id = opened + 1
    BY <1>1 DEF GameInv, UniqueIds
  <1>4. IsFiniteSet(activePositions) /\ \A r \in activePositions : r.entry \in Int
    BY DEF GameInv, GameTypeOK, Active
  <1> HIDE DEF p, q
  <1>5. /\ SumFunction([r \in activePositions \cup {p} |-> r.entry])
              = SumFunction([r \in activePositions |-> r.entry]) + q.ask
        /\ SumFunction([r \in activePositions |-> r.entry]) \in Int
    <2>1. \A r \in activePositions \cup {p} : r.entry \in Int
      BY <1>2, <1>3, <1>4
    <2>2. SumFunction([r \in activePositions \cup {p} |-> r.entry])
             = SumFunction([r \in activePositions |-> r.entry]) + p.entry
      BY <1>3, <1>4, <2>1, CostAdd
    <2>3. SumFunction([r \in activePositions |-> r.entry]) \in Int
      BY <1>3, <1>4, <2>1, CostAdd
    <2> QED
      BY <1>3, <2>2, <2>3
  <1>6. ProfitIsPaid'
    <2>1. TotalPL' = TotalPL
      BY <1>1 DEF TotalPL
    <2>2. SumFunction([r \in activePositions' |-> r.entry])
             = SumFunction([r \in activePositions |-> r.entry]) + q.ask
      BY <1>1, <1>5
    <2>3. TotalPL = cash + SumFunction([r \in activePositions |-> r.entry])
      BY DEF ProfitInv, ProfitIsPaid
    <2>4. TotalPL = cash' + SumFunction([r \in activePositions' |-> r.entry])
      BY <1>1, <1>2, <1>5, <2>2, <2>3
    <2> QED
      BY <2>1, <2>4 DEF ProfitIsPaid
  <1>7. ASSUME NEW c \in closedPositions
        PROVE  c.id \in 1..opened' /\ \A r \in activePositions' : r.id # c.id
    <2>1. c.id \in 1..opened /\ \A r \in activePositions : r.id # c.id
      BY DEF ProfitInv
    <2> QED
      BY <1>1, <1>3, <2>1
  <1> QED
    BY <1>1, <1>6, <1>7 DEF ProfitInv

LEMMA ClosePositionPays ==
    ASSUME GameInv, ProfitInv, NEW p \in activePositions, ClosePosition(p)
    PROVE  ProfitInv'
  <1> DEFINE q == Quote(p.instrument)
             sold == Earliest(Matching(p))
             closed == [id |-> sold.id, instrument |-> sold.instrument,
                        entry |-> sold.entry, exit |-> q.bid]
             rest == activePositions \ {sold}
  <1>1. /\ activePositions' = rest /\ closedPositions' = closedPositions \cup {closed}
        /\ cash \in Int /\ cash' = cash + q.bid /\ opened' = opened
    BY DEF ClosePosition, ExitPrice, GameInv, GameTypeOK
  <1>2. p.instrument \in Instruments
    BY DEF GameInv, GameTypeOK, Active
  <1>3. q.bid \in Nat
    BY <1>2, QuoteType DEF ClosePosition, GameInv, GameTypeOK, ChainTypeOK, Quoted, Quote
  <1>4. sold \in activePositions /\ sold.entry \in Nat
    <2>1. Matching(p) \subseteq Active /\ Matching(p) # {}
      BY DEF Matching, On, GameInv, GameTypeOK
    <2>2. sold \in Matching(p)
      BY <2>1, EarliestIsOne
    <2> QED
      BY <2>1, <2>2 DEF Matching, On, Active
  <1> HIDE DEF sold, q
  <1>5. closed.id = sold.id /\ Profit(closed) = q.bid - sold.entry
    BY DEF Profit
  <1>6. closed \notin closedPositions
    BY <1>4, <1>5 DEF ProfitInv
  <1> HIDE DEF closed
  <1>7. /\ IsFiniteSet(rest) /\ sold \notin rest /\ rest \cup {sold} = activePositions
        /\ \A r \in rest \cup {sold} : r.entry \in Int
    <2>1. \A r \in activePositions : r.entry \in Int
      BY DEF GameInv, GameTypeOK, Active
    <2>2. IsFiniteSet(rest)
      BY FS_RemoveElement DEF GameInv
    <2> QED
      BY <1>4, <2>1, <2>2
  <1> HIDE DEF rest
  <1>8. /\ SumFunction([r \in activePositions |-> r.entry])
              = SumFunction([r \in rest |-> r.entry]) + sold.entry
        /\ SumFunction([r \in rest |-> r.entry]) \in Int
    <2>1. SumFunction([r \in rest \cup {sold} |-> r.entry])
             = SumFunction([r \in rest |-> r.entry]) + sold.entry
      BY <1>7, CostAdd
    <2> QED
      BY <1>7, <2>1, CostAdd
  <1>9. /\ SumFunction([c \in closedPositions \cup {closed} |-> Profit(c)])
              = SumFunction([c \in closedPositions |-> Profit(c)]) + Profit(closed)
        /\ SumFunction([c \in closedPositions |-> Profit(c)]) \in Int
    <2>1. \A c \in closedPositions \cup {closed} : Profit(c) \in Int
      BY <1>3, <1>4, <1>5 DEF GameInv, GameTypeOK, Sold, Profit
    <2>2. IsFiniteSet(closedPositions)
      BY DEF ProfitInv
    <2> QED
      BY <1>6, <2>1, <2>2, ProfitAdd
  <1>10. ProfitIsPaid'
    <2>1. TotalPL' = TotalPL + Profit(closed) /\ TotalPL \in Int
      BY <1>1, <1>9 DEF TotalPL
    <2>2. TotalPL = cash + SumFunction([r \in activePositions |-> r.entry])
      BY DEF ProfitInv, ProfitIsPaid
    <2>3. TotalPL' = cash' + SumFunction([r \in activePositions' |-> r.entry])
      BY <1>1, <1>3, <1>4, <1>5, <1>8, <2>1, <2>2
    <2> QED
      BY <2>3 DEF ProfitIsPaid
  <1>11. IsFiniteSet(closedPositions')
    BY <1>1, FS_AddElement DEF ProfitInv
  <1>12. ASSUME NEW c \in closedPositions'
         PROVE  c.id \in 1..opened' /\ \A r \in activePositions' : r.id # c.id
    <2>1. CASE c \in closedPositions
      BY <1>1, <2>1 DEF ProfitInv, rest
    <2>2. CASE c = closed
      BY <1>1, <1>4, <1>5, <2>2 DEF GameInv, UniqueIds, rest
    <2> QED
      BY <1>1, <2>1, <2>2
  <1> QED
    BY <1>10, <1>11, <1>12 DEF ProfitInv

LEMMA MarketDataPays ==
    ASSUME GameInv, ProfitInv, NEW s \in Slots, MarketData(s)
    PROVE  ProfitInv'
  <1>1. ChainTypeOK'
    BY ChainSteps DEF GameInv, GameTypeOK, MarketData
  <1>2. /\ activePositions' = {Updated(p) : p \in activePositions}
        /\ UNCHANGED <<opened, closedPositions, cash>>
    BY DEF MarketData, historyVars
  <1>3. \A p \in activePositions :
           /\ Updated(p) \in Active /\ Updated(p).id = p.id /\ Updated(p).entry = p.entry
    <2>1. \A p \in activePositions : Updated(p) \in Active /\ Updated(p).id = p.id
      BY <1>1, UpdatedType
    <2>2. \A p \in activePositions : Updated(p).entry = p.entry
      BY DEF Updated, GameInv, GameTypeOK, Active
    <2> QED
      BY <2>1, <2>2
  <1> DEFINE S == activePositions
             T == activePositions'
             f == [p \in S |-> Updated(p)]
             w == [p \in S |-> p.entry]
             v == [p \in T |-> p.entry]
  <1>4. T = {f[p] : p \in S}
    BY <1>2
  <1>5. \A p, r \in S : f[p] = f[r] => p = r
    BY <1>3 DEF GameInv, UniqueIds
  <1>6. Weighs(w, S) /\ \A p \in S : v[f[p]] = w[p]
    BY <1>2, <1>3 DEF Weighs, GameInv, GameTypeOK, Active
  <1>7. SumFunction(w) = Sums(w, S)[S] /\ SumFunction(v) = Sums(v, T)[T]
    BY SumFunctionIs
  <1>8. IsFiniteSet(S)
    BY DEF GameInv
  <1> HIDE DEF S, T, f, w, v
  <1>9. Sums(v, T)[T] = Sums(w, S)[S]
    BY <1>4, <1>5, <1>6, <1>8, SumMoved
  <1>10. SumFunction([p \in activePositions' |-> p.entry])
            = SumFunction([p \in activePositions |-> p.entry])
    BY <1>7, <1>9 DEF S, T, w, v
  <1>11. ProfitIsPaid'
    BY <1>2, <1>10 DEF ProfitInv, ProfitIsPaid, TotalPL
  <1> QED
    BY <1>2, <1>3, <1>11 DEF ProfitInv

LEMMA ProfitStep == GameInv /\ ProfitInv /\ [Next]_vars => ProfitInv'
  <1> SUFFICES ASSUME GameInv, ProfitInv, [Next]_vars PROVE ProfitInv'
    OBVIOUS
  <1>1. ASSUME NEW i \in Instruments, OpenPosition(i) PROVE ProfitInv'
    BY <1>1, OpenPositionPays
  <1>2. ASSUME NEW p \in activePositions, ClosePosition(p) PROVE ProfitInv'
    BY <1>2, ClosePositionPays
  <1>3. CASE Reset
    <2>1. activePositions' = {} /\ closedPositions' = {} /\ cash' = 0
      BY <1>3 DEF Reset
    <2>2. TotalPL' = 0 /\ SumFunction([p \in activePositions' |-> p.entry]) = 0
      BY <2>1, NothingAdds DEF TotalPL
    <2> QED
      BY <2>1, <2>2, FS_EmptySet DEF ProfitInv, ProfitIsPaid
  <1>4. ASSUME NEW s \in Slots, MarketData(s) PROVE ProfitInv'
    BY <1>4, MarketDataPays
  <1>5. CASE UNCHANGED gameVars
    BY <1>5 DEF gameVars, historyVars, ProfitInv, ProfitIsPaid, TotalPL
  <1> QED
    BY <1>1, <1>2, <1>3, <1>4, <1>5 DEF Next, vars

-----------------------------------------------------------------------------
(* The game is typed, whatever is quoted and however many fetches overlap; *)
(* in particular a missing price never becomes a mark.                     *)
THEOREM GameTypeCorrect == Spec => []GameTypeOK
  <1>1. GameInv => GameTypeOK
    BY DEF GameInv
  <1> QED
    BY <1>1, GameInvHolds, PTL

(* Every open position shows the market data there is, though a sale may   *)
(* close another position than the one that was chosen.                    *)
THEOREM MarksStayCurrent == Spec => []MarksAreCurrent
  <1>1. GameInv => MarksAreCurrent
    BY DEF GameInv
  <1> QED
    BY <1>1, GameInvHolds, PTL

(* On every instrument the open positions are the contracts bought and not *)
(* sold.                                                                   *)
THEOREM FillsAreMatched == Spec => []PositionsMatchFills
  <1>1. GameInv => PositionsMatchFills
    BY DEF GameInv
  <1> QED
    BY <1>1, GameInvHolds, PTL

(* The profits that are shown are those that were made: calculateTotalPL   *)
(* (tradeManager.ts:68) and what the open positions have cost add up to    *)
(* what the fills have paid, however many were bought and sold, whichever  *)
(* position a sale closed and whatever its price.                          *)
THEOREM ProfitsArePaid == Spec => []ProfitIsPaid
  <1>1. Spec => [](GameInv /\ ProfitInv)
    BY InitGameInv, NextGameInv, ProfitInit, ProfitStep, PTL DEF Spec
  <1>2. ProfitInv => ProfitIsPaid
    BY DEF ProfitInv
  <1> QED
    BY <1>1, <1>2, PTL
=============================================================================
