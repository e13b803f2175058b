----------------------- MODULE ExecutionSimulator_proofs -----------------------
(***************************************************************************)
(* Proofs about ExecutionSimulator, for all candles, signals, settings,    *)
(* levels and fees, and any number of symbols, bars and minutes.           *)
(***************************************************************************)
EXTENDS ExecutionSimulator, FiniteSetTheorems, SequenceTheorems, TLAPS

--------------------------------------------------------------------------------
(* Sums over finite sets.  SumFunction folds in the order CHOOSE takes the *)
(* elements in; the lemmas show that the order does not matter.            *)

\* Every non-empty set of naturals has a least element.
LEMMA SmallestOf ==
    ASSUME NEW S \in SUBSET Nat, S # {}
    PROVE  \E m \in S : \A n \in S : m <= n
<1>1. PICK m \in S : \A n \in S : ~(<<n, m>> \in OpToRel(<, Nat))
  BY NatLessThanWellFounded, WFMin
<1>2. \A n \in S : ~(n < m)
  BY <1>1 DEF OpToRel
<1> QED
  BY <1>2

Chosen(T) == CHOOSE x \in T : TRUE

\* g is the sum of f over T, taking away one chosen element after the other.
SumsUp(g, f, T) == g[T] = IF T = {} THEN 0 ELSE f[Chosen(T)] + g[T \ {Chosen(T)}]

\* g[T] is the sum of f over T, for every part T of S.
SumsOf(g, f, S) == \A T \in SUBSET S : g[T] \in Int /\ SumsUp(g, f, T)

LEMMA ChosenIn ==
    ASSUME NEW T, T # {}
    PROVE  Chosen(T) \in T
  BY DEF Chosen

\* One element less.
LEMMA Smaller ==
    ASSUME NEW T, IsFiniteSet(T), NEW x \in T
    PROVE  /\ IsFiniteSet(T \ {x}) /\ Cardinality(T) \in Nat \ {0}
           /\ Cardinality(T \ {x}) = Cardinality(T) - 1
  BY FS_RemoveElement, FS_CardinalityType, FS_EmptySet

\* The sums of all subsets with at most n elements exist.
SumsUpTo(n, f, S) ==
    \E g \in [SUBSET S -> Int] : \A T \in SUBSET S : Cardinality(T) <= n => SumsUp(g, f, T)

LEMMA SumsExistUpTo ==
    ASSUME NEW S, IsFiniteSet(S), NEW f \in [S -> Int]
    PROVE  \A n \in Nat : SumsUpTo(n, f, S)
<1> DEFINE P(n) == SumsUpTo(n, f, S)
           Bad == {n \in Nat : ~P(n)}
<1> USE DEF SumsUpTo
<1>0. \A T \in SUBSET S : IsFiniteSet(T) /\ Cardinality(T) \in Nat
  BY FS_Subset, FS_CardinalityType
<1>1. P(0)
  <2> DEFINE g == [T \in SUBSET S |-> 0]
  <2>1. g \in [SUBSET S -> Int]
    OBVIOUS
  <2>2. ASSUME NEW T \in SUBSET S, Cardinality(T) <= 0
        PROVE  SumsUp(g, f, T)
    <3>1. T = {}
      BY <1>0, <2>2, FS_EmptySet
    <3> QED
      BY <3>1 DEF SumsUp
  <2> HIDE DEF g
  <2> QED
    BY <2>1, <2>2
<1>2. ASSUME NEW n \in Nat, P(n)
      PROVE  P(n + 1)
  <2>1. PICK h \in [SUBSET S -> Int] :
           \A T \in SUBSET S : Cardinality(T) <= n => SumsUp(h, f, T)
    BY <1>2
  <2> DEFINE g == [T \in SUBSET S |-> IF Cardinality(T) = n + 1
                                      THEN f[Chosen(T)] + h[T \ {Chosen(T)}] ELSE h[T]]
  <2>2. ASSUME NEW T \in SUBSET S, Cardinality(T) = n + 1
        PROVE  T # {} /\ Chosen(T) \in S /\ T \ {Chosen(T)} \in SUBSET S
    <3>1. T # {}
      BY <2>2, <1>0, FS_EmptySet
    <3> QED
      BY <3>1, ChosenIn
  <2>3. g \in [SUBSET S -> Int]
    BY <2>2
  <2>4. ASSUME NEW T \in SUBSET S, Cardinality(T) <= n + 1
        PROVE  SumsUp(g, f, T)
    <3>1. CASE T = {}
      BY <3>1, <2>1, FS_EmptySet DEF SumsUp
    <3>2. CASE T # {}
      <4>1. Chosen(T) \in T /\ T \ {Chosen(T)} \in SUBSET S
        BY <3>2, ChosenIn
      <4>2. /\ Cardinality(T) \in Nat \ {0}
            /\ Cardinality(T \ {Chosen(T)}) = Cardinality(T) - 1
        BY <4>1, <1>0, Smaller
      <4>3. g[T \ {Chosen(T)}] = h[T \ {Chosen(T)}]
        <5>1. Cardinality(T \ {Chosen(T)}) # n + 1
          BY <4>2, <2>4
        <5> QED
          BY <4>1, <5>1
      <4>4. CASE Cardinality(T) = n + 1
        BY <3>2, <4>3, <4>4 DEF SumsUp
      <4>5. CASE Cardinality(T) # n + 1
        <5>1. Cardinality(T) <= n
          BY <4>5, <4>2, <2>4
        <5>2. h[T] = f[Chosen(T)] + h[T \ {Chosen(T)}]
          BY <5>1, <2>1, <3>2 DEF SumsUp
        <5> QED
          BY <5>2, <4>3, <4>5, <3>2 DEF SumsUp
      <4> QED
        BY <4>4, <4>5
    <3> QED
      BY <3>1, <3>2
  <2> HIDE DEF g
  <2> QED
    BY <2>3, <2>4
<1> HIDE DEF SumsUpTo
<1>3. Bad = {}
  <2> SUFFICES ASSUME Bad # {} PROVE FALSE
    OBVIOUS
  <2>1. PICK m \in Bad : \A n \in Bad : m <= n
    BY SmallestOf
  <2>2. m # 0 /\ m - 1 \in Nat
    BY <2>1, <1>1
  <2>3. P(m - 1)
    BY <2>1, <2>2
  <2> QED
    BY <2>1, <2>2, <2>3, <1>2
<1> QED
  BY <1>3

\* The sums of all subsets exist.
LEMMA SumsExist ==
    ASSUME NEW S, IsFiniteSet(S), NEW f \in [S -> Int]
    PROVE  \E g \in [SUBSET S -> Int] : SumsOf(g, f, S)
<1>1. Cardinality(S) \in Nat
  BY FS_CardinalityType
<1>2. PICK g \in [SUBSET S -> Int] :
         \A T \in SUBSET S : Cardinality(T) <= Cardinality(S) => SumsUp(g, f, T)
  <2>1. SumsUpTo(Cardinality(S), f, S)
    BY <1>1, SumsExistUpTo
  <2> QED
    BY <2>1 DEF SumsUpTo
<1>3. \A T \in SUBSET S : Cardinality(T) <= Cardinality(S)
  BY FS_Subset
<1> QED
  BY <1>2, <1>3 DEF SumsOf

\* The smallest set in a collection of finite sets.
LEMMA SmallestSet ==
    ASSUME NEW S, IsFiniteSet(S), NEW C \in SUBSET SUBSET S, C # {}
    PROVE  \E T \in C : \A U \in C : Cardinality(T) <= Cardinality(U)
<1> DEFINE sizes == {Cardinality(T) : T \in C}
<1>1. \A T \in C : Cardinality(T) \in Nat
  BY FS_Subset, FS_CardinalityType
<1>2. PICK m \in sizes : \A n \in sizes : m <= n
  <2>1. sizes \in SUBSET Nat /\ sizes # {}
    BY <1>1
  <2> QED
    BY <2>1, SmallestOf
<1> QED
  BY <1>2

\* Two sums of functions that agree are the same.
LEMMA SumsAgree ==
    ASSUME NEW S, IsFiniteSet(S), NEW f \in [S -> Int], NEW h \in [S -> Int],
           NEW g, SumsOf(g, f, S), NEW k, SumsOf(k, h, S),
           \A x \in S : f[x] = h[x]
    PROVE  \A T \in SUBSET S : g[T] = k[T]
<1> DEFINE Bad == {T \in SUBSET S : g[T] # k[T]}
<1> SUFFICES ASSUME Bad # {} PROVE FALSE
  OBVIOUS
<1>1. PICK T \in Bad : \A U \in Bad : Cardinality(T) <= Cardinality(U)
  <2>1. Bad \in SUBSET SUBSET S
    OBVIOUS
  <2> HIDE DEF Bad
  <2> QED
    BY <2>1, SmallestSet
<1>2. T # {}
  BY <1>1 DEF SumsUp, SumsOf
<1>3. IsFiniteSet(T) /\ Chosen(T) \in T /\ T \ {Chosen(T)} \in SUBSET S
  BY <1>1, <1>2, ChosenIn, FS_Subset
<1>4. g[T \ {Chosen(T)}] = k[T \ {Chosen(T)}]
  <2>1. ~(Cardinality(T) <= Cardinality(T \ {Chosen(T)}))
    BY <1>3, Smaller
  <2> QED
    BY <2>1, <1>1, <1>3
<1>5. g[T] = f[Chosen(T)] + g[T \ {Chosen(T)}] /\ k[T] = h[Chosen(T)] + k[T \ {Chosen(T)}]
  BY <1>1, <1>2 DEF SumsUp, SumsOf
<1>6. f[Chosen(T)] = h[Chosen(T)]
  BY <1>1, <1>3
<1> QED
  BY <1>1, <1>4, <1>5, <1>6

\* Any element may be taken away first.
LEMMA SumsAnyOrder ==
    ASSUME NEW S, IsFiniteSet(S), NEW f \in [S -> Int],
           NEW g, SumsOf(g, f, S), NEW first \in S
    PROVE  g[S] = f[first] + g[S \ {first}]
<1> DEFINE Bad == {T \in SUBSET S : \E x \in T : g[T] # f[x] + g[T \ {x}]}
<1> SUFFICES ASSUME Bad # {} PROVE FALSE
  <2>1. S \notin Bad => g[S] = f[first] + g[S \ {first}]
    OBVIOUS
  <2> QED
    BY <2>1
<1>1. PICK T \in Bad : \A U \in Bad : Cardinality(T) <= Cardinality(U)
  <2>1. Bad \in SUBSET SUBSET S
    OBVIOUS
  <2> HIDE DEF Bad
  <2> QED
    BY <2>1, SmallestSet
<1>2. PICK x \in T : g[T] # f[x] + g[T \ {x}]
  BY <1>1
<1> DEFINE y == Chosen(T)
<1>3. IsFiniteSet(T) /\ y \in T /\ T \subseteq S
  BY <1>1, <1>2, ChosenIn, FS_Subset
<1>4. g[T] = f[y] + g[T \ {y}]
  BY <1>1, <1>2 DEF SumsUp, SumsOf
<1> HIDE DEF y
<1>5. x # y
  BY <1>2, <1>4
<1>6. T \ {x} \notin Bad /\ T \ {y} \notin Bad
  <2>1. \A z \in T : Cardinality(T) \in Nat /\ Cardinality(T \ {z}) = Cardinality(T) - 1
    BY <1>3, Smaller
  <2>2. \A z \in T : ~(Cardinality(T) <= Cardinality(T \ {z}))
    BY <2>1
  <2> QED
    BY <2>2, <1>1, <1>2, <1>3
<1>7. g[T \ {y}] = f[x] + g[(T \ {y}) \ {x}] /\ g[T \ {x}] = f[y] + g[(T \ {x}) \ {y}]
  BY <1>6, <1>5, <1>3, <1>2
<1>8. (T \ {y}) \ {x} = (T \ {x}) \ {y} /\ (T \ {x}) \ {y} \in SUBSET S
  BY <1>3
<1>9. f[x] \in Int /\ f[y] \in Int /\ g[(T \ {x}) \ {y}] \in Int
  BY <1>8, <1>3, <1>2 DEF SumsOf
<1>10. g[T] = f[y] + (f[x] + g[(T \ {x}) \ {y}]) /\ g[T \ {x}] = f[y] + g[(T \ {x}) \ {y}]
  BY <1>4, <1>7, <1>8
<1> QED
  BY <1>2, <1>9, <1>10

LEMMA SumUnfolds ==
    ASSUME NEW f
    PROVE  SumFunction(f) =
             (CHOOSE g : g = [T \in SUBSET DOMAIN f |->
                 IF T = {} THEN 0 ELSE f[Chosen(T)] + g[T \ {Chosen(T)}]])[DOMAIN f]
  BY DEF SumFunction, SumFunctionOnSet, FoldFunctionOnSet, MapThenFoldSet, Chosen

\* A sum over the integers is an integer, and it is made by a function that sums up.
LEMMA SumIs ==
    ASSUME NEW S, IsFiniteSet(S), NEW f \in [S -> Int]
    PROVE  \E g : SumsOf(g, f, S) /\ SumFunction(f) = g[S]
<1> DEFINE Equation(g) == g = [T \in SUBSET S |->
                            IF T = {} THEN 0 ELSE f[Chosen(T)] + g[T \ {Chosen(T)}]]
           sum == CHOOSE g : Equation(g)
<1>1. PICK h \in [SUBSET S -> Int] : SumsOf(h, f, S)
  BY SumsExist
<1>2. Equation(h)
  BY <1>1 DEF SumsUp, SumsOf
<1>3. Equation(sum)
  <2> HIDE DEF Equation
  <2> QED
    BY <1>2
<1>4. SumFunction(f) = sum[S]
  BY SumUnfolds
<1> HIDE DEF sum
<1>5. \A T \in SUBSET S : SumsUp(sum, f, T)
  BY <1>3 DEF SumsUp
<1>6. \A T \in SUBSET S : sum[T] = h[T]
  <2> DEFINE Bad == {T \in SUBSET S : sum[T] # h[T]}
  <2> SUFFICES ASSUME Bad # {} PROVE FALSE
    OBVIOUS
  <2>1. PICK T \in Bad : \A U \in Bad : Cardinality(T) <= Cardinality(U)
    <3>1. Bad \in SUBSET SUBSET S
      OBVIOUS
    <3> HIDE DEF Bad
    <3> QED
      BY <3>1, SmallestSet
  <2>2. T # {}
    BY <2>1, <1>5, <1>1 DEF SumsUp, SumsOf
  <2>3. IsFiniteSet(T) /\ Chosen(T) \in T /\ T \ {Chosen(T)} \in SUBSET S
    BY <2>1, <2>2, ChosenIn, FS_Subset
  <2>4. ~(Cardinality(T) <= Cardinality(T \ {Chosen(T)}))
    <3>1. Cardinality(T) \in Nat \ {0} /\ Cardinality(T \ {Chosen(T)}) = Cardinality(T) - 1
      BY ONLY <2>3, Smaller
    <3>2. \A n \in Nat \ {0} : ~(n <= n - 1)
      OBVIOUS
    <3> QED
      BY ONLY <3>1, <3>2
  <2>5. sum[T \ {Chosen(T)}] = h[T \ {Chosen(T)}]
    BY <2>1, <2>3, <2>4
  <2> QED
    BY <2>1, <2>2, <2>5, <1>1, <1>5 DEF SumsUp, SumsOf
<1>7. \A T \in SUBSET S : sum[T] \in Int
  BY <1>6, <1>1
<1> QED
  BY <1>4, <1>5, <1>7 DEF SumsOf

\* The sum of nothing, and a sum as one element and the rest.
LEMMA SumEmpty ==
    ASSUME NEW f \in [{} -> Int]
    PROVE  SumFunction(f) = 0
<1>1. PICK g : SumsOf(g, f, {}) /\ SumFunction(f) = g[{}]
  BY SumIs, FS_EmptySet
<1> QED
  BY <1>1 DEF SumsUp, SumsOf

LEMMA SumType ==
    ASSUME NEW S, IsFiniteSet(S), NEW f \in [S -> Int]
    PROVE  SumFunction(f) \in Int
<1>1. PICK g : SumsOf(g, f, S) /\ SumFunction(f) = g[S]
  BY SumIs
<1> QED
  BY <1>1 DEF SumsOf

LEMMA SumSplit ==
    ASSUME NEW S, IsFiniteSet(S), NEW f \in [S -> Int], NEW x \in S
    PROVE  SumFunction(f) = f[x] + SumFunction([y \in S \ {x} |-> f[y]])
<1> DEFINE R == S \ {x}
           h == [y \in R |-> f[y]]
<1>1. PICK g : SumsOf(g, f, S) /\ SumFunction(f) = g[S]
  BY SumIs
<1>2. IsFiniteSet(R) /\ R \subseteq S
  BY FS_Subset
<1>3. h \in [R -> Int] /\ \A y \in R : h[y] = f[y]
  BY <1>2
<1>4. g[S] = f[x] + g[R]
  BY <1>1, SumsAnyOrder
<1> HIDE DEF R, h
<1>5. PICK k : SumsOf(k, h, R) /\ SumFunction(h) = k[R]
  BY <1>2, <1>3, SumIs
<1>6. SumsOf(g, h, R)
  <2> SUFFICES ASSUME NEW T \in SUBSET R PROVE g[T] \in Int /\ SumsUp(g, h, T)
    BY DEF SumsOf
  <2>1. T # {} => Chosen(T) \in R
    BY ChosenIn
  <2> QED
    BY <2>1, <1>1, <1>2, <1>3 DEF SumsUp, SumsOf
<1>7. g[R] = k[R]
  <2>1. \A T \in SUBSET R : g[T] = k[T]
    BY <1>2, <1>3, <1>5, <1>6, SumsAgree
  <2> QED
    BY <2>1
<1> QED
  BY <1>1, <1>4, <1>5, <1>7 DEF h, R

LEMMA SumWithout ==
    ASSUME NEW S, IsFiniteSet(S), NEW f \in [S -> Int], NEW x,
           NEW rest \in [S \ {x} -> Int], \A y \in S \ {x} : rest[y] = f[y]
    PROVE  /\ SumFunction(rest) \in Int
           /\ SumFunction(f) = (IF x \in S THEN f[x] ELSE 0) + SumFunction(rest)
<1>1. IsFiniteSet(S \ {x})
  BY FS_Subset
<1>2. SumFunction(rest) \in Int
  BY <1>1, SumType
<1>3. rest = [y \in S \ {x} |-> f[y]]
  OBVIOUS
<1>4. CASE x \in S
  <2>1. SumFunction(f) = f[x] + SumFunction([y \in S \ {x} |-> f[y]])
    BY <1>4, SumSplit
  <2> QED
    BY <2>1, <1>2, <1>3, <1>4
<1>5. CASE x \notin S
  <2>1. rest = f
    BY <1>3, <1>5
  <2> QED
    BY <2>1, <1>2, <1>5
<1> QED
  BY <1>2, <1>4, <1>5

\* A change at one place changes the sum by the difference there.
LEMMA SumChanged ==
    ASSUME NEW S, IsFiniteSet(S), NEW f \in [S -> Int], NEW T, IsFiniteSet(T), NEW h \in [T -> Int],
           NEW x, S \ {x} = T \ {x}, \A y \in S \ {x} : f[y] = h[y]
    PROVE  /\ SumFunction(f) \in Int /\ SumFunction(h) \in Int
           /\ SumFunction(h) = SumFunction(f) - (IF x \in S THEN f[x] ELSE 0)
                                              + (IF x \in T THEN h[x] ELSE 0)
<1> DEFINE rest == [y \in S \ {x} |-> f[y]]
<1>0. /\ rest \in [S \ {x} -> Int] /\ \A y \in S \ {x} : rest[y] = f[y]
      /\ rest \in [T \ {x} -> Int] /\ \A y \in T \ {x} : rest[y] = h[y]
  OBVIOUS
<1> HIDE DEF rest
<1>1. SumFunction(rest) \in Int /\ SumFunction(f) = (IF x \in S THEN f[x] ELSE 0) + SumFunction(rest)
  BY <1>0, SumWithout
<1>2. SumFunction(h) = (IF x \in T THEN h[x] ELSE 0) + SumFunction(rest)
  BY <1>0, SumWithout
<1>3. (IF x \in S THEN f[x] ELSE 0) \in Int /\ (IF x \in T THEN h[x] ELSE 0) \in Int
  OBVIOUS
<1> QED
  BY <1>1, <1>2, <1>3

\* A sum of naturals is a natural, and no smaller than any of them.
LEMMA SumNat ==
    ASSUME NEW S, IsFiniteSet(S), NEW f \in [S -> Nat]
    PROVE  SumFunction(f) \in Nat /\ \A x \in S : f[x] <= SumFunction(f)
<1>0. f \in [S -> Int]
  OBVIOUS
<1>1. PICK g : SumsOf(g, f, S) /\ SumFunction(f) = g[S]
  BY <1>0, SumIs
<1> DEFINE Bad == {T \in SUBSET S : g[T] \notin Nat}
<1>2. Bad = {}
  <2> SUFFICES ASSUME Bad # {} PROVE FALSE
    OBVIOUS
  <2>1. PICK T \in Bad : \A U \in Bad : Cardinality(T) <= Cardinality(U)
    <3>1. Bad \in SUBSET SUBSET S
      OBVIOUS
    <3> HIDE DEF Bad
    <3> QED
      BY <3>1, SmallestSet
  <2>2. T # {}
    BY <2>1, <1>1 DEF SumsUp, SumsOf
  <2>3. IsFiniteSet(T) /\ Chosen(T) \in T /\ T \ {Chosen(T)} \in SUBSET S
    BY <2>1, <2>2, ChosenIn, FS_Subset
  <2>4. ~(Cardinality(T) <= Cardinality(T \ {Chosen(T)}))
    <3>1. Cardinality(T) \in Nat \ {0} /\ Cardinality(T \ {Chosen(T)}) = Cardinality(T) - 1
      BY ONLY <2>3, Smaller
    <3>2. \A n \in Nat \ {0} : ~(n <= n - 1)
      OBVIOUS
    <3> QED
      BY ONLY <3>1, <3>2
  <2>5. g[T \ {Chosen(T)}] \in Nat /\ f[Chosen(T)] \in Nat
    BY <2>1, <2>3, <2>4, SMTT(30)
  <2>6. g[T] = f[Chosen(T)] + g[T \ {Chosen(T)}]
    BY <2>1, <2>2, <1>1 DEF SumsUp, SumsOf
  <2> QED
    BY <2>1, <2>5, <2>6
<1>3. ASSUME NEW x \in S
      PROVE  f[x] <= SumFunction(f)
  <2>1. g[S] = f[x] + g[S \ {x}]
    BY <1>0, <1>1, SumsAnyOrder
  <2>2. g[S \ {x}] \in Nat /\ f[x] \in Nat
    BY <1>2
  <2> QED
    BY <2>1, <2>2, <1>1
<1> QED
  BY <1>1, <1>2, <1>3

--------------------------------------------------------------------------------
(* Types of the operators.                                                 *)

LEMMA Amounts ==
    /\ MinutesPerBar \in Nat \ {0} /\ Lot \in Nat \ {0} /\ MarginUnit \in Nat \ {0}
    /\ InitialBalance \in Nat /\ Target \in Nat /\ Risk \in Nat /\ TakeProfit \in Nat /\ Liq \in Nat
    /\ BreakevenAt \in Nat /\ Buffer \in Nat /\ Trail \in Nat /\ HardCap \in Nat /\ MaxSl \in Nat
    /\ AutoClose \in Nat /\ LockAt \in Nat /\ Lock \in Nat /\ FillBuffer \in Nat /\ EntryFee \in Nat
    /\ ExitFee \in Nat /\ Slip \in Nat /\ FundingUnit \in Nat
  BY AmountsAssumption

Sides == {"LONG", "SHORT"}

\* A side turns an amount or leaves it.
LEMMA Turned ==
    ASSUME NEW side, NEW x \in Int
    PROVE  /\ Toward(side) \in Int /\ Toward(side) * x \in Int
           /\ side = "LONG" => Toward(side) * x = x
           /\ side # "LONG" => Toward(side) * x = -x
  BY DEF Toward

LEMMA GainType ==
    ASSUME NEW p \in Position, NEW price \in Int
    PROVE  Gain(p, price) \in Int /\ PriceAt(p, price) \in Int
<1>1. p.entry \in Int /\ price - p.entry \in Int
  BY DEF Position
<1> QED
  BY <1>1, Turned DEF Gain, PriceAt

LEMMA ProductType ==
    ASSUME NEW a \in Nat, NEW b \in Nat
    PROVE  a * b \in Nat
  OBVIOUS

LEMMA MarginType ==
    ASSUME NEW x, x.size \in Nat
    PROVE  Margin(x) \in Nat
  BY Amounts, ProductType DEF Margin

LEMMA WatchedType ==
    ASSUME NEW p \in Position, NEW g \in Int
    PROVE  /\ Watched(p, g) \in Position
           /\ Watched(p, g).size = p.size /\ Watched(p, g).left = p.left /\ Watched(p, g).side = p.side
           /\ Watched(p, g).entry = p.entry /\ Watched(p, g).at = p.at /\ Watched(p, g).hits = p.hits
           /\ Watched(p, g).stop = p.stop /\ Watched(p, g).tp = p.tp
           /\ Watched(p, g).breakeven = p.breakeven /\ Watched(p, g).best = Max2(p.best, g)
  BY DEF Watched, Position, Max2

\* What moves a stop changes nothing else of a position.
Kept(p, q) == /\ q.size = p.size /\ q.left = p.left /\ q.side = p.side /\ q.entry = p.entry
              /\ q.at = p.at /\ q.hits = p.hits /\ q.tp = p.tp /\ q.best = p.best

LEMMA LockedInType ==
    ASSUME NEW p \in Position, NEW g \in Int
    PROVE  /\ LockedIn(p, g) \in Position /\ Kept(p, LockedIn(p, g))
           /\ LockedIn(p, g).stop \in {p.stop, Max2(p.stop, Lock)}
           /\ LockedIn(p, g).stop # p.stop => g * p.left >= LockAt * p.size
  BY Amounts DEF LockedIn, Position, Max2, Kept

LEMMA BreakevenType ==
    ASSUME NEW p \in Position
    PROVE  [p EXCEPT !.breakeven = TRUE] \in Position
  BY Zenon DEF Position

LEMMA AtBreakevenType ==
    ASSUME NEW p \in Position, NEW g \in Int
    PROVE  /\ AtBreakeven(p, g) \in Position /\ Kept(p, AtBreakeven(p, g))
           /\ AtBreakeven(p, g).stop = p.stop \/ (AtBreakeven(p, g).stop = Buffer /\ g >= BreakevenAt)
<1>1. CASE ~p.breakeven /\ g >= BreakevenAt
  <2> DEFINE q == [p EXCEPT !.stop = Buffer, !.breakeven = TRUE]
  <2>1. [p EXCEPT !.stop = Buffer] \in Position
    BY Amounts DEF Position
  <2>2. q = [[p EXCEPT !.stop = Buffer] EXCEPT !.breakeven = TRUE]
    OBVIOUS
  <2>3. q \in Position
    BY <2>1, <2>2, BreakevenType
  <2>4. Kept(p, q) /\ q.stop = Buffer
    BY DEF Position, Kept
  <2> QED
    BY <1>1, <2>3, <2>4 DEF AtBreakeven
<1>2. CASE ~(~p.breakeven /\ g >= BreakevenAt)
  BY <1>2 DEF AtBreakeven, Kept
<1> QED
  BY <1>1, <1>2

LEMMA TrailedType ==
    ASSUME NEW p \in Position
    PROVE  /\ Trailed(p) \in Position /\ Kept(p, Trailed(p))
           /\ Trailed(p).stop = IF p.hits > 0 THEN Max2(p.stop, p.best - Trail) ELSE p.stop
  BY Amounts DEF Trailed, Position, Max2, Kept

LEMMA PartType ==
    ASSUME NEW p \in Position, NEW percent \in Nat
    PROVE  Part(p, percent) \in Nat /\ Part(p, percent) <= p.left
<1>1. p.size \in Nat /\ p.left \in Nat /\ p.size * percent \in Nat
  BY ProductType DEF Position
<1>2. (p.size * percent) \div 100 \in Nat
  BY <1>1
<1> QED
  BY <1>1, <1>2 DEF Part, Min2

LEMMA PartTakenType ==
    ASSUME NEW p \in Position, NEW part \in Nat, part <= p.left
    PROVE  /\ PartTaken(p, part).left = p.left - part /\ PartTaken(p, part).left \in Nat
           /\ PartTaken(p, part).left # 0 => PartTaken(p, part) \in Position
           /\ PartTaken(p, part).size = p.size /\ PartTaken(p, part).side = p.side
           /\ PartTaken(p, part).entry = p.entry /\ PartTaken(p, part).at = p.at
           /\ PartTaken(p, part).hits = p.hits + 1 /\ PartTaken(p, part).stop = 0
           /\ PartTaken(p, part).best = p.best /\ PartTaken(p, part).tp = p.tp
<1>1. p.left \in Nat /\ p.hits \in Nat /\ p.left - part \in Nat
  BY DEF Position
<1> DEFINE less == [p EXCEPT !.left = p.left - part]
           more == [less EXCEPT !.hits = p.hits + 1]
           at0 == [more EXCEPT !.stop = 0]
           all == [at0 EXCEPT !.breakeven = TRUE]
<1>2. PartTaken(p, part) = all
  BY DEF PartTaken
<1>3. p.left - part # 0 => all \in Position
  <2> SUFFICES ASSUME p.left - part # 0 PROVE all \in Position
    OBVIOUS
  <2>1. less \in Position
    BY <1>1 DEF Position
  <2> HIDE DEF less
  <2>2. more \in Position
    BY <1>1, <2>1 DEF Position
  <2> HIDE DEF more
  <2>3. at0 \in Position
    BY <2>2 DEF Position
  <2> HIDE DEF at0
  <2> QED
    BY <2>3, BreakevenType
<1>4. /\ all.left = p.left - part /\ all.size = p.size /\ all.side = p.side /\ all.entry = p.entry
      /\ all.at = p.at /\ all.hits = p.hits + 1 /\ all.stop = 0 /\ all.best = p.best /\ all.tp = p.tp
  BY DEF Position
<1> HIDE DEF all
<1> QED
  BY <1>1, <1>2, <1>3, <1>4

LEMMA FilledType ==
    ASSUME NEW o \in Order, NEW price \in Int, NEW slip \in Nat, Clock \in Nat
    PROVE  /\ Filled(o, price, slip) \in Position
           /\ Filled(o, price, slip).size = o.size /\ Filled(o, price, slip).left = o.size
           /\ Filled(o, price, slip).side = o.side /\ Filled(o, price, slip).at = Clock
           /\ Filled(o, price, slip).hits = 0 /\ Filled(o, price, slip).best = 0
<1> DEFINE entry == price + Toward(o.side) * slip
           turn == Toward(o.side) * (entry - Target)
<1>1. entry \in Int
  BY Turned
<1>2. turn \in Int
  BY <1>1, Turned, Amounts
<1>3. TakeProfit - turn \in Int /\ -Risk \in Int
  BY <1>2, Amounts
<1>4. o.size \in Nat \ {0} /\ o.side \in {"LONG", "SHORT"}
  BY DEF Order
<1>5. Filled(o, price, slip) =
        [side |-> o.side, entry |-> entry, at |-> Clock, stop |-> -Risk, tp |-> TakeProfit - turn,
         size |-> o.size, left |-> o.size, hits |-> 0, breakeven |-> FALSE, best |-> 0]
  BY DEF Filled
<1> HIDE DEF entry, turn
<1> QED
  BY <1>1, <1>3, <1>4, <1>5 DEF Position

--------------------------------------------------------------------------------
(* The invariant of the types: the account, and where the loop stands.     *)

Accounts ==
    /\ books \in Money
    /\ positions \in [Symbols -> Position \cup {None}]
    /\ pending \in [Symbols -> Order \cup {None}]
    /\ trades \in Seq(Trade)
    /\ Held \cap Ordered = {} /\ Held \cup Ordered \subseteq opt.symbols

Walking == {"update", "minute"}
Leaving == {"minute", "minutes", "batch", "bar", "done"}
StageName == {"OPEN", "LOW", "HIGH", "CLOSE", "SL_CHECK", "LIQ_CHECK"}
StageRecord == [stage : StageName, price : Int]

\* A symbol is walked or still to be walked, and positions are closed by the loop only
\* between the walks, each of them once.
Looping ==
    /\ opt \in Options
    /\ step \in Walking \cup Leaving \cup {"signals", "place", "end"}
    /\ bar \in Nat /\ minute \in 0 .. MinutesPerBar /\ fundedAt \in Nat /\ before \in Nat
    /\ path \in [symbol : Symbols \cup {None}, stages : Seq(StageRecord)]
    /\ AtStage => step \in Walking /\ path.symbol \notin todo
    /\ todo \subseteq Busy /\ (step \notin Walking => todo = {})
    /\ closing \subseteq [symbol : Symbols, reason : Reason, price : Int]
    /\ \A x, y \in closing : x.symbol = y.symbol => x = y
    /\ closing # {} => todo = {} /\ ~AtStage /\ step \in Leaving
    /\ closes \in [Symbols -> Int \cup {None}] /\ ticks \in [Symbols -> Int \cup {None}]

\* The signals of a bar have a symbol each, and those to be placed have no order yet.
Hearing ==
    /\ heard \subseteq Signals
    /\ \A x, y \in heard : x.symbol = y.symbol => x = y
    /\ \A x \in heard : x.symbol \in opt.symbols
    /\ step = "place" => \A x \in heard : x.symbol \notin Busy

Typed == TypeOK /\ Looping /\ Hearing

LEMMA TypeParts ==
    TypeOK <=> /\ Accounts
               /\ AtStage => path.symbol \in Held \cup Ordered
               /\ \A x \in closing : x.symbol \in Held
  BY DEF TypeOK, Accounts

LEMMA TypePartsNext ==
    TypeOK' <=> /\ Accounts'
                /\ AtStage' => path.symbol' \in Held' \cup Ordered'
                /\ \A x \in closing' : x.symbol \in Held'
  BY DEF TypeOK, Accounts

LEMMA HeldTyped ==
    ASSUME Accounts
    PROVE  /\ \A s \in Held : s \in Symbols /\ positions[s] \in Position /\ positions[s] # None
           /\ \A s \in Ordered : s \in Symbols /\ pending[s] \in Order /\ pending[s] # None
           /\ \A s \in Symbols : s \notin Held => positions[s] = None
           /\ \A s \in Symbols : s \notin Ordered => pending[s] = None
  BY NoneAssumption DEF Accounts, Held, Ordered

LEMMA ClockType ==
    ASSUME bar \in Nat, minute \in Nat
    PROVE  Clock \in Nat
  BY Amounts, ProductType DEF Clock, Max2

LEMMA BookedType ==
    ASSUME NEW b \in Money, NEW net \in Int, NEW part \in Nat, NEW released \in Nat
    PROVE  Booked(b, net, part, released) \in Money
<1>1. EntryFee * part \in Nat
  BY Amounts, ProductType
<1>2. Max2(0, b.used - released) \in Nat
  BY DEF Max2, Money
<1>3. b.balance + net \in Int /\ b.booked + net - EntryFee * part \in Int
  BY <1>1 DEF Money
<1>4. Booked(b, net, part, released)
        = [[[b EXCEPT !.balance = b.balance + net] EXCEPT !.booked = b.booked + net - EntryFee * part]
             EXCEPT !.used = Max2(0, b.used - released)]
  BY DEF Booked
<1> QED
  BY <1>2, <1>3, <1>4 DEF Money

LEMMA RecordedType ==
    ASSUME Accounts, NEW reason \in Reason, Clock \in Nat, step \in {"update"} \cup Leaving
    PROVE  Recorded(reason) \in Seq(Trade)
  BY DEF Accounts, Recorded, Trade, Leaving

\* What becomes of the symbols when an order is filled or given up, and when a position is
\* closed or changed.
LEMMA SymbolFilled ==
    ASSUME Accounts, NEW s \in Ordered, NEW p \in Position, opt' = opt,
           positions' = [positions EXCEPT ![s] = p], pending' = [pending EXCEPT ![s] = None],
           books' \in Money, trades' \in Seq(Trade)
    PROVE  Accounts' /\ Held' = Held \cup {s} /\ Ordered' = Ordered \ {s}
<1>1. s \in Symbols
  BY DEF Ordered
<1>2. Held' = Held \cup {s}
  BY <1>1, NoneAssumption DEF Accounts, Held
<1>3. Ordered' = Ordered \ {s}
  BY <1>1 DEF Accounts, Ordered
<1>4. positions' \in [Symbols -> Position \cup {None}] /\ pending' \in [Symbols -> Order \cup {None}]
  BY <1>1 DEF Accounts
<1> QED
  BY <1>2, <1>3, <1>4 DEF Accounts

LEMMA SymbolCancelled ==
    ASSUME Accounts, NEW s \in Ordered, opt' = opt,
           positions' = positions, pending' = [pending EXCEPT ![s] = None],
           books' \in Money, trades' = trades
    PROVE  Accounts' /\ Held' = Held /\ Ordered' = Ordered \ {s}
<1>1. s \in Symbols
  BY DEF Ordered
<1>2. Held' = Held
  BY DEF Held
<1>3. Ordered' = Ordered \ {s}
  BY <1>1 DEF Accounts, Ordered
<1> QED
  BY <1>1, <1>2, <1>3 DEF Accounts

LEMMA SymbolClosed ==
    ASSUME Accounts, NEW s \in Held, opt' = opt,
           positions' = [positions EXCEPT ![s] = None], pending' = pending,
           books' \in Money, trades' \in Seq(Trade)
    PROVE  Accounts' /\ Held' = Held \ {s} /\ Ordered' = Ordered
<1>1. s \in Symbols
  BY DEF Held
<1>2. Held' = Held \ {s}
  BY <1>1 DEF Accounts, Held
<1>3. Ordered' = Ordered
  BY DEF Ordered
<1> QED
  BY <1>1, <1>2, <1>3 DEF Accounts

LEMMA SymbolMoved ==
    ASSUME Accounts, NEW s \in Held, NEW q \in Position, opt' = opt,
           positions' = [positions EXCEPT ![s] = q], pending' = pending,
           books' \in Money, trades' \in Seq(Trade)
    PROVE  Accounts' /\ Held' = Held /\ Ordered' = Ordered
<1>1. s \in Symbols
  BY DEF Held
<1>2. Held' = Held
  BY <1>1, NoneAssumption DEF Accounts, Held
<1>3. Ordered' = Ordered
  BY DEF Ordered
<1> QED
  BY <1>1, <1>2, <1>3 DEF Accounts

LEMMA SymbolOrdered ==
    ASSUME Accounts, NEW s \in opt.symbols, s \in Symbols, s \notin Held, NEW o \in Order, opt' = opt,
           positions' = positions, pending' = [pending EXCEPT ![s] = o],
           books' \in Money, trades' = trades
    PROVE  Accounts' /\ Held' = Held /\ Ordered' = Ordered \cup {s}
<1>1. Held' = Held
  BY DEF Held
<1>2. Ordered' = Ordered \cup {s}
  BY NoneAssumption DEF Accounts, Ordered
<1> QED
  BY <1>1, <1>2 DEF Accounts

--------------------------------------------------------------------------------
(* The operations on a position keep the types.                            *)

LEMMA FillTyped ==
    ASSUME Accounts, Clock \in Nat, NEW s \in Ordered, NEW price \in Int, NEW slip \in Nat,
           Fill(s, price, slip), opt' = opt
    PROVE  /\ Accounts' /\ Held' = Held \cup {s} /\ Ordered' = Ordered \ {s}
           /\ Filled(pending[s], price, slip) \in Position
<1>1. pending[s] \in Order /\ pending[s].size \in Nat
  BY HeldTyped DEF Order
<1>2. Filled(pending[s], price, slip) \in Position
  BY <1>1, FilledType
<1>3. books' \in Money
  <2> DEFINE fee == EntryFee * pending[s].size
             m == Margin(pending[s])
  <2>1. fee \in Nat /\ m \in Nat
    BY <1>1, Amounts, ProductType, MarginType
  <2>2. books \in Money
    BY DEF Accounts
  <2>3. books' = [[[books EXCEPT !.balance = books.balance - fee]
                           EXCEPT !.locked = Max2(0, books.locked - m)] EXCEPT !.used = books.used + m]
    BY DEF Fill
  <2> HIDE DEF fee, m
  <2>4. books.balance - fee \in Int /\ books.used + m \in Nat /\ Max2(0, books.locked - m) \in Nat
    BY <2>1, <2>2 DEF Money, Max2
  <2> QED
    BY <2>2, <2>3, <2>4 DEF Money
<1>4. /\ positions' = [positions EXCEPT ![s] = Filled(pending[s], price, slip)]
      /\ pending' = [pending EXCEPT ![s] = None] /\ trades' \in Seq(Trade)
  BY DEF Fill, Accounts
<1> QED
  BY <1>2, <1>3, <1>4, SymbolFilled

LEMMA CancelTyped ==
    ASSUME Accounts, NEW s \in Ordered, Cancel(s), opt' = opt, positions' = positions, trades' = trades
    PROVE  Accounts' /\ Held' = Held /\ Ordered' = Ordered \ {s}
<1>1. pending[s] \in Order /\ pending[s].size \in Nat
  BY HeldTyped DEF Order
<1>2. Margin(pending[s]) \in Nat /\ books \in Money
  BY <1>1, MarginType DEF Accounts
<1>3. books' \in Money
  BY <1>2 DEF Cancel, Money, Max2
<1> QED
  BY <1>3, SymbolCancelled DEF Cancel

LEMMA ProceedsType ==
    ASSUME NEW gain \in Int, NEW part \in Nat, NEW slip \in Nat
    PROVE  Proceeds(gain, part, slip) \in Int
<1>1. \A a, b \in Int : a * b \in Int
  OBVIOUS
<1> QED
  BY <1>1, Amounts DEF Proceeds

LEMMA CloseTyped ==
    ASSUME Accounts, Clock \in Nat, step \in {"update"} \cup Leaving, NEW s \in Held,
           NEW gain \in Int, NEW slip \in Nat, NEW reason \in Reason,
           Close(s, gain, slip, reason), opt' = opt
    PROVE  Accounts' /\ Held' = Held \ {s} /\ Ordered' = Ordered
<1>1. positions[s] \in Position /\ positions[s].size \in Nat /\ positions[s].left \in Nat
  BY HeldTyped DEF Position
<1>2. Proceeds(gain, positions[s].left, slip) \in Int /\ Margin(positions[s]) \in Nat
  BY <1>1, ProceedsType, MarginType
<1>3. books' \in Money
  BY <1>1, <1>2, BookedType DEF Close, Accounts
<1>4. trades' \in Seq(Trade)
  BY RecordedType DEF Close
<1> QED
  BY <1>3, <1>4, SymbolClosed DEF Close

LEMMA LiquidateTyped ==
    ASSUME Accounts, Clock \in Nat, step \in {"update"} \cup Leaving, NEW s \in Held,
           Liquidate(s), opt' = opt
    PROVE  Accounts' /\ Held' = Held \ {s} /\ Ordered' = Ordered
<1>1. positions[s] \in Position /\ positions[s].size \in Nat /\ positions[s].left \in Nat
  BY HeldTyped DEF Position
<1>2. Margin(positions[s]) \in Nat /\ -Margin(positions[s]) \in Int
  BY <1>1, MarginType
<1>3. books' \in Money
  BY <1>1, <1>2, BookedType DEF Liquidate, Accounts
<1>4. trades' \in Seq(Trade)
  <2>1. "LIQUIDATION" \in Reason
    BY DEF Reason
  <2> QED
    BY <2>1, RecordedType DEF Liquidate
<1> QED
  BY <1>3, <1>4, SymbolClosed DEF Liquidate

LEMMA TakePartTyped ==
    ASSUME Accounts, Clock \in Nat, step \in {"update"} \cup Leaving, NEW s \in Held,
           NEW gain \in Int, NEW part \in Nat, NEW q, q.size \in Nat,
           q.left # 0 => q \in Position, NEW reason \in Reason,
           TakePart(s, gain, part, q, reason), opt' = opt
    PROVE  /\ Accounts' /\ Held' = (IF q.left = 0 THEN Held \ {s} ELSE Held)
           /\ Ordered' = Ordered
<1>1. Proceeds(gain, part, Slip) \in Int /\ Margin(q) \in Nat
  BY Amounts, ProceedsType, MarginType
<1>2. (IF q.left = 0 THEN Margin(q) ELSE 0) \in Nat
  BY <1>1
<1>3. books' \in Money
  BY <1>1, <1>2, BookedType DEF TakePart, Accounts
<1>4. trades' \in Seq(Trade)
  BY RecordedType DEF TakePart
<1>5. CASE q.left = 0
  BY <1>3, <1>4, <1>5, SymbolClosed DEF TakePart
<1>6. CASE q.left # 0
  BY <1>3, <1>4, <1>6, SymbolMoved DEF TakePart
<1> QED
  BY <1>5, <1>6

--------------------------------------------------------------------------------
(* The walk along the stages of a candle.                                  *)

LEMMA StageType ==
    ASSUME Typed, AtStage
    PROVE  /\ Price \in Int /\ Stage \in StageName /\ path.symbol \in Symbols
           /\ path.stages \in Seq(StageRecord) /\ Len(path.stages) \in Nat \ {0}
           /\ step \in Walking /\ closing = {} /\ Clock \in Nat /\ step \in {"update"} \cup Leaving
<1>1. path.stages \in Seq(StageRecord) /\ path.stages # <<>>
  BY DEF Typed, Looping, AtStage
<1>2. Len(path.stages) \in Nat \ {0} /\ Head(path.stages) \in StageRecord
  BY <1>1, EmptySeq, LenProperties, HeadTailProperties
<1>3. Price \in Int /\ Stage \in StageName
  BY <1>2 DEF Price, Stage, StageRecord
<1>4. path.symbol \in Symbols
  BY DEF Typed, TypeOK, Held, Ordered
<1>5. step \in Walking /\ closing = {}
  BY DEF Typed, Looping
<1>6. Clock \in Nat
  <2>1. bar \in Nat /\ minute \in Nat
    BY Amounts DEF Typed, Looping
  <2> QED
    BY <2>1, ClockType
<1> QED
  BY <1>1, <1>2, <1>3, <1>4, <1>5, <1>6 DEF Walking, Leaving

LEMMA WalkedType ==
    ASSUME Typed, AtStage
    PROVE  /\ Walked \in [symbol : Symbols \cup {None}, stages : Seq(StageRecord)]
           /\ Idle \in [symbol : Symbols \cup {None}, stages : Seq(StageRecord)]
           /\ Idle.stages = <<>>
           /\ Walked.stages # <<>> => Walked = [path EXCEPT !.stages = Tail(path.stages)]
<1>1. path \in [symbol : Symbols \cup {None}, stages : Seq(StageRecord)]
  BY DEF Typed, Looping
<1>2. Tail(path.stages) \in Seq(StageRecord)
  BY StageType, HeadTailProperties DEF AtStage
<1>3. Idle \in [symbol : Symbols \cup {None}, stages : Seq(StageRecord)] /\ Idle.stages = <<>>
  BY DEF Idle
<1> QED
  BY <1>1, <1>2, <1>3 DEF Walked

\* A step along the path keeps the types if it keeps those of the account.
LEMMA Walks ==
    ASSUME Typed, AtStage, UNCHANGED <<opt, loop>>, Accounts', path' \in {Idle, Walked},
           Busy \ {path.symbol} \subseteq Busy', AtStage' => path.symbol \in Busy'
    PROVE  Typed'
<1>1. /\ path' \in [symbol : Symbols \cup {None}, stages : Seq(StageRecord)]
      /\ AtStage' => path'.symbol = path.symbol
  BY WalkedType DEF AtStage
<1>2. step \in Walking /\ closing = {} /\ path.symbol \notin todo
  BY StageType DEF Typed, Looping
<1>3. TypeOK'
  BY <1>1, <1>2, TypePartsNext DEF loop, Busy
<1>4. Looping'
  BY <1>1, <1>2 DEF Typed, Looping, loop
<1>5. Hearing'
  BY <1>2 DEF Typed, Hearing, loop, Walking
<1> QED
  BY <1>3, <1>4, <1>5 DEF Typed

--------------------------------------------------------------------------------
(* What a stage can do to the symbol that is walked.                       *)

Entering(s) == \E price \in Int, slip \in Nat : Fill(s, price, slip)
GivingUp(s) == Cancel(s) /\ UNCHANGED <<positions, trades>>
Waiting(s) ==
    \E o \in Order :
        /\ o.size = pending[s].size /\ o.side = pending[s].side
        /\ pending' = [pending EXCEPT ![s] = o]
        /\ UNCHANGED <<positions, books, trades>>
Parting(s) ==
    \/ \E gain \in Int, slip \in Nat, reason \in Reason : Close(s, gain, slip, reason)
    \/ Liquidate(s)
\* q is what is left of p when the part has been taken.
LeftOf(p, part, q) ==
    /\ part <= p.left /\ q.left = p.left - part /\ q.size = p.size /\ q.side = p.side
    /\ q.left # 0 => q \in Position
Sharing(s) ==
    \E gain \in Int, part \in Nat, reason \in Reason : \E q :
        /\ LeftOf(positions[s], part, q) /\ TakePart(s, gain, part, q, reason)
        /\ AtStage' => q.left # 0
Moving(s) ==
    \E q \in Position :
        /\ q.size = positions[s].size /\ q.left = positions[s].left /\ q.side = positions[s].side
        /\ positions' = [positions EXCEPT ![s] = q]
        /\ UNCHANGED <<pending, books, trades>>

StageAction ==
    \/ CancelOrder \/ FillOrder \/ OrderWaits
    \/ Liquidated \/ Stopped \/ AutoClosed \/ TookProfit \/ Holds

OrderEffect(s) ==
    /\ s \in Ordered
    /\ \/ Entering(s) /\ path' = Idle
       \/ GivingUp(s) /\ path' = Idle
       \/ Waiting(s) /\ path' = Walked
PositionEffect(s) ==
    /\ s \in Held
    /\ \/ Parting(s) /\ path' = Idle
       \/ Sharing(s) /\ path' \in {Idle, Walked}
       \/ Moving(s) /\ path' = Walked

LEMMA TriggeredType ==
    ASSUME NEW o \in Order
    PROVE  [o EXCEPT !.triggered = TRUE] \in Order
  BY Zenon DEF Order

LEMMA OrderEffects ==
    ASSUME Typed, CancelOrder \/ FillOrder \/ OrderWaits
    PROVE  AtStage /\ UNCHANGED <<opt, loop>> /\ OrderEffect(path.symbol)
<1> DEFINE s == path.symbol
<1>0. AtStage /\ s \in Ordered
  BY DEF CancelOrder, FillOrder, OrderWaits, OrderStage
<1>1. Accounts
  BY TypeParts DEF Typed
<1>2. Price \in Int /\ s \in Symbols /\ pending \in [Symbols -> Order \cup {None}] /\ pending[s] \in Order
  BY <1>0, <1>1, StageType, HeldTyped DEF Accounts
<1>3. CASE CancelOrder
  BY <1>0, <1>3 DEF CancelOrder, OrderEffect, GivingUp
<1>4. CASE FillOrder
  <2>1. \E price \in Int, slip \in Nat : Fill(s, price, slip)
    BY <1>2, <1>4, Amounts DEF FillOrder
  <2> QED
    BY <1>0, <1>4, <2>1 DEF FillOrder, OrderEffect, Entering
<1>5. CASE OrderWaits
  <2>1. CASE UNCHANGED pending
    <3>1. pending' = [pending EXCEPT ![s] = pending[s]]
      BY <1>2, <2>1
    <3>2. UNCHANGED <<positions, books, trades>>
      BY <1>5 DEF OrderWaits
    <3>3. Waiting(s)
      BY <1>2, <3>1, <3>2 DEF Waiting
    <3> QED
      BY <1>0, <1>5, <3>3 DEF OrderWaits, OrderEffect
  <2>2. CASE pending' = [pending EXCEPT ![s].triggered = TRUE]
    <3> DEFINE o == [pending[s] EXCEPT !.triggered = TRUE]
    <3>1. o \in Order
      BY <1>2, TriggeredType
    <3>2. o.size = pending[s].size /\ o.side = pending[s].side
      BY <1>2 DEF Order
    <3>3. pending' = [pending EXCEPT ![s] = o]
      BY <2>2
    <3>4. UNCHANGED <<positions, books, trades>>
      BY <1>5 DEF OrderWaits
    <3> HIDE DEF o
    <3>5. Waiting(s)
      BY <3>1, <3>2, <3>3, <3>4 DEF Waiting
    <3> QED
      BY <1>0, <1>5, <3>5 DEF OrderWaits, OrderEffect
  <2> QED
    BY <1>5, <2>1, <2>2 DEF OrderWaits
<1> QED
  BY <1>3, <1>4, <1>5

LEMMA SharingBy ==
    ASSUME NEW s, NEW gain \in Int, NEW part \in Nat, NEW q, NEW reason \in Reason,
           LeftOf(positions[s], part, q), TakePart(s, gain, part, q, reason), AtStage' => q.left # 0
    PROVE  Sharing(s)
<1>1. \E r : /\ LeftOf(positions[s], part, r) /\ TakePart(s, gain, part, r, reason)
            /\ AtStage' => r.left # 0
  OBVIOUS
<1> QED
  BY <1>1, Zenon DEF Sharing

LEMMA PositionEffects ==
    ASSUME Typed, Liquidated \/ Stopped \/ AutoClosed \/ TookProfit \/ Holds
    PROVE  AtStage /\ UNCHANGED <<opt, loop>> /\ PositionEffect(path.symbol)
<1> DEFINE s == path.symbol
           p == positions[s]
           g == Gain(p, Price)
<1>0. AtStage /\ s \in Held /\ UNCHANGED <<opt, loop>>
  BY DEF Liquidated, Stopped, AutoClosed, TookProfit, Holds, PositionStage
<1>1. Accounts
  BY TypeParts DEF Typed
<1>2. p \in Position
  BY <1>0, <1>1, HeldTyped
<1>3. g \in Int
  BY <1>0, <1>2, StageType, GainType
<1>4. p.left \in Nat \ {0} /\ p.tp \in Int
  BY <1>2 DEF Position
<1>4a. path' = Idle => ~AtStage'
  BY DEF Idle, AtStage
<1> HIDE DEF p, g
<1>5. CASE Liquidated
  BY <1>0, <1>5 DEF Liquidated, PositionEffect, Parting
<1>6. CASE Stopped
  <2>1. \E gain \in Int, slip \in Nat, reason \in Reason : Close(s, gain, slip, reason)
    <3>1. -HardCap \in Int /\ -MaxSl \in Int /\ Slip \in Nat
      BY Amounts
    <3>2. "STOP" \in Reason /\ "TIME_EXIT" \in Reason /\ "HARD_CAP" \in Reason
      BY DEF Reason
    <3> QED
      BY <1>3, <1>6, <3>1, <3>2 DEF Stopped, p, g
  <2> QED
    BY <1>0, <1>6, <2>1 DEF Stopped, PositionEffect, Parting
<1>7. CASE AutoClosed
  <2> DEFINE first == opt.ticks /\ step = "minute"
             price == IF opt.atThreshold \/ first \/ Stage # "CLOSE" THEN AutoClose ELSE g
             seen == IF step = "minute" THEN LockedIn(Watched(p, g), g) ELSE Watched(p, g)
             part == Part(p, 50)
             q == PartTaken(seen, part)
  <2>1. price \in Int /\ Slip \in Nat
    BY <1>3, Amounts
  <2>2. seen \in Position /\ seen.left = p.left /\ seen.size = p.size /\ seen.side = p.side
    <3>1. Watched(p, g) \in Position
      BY <1>2, <1>3, WatchedType
    <3> QED
      BY <1>2, <1>3, <3>1, WatchedType, LockedInType DEF Kept
  <2>3. part \in Nat /\ part <= p.left
    BY <1>2, PartType
  <2>4. LeftOf(p, part, q)
    <3> HIDE DEF seen, part
    <3> QED
      BY <2>2, <2>3, PartTakenType DEF LeftOf
  <2>5. \/ TakePart(s, price, part, q, "AUTO_CLOSE_PARTIAL")
        \/ Close(s, price, Slip, "AUTO_CLOSE")
    BY <1>7 DEF AutoClosed, p, g
  <2>6. path' = Idle /\ "AUTO_CLOSE" \in Reason /\ "AUTO_CLOSE_PARTIAL" \in Reason
    BY <1>7 DEF AutoClosed, Reason
  <2> HIDE DEF price, part, q
  <2>7. CASE TakePart(s, price, part, q, "AUTO_CLOSE_PARTIAL")
    <3>1. Sharing(s)
      BY <1>4a, <2>1, <2>3, <2>4, <2>6, <2>7, SharingBy DEF p
    <3> QED
      BY <1>0, <2>6, <3>1 DEF PositionEffect
  <2>8. CASE Close(s, price, Slip, "AUTO_CLOSE")
    BY <1>0, <2>1, <2>6, <2>8 DEF PositionEffect, Parting
  <2> QED
    BY <2>5, <2>7, <2>8
<1>8. CASE TookProfit
  <2> DEFINE part == Part(p, IF opt.fullTp THEN 100 ELSE 60)
             q == PartTaken(Watched(p, g), part)
             on == step # "minute" /\ q.left > 0
             r == IF on THEN Trailed(q) ELSE q
  <2>1. part \in Nat /\ part <= p.left
    BY <1>2, PartType
  <2>2. Watched(p, g) \in Position /\ Watched(p, g).left = p.left /\ Watched(p, g).size = p.size
        /\ Watched(p, g).side = p.side
    BY <1>2, <1>3, WatchedType
  <2>3. LeftOf(p, part, q) /\ q.left \in Nat
    <3> HIDE DEF part
    <3> QED
      BY <2>1, <2>2, PartTakenType DEF LeftOf
  <2>4. TakePart(s, p.tp, part, r, "TAKE_PROFIT") /\ path' = IF on THEN Walked ELSE Idle
    BY <1>8 DEF TookProfit, p, g
  <2> HIDE DEF part, q
  <2>5. LeftOf(p, part, r) /\ (on => r.left # 0)
    <3>1. CASE on
      <4>1. q \in Position /\ q.left # 0
        BY <2>3, <3>1 DEF LeftOf
      <4> QED
        BY <2>3, <3>1, <4>1, TrailedType DEF LeftOf, Kept
    <3>2. CASE ~on
      BY <2>3, <3>2
    <3> QED
      BY <3>1, <3>2
  <2>6. (AtStage' => on) /\ path' \in {Idle, Walked} /\ "TAKE_PROFIT" \in Reason
    BY <1>4a, <2>4 DEF Reason
  <2> HIDE DEF on, r
  <2>7. Sharing(s)
    BY <1>4, <2>1, <2>4, <2>5, <2>6, SharingBy DEF p
  <2> QED
    BY <1>0, <2>6, <2>7 DEF PositionEffect
<1>9. CASE Holds
  <2> DEFINE seen == LockedIn(Watched(p, g), g)
             moved == IF step = "minute"
                      THEN IF Stage = "CLOSE" THEN Trailed(AtBreakeven(seen, g)) ELSE seen
                      ELSE IF opt.minutes THEN p ELSE Trailed(AtBreakeven(seen, g))
  <2>1. Watched(p, g) \in Position /\ Watched(p, g).left = p.left /\ Watched(p, g).size = p.size
        /\ Watched(p, g).side = p.side
    BY <1>2, <1>3, WatchedType
  <2>2. seen \in Position /\ seen.left = p.left /\ seen.size = p.size /\ seen.side = p.side
    BY <1>3, <2>1, LockedInType DEF Kept
  <2>3. positions' = [positions EXCEPT ![s] = moved] /\ path' = Walked
        /\ UNCHANGED <<pending, books, trades>>
    BY <1>9 DEF Holds, p, g
  <2> HIDE DEF seen
  <2>4. AtBreakeven(seen, g) \in Position /\ Kept(seen, AtBreakeven(seen, g))
    BY <1>3, <2>2, AtBreakevenType
  <2>5. Trailed(AtBreakeven(seen, g)) \in Position
        /\ Kept(AtBreakeven(seen, g), Trailed(AtBreakeven(seen, g)))
    BY <2>4, TrailedType
  <2>6. moved \in Position /\ moved.size = p.size /\ moved.left = p.left /\ moved.side = p.side
    BY <1>2, <2>2, <2>4, <2>5 DEF Kept
  <2> HIDE DEF moved
  <2>7. Moving(s)
    BY <2>3, <2>6 DEF Moving, p
  <2> QED
    BY <1>0, <2>3, <2>7 DEF PositionEffect
<1> QED
  BY <1>0, <1>5, <1>6, <1>7, <1>8, <1>9

LEMMA StageTyped ==
    ASSUME Typed, StageAction
    PROVE  Typed'
<1> DEFINE s == path.symbol
<1>1. AtStage /\ UNCHANGED <<opt, loop>> /\ (OrderEffect(s) \/ PositionEffect(s))
  BY OrderEffects, PositionEffects DEF StageAction
<1>2. Accounts /\ Clock \in Nat /\ step \in {"update"} \cup Leaving /\ opt' = opt
  BY <1>1, StageType, TypeParts DEF Typed
<1>3. path' = Idle => ~AtStage'
  BY DEF Idle, AtStage
<1>4. ASSUME s \in Ordered, Entering(s), path' = Idle
      PROVE  Typed'
  <2>1. PICK price \in Int, slip \in Nat : Fill(s, price, slip)
    BY <1>4 DEF Entering
  <2>2. Accounts' /\ Held' = Held \cup {s} /\ Ordered' = Ordered \ {s}
    BY <1>2, <1>4, <2>1, FillTyped
  <2> QED
    BY <1>1, <1>3, <1>4, <2>2, Walks DEF Busy
<1>5. ASSUME s \in Ordered, GivingUp(s), path' = Idle
      PROVE  Typed'
  <2>1. Accounts' /\ Held' = Held /\ Ordered' = Ordered \ {s}
    BY <1>2, <1>5, CancelTyped DEF GivingUp
  <2> QED
    BY <1>1, <1>3, <1>5, <2>1, Walks DEF Busy
<1>6. ASSUME s \in Ordered, Waiting(s), path' = Walked
      PROVE  Typed'
  <2>1. PICK o \in Order : pending' = [pending EXCEPT ![s] = o] /\ UNCHANGED <<positions, books, trades>>
    BY <1>6 DEF Waiting
  <2>2. Accounts' /\ Held' = Held /\ Ordered' = Ordered \cup {s}
    <3>1. s \in Symbols /\ s \in opt.symbols /\ s \notin Held /\ books' \in Money
      BY <1>2, <1>6, <2>1, HeldTyped DEF Accounts
    <3> QED
      BY <1>2, <2>1, <3>1, SymbolOrdered
  <2> QED
    BY <1>1, <1>6, <2>2, Walks DEF Busy
<1>7. ASSUME s \in Held, Parting(s), path' = Idle
      PROVE  Typed'
  <2>1. Accounts' /\ Held' = Held \ {s} /\ Ordered' = Ordered
    BY <1>2, <1>7, CloseTyped, LiquidateTyped DEF Parting
  <2> QED
    BY <1>1, <1>3, <1>7, <2>1, Walks DEF Busy
<1>8. ASSUME s \in Held, Sharing(s), path' \in {Idle, Walked}
      PROVE  Typed'
  <2>1. PICK gain \in Int, part \in Nat, reason \in Reason : \E r :
           /\ LeftOf(positions[s], part, r) /\ TakePart(s, gain, part, r, reason)
           /\ AtStage' => r.left # 0
    BY <1>8 DEF Sharing
  <2>1a. PICK q :
           /\ LeftOf(positions[s], part, q) /\ TakePart(s, gain, part, q, reason)
           /\ AtStage' => q.left # 0
    BY <2>1
  <2>2. q.size \in Nat
    BY <1>2, <1>8, <2>1a, HeldTyped DEF LeftOf, Position
  <2>3. Accounts' /\ Held' = (IF q.left = 0 THEN Held \ {s} ELSE Held) /\ Ordered' = Ordered
    BY <1>2, <1>8, <2>1a, <2>2, TakePartTyped DEF LeftOf
  <2>4. Busy \ {s} \subseteq Busy' /\ (AtStage' => s \in Busy')
    BY <1>8, <2>1a, <2>3 DEF Busy
  <2> QED
    BY <1>1, <1>8, <2>3, <2>4, Walks
<1>9. ASSUME s \in Held, Moving(s), path' = Walked
      PROVE  Typed'
  <2>1. PICK q \in Position : positions' = [positions EXCEPT ![s] = q] /\ UNCHANGED <<pending, books, trades>>
    BY <1>9 DEF Moving
  <2>2. books' \in Money /\ trades' \in Seq(Trade)
    BY <1>2, <2>1 DEF Accounts
  <2>3. Accounts' /\ Held' = Held /\ Ordered' = Ordered
    BY <1>2, <1>9, <2>1, <2>2, SymbolMoved
  <2> QED
    BY <1>1, <1>9, <2>3, Walks DEF Busy
<1> QED
  BY <1>1, <1>4, <1>5, <1>6, <1>7, <1>8, <1>9 DEF OrderEffect, PositionEffect

--------------------------------------------------------------------------------
(* The steps of the main loop keep the types.                              *)

LEMMA AtType ==
    ASSUME NEW stage \in StageName, NEW price \in Int
    PROVE  At(stage, price) \in Seq(StageRecord) /\ At(stage, price) # <<>>
  BY DEF At, StageRecord

LEMMA CandleType ==
    ASSUME Typed, NEW c \in opt.market
    PROVE  /\ c.open \in Int /\ c.high \in Int /\ c.low \in Int /\ c.close \in Int
           /\ c.low <= c.open /\ c.open <= c.high /\ c.low <= c.close /\ c.close <= c.high
<1>1. c \in Candles
  BY OptionsAssumption DEF Typed, Looping
<1> QED
  BY <1>1, CandlesAssumption

LEMMA CheckpointsType ==
    ASSUME NEW p \in Position, NEW c
    PROVE  Checkpoints(p, c) \in Seq(StageRecord)
<1>1. PriceAt(p, p.stop) \in Int /\ PriceAt(p, -Liq) \in Int
  BY GainType, Amounts DEF Position
<1>2. "SL_CHECK" \in StageName /\ "LIQ_CHECK" \in StageName
  BY DEF StageName
<1>3. StopCheck(p, c) \in Seq(StageRecord) /\ LiqCheck(p, c) \in Seq(StageRecord)
  BY <1>1, <1>2, AtType, EmptySeq DEF StopCheck, LiqCheck, Reached
<1> QED
  BY <1>3, ConcatProperties DEF Checkpoints

LEMMA CandleStages ==
    ASSUME Typed, NEW c \in opt.market
    PROVE  /\ At("OPEN", c.open) \in Seq(StageRecord) /\ At("LOW", c.low) \in Seq(StageRecord)
           /\ At("HIGH", c.high) \in Seq(StageRecord) /\ At("CLOSE", c.close) \in Seq(StageRecord)
  BY CandleType, AtType DEF StageName

LEMMA StagesType ==
    ASSUME Typed, NEW s \in Busy, NEW c \in opt.market
    PROVE  Stages(s, c) \in Seq(StageRecord)
<1>1. \A l : BasePath(l, c) \in Seq(StageRecord)
  BY CandleStages, ConcatProperties DEF BasePath
<1>2. s \in Held => Checkpoints(positions[s], c) \in Seq(StageRecord)
  BY TypeParts, HeldTyped, CheckpointsType DEF Typed
<1>3. Path(s, c) \in Seq(StageRecord)
  <2>1. CASE s \notin Held
    BY <1>1, <2>1 DEF Path
  <2>2. CASE s \in Held
    <3> DEFINE checks == Checkpoints(positions[s], c)
    <3>1. checks \in Seq(StageRecord)
      BY <1>2, <2>2
    <3> HIDE DEF checks
    <3>2. At("OPEN", c.open) \o checks \o At("LOW", c.low) \o At("HIGH", c.high) \o At("CLOSE", c.close)
            \in Seq(StageRecord)
      BY <3>1, CandleStages, ConcatProperties
    <3>3. At("OPEN", c.open) \o At("HIGH", c.high) \o checks \o At("LOW", c.low) \o At("CLOSE", c.close)
            \in Seq(StageRecord)
      BY <3>1, CandleStages, ConcatProperties
    <3> QED
      BY <2>2, <3>2, <3>3 DEF Path, checks
  <2> QED
    BY <2>1, <2>2
<1> QED
  BY <1>1, <1>3, CandleStages, EmptySeq DEF Stages

LEMMA StartSymbolTyped ==
    ASSUME Typed, NEW s \in Symbols, StartSymbol(s)
    PROVE  Typed'
<1>1. PICK c \in opt.market :
        /\ path' = IF Stages(s, c) = <<>> THEN Idle ELSE [symbol |-> s, stages |-> Stages(s, c)]
        /\ IF step = "minute" THEN ticks' = [ticks EXCEPT ![s] = c.close] /\ UNCHANGED closes
                              ELSE closes' = [closes EXCEPT ![s] = c.close] /\ UNCHANGED ticks
  BY DEF StartSymbol
<1>2. /\ UNCHANGED <<opt, bar, minute, step, closing, heard, account, fundedAt, before, covered>>
      /\ todo' = todo \ {s} /\ s \in todo /\ ~AtStage /\ step \in Walking
  BY DEF StartSymbol, Walking
<1>3. Held' = Held /\ Ordered' = Ordered /\ Busy' = Busy /\ Accounts'
  BY <1>2, TypeParts DEF Held, Ordered, Busy, account, Accounts, Typed
<1>4. s \in Busy /\ closing = {}
  BY <1>2 DEF Typed, Looping
<1>5. Stages(s, c) \in Seq(StageRecord) /\ c.close \in Int
  BY <1>4, StagesType, CandleType
<1>6. /\ path' \in [symbol : Symbols \cup {None}, stages : Seq(StageRecord)]
      /\ AtStage' => path'.symbol = s
  BY <1>1, <1>5, EmptySeq DEF Idle, AtStage
<1>7. closes' \in [Symbols -> Int \cup {None}] /\ ticks' \in [Symbols -> Int \cup {None}]
  BY <1>1, <1>5 DEF Typed, Looping
<1>8. TypeOK'
  BY <1>2, <1>3, <1>4, <1>6, TypePartsNext DEF Busy
<1>9. Looping'
  BY <1>2, <1>3, <1>4, <1>6, <1>7 DEF Typed, Looping
<1>10. Hearing'
  BY <1>2, <1>3 DEF Typed, Hearing
<1> QED
  BY <1>8, <1>9, <1>10 DEF Typed

LEMMA FundingType ==
    ASSUME Accounts, opt \in Options, Funding, bar \in Nat, fundedAt \in Nat
    PROVE  books' \in Money /\ fundedAt' \in Nat
<1>1. fundedAt' \in Nat
  <2>1. fundedAt' = bar + 1 \/ fundedAt' = fundedAt
    BY Zenon DEF Funding
  <2> QED
    BY <2>1
<1>2. CASE FundingDue
  <2>1. PICK rate \in [Held -> {-FundingUnit, FundingUnit}] :
          LET paid == SumFunction([s \in Held |-> Toward(positions[s].side) * rate[s]
                                                   * positions[s].left])
          IN  books' = [books EXCEPT !.balance = @ - paid, !.paid = @ + paid]
    BY <1>2 DEF Funding
  <2> DEFINE f == [s \in Held |-> Toward(positions[s].side) * rate[s] * positions[s].left]
             paid == SumFunction(f)
  <2>2. f \in [Held -> Int]
    <3> SUFFICES ASSUME NEW s \in Held
                 PROVE  Toward(positions[s].side) * rate[s] * positions[s].left \in Int
      OBVIOUS
    <3>1. positions[s].left \in Nat /\ rate[s] \in Int
      BY HeldTyped, Amounts DEF Position
    <3>2. Toward(positions[s].side) * rate[s] \in Int
      BY <3>1, Turned
    <3>3. \A a \in Int, b \in Nat : a * b \in Int
      OBVIOUS
    <3> QED
      BY <3>1, <3>2, <3>3
  <2>3. IsFiniteSet(Held)
    BY SymbolsAssumption, FS_Subset DEF Held
  <2> HIDE DEF f
  <2>4. paid \in Int
    BY <2>2, <2>3, SumType
  <2>5. books' = [[books EXCEPT !.balance = books.balance - paid] EXCEPT !.paid = books.paid + paid]
    BY <2>1 DEF f
  <2> HIDE DEF paid
  <2>6. books.balance - paid \in Int /\ books.paid + paid \in Int
    BY <2>4 DEF Accounts, Money
  <2> QED
    BY <1>1, <2>5, <2>6 DEF Accounts, Money
<1>3. CASE ~FundingDue
  BY <1>1, <1>3 DEF Funding, Accounts
<1> QED
  BY <1>2, <1>3

LEMMA Untouched ==
    ASSUME UNCHANGED <<opt, positions, pending>>
    PROVE  Held' = Held /\ Ordered' = Ordered /\ Busy' = Busy
  BY DEF Held, Ordered, Busy

LEMMA UntouchedAccounts ==
    ASSUME Accounts, UNCHANGED <<opt, positions, pending>>, books' \in Money, trades' \in Seq(Trade)
    PROVE  Accounts'
  BY Untouched DEF Accounts

LEMMA NextBarTyped ==
    ASSUME Typed, NextBar
    PROVE  Typed'
<1>1. /\ step = "bar" /\ closing = {} /\ bar' = bar + 1 /\ minute' = 0 /\ step' = "update"
      /\ Funding /\ todo' = Busy /\ closes' = Unknown
      /\ UNCHANGED <<opt, path, closing, heard, positions, pending, trades, before, covered, ticks>>
  BY DEF NextBar, Busy
<1>2. Accounts /\ opt \in Options /\ bar \in Nat /\ fundedAt \in Nat
  BY TypeParts DEF Typed, Looping
<1>3. books' \in Money /\ fundedAt' \in Nat
  BY <1>1, <1>2, FundingType
<1>4. Accounts' /\ Held' = Held /\ Ordered' = Ordered /\ Busy' = Busy
  BY <1>1, <1>2, <1>3, UntouchedAccounts, Untouched DEF Accounts
<1>5. ~AtStage /\ path' = path
  BY <1>1 DEF Typed, Looping, Walking
<1>6. TypeOK'
  BY <1>1, <1>4, <1>5, TypePartsNext DEF AtStage
<1>7. Looping'
  BY <1>1, <1>2, <1>3, <1>4, <1>5, Amounts DEF Typed, Looping, Unknown, AtStage, Walking
<1>8. Hearing'
  BY <1>1 DEF Typed, Hearing
<1> QED
  BY <1>6, <1>7, <1>8 DEF Typed

\* Steps that leave the account, the symbols walked and the path alone.
LEMMA LoopStep ==
    ASSUME Typed, UNCHANGED <<opt, bar, path, positions, pending, books, fundedAt, closes>>,
           trades' \in Seq(Trade), ~AtStage, before' \in Nat, minute' \in 0 .. MinutesPerBar,
           step' \in Walking \cup Leaving \cup {"signals", "place", "end"},
           todo' \subseteq Busy, step' \notin Walking => todo' = {},
           ticks' \in [Symbols -> Int \cup {None}],
           closing' \subseteq [symbol : Held, reason : Reason, price : Int],
           \A x, y \in closing' : x.symbol = y.symbol => x = y,
           closing' # {} => todo' = {} /\ step' \in Leaving,
           Hearing'
    PROVE  Typed'
<1>1. Accounts /\ Held \subseteq Symbols
  BY TypeParts DEF Typed, Held
<1>2. Accounts' /\ Held' = Held /\ Ordered' = Ordered /\ Busy' = Busy
  BY <1>1, UntouchedAccounts, Untouched DEF Accounts
<1>3. ~AtStage'
  BY DEF AtStage
<1>4. TypeOK'
  BY <1>2, <1>3, TypePartsNext
<1>5. closing' \subseteq [symbol : Symbols, reason : Reason, price : Int]
  BY <1>1
<1>6. Looping'
  BY <1>2, <1>3, <1>5 DEF Typed, Looping
<1> QED
  BY <1>4, <1>6 DEF Typed

\* The trades in J are told once more.
Telling(J) ==
    trades' = [i \in DOMAIN trades |->
                 IF i \in J THEN [trades[i] EXCEPT !.told = trades[i].told + 1] ELSE trades[i]]

LEMMA TellingType ==
    ASSUME Accounts, NEW J, Telling(J)
    PROVE  /\ trades' \in Seq(Trade) /\ Len(trades') = Len(trades) /\ DOMAIN trades' = DOMAIN trades
           /\ DOMAIN trades = 1 .. Len(trades) /\ Len(trades) \in Nat
           /\ \A i \in DOMAIN trades :
                /\ trades[i] \in Trade /\ trades'[i].at = trades[i].at /\ trades'[i].by = trades[i].by
                /\ trades'[i].told = IF i \in J THEN trades[i].told + 1 ELSE trades[i].told
<1>1. trades \in Seq(Trade) /\ Len(trades) \in Nat /\ DOMAIN trades = 1 .. Len(trades)
  BY LenProperties DEF Accounts
<1>2. ASSUME NEW i \in DOMAIN trades
      PROVE  trades[i] \in Trade /\ [trades[i] EXCEPT !.told = trades[i].told + 1] \in Trade
  <2>1. trades[i] \in Trade
    BY <1>1, ElementOfSeq
  <2> QED
    BY <2>1 DEF Trade
<1>3. trades' \in [1 .. Len(trades) -> Trade]
  BY <1>1, <1>2 DEF Telling
<1>4. trades' \in Seq(Trade)
  BY <1>1, <1>3, SeqDef
<1>5. ASSUME NEW i \in DOMAIN trades
      PROVE  /\ trades'[i].at = trades[i].at /\ trades'[i].by = trades[i].by
             /\ trades'[i].told = IF i \in J THEN trades[i].told + 1 ELSE trades[i].told
  BY <1>2 DEF Telling, Trade
<1> QED
  BY <1>1, <1>2, <1>3, <1>4, <1>5, LenProperties

LEMMA HearingKept ==
    ASSUME Hearing, UNCHANGED <<opt, heard, positions, pending>>, step' # "place"
    PROVE  Hearing'
  BY DEF Hearing

\* The three steps that tell or do not tell, as sets of trades.
LEMMA TellingOfBar ==
    ASSUME TellOfBar
    PROVE  Telling({i \in DOMAIN trades : trades[i].at = Clock})
  BY DEF TellOfBar, Told, Telling

LEMMA TellingOfMinutes ==
    ASSUME TellOfMinutes
    PROVE  Telling({i \in DOMAIN trades : i > before})
  BY DEF TellOfMinutes, Told, Telling

LEMMA TellOfBarTyped ==
    ASSUME Typed, TellOfBar
    PROVE  Typed'
<1>1. /\ step = "update" /\ todo = {} /\ ~AtStage /\ before' = Len(trades)
      /\ step' \in {"minutes", "signals"}
      /\ UNCHANGED <<opt, bar, minute, todo, path, closing, heard, positions, pending, books,
                     fundedAt, covered, closes, ticks>>
  BY DEF TellOfBar
<1>2. trades' \in Seq(Trade) /\ before' \in Nat
  BY <1>1, TellingOfBar, TellingType, TypeParts DEF Typed
<1>3. Hearing'
  BY <1>1, HearingKept DEF Typed
<1>4. closing' = {} /\ minute \in 0 .. MinutesPerBar /\ ticks \in [Symbols -> Int \cup {None}]
  BY <1>1 DEF Typed, Looping, Leaving
<1> QED
  BY <1>1, <1>2, <1>3, <1>4, LoopStep DEF Leaving

LEMMA TellOfMinutesTyped ==
    ASSUME Typed, TellOfMinutes
    PROVE  Typed'
<1>1. /\ step = "minutes" /\ closing = {} /\ minute' = 0 /\ step' = "signals"
      /\ UNCHANGED <<opt, bar, todo, path, closing, heard, positions, pending, books, fundedAt,
                     before, covered, closes, ticks>>
  BY DEF TellOfMinutes
<1>2. trades' \in Seq(Trade) /\ before' \in Nat
  BY <1>1, TellingOfMinutes, TellingType, TypeParts DEF Typed, Looping
<1>3. Hearing'
  BY <1>1, HearingKept DEF Typed
<1>4. ~AtStage /\ todo = {} /\ ticks \in [Symbols -> Int \cup {None}] /\ 0 \in 0 .. MinutesPerBar
  BY <1>1, Amounts DEF Typed, Looping, Walking
<1> QED
  BY <1>1, <1>2, <1>3, <1>4, LoopStep

LEMMA ClosingType ==
    ASSUME NEW S, S \subseteq Held, NEW prices \in [Symbols -> Int \cup {None}], NEW reason \in Reason
    PROVE  /\ Closing(S, prices, reason) \subseteq [symbol : Held, reason : Reason, price : Int]
           /\ \A x, y \in Closing(S, prices, reason) : x.symbol = y.symbol => x = y
<1>1. \A s \in S : s \in Symbols /\ (prices[s] # None => prices[s] \in Int)
  BY DEF Held
<1> QED
  BY <1>1 DEF Closing

LEMMA StartMinuteTyped ==
    ASSUME Typed, StartMinute
    PROVE  Typed'
<1>1. /\ step = "minutes" /\ closing = {} /\ minute < MinutesPerBar
      /\ ticks' = Unknown /\ step' = "minute" /\ minute' = minute + 1
      /\ UNCHANGED <<opt, bar, path, heard, account, fundedAt, before, closes>>
  BY DEF StartMinute
<1>2. PICK present \in SUBSET opt.symbols \ {{}} :
        IF opt.deadClose /\ Dead
        THEN /\ \E price \in [Held -> {c.close : c \in opt.market}] :
                  closing' = {[symbol |-> s, reason |-> "DZ_FORCE_CLOSE", price |->
                               IF s \in present THEN price[s] ELSE positions[s].entry] : s \in Held}
             /\ UNCHANGED <<todo, covered>>
        ELSE /\ todo' = Held \cap present
             /\ covered' = covered \cup present
             /\ UNCHANGED closing
  BY DEF StartMinute
<1>3. ~AtStage /\ todo = {} /\ minute \in 0 .. MinutesPerBar /\ Accounts /\ before \in Nat
  BY <1>1, TypeParts DEF Typed, Looping, Walking
<1>4. /\ todo' \subseteq Busy /\ (closing' # {} => todo' = {})
      /\ closing' \subseteq [symbol : Held, reason : Reason, price : Int]
      /\ \A x, y \in closing' : x.symbol = y.symbol => x = y
  <2>1. CASE opt.deadClose /\ Dead
    <3>1. PICK price \in [Held -> {c.close : c \in opt.market}] :
             closing' = {[symbol |-> s, reason |-> "DZ_FORCE_CLOSE", price |->
                          IF s \in present THEN price[s] ELSE positions[s].entry] : s \in Held}
      BY <1>2, <2>1
    <3> DEFINE of(s) == IF s \in present THEN price[s] ELSE positions[s].entry
    <3>2. ASSUME NEW s \in Held
          PROVE  of(s) \in Int
      <4>1. PICK c \in opt.market : price[s] = c.close
        BY <3>1
      <4>2. positions[s].entry \in Int
        BY <1>3, HeldTyped DEF Position
      <4> QED
        BY <4>1, <4>2, CandleType
    <3>3. closing' = {[symbol |-> s, reason |-> "DZ_FORCE_CLOSE", price |-> of(s)] : s \in Held}
      BY <3>1
    <3>4. "DZ_FORCE_CLOSE" \in Reason
      BY DEF Reason
    <3> HIDE DEF of
    <3>5. closing' \subseteq [symbol : Held, reason : Reason, price : Int]
      BY <3>2, <3>3, <3>4
    <3>6. \A x, y \in closing' : x.symbol = y.symbol => x = y
      BY <3>3
    <3>7. todo' = {}
      BY <1>2, <1>3, <2>1
    <3> QED
      BY <3>5, <3>6, <3>7
  <2>2. CASE ~(opt.deadClose /\ Dead)
    BY <1>1, <1>2, <2>2 DEF Busy
  <2> QED
    BY <2>1, <2>2
<1>5. Hearing'
  BY <1>1, HearingKept DEF Typed, account
<1>6. /\ ticks' \in [Symbols -> Int \cup {None}] /\ minute' \in 0 .. MinutesPerBar
      /\ trades' \in Seq(Trade)
  BY <1>1, <1>3, Amounts DEF Unknown, account, Accounts
<1> QED
  BY <1>1, <1>3, <1>4, <1>5, <1>6, LoopStep DEF account, Walking, Leaving

LEMMA SkipMinuteTyped ==
    ASSUME Typed, SkipMinute
    PROVE  Typed'
<1>1. /\ step = "minutes" /\ closing = {} /\ minute < MinutesPerBar /\ minute' = minute + 1
      /\ UNCHANGED <<opt, bar, step, todo, path, closing, heard, account, fundedAt, before,
                     covered, closes, ticks>>
  BY DEF SkipMinute
<1>2. /\ ~AtStage /\ todo = {} /\ minute' \in 0 .. MinutesPerBar /\ trades' \in Seq(Trade)
      /\ ticks \in [Symbols -> Int \cup {None}] /\ before \in Nat
  BY <1>1, TypeParts, Amounts DEF Typed, Looping, Walking, account, Accounts
<1>3. Hearing'
  BY <1>1, HearingKept DEF Typed, account
<1> QED
  BY <1>1, <1>2, <1>3, LoopStep DEF account, Leaving

LEMMA EndMinuteTyped ==
    ASSUME Typed, EndMinute
    PROVE  Typed'
<1>1. /\ step = "minute" /\ todo = {} /\ ~AtStage /\ closing = {} /\ step' = "minutes"
      /\ closing' = {} \/ closing' = Closing(Held, ticks, "PORTFOLIO_TARGET")
      /\ UNCHANGED <<opt, bar, minute, todo, path, heard, account, fundedAt, before, covered,
                     closes, ticks>>
  BY DEF EndMinute
<1>2. /\ minute' \in 0 .. MinutesPerBar /\ trades' \in Seq(Trade)
      /\ ticks \in [Symbols -> Int \cup {None}] /\ before \in Nat
  BY <1>1, TypeParts DEF Typed, Looping, account, Accounts
<1>3. Hearing'
  BY <1>1, HearingKept DEF Typed, account
<1>4. /\ closing' \subseteq [symbol : Held, reason : Reason, price : Int]
      /\ \A x, y \in closing' : x.symbol = y.symbol => x = y
  BY <1>1, <1>2, ClosingType DEF Reason
<1> QED
  BY <1>1, <1>2, <1>3, <1>4, LoopStep DEF account, Leaving

\* Steps that trade between the walks.
LEMMA AccountStep ==
    ASSUME Typed, Accounts', ~AtStage, todo = {},
           UNCHANGED <<opt, bar, minute, path, todo, fundedAt, before, closes, ticks>>,
           step' \in Leaving \cup {"signals", "place", "end"},
           closing' \subseteq closing, \A x \in closing' : x.symbol \in Held',
           closing' # {} => step' \in Leaving,
           Hearing'
    PROVE  Typed'
<1>1. ~AtStage'
  BY DEF AtStage
<1>2. TypeOK'
  BY <1>1, TypePartsNext
<1>3. step' \notin Walking \/ todo' = {}
  OBVIOUS
<1>4. Looping'
  BY <1>1, <1>3 DEF Typed, Looping
<1> QED
  BY <1>2, <1>4 DEF Typed

LEMMA CloseNextTyped ==
    ASSUME Typed, CloseNext
    PROVE  Typed'
<1>1. PICK x \in closing :
        /\ Close(x.symbol, Gain(positions[x.symbol], x.price),
                 IF x.reason = "END_OF_DATA" THEN 0 ELSE Slip, x.reason)
        /\ closing' = closing \ {x}
        /\ UNCHANGED <<opt, bar, minute, step, todo, path, heard, fundedAt, before, covered,
                       closes, ticks>>
  BY DEF CloseNext
<1> DEFINE s == x.symbol
           gain == Gain(positions[s], x.price)
           slip == IF x.reason = "END_OF_DATA" THEN 0 ELSE Slip
<1>2. /\ Accounts /\ s \in Held /\ x.price \in Int /\ x.reason \in Reason
      /\ \A y \in closing : y.symbol \in Held /\ (y.symbol = s => y = x)
      /\ todo = {} /\ ~AtStage /\ step \in Leaving /\ bar \in Nat /\ minute \in Nat
  BY <1>1, TypeParts, Amounts DEF Typed, Looping
<1>3. gain \in Int /\ slip \in Nat /\ Clock \in Nat
  BY <1>2, HeldTyped, GainType, ClockType, Amounts
<1> HIDE DEF gain, slip
<1>4. Close(s, gain, slip, x.reason)
  BY <1>1 DEF gain, slip
<1> HIDE DEF s
<1>5. Accounts' /\ Held' = Held \ {s} /\ Ordered' = Ordered
  BY <1>1, <1>2, <1>3, <1>4, CloseTyped
<1>6. \A y \in closing' : y.symbol \in Held'
  BY <1>1, <1>2, <1>5
<1>7. Hearing'
  BY <1>1, <1>2 DEF Typed, Hearing, Leaving
<1> QED
  BY <1>1, <1>2, <1>5, <1>6, <1>7, AccountStep

LEMMA SignalsArriveTyped ==
    ASSUME Typed, SignalsArrive
    PROVE  Typed'
<1>1. /\ step = "signals"
      /\ UNCHANGED <<opt, bar, minute, todo, path, account, fundedAt, before, covered, closes, ticks>>
  BY DEF SignalsArrive
<1>2. /\ ~AtStage /\ todo = {} /\ closing = {} /\ minute \in 0 .. MinutesPerBar
      /\ trades \in Seq(Trade) /\ before \in Nat
      /\ closes \in [Symbols -> Int \cup {None}] /\ ticks \in [Symbols -> Int \cup {None}]
  BY <1>1, TypeParts DEF Typed, Looping, Walking, Leaving, Accounts
<1>3. CASE step' = "end" /\ UNCHANGED <<closing, heard>>
  <2>1. Hearing'
    BY <1>1, <1>3 DEF Typed, Hearing
  <2> QED
    BY <1>1, <1>2, <1>3, <2>1, LoopStep DEF account, Walking
<1>4. ASSUME NEW b \in Batches, step' = "batch", heard' = b,
             closing' = Closing({x.symbol : x \in {y \in b : Reverses(y)}}, closes, "SIGNAL_REVERSAL")
      PROVE  Typed'
  <2> DEFINE R == {x.symbol : x \in {y \in b : Reverses(y)}}
  <2>1. R \subseteq Held
    BY DEF Reverses
  <2> HIDE DEF R
  <2>2. /\ closing' \subseteq [symbol : Held, reason : Reason, price : Int]
        /\ \A x, y \in closing' : x.symbol = y.symbol => x = y
    BY <1>2, <1>4, <2>1, ClosingType DEF Reason, R
  <2>3. Hearing'
    BY <1>1, <1>4 DEF Batches, Hearing
  <2> QED
    BY <1>1, <1>2, <1>4, <2>2, <2>3, LoopStep DEF account, Walking, Leaving
<1>5. \/ step' = "end" /\ UNCHANGED <<closing, heard>>
      \/ /\ step' = "batch"
         /\ \E b \in Batches :
              /\ heard' = b
              /\ closing' = Closing({x.symbol : x \in {y \in b : Reverses(y)}}, closes, "SIGNAL_REVERSAL")
  BY DEF SignalsArrive
<1> QED
  BY <1>3, <1>4, <1>5

\* The batch leaves signals of free symbols, and at most gives up one order for them.
LEMMA BatchEffects ==
    ASSUME Typed, Batch
    PROVE  /\ heard' \subseteq Candidates(heard)
           /\ UNCHANGED account \/ \E worst \in Ordered : GivingUp(worst)
<1>1. PICK k \in Passing(heard) : Admit(k) \/ Recycle(k) \/ KeepsAll(k)
  BY DEF Batch
<1>2. k \subseteq heard
  BY DEF Passing, Filtered
<1>3. Candidates(k) \subseteq Candidates(heard)
  BY <1>2 DEF Candidates
<1>4. CASE Admit(k)
  BY <1>3, <1>4 DEF Admit
<1>5. CASE Recycle(k)
  <2>1. PICK may \in Recyclable : \E worst \in may :
          /\ \E x \in Best({y \in Candidates(k) : y.confidence * 10 > pending[worst].confidence * 11}) :
               heard' = {x}
          /\ Cancel(worst)
    BY <1>5 DEF Recycle
  <2>2. PICK worst \in may :
          /\ \E x \in Best({y \in Candidates(k) : y.confidence * 10 > pending[worst].confidence * 11}) :
               heard' = {x}
          /\ Cancel(worst)
    BY <2>1
  <2>3. may \subseteq Ordered
    BY DEF Recyclable
  <2>4. heard' \subseteq Candidates(k)
    BY <2>2 DEF Best
  <2>5. GivingUp(worst)
    BY <1>5, <2>2 DEF GivingUp, Recycle
  <2> QED
    BY <1>3, <2>3, <2>4, <2>5
<1>6. CASE KeepsAll(k)
  BY <1>6 DEF KeepsAll
<1> QED
  BY <1>1, <1>4, <1>5, <1>6

LEMMA BatchTyped ==
    ASSUME Typed, Batch
    PROVE  Typed' /\ Busy' \subseteq Busy /\ Held' = Held
<1>1. /\ step = "batch" /\ closing = {} /\ step' = "place"
      /\ UNCHANGED <<opt, bar, minute, todo, path, closing, fundedAt, before, covered, closes, ticks>>
  BY DEF Batch
<1>2. ~AtStage /\ todo = {} /\ Accounts
  BY <1>1, TypeParts DEF Typed, Looping, Walking
<1>3. Accounts' /\ Busy' \subseteq Busy /\ Held' = Held
  <2>1. CASE UNCHANGED account
    BY <1>1, <1>2, <2>1, Untouched, UntouchedAccounts DEF account, Accounts
  <2>2. ASSUME NEW worst \in Ordered, GivingUp(worst)
        PROVE  Accounts' /\ Busy' \subseteq Busy /\ Held' = Held
    BY <1>1, <1>2, <2>2, CancelTyped DEF GivingUp, Busy
  <2> QED
    BY <2>1, <2>2, BatchEffects
<1>4. Hearing'
  BY <1>1, <1>3, BatchEffects DEF Typed, Hearing, Candidates
<1> QED
  BY <1>1, <1>2, <1>3, <1>4, AccountStep

LEMMA SizeType ==
    ASSUME Typed, NEW x
    PROVE  Size(x) \in Int
<1>1. /\ books.balance \in Int /\ books.used \in Nat /\ books.locked \in Nat
      /\ opt.slots \in Nat /\ opt.slots > 0
  BY TypeParts, OptionsAssumption DEF Typed, Accounts, Looping, Money
<1>2. \A a \in Int, b \in Nat : b > 0 => a \div b \in Int
  OBVIOUS
<1>3. Slot \in Int /\ Available \in Int
  BY <1>1, <1>2, Amounts DEF Slot, Available, Max2
<1>4. Min2(Slot, Available) \in Int
  BY <1>3 DEF Min2
<1>5. Capital(x) \in Int
  BY <1>2, <1>4 DEF Capital
<1>6. (Capital(x) \div MarginUnit) \div Lot \in Int
  BY <1>2, <1>5, Amounts
<1>7. \A a, b \in Int : a * b \in Int
  OBVIOUS
<1> QED
  BY <1>6, <1>7, Amounts DEF Size

\* A signal that is placed becomes an order of its symbol, and its margin is locked.
PlacedOrder(x) ==
    [side |-> x.side, type |-> x.type, size |-> Size(x), confidence |-> x.confidence,
     placed |-> bar, triggered |-> FALSE]
Placing(x) ==
    /\ pending' = [pending EXCEPT ![x.symbol] = PlacedOrder(x)]
    /\ books' = [books EXCEPT !.locked = @ + Size(x) * MarginUnit]

LEMMA PlacedType ==
    ASSUME Typed, NEW x \in heard, Affordable(x)
    PROVE  /\ PlacedOrder(x) \in Order /\ PlacedOrder(x).size = Size(x) /\ PlacedOrder(x).side = x.side
           /\ Size(x) \in Nat \ {0}
<1>1. Size(x) \in Nat \ {0}
  BY SizeType DEF Affordable
<1>2. /\ x.side \in {"LONG", "SHORT"} /\ x.type \in {"LIMIT", "MARKET"} /\ x.confidence \in Nat
  BY SignalsAssumption DEF Typed, Hearing
<1>3. bar \in Nat
  BY DEF Typed, Looping
<1> QED
  BY <1>1, <1>2, <1>3 DEF PlacedOrder, Order

LEMMA PlaceEffects ==
    ASSUME Typed, PlaceNext
    PROVE  \E x \in heard : /\ heard' = heard \ {x}
                            /\ \/ Affordable(x) /\ Placing(x)
                               \/ UNCHANGED <<pending, books>>
  BY DEF PlaceNext, Best, Placing, PlacedOrder

LEMMA PlaceNextTyped ==
    ASSUME Typed, PlaceNext
    PROVE  Typed'
<1>1. /\ step = "place"
      /\ UNCHANGED <<opt, bar, minute, step, todo, path, closing, positions, fundedAt, trades,
                     before, covered, closes, ticks>>
  BY DEF PlaceNext
<1>2. PICK x \in heard : /\ heard' = heard \ {x}
                         /\ \/ Affordable(x) /\ Placing(x)
                            \/ UNCHANGED <<pending, books>>
  BY PlaceEffects
<1>3. ~AtStage /\ todo = {} /\ closing = {} /\ Accounts
  BY <1>1, TypeParts DEF Typed, Looping, Walking, Leaving
<1>4. /\ x.symbol \in opt.symbols /\ x.symbol \in Symbols /\ x.symbol \notin Busy
      /\ \A y \in heard' : y \in heard /\ y.symbol # x.symbol /\ y.symbol \notin Busy
  BY <1>1, <1>2, SignalsAssumption DEF Typed, Hearing
<1>5. Accounts' /\ Held' = Held /\ Ordered' \subseteq Ordered \cup {x.symbol}
  <2>1. CASE Affordable(x) /\ Placing(x)
    <3>1. PlacedOrder(x) \in Order /\ Size(x) * MarginUnit \in Nat
      BY <2>1, PlacedType, Amounts, ProductType
    <3>2. books' \in Money
      BY <1>3, <2>1, <3>1 DEF Placing, Accounts, Money
    <3> QED
      BY <1>1, <1>3, <1>4, <2>1, <3>1, <3>2, SymbolOrdered DEF Placing, Busy
  <2>2. CASE UNCHANGED <<pending, books>>
    BY <1>1, <1>3, <2>2, Untouched, UntouchedAccounts DEF Accounts
  <2> QED
    BY <1>2, <2>1, <2>2
<1>6. Hearing'
  BY <1>1, <1>4, <1>5 DEF Typed, Hearing, Busy
<1> QED
  BY <1>1, <1>3, <1>5, <1>6, AccountStep

LEMMA EndBarTyped ==
    ASSUME Typed, EndBar
    PROVE  Typed'
<1>1. /\ step = "place" /\ step' = "bar"
      /\ closing' = {} \/ closing' = Closing(Held, closes, "PORTFOLIO_TARGET")
      /\ UNCHANGED <<opt, bar, minute, todo, path, heard, account, fundedAt, before, covered,
                     closes, ticks>>
  BY DEF EndBar
<1>2. /\ ~AtStage /\ todo = {} /\ minute \in 0 .. MinutesPerBar /\ trades \in Seq(Trade)
      /\ closes \in [Symbols -> Int \cup {None}] /\ ticks \in [Symbols -> Int \cup {None}]
      /\ before \in Nat
  BY <1>1, TypeParts DEF Typed, Looping, Walking, Accounts
<1>3. Hearing'
  BY <1>1, HearingKept DEF Typed, account
<1>4. /\ closing' \subseteq [symbol : Held, reason : Reason, price : Int]
      /\ \A x, y \in closing' : x.symbol = y.symbol => x = y
  BY <1>1, <1>2, ClosingType DEF Reason
<1> QED
  BY <1>1, <1>2, <1>3, <1>4, LoopStep DEF account, Walking, Leaving

LEMMA LastPricesType ==
    ASSUME Typed, NEW p \in LastPrices
    PROVE  p \in [Symbols -> Int \cup {None}]
<1>1. \A c \in opt.market : c.close \in Int
  BY CandleType
<1> QED
  BY <1>1 DEF LastPrices

LEMMA EndOfDataTyped ==
    ASSUME Typed, EndOfData
    PROVE  Typed'
<1>1. /\ step \in {"bar", "end"} /\ step' = "done"
      /\ UNCHANGED <<opt, bar, minute, todo, path, heard, account, fundedAt, before, covered,
                     closes, ticks>>
  BY DEF EndOfData
<1>2. PICK p \in LastPrices : closing' = Closing(Held, p, "END_OF_DATA")
  BY DEF EndOfData
<1>3. /\ ~AtStage /\ todo = {} /\ minute \in 0 .. MinutesPerBar /\ trades \in Seq(Trade)
      /\ ticks \in [Symbols -> Int \cup {None}] /\ before \in Nat
  BY <1>1, TypeParts DEF Typed, Looping, Walking, Accounts
<1>4. Hearing'
  BY <1>1, HearingKept DEF Typed, account
<1>5. /\ closing' \subseteq [symbol : Held, reason : Reason, price : Int]
      /\ \A x, y \in closing' : x.symbol = y.symbol => x = y
  BY <1>2, LastPricesType, ClosingType DEF Reason
<1> QED
  BY <1>1, <1>3, <1>4, <1>5, LoopStep DEF account, Walking, Leaving

LEMMA NoCandleTyped ==
    ASSUME Typed, NEW s \in Symbols, NoCandle(s)
    PROVE  Typed'
<1>1. /\ step = "update" /\ ~AtStage /\ s \in todo /\ todo' = todo \ {s}
      /\ UNCHANGED <<opt, bar, minute, step, path, closing, heard, account, fundedAt, before,
                     covered, closes, ticks>>
  BY DEF NoCandle
<1>2. /\ minute \in 0 .. MinutesPerBar /\ trades \in Seq(Trade) /\ before \in Nat
      /\ ticks \in [Symbols -> Int \cup {None}] /\ closing = {} /\ todo \subseteq Busy
  BY <1>1, TypeParts DEF Typed, Looping, Accounts
<1>3. Hearing'
  BY <1>1, HearingKept DEF Typed, account
<1> QED
  BY <1>1, <1>2, <1>3, LoopStep DEF account, Walking

LEMMA InitTyped ==
    ASSUME Init
    PROVE  Typed /\ Held = {} /\ Ordered = {}
<1>1. /\ opt \in Options /\ bar = 0 /\ minute = 0 /\ step = "bar"
      /\ todo = {} /\ path = Idle /\ closing = {} /\ heard = {}
      /\ positions = Unknown /\ pending = Unknown
      /\ books = [balance |-> InitialBalance, used |-> 0, locked |-> 0, booked |-> 0, paid |-> 0]
      /\ fundedAt = 0 /\ trades = <<>> /\ before = 0 /\ closes = Unknown /\ ticks = Unknown
  BY DEF Init
<1>2. Held = {} /\ Ordered = {} /\ ~AtStage
  BY <1>1 DEF Held, Ordered, Unknown, AtStage, Idle
<1>3. Accounts
  BY <1>1, <1>2, EmptySeq, Amounts DEF Accounts, Unknown, Money
<1>4. TypeOK
  BY <1>1, <1>2, <1>3, TypeParts
<1>5. Idle \in [symbol : Symbols \cup {None}, stages : Seq(StageRecord)]
  BY EmptySeq DEF Idle
<1>6. Looping
  BY <1>1, <1>2, <1>5, Amounts DEF Looping, Leaving, Unknown
<1> QED
  BY <1>1, <1>2, <1>4, <1>6 DEF Typed, Hearing

LEMMA StutterTyped ==
    ASSUME Typed, UNCHANGED vars
    PROVE  Typed'
<1>1. Held' = Held /\ Ordered' = Ordered /\ Busy' = Busy
  BY Untouched DEF vars, account
<1> QED
  BY <1>1 DEF vars, account, Typed, TypeOK, Looping, Hearing, AtStage

LEMMA StepTyped ==
    ASSUME Typed, [Next]_vars
    PROVE  Typed'
<1>1. ASSUME NEW s \in Symbols, StartSymbol(s) \/ NoCandle(s)
      PROVE  Typed'
  BY <1>1, StartSymbolTyped, NoCandleTyped
<1>2. CASE StageAction
  BY <1>2, StageTyped
<1>3. CASE Done \/ UNCHANGED vars
  BY <1>3, StutterTyped DEF Done
<1>4. CASE NextBar \/ TellOfBar \/ StartMinute \/ SkipMinute \/ EndMinute \/ TellOfMinutes
  BY <1>4, NextBarTyped, TellOfBarTyped, StartMinuteTyped, SkipMinuteTyped, EndMinuteTyped,
     TellOfMinutesTyped
<1>5. CASE CloseNext \/ SignalsArrive \/ Batch \/ PlaceNext \/ EndBar \/ EndOfData
  BY <1>5, CloseNextTyped, SignalsArriveTyped, BatchTyped, PlaceNextTyped, EndBarTyped, EndOfDataTyped
<1> QED
  BY <1>1, <1>2, <1>3, <1>4, <1>5 DEF Next, StageAction

\* The account of the backtest keeps its types, an order or a position exists for symbols
\* that are traded and never both for one, and what is walked or closed exists.
THEOREM TypeCorrect == Spec => []TypeOK
<1>1. Init => Typed
  BY InitTyped
<1>2. Typed /\ [Next]_vars => Typed'
  BY StepTyped
<1>3. Typed => TypeOK
  BY DEF Typed
<1> QED
  BY <1>1, <1>2, <1>3, PTL DEF Spec

--------------------------------------------------------------------------------
(* What the circuit breaker has been told of.                              *)

Replayed == {"update", "minute", "minutes"}

\* While a bar is replayed the trades of its time have not been told, and all earlier ones
\* of replays have.  While its minutes are, those listed since the bar was told have not.
\* Trades of the loop itself (reversals, the portfolio target, the end of the data) come
\* after the telling and before the next bar: nothing ever tells them.
TradesTold ==
    /\ before <= Len(trades) /\ (step = "update" => minute = 0)
    /\ \A i \in DOMAIN trades :
         /\ trades[i].told <= 1 /\ trades[i].at < (bar + 1) * MinutesPerBar
         /\ step = "update" =>
              IF trades[i].at = Clock THEN trades[i].told = 0
              ELSE trades[i].by \in Replayed => trades[i].told = 1
         /\ step \in {"minute", "minutes"} =>
              IF i > before THEN trades[i].told = 0
              ELSE trades[i].by \in Replayed => trades[i].told = 1
         /\ step \notin Replayed => (trades[i].by \in Replayed => trades[i].told = 1)

\* A bar ends before the next one begins.
LEMMA ClockInBar ==
    ASSUME bar \in Nat, minute \in 0 .. MinutesPerBar
    PROVE  /\ Clock \in Nat /\ Clock < (bar + 1) * MinutesPerBar
           /\ minute = 0 => Clock = bar * MinutesPerBar
<1>1. bar * MinutesPerBar \in Nat /\ (bar + 1) * MinutesPerBar = bar * MinutesPerBar + MinutesPerBar
  BY Amounts, ProductType
<1>2. Max2(0, minute - 1) \in Nat /\ Max2(0, minute - 1) < MinutesPerBar /\ (minute = 0 => Max2(0, minute - 1) = 0)
  BY Amounts DEF Max2
<1> QED
  BY <1>1, <1>2, Amounts DEF Clock

LEMMA TradeType ==
    ASSUME Accounts
    PROVE  /\ trades \in Seq(Trade) /\ Len(trades) \in Nat /\ DOMAIN trades = 1 .. Len(trades)
           /\ \A i \in DOMAIN trades : trades[i].at \in Nat /\ trades[i].told \in Nat
<1>1. trades \in Seq(Trade) /\ Len(trades) \in Nat /\ DOMAIN trades = 1 .. Len(trades)
  BY LenProperties DEF Accounts
<1>2. \A i \in DOMAIN trades : trades[i] \in Trade
  BY <1>1, ElementOfSeq
<1> QED
  BY <1>1, <1>2 DEF Trade

\* A trade is listed when it happens, and has not been told.
LEMMA ListedTold ==
    ASSUME Typed, TradesTold, NEW reason \in Reason, trades' = Recorded(reason),
           step \in {"update"} \cup Leaving, UNCHANGED <<bar, minute, step, before>>
    PROVE  TradesTold'
<1> DEFINE t == [at |-> Clock, reason |-> reason, by |-> step, told |-> 0]
<1>1. Accounts /\ Clock \in Nat /\ Clock < (bar + 1) * MinutesPerBar /\ Clock' = Clock
  BY TypeParts, ClockInBar DEF Typed, Looping, Clock
<1>2. t \in Trade
  BY <1>1 DEF Trade, Leaving
<1>3. t.at = Clock /\ t.told = 0 /\ t.by = step
  OBVIOUS
<1>4. trades' = Append(trades, t)
  BY DEF Recorded
<1> HIDE DEF t
<1>5. /\ Len(trades') = Len(trades) + 1 /\ DOMAIN trades' = 1 .. Len(trades) + 1
      /\ trades'[Len(trades) + 1] = t
      /\ \A i \in DOMAIN trades : trades'[i] = trades[i]
  BY <1>1, <1>2, <1>4, TradeType, AppendProperties, LenProperties
<1>6. before' <= Len(trades') /\ (step' = "update" => minute' = 0)
  BY <1>1, <1>5, TradeType DEF TradesTold, Typed, Looping
<1>7. ASSUME NEW i \in DOMAIN trades', i # Len(trades) + 1
      PROVE  i \in DOMAIN trades /\ trades'[i] = trades[i]
  BY <1>1, <1>5, <1>7, TradeType
<1>8. ASSUME NEW i \in DOMAIN trades'
      PROVE  /\ trades'[i].told <= 1 /\ trades'[i].at < (bar' + 1) * MinutesPerBar
             /\ step' = "update" =>
                  IF trades'[i].at = Clock' THEN trades'[i].told = 0
                  ELSE trades'[i].by \in Replayed => trades'[i].told = 1
             /\ step' \in {"minute", "minutes"} =>
                  IF i > before' THEN trades'[i].told = 0
                  ELSE trades'[i].by \in Replayed => trades'[i].told = 1
             /\ step' \notin Replayed => (trades'[i].by \in Replayed => trades'[i].told = 1)
  <2>1. CASE i = Len(trades) + 1
    <3>1. i > before
      BY <1>1, <2>1, TradeType DEF TradesTold, Typed, Looping
    <3> QED
      BY <1>1, <1>3, <1>5, <2>1, <3>1
  <2>2. CASE i # Len(trades) + 1
    BY <1>1, <1>7, <2>2 DEF TradesTold
  <2> QED
    BY <2>1, <2>2
<1> QED
  BY <1>6, <1>8 DEF TradesTold

\* Steps that list and tell nothing, within a bar.
LEMMA UnlistedTold ==
    ASSUME Typed, TradesTold, UNCHANGED <<trades, before, bar>>,
           \/ UNCHANGED <<step, minute>>
           \/ step \in {"minute", "minutes"} /\ step' \in {"minute", "minutes"}
           \/ step \notin Replayed /\ step' \notin Replayed
    PROVE  TradesTold'
<1>1. UNCHANGED <<step, minute>> => Clock' = Clock
  BY DEF Clock
<1> QED
  BY <1>1 DEF TradesTold, Replayed

LEMMA NextBarTold ==
    ASSUME Typed, TradesTold, NextBar
    PROVE  TradesTold'
<1>1. /\ step = "bar" /\ bar' = bar + 1 /\ minute' = 0 /\ step' = "update"
      /\ UNCHANGED <<trades, before>>
  BY DEF NextBar
<1>2. bar \in Nat /\ Accounts /\ 0 \in 0 .. MinutesPerBar
  BY TypeParts, Amounts DEF Typed, Looping
<1>3. Clock' = (bar + 1) * MinutesPerBar /\ Clock' < (bar' + 1) * MinutesPerBar
  <2>1. bar' \in Nat /\ (bar' + 1) * MinutesPerBar = bar' * MinutesPerBar + MinutesPerBar
        /\ bar' * MinutesPerBar \in Nat
    BY <1>1, <1>2, Amounts, ProductType
  <2> QED
    BY <1>1, <2>1, Amounts DEF Clock, Max2
<1>4. ASSUME NEW i \in DOMAIN trades
      PROVE  /\ trades[i].at < Clock' /\ trades[i].at \in Nat /\ trades[i].told <= 1
             /\ trades[i].by \in Replayed => trades[i].told = 1
  BY <1>1, <1>2, <1>3, TradeType DEF TradesTold, Replayed
<1>5. Clock' \in Nat /\ (bar' + 1) * MinutesPerBar \in Nat
  BY <1>1, <1>2, <1>3, Amounts, ProductType
<1> HIDE DEF Clock
<1>6. ASSUME NEW i \in DOMAIN trades
      PROVE  trades[i].at # Clock' /\ trades[i].at < (bar' + 1) * MinutesPerBar
  BY <1>3, <1>4, <1>5
<1> QED
  BY <1>1, <1>4, <1>6 DEF TradesTold, Replayed

LEMMA TellOfBarTold ==
    ASSUME Typed, TradesTold, TellOfBar
    PROVE  TradesTold'
<1>1. /\ step = "update" /\ before' = Len(trades) /\ step' \in {"minutes", "signals"}
      /\ UNCHANGED <<bar, minute>>
  BY DEF TellOfBar
<1>2. Accounts
  BY TypeParts DEF Typed
<1> DEFINE J == {i \in DOMAIN trades : trades[i].at = Clock}
<1>3. Telling(J)
  BY TellingOfBar
<1>4. /\ Len(trades') = Len(trades) /\ DOMAIN trades' = DOMAIN trades /\ Len(trades) \in Nat
      /\ DOMAIN trades = 1 .. Len(trades)
      /\ \A i \in DOMAIN trades :
           /\ trades'[i].at = trades[i].at /\ trades'[i].by = trades[i].by
           /\ trades'[i].told = IF i \in J THEN trades[i].told + 1 ELSE trades[i].told
  BY <1>2, <1>3, TellingType
<1>5. ASSUME NEW i \in DOMAIN trades'
      PROVE  /\ trades'[i].told <= 1 /\ trades'[i].at < (bar + 1) * MinutesPerBar /\ ~(i > before')
             /\ trades'[i].by \in Replayed => trades'[i].told = 1
  BY <1>1, <1>2, <1>4, TradeType DEF TradesTold
<1> QED
  BY <1>1, <1>4, <1>5 DEF TradesTold, Replayed

LEMMA TellOfMinutesTold ==
    ASSUME Typed, TradesTold, TellOfMinutes
    PROVE  TradesTold'
<1>1. /\ step = "minutes" /\ step' = "signals" /\ UNCHANGED <<bar, before>>
  BY DEF TellOfMinutes
<1>2. Accounts
  BY TypeParts DEF Typed
<1> DEFINE J == {i \in DOMAIN trades : i > before}
<1>3. Telling(J)
  BY TellingOfMinutes
<1>4. /\ Len(trades') = Len(trades) /\ DOMAIN trades' = DOMAIN trades /\ Len(trades) \in Nat
      /\ \A i \in DOMAIN trades :
           /\ trades'[i].at = trades[i].at /\ trades'[i].by = trades[i].by
           /\ trades'[i].told = IF i \in J THEN trades[i].told + 1 ELSE trades[i].told
  BY <1>2, <1>3, TellingType
<1>5. ASSUME NEW i \in DOMAIN trades'
      PROVE  /\ trades'[i].told <= 1 /\ trades'[i].at < (bar + 1) * MinutesPerBar
             /\ trades'[i].by \in Replayed => trades'[i].told = 1
  BY <1>1, <1>2, <1>4, TradeType DEF TradesTold
<1> QED
  BY <1>1, <1>4, <1>5 DEF TradesTold, Replayed

\* A stage lists at most one trade.
LEMMA StageLists ==
    ASSUME Typed, StageAction
    PROVE  /\ UNCHANGED <<bar, minute, step, before>> /\ step \in {"update"} \cup Leaving
           /\ UNCHANGED trades \/ \E reason \in Reason : trades' = Recorded(reason)
<1> DEFINE s == path.symbol
<1>1. AtStage /\ UNCHANGED <<opt, loop>> /\ (OrderEffect(s) \/ PositionEffect(s))
  BY OrderEffects, PositionEffects DEF StageAction
<1>2. step \in {"update"} \cup Leaving
  BY <1>1, StageType
<1>3. OrderEffect(s) => UNCHANGED trades
  BY DEF OrderEffect, Entering, GivingUp, Waiting, Fill
<1>4. ASSUME Parting(s)
      PROVE  \E reason \in Reason : trades' = Recorded(reason)
  BY <1>4 DEF Parting, Close, Liquidate, Reason
<1>5. ASSUME Sharing(s)
      PROVE  \E reason \in Reason : trades' = Recorded(reason)
  BY <1>5 DEF Sharing, TakePart
<1>6. Moving(s) => UNCHANGED trades
  BY DEF Moving
<1> QED
  BY <1>1, <1>2, <1>3, <1>4, <1>5, <1>6 DEF PositionEffect, loop

LEMMA StepTold ==
    ASSUME Typed, TradesTold, [Next]_vars
    PROVE  TradesTold'
<1>1. ASSUME NEW s \in Symbols, StartSymbol(s) \/ NoCandle(s)
      PROVE  TradesTold'
  BY <1>1, UnlistedTold DEF StartSymbol, NoCandle, account
<1>2. CASE StageAction
  BY <1>2, StageLists, UnlistedTold, ListedTold
<1>3. CASE Done \/ UNCHANGED vars
  BY <1>3, UnlistedTold DEF Done, vars, account
<1>4. CASE StartMinute \/ SkipMinute \/ EndMinute
  BY <1>4, UnlistedTold DEF StartMinute, SkipMinute, EndMinute, account
<1>5. CASE SignalsArrive \/ EndBar \/ EndOfData
  BY <1>5, UnlistedTold DEF SignalsArrive, EndBar, EndOfData, account, Replayed
<1>6. CASE Batch \/ PlaceNext
  <2>1. UNCHANGED <<trades, before, bar>> /\ step \notin Replayed /\ step' \notin Replayed
    BY <1>6, BatchEffects DEF Batch, PlaceNext, GivingUp, account, Replayed
  <2> QED
    BY <2>1, UnlistedTold
<1>7. CASE CloseNext
  <2>1. PICK x \in closing : trades' = Recorded(x.reason) /\ UNCHANGED <<bar, minute, step, before>>
    BY <1>7 DEF CloseNext, Close
  <2>2. x.reason \in Reason /\ step \in {"update"} \cup Leaving
    BY <2>1 DEF Typed, Looping
  <2> QED
    BY <2>1, <2>2, ListedTold
<1> QED
  BY <1>1, <1>2, <1>3, <1>4, <1>5, <1>6, <1>7, NextBarTold, TellOfBarTold, TellOfMinutesTold
     DEF Next, StageAction

\* The circuit breaker of a backtest is told of no trade twice, and of every trade of a
\* replay before the next signals are looked at.
THEOREM TradesToldOnce == Spec => []EachTradeToldOnce
<1>1. Init => Typed /\ TradesTold
  <2> SUFFICES ASSUME Init PROVE Typed /\ TradesTold
    OBVIOUS
  <2>1. before = 0 /\ step = "bar" /\ trades = <<>>
    BY DEF Init
  <2> QED
    BY <2>1, InitTyped DEF TradesTold
<1>2. Typed /\ TradesTold /\ [Next]_vars => Typed' /\ TradesTold'
  BY StepTyped, StepTold
<1>3. TradesTold => EachTradeToldOnce
  BY DEF TradesTold, EachTradeToldOnce, Replayed
<1> QED
  BY <1>1, <1>2, <1>3, PTL DEF Spec

--------------------------------------------------------------------------------
(* The money: margin and balance against positions, orders and trades.     *)

HeldMargins == [s \in Held |-> Margin(positions[s])]
OrderedMargins == [s \in Ordered |-> Margin(pending[s])]
HeldQuantities == [s \in Held |-> positions[s].left]
MarginOf(x) == IF x = None THEN 0 ELSE Margin(x)
QuantityOf(p) == IF p = None THEN 0 ELSE p.left

SumsWellTyped ==
    /\ IsFiniteSet(Held) /\ IsFiniteSet(Ordered)
    /\ HeldMargins \in [Held -> Nat] /\ OrderedMargins \in [Ordered -> Nat]
    /\ HeldQuantities \in [Held -> Nat]
    /\ SumFunction(HeldMargins) \in Nat /\ SumFunction(OrderedMargins) \in Nat
    /\ SumFunction(HeldQuantities) \in Nat

LEMMA SumsTyped ==
    ASSUME Accounts
    PROVE  SumsWellTyped
<1>1. IsFiniteSet(Held) /\ IsFiniteSet(Ordered)
  BY SymbolsAssumption, FS_Subset DEF Held, Ordered
<1>2. ASSUME NEW s \in Held
      PROVE  Margin(positions[s]) \in Nat /\ positions[s].left \in Nat
  <2>1. positions[s].size \in Nat /\ positions[s].left \in Nat
    BY HeldTyped DEF Position
  <2> QED
    BY <2>1, MarginType
<1>3. ASSUME NEW s \in Ordered
      PROVE  Margin(pending[s]) \in Nat
  <2>1. pending[s].size \in Nat
    BY HeldTyped DEF Order
  <2> QED
    BY <2>1, MarginType
<1>4. /\ HeldMargins \in [Held -> Nat] /\ OrderedMargins \in [Ordered -> Nat]
      /\ HeldQuantities \in [Held -> Nat]
  BY <1>2, <1>3 DEF HeldMargins, OrderedMargins, HeldQuantities
<1> QED
  BY <1>1, <1>4, SumNat DEF SumsWellTyped

LEMMA SumsTypedNext == Accounts' => SumsWellTyped'
<1>1. Accounts => SumsWellTyped
  BY SumsTyped
<1> QED
  BY <1>1, PTL

LEMMA Distributes ==
    ASSUME NEW k \in Nat, NEW q \in Nat, NEW a \in Nat, NEW b \in Nat
    PROVE  /\ k * (q - a + b) = k * q - k * a + k * b
           /\ k * q \in Nat /\ k * a \in Nat /\ k * b \in Nat
  OBVIOUS

\* What a position or an order weighs in the sums.
LEMMA Weights ==
    ASSUME Accounts, NEW s \in Symbols
    PROVE  /\ MarginOf(positions[s]) = IF s \in Held THEN HeldMargins[s] ELSE 0
           /\ MarginOf(pending[s]) = IF s \in Ordered THEN OrderedMargins[s] ELSE 0
           /\ QuantityOf(positions[s]) = IF s \in Held THEN HeldQuantities[s] ELSE 0
  BY DEF MarginOf, QuantityOf, HeldMargins, OrderedMargins, HeldQuantities, Held, Ordered

Weighed(s) ==
    /\ MarginOf(positions[s]) = IF s \in Held THEN HeldMargins[s] ELSE 0
    /\ MarginOf(pending[s]) = IF s \in Ordered THEN OrderedMargins[s] ELSE 0
    /\ QuantityOf(positions[s]) = IF s \in Held THEN HeldQuantities[s] ELSE 0

\* A step that touches one symbol keeps the books if they change by what the symbol weighs.
LEMMA MoneyStep ==
    ASSUME Accounts, Accounts', MarginBooked, BalanceExplained, NEW s \in Symbols,
           \A y \in Symbols \ {s} : positions'[y] = positions[y] /\ pending'[y] = pending[y],
           books'.used = books.used - MarginOf(positions[s]) + MarginOf(positions'[s]),
           books'.locked = books.locked - MarginOf(pending[s]) + MarginOf(pending'[s]),
           books'.balance - books'.booked + books'.paid
             = books.balance - books.booked + books.paid
               + EntryFee * QuantityOf(positions[s]) - EntryFee * QuantityOf(positions'[s])
    PROVE  MarginBooked' /\ BalanceExplained'
<1>1. SumsWellTyped /\ SumsWellTyped'
  BY SumsTyped, SumsTypedNext
<1>2. Weighed(s)
  BY Weights DEF Weighed
<1>3. /\ MarginOf(positions'[s]) = IF s \in Held' THEN HeldMargins'[s] ELSE 0
      /\ MarginOf(pending'[s]) = IF s \in Ordered' THEN OrderedMargins'[s] ELSE 0
      /\ QuantityOf(positions'[s]) = IF s \in Held' THEN HeldQuantities'[s] ELSE 0
  BY DEF MarginOf, QuantityOf, HeldMargins, OrderedMargins, HeldQuantities, Held, Ordered
<1>4. HeldMargins \in [Held -> Int] /\ IsFiniteSet(Held)
      /\ HeldMargins' \in [Held' -> Int] /\ IsFiniteSet(Held')
      /\ OrderedMargins \in [Ordered -> Int] /\ IsFiniteSet(Ordered)
      /\ OrderedMargins' \in [Ordered' -> Int] /\ IsFiniteSet(Ordered')
      /\ HeldQuantities \in [Held -> Int] /\ HeldQuantities' \in [Held' -> Int]
  BY <1>1 DEF SumsWellTyped
<1>5. Held \ {s} = Held' \ {s} /\ Ordered \ {s} = Ordered' \ {s}
  BY DEF Held, Ordered
<1>6. SumFunction(HeldMargins') = SumFunction(HeldMargins)
        - (IF s \in Held THEN HeldMargins[s] ELSE 0) + (IF s \in Held' THEN HeldMargins'[s] ELSE 0)
  <2>1. \A y \in Held \ {s} : HeldMargins[y] = HeldMargins'[y]
    BY DEF HeldMargins, Held
  <2> QED
    BY ONLY <2>1, <1>4, <1>5, SumChanged
<1>7. SumFunction(OrderedMargins') = SumFunction(OrderedMargins)
        - (IF s \in Ordered THEN OrderedMargins[s] ELSE 0)
        + (IF s \in Ordered' THEN OrderedMargins'[s] ELSE 0)
  <2>1. \A y \in Ordered \ {s} : OrderedMargins[y] = OrderedMargins'[y]
    BY DEF OrderedMargins, Ordered
  <2> QED
    BY ONLY <2>1, <1>4, <1>5, SumChanged
<1>8. SumFunction(HeldQuantities') = SumFunction(HeldQuantities)
        - (IF s \in Held THEN HeldQuantities[s] ELSE 0)
        + (IF s \in Held' THEN HeldQuantities'[s] ELSE 0)
  <2>1. \A y \in Held \ {s} : HeldQuantities[y] = HeldQuantities'[y]
    BY DEF HeldQuantities, Held
  <2> QED
    BY ONLY <2>1, <1>4, <1>5, SumChanged, SMTT(30)
<1>9. books.used = SumFunction(HeldMargins) /\ books.locked = SumFunction(OrderedMargins)
  BY DEF MarginBooked, HeldMargins, OrderedMargins
<1>10. MarginBooked'
  <2>1. books'.used = SumFunction(HeldMargins') /\ books'.locked = SumFunction(OrderedMargins')
    BY <1>2, <1>3, <1>6, <1>7, <1>9 DEF Weighed
  <2> QED
    BY <2>1 DEF MarginBooked, HeldMargins, OrderedMargins
<1>11. BalanceExplained'
  <2> DEFINE q == SumFunction(HeldQuantities)
             a == QuantityOf(positions[s])
             b == QuantityOf(positions'[s])
  <2>1. books.balance = InitialBalance + books.booked - books.paid - EntryFee * q
    BY DEF BalanceExplained, HeldQuantities
  <2>2. SumFunction(HeldQuantities') = q - a + b
    BY <1>2, <1>3, <1>8 DEF Weighed
  <2>3. q \in Nat /\ a \in Nat /\ b \in Nat
    BY <1>1, <1>2, <1>3 DEF SumsWellTyped, Weighed
  <2>4. /\ books.balance \in Int /\ books.booked \in Int /\ books.paid \in Int
        /\ books'.balance \in Int /\ books'.booked \in Int /\ books'.paid \in Int
    BY DEF Accounts, Money
  <2>5. books'.balance - books'.booked + books'.paid
          = books.balance - books.booked + books.paid + EntryFee * a - EntryFee * b
    OBVIOUS
  <2> HIDE DEF q, a, b
  <2>6. /\ EntryFee * (q - a + b) = EntryFee * q - EntryFee * a + EntryFee * b
        /\ EntryFee * q \in Nat /\ EntryFee * a \in Nat /\ EntryFee * b \in Nat
    BY <2>3, Amounts, Distributes
  <2>7. books'.balance = InitialBalance + books'.booked - books'.paid - EntryFee * (q - a + b)
    <3> DEFINE fq == EntryFee * q
               fa == EntryFee * a
               fb == EntryFee * b
               rest == EntryFee * (q - a + b)
    <3>1. rest = fq - fa + fb /\ fq \in Nat /\ fa \in Nat /\ fb \in Nat
      BY <2>6
    <3>2. books.balance = InitialBalance + books.booked - books.paid - fq
      BY <2>1
    <3>3. books'.balance - books'.booked + books'.paid
            = books.balance - books.booked + books.paid + fa - fb
      BY <2>5
    <3> HIDE DEF fq, fa, fb, rest
    <3>4. books'.balance = InitialBalance + books'.booked - books'.paid - rest
      BY ONLY <2>4, <3>1, <3>2, <3>3, Amounts
    <3> QED
      BY <3>4 DEF rest
  <2>8. books'.balance = InitialBalance + books'.booked - books'.paid
                         - EntryFee * SumFunction(HeldQuantities')
    BY <2>2, <2>7
  <2> QED
    BY <2>8 DEF BalanceExplained, HeldQuantities
<1> QED
  BY <1>10, <1>11

LEMMA SameMargin ==
    ASSUME NEW x, NEW y, x.size = y.size
    PROVE  Margin(x) = Margin(y)
  BY DEF Margin

\* No position and no order has more margin than is booked.
LEMMA MarginCovered ==
    ASSUME Accounts, MarginBooked, NEW s \in Symbols
    PROVE  /\ MarginOf(positions[s]) \in Nat /\ MarginOf(positions[s]) <= books.used
           /\ MarginOf(pending[s]) \in Nat /\ MarginOf(pending[s]) <= books.locked
           /\ QuantityOf(positions[s]) \in Nat
           /\ books.used \in Nat /\ books.locked \in Nat /\ books.balance \in Int
           /\ books.booked \in Int /\ books.paid \in Int
<1>1. SumsWellTyped /\ Weighed(s)
  BY SumsTyped, Weights DEF Weighed
<1>2. books.used = SumFunction(HeldMargins) /\ books.locked = SumFunction(OrderedMargins)
  BY DEF MarginBooked, HeldMargins, OrderedMargins
<1>3. \A y \in Held : HeldMargins[y] <= SumFunction(HeldMargins)
  BY <1>1, SumNat DEF SumsWellTyped
<1>4. \A y \in Ordered : OrderedMargins[y] <= SumFunction(OrderedMargins)
  BY <1>1, SumNat DEF SumsWellTyped
<1>5. books.balance \in Int /\ books.booked \in Int /\ books.paid \in Int
  BY DEF Accounts, Money
<1> QED
  BY <1>1, <1>2, <1>3, <1>4, <1>5 DEF SumsWellTyped, Weighed

LEMMA FillMoney ==
    ASSUME Accounts, Accounts', MarginBooked, BalanceExplained, Clock \in Nat, NEW s \in Ordered,
           NEW price \in Int, NEW slip \in Nat, Fill(s, price, slip)
    PROVE  MarginBooked' /\ BalanceExplained'
<1> DEFINE o == pending[s]
           p == Filled(o, price, slip)
<1>1. s \in Symbols /\ positions[s] = None /\ o \in Order /\ o # None
  BY HeldTyped DEF Ordered, Accounts
<1>2. p \in Position /\ p.size = o.size /\ p.left = o.size
  BY <1>1, FilledType
<1>3. p # None
  BY <1>2, NoneAssumption
<1>4. /\ positions' = [positions EXCEPT ![s] = p] /\ pending' = [pending EXCEPT ![s] = None]
      /\ books' = [[[books EXCEPT !.balance = books.balance - EntryFee * o.size]
                           EXCEPT !.locked = Max2(0, books.locked - Margin(o))]
                           EXCEPT !.used = books.used + Margin(o)]
  BY DEF Fill
<1>5. o.size \in Nat /\ EntryFee * o.size \in Nat /\ Margin(p) = Margin(o)
  BY <1>1, <1>2, Amounts, ProductType, SameMargin DEF Order
<1>6. Margin(o) = MarginOf(pending[s]) /\ MarginOf(positions[s]) = 0 /\ QuantityOf(positions[s]) = 0
  BY <1>1 DEF MarginOf, QuantityOf
<1> HIDE DEF p, o
<1>7. /\ positions'[s] = p /\ pending'[s] = None
      /\ \A y \in Symbols \ {s} : positions'[y] = positions[y] /\ pending'[y] = pending[y]
  BY <1>1, <1>4 DEF Accounts
<1>8. /\ MarginOf(positions'[s]) = Margin(o) /\ MarginOf(pending'[s]) = 0
      /\ QuantityOf(positions'[s]) = o.size
  BY <1>2, <1>3, <1>5, <1>7 DEF MarginOf, QuantityOf
<1>9. /\ books'.balance = books.balance - EntryFee * o.size /\ books'.used = books.used + Margin(o)
      /\ books'.locked = Max2(0, books.locked - Margin(o))
      /\ books'.booked = books.booked /\ books'.paid = books.paid
  BY <1>4 DEF Accounts, Money
<1>10. books'.locked = books.locked - Margin(o)
  BY <1>1, <1>6, <1>9, MarginCovered DEF Max2
<1>11. EntryFee * 0 = 0
  BY Amounts
<1>12. books'.used = books.used - MarginOf(positions[s]) + MarginOf(positions'[s])
  BY <1>1, <1>6, <1>8, <1>9, MarginCovered
<1>13. books'.locked = books.locked - MarginOf(pending[s]) + MarginOf(pending'[s])
  BY <1>1, <1>6, <1>8, <1>10, MarginCovered
<1>14. books'.balance - books'.booked + books'.paid
         = books.balance - books.booked + books.paid
           + EntryFee * QuantityOf(positions[s]) - EntryFee * QuantityOf(positions'[s])
  BY <1>1, <1>5, <1>6, <1>8, <1>9, <1>11, MarginCovered
<1> QED
  BY <1>1, <1>7, <1>12, <1>13, <1>14, MoneyStep

LEMMA CancelMoney ==
    ASSUME Accounts, Accounts', MarginBooked, BalanceExplained, NEW s \in Ordered, GivingUp(s)
    PROVE  MarginBooked' /\ BalanceExplained'
<1>1. s \in Symbols /\ pending[s] # None
  BY DEF Ordered
<1>2. /\ positions' = positions /\ pending' = [pending EXCEPT ![s] = None]
      /\ books' = [books EXCEPT !.locked = Max2(0, books.locked - Margin(pending[s]))]
  BY DEF GivingUp, Cancel
<1>3. /\ pending'[s] = None
      /\ \A y \in Symbols \ {s} : positions'[y] = positions[y] /\ pending'[y] = pending[y]
  BY <1>1, <1>2 DEF Accounts
<1>4. MarginOf(pending[s]) = Margin(pending[s]) /\ MarginOf(pending'[s]) = 0
  BY <1>1, <1>3 DEF MarginOf
<1>5. /\ books'.locked = Max2(0, books.locked - Margin(pending[s])) /\ books'.used = books.used
      /\ books'.balance = books.balance /\ books'.booked = books.booked /\ books'.paid = books.paid
  BY <1>2 DEF Accounts, Money
<1>6. books'.locked = books.locked - MarginOf(pending[s]) + MarginOf(pending'[s])
  BY <1>1, <1>4, <1>5, MarginCovered DEF Max2
<1>7. EntryFee * QuantityOf(positions[s]) \in Nat
  BY <1>1, MarginCovered, Amounts, ProductType
<1> QED
  BY <1>1, <1>2, <1>3, <1>5, <1>6, <1>7, MarginCovered, MoneyStep

\* A position or an order that changes but keeps its size, and the position what is left.
LEMMA MovedMoney ==
    ASSUME Accounts, Accounts', MarginBooked, BalanceExplained, NEW s \in Symbols, books' = books,
           \A y \in Symbols \ {s} : positions'[y] = positions[y] /\ pending'[y] = pending[y],
           MarginOf(positions'[s]) = MarginOf(positions[s]),
           MarginOf(pending'[s]) = MarginOf(pending[s]),
           QuantityOf(positions'[s]) = QuantityOf(positions[s])
    PROVE  MarginBooked' /\ BalanceExplained'
<1>1. EntryFee * QuantityOf(positions[s]) \in Nat
  BY MarginCovered, Amounts, ProductType
<1> QED
  BY <1>1, MarginCovered, MoneyStep

LEMMA WaitingMoney ==
    ASSUME Accounts, Accounts', MarginBooked, BalanceExplained, NEW s \in Ordered, Waiting(s)
    PROVE  MarginBooked' /\ BalanceExplained'
<1>1. PICK o \in Order :
        /\ o.size = pending[s].size
        /\ pending' = [pending EXCEPT ![s] = o] /\ UNCHANGED <<positions, books, trades>>
  BY DEF Waiting
<1>2. s \in Symbols /\ pending[s] # None /\ o # None
  BY NoneAssumption DEF Ordered
<1>3. pending'[s] = o /\ \A y \in Symbols \ {s} : pending'[y] = pending[y]
  BY <1>1, <1>2 DEF Accounts
<1>4. MarginOf(pending'[s]) = MarginOf(pending[s])
  BY <1>1, <1>2, <1>3, SameMargin DEF MarginOf
<1> QED
  BY <1>1, <1>2, <1>3, <1>4, MovedMoney

LEMMA MovingMoney ==
    ASSUME Accounts, Accounts', MarginBooked, BalanceExplained, NEW s \in Held, Moving(s)
    PROVE  MarginBooked' /\ BalanceExplained'
<1>1. PICK q \in Position :
        /\ q.size = positions[s].size /\ q.left = positions[s].left
        /\ positions' = [positions EXCEPT ![s] = q] /\ UNCHANGED <<pending, books, trades>>
  BY DEF Moving
<1>2. s \in Symbols /\ positions[s] # None /\ q # None
  BY NoneAssumption DEF Held
<1>3. positions'[s] = q /\ \A y \in Symbols \ {s} : positions'[y] = positions[y]
  BY <1>1, <1>2 DEF Accounts
<1>4. MarginOf(positions'[s]) = MarginOf(positions[s]) /\ QuantityOf(positions'[s]) = QuantityOf(positions[s])
  BY <1>1, <1>2, <1>3, SameMargin DEF MarginOf, QuantityOf
<1> QED
  BY <1>1, <1>2, <1>3, <1>4, MovedMoney

\* A position becomes x: what is released is the margin it loses, and the part that is booked
\* bears the entry fee of the quantity it loses.
LEMMA BookedMoney ==
    ASSUME Accounts, Accounts', MarginBooked, BalanceExplained, NEW s \in Held, NEW x,
           NEW net \in Int, NEW part \in Nat, NEW released \in Nat,
           books' = Booked(books, net, part, released),
           positions' = [positions EXCEPT ![s] = x], pending' = pending,
           MarginOf(x) = Margin(positions[s]) - released, QuantityOf(x) = positions[s].left - part,
           released <= Margin(positions[s])
    PROVE  MarginBooked' /\ BalanceExplained'
<1>1. s \in Symbols /\ positions[s] # None /\ positions[s].left \in Nat
  BY HeldTyped DEF Held, Position
<1>2. positions'[s] = x /\ \A y \in Symbols \ {s} : positions'[y] = positions[y] /\ pending'[y] = pending[y]
  BY <1>1 DEF Accounts
<1>3. MarginOf(positions[s]) = Margin(positions[s]) /\ QuantityOf(positions[s]) = positions[s].left
  BY <1>1 DEF MarginOf, QuantityOf
<1>4. /\ books'.balance = books.balance + net /\ books'.booked = books.booked + net - EntryFee * part
      /\ books'.used = Max2(0, books.used - released)
      /\ books'.locked = books.locked /\ books'.paid = books.paid
  BY DEF Booked, Accounts, Money
<1>5. books'.used = books.used - MarginOf(positions[s]) + MarginOf(positions'[s])
  BY <1>1, <1>2, <1>3, <1>4, MarginCovered DEF Max2
<1>6. books'.locked = books.locked - MarginOf(pending[s]) + MarginOf(pending'[s])
  BY <1>1, <1>4, MarginCovered
<1>7. QuantityOf(x) \in Nat
  <2>1. \A y \in Held' : positions'[y].left \in Nat
    BY SumsTypedNext DEF SumsWellTyped, HeldQuantities
  <2> QED
    BY <1>1, <1>2, <2>1 DEF QuantityOf, Held
<1>8. EntryFee * QuantityOf(x) = EntryFee * positions[s].left - EntryFee * part
      /\ EntryFee * positions[s].left \in Nat /\ EntryFee * part \in Nat
  <2>1. QuantityOf(x) = positions[s].left - part + 0 /\ EntryFee * 0 = 0
    BY <1>1, Amounts
  <2> QED
    BY <1>1, <2>1, Amounts, Distributes
<1>9. books'.balance - books'.booked + books'.paid
        = books.balance - books.booked + books.paid
          + EntryFee * QuantityOf(positions[s]) - EntryFee * QuantityOf(positions'[s])
  <2> DEFINE whole == EntryFee * positions[s].left
             taken == EntryFee * part
             rest == EntryFee * QuantityOf(x)
  <2>1. rest = whole - taken /\ whole \in Nat /\ taken \in Nat
    BY <1>8
  <2>2. /\ books.balance \in Int /\ books.booked \in Int /\ books.paid \in Int
        /\ books'.balance = books.balance + net /\ books'.booked = books.booked + net - taken
        /\ books'.paid = books.paid
    BY <1>1, <1>4, MarginCovered
  <2> HIDE DEF whole, taken, rest
  <2>3. books'.balance - books'.booked + books'.paid
          = books.balance - books.booked + books.paid + whole - rest
    BY ONLY <2>1, <2>2, net \in Int
  <2> QED
    BY <1>2, <1>3, <2>3 DEF whole, rest
<1> QED
  BY <1>1, <1>2, <1>5, <1>6, <1>9, MoneyStep

LEMMA CloseMoney ==
    ASSUME Accounts, Accounts', MarginBooked, BalanceExplained, NEW s \in Held, NEW net \in Int,
           books' = Booked(books, net, positions[s].left, Margin(positions[s])),
           positions' = [positions EXCEPT ![s] = None], pending' = pending
    PROVE  MarginBooked' /\ BalanceExplained'
<1>1. positions[s].left \in Nat /\ positions[s].size \in Nat
  BY HeldTyped DEF Position
<1>2. Margin(positions[s]) \in Nat
  BY <1>1, MarginType
<1>3. /\ MarginOf(None) = Margin(positions[s]) - Margin(positions[s])
      /\ QuantityOf(None) = positions[s].left - positions[s].left
      /\ Margin(positions[s]) <= Margin(positions[s])
  BY <1>1, <1>2 DEF MarginOf, QuantityOf
<1> QED
  BY <1>1, <1>2, <1>3, BookedMoney

LEMMA PartingMoney ==
    ASSUME Accounts, Accounts', MarginBooked, BalanceExplained, NEW s \in Held, Parting(s)
    PROVE  MarginBooked' /\ BalanceExplained'
<1>1. positions[s].left \in Nat /\ positions[s].size \in Nat
  BY HeldTyped DEF Position
<1>2. ASSUME NEW gain \in Int, NEW slip \in Nat, NEW reason \in Reason, Close(s, gain, slip, reason)
      PROVE  MarginBooked' /\ BalanceExplained'
  <2>1. Proceeds(gain, positions[s].left, slip) \in Int
    BY <1>1, ProceedsType
  <2> QED
    BY <1>2, <2>1, CloseMoney DEF Close
<1>3. CASE Liquidate(s)
  <2>1. -Margin(positions[s]) \in Int
    BY <1>1, MarginType
  <2> QED
    BY <1>3, <2>1, CloseMoney DEF Liquidate
<1> QED
  BY <1>2, <1>3 DEF Parting

LEMMA SharingMoney ==
    ASSUME Accounts, Accounts', MarginBooked, BalanceExplained, NEW s \in Held, Sharing(s)
    PROVE  MarginBooked' /\ BalanceExplained'
<1>1. PICK gain \in Int, part \in Nat, reason \in Reason : \E r :
         LeftOf(positions[s], part, r) /\ TakePart(s, gain, part, r, reason)
  BY DEF Sharing
<1>2. PICK q : LeftOf(positions[s], part, q) /\ TakePart(s, gain, part, q, reason)
  BY <1>1
<1> DEFINE p == positions[s]
           net == Proceeds(gain, part, Slip)
<1>3. /\ books' = Booked(books, net, part, IF q.left = 0 THEN Margin(q) ELSE 0)
      /\ positions' = [positions EXCEPT ![s] = IF q.left = 0 THEN None ELSE q] /\ pending' = pending
  BY <1>2 DEF TakePart
<1>4. net \in Int /\ p.left \in Nat /\ p.size \in Nat
  BY HeldTyped, ProceedsType, Amounts DEF Position
<1>5. part <= p.left /\ q.left = p.left - part /\ Margin(q) = Margin(p) /\ Margin(p) \in Nat
  BY <1>2, <1>4, SameMargin, MarginType DEF LeftOf
<1>6. CASE q.left = 0
  <2>1. part = p.left
    BY <1>4, <1>5, <1>6
  <2>2. /\ books' = Booked(books, net, p.left, Margin(p))
        /\ positions' = [positions EXCEPT ![s] = None] /\ pending' = pending
    BY <1>3, <1>5, <1>6, <2>1
  <2> QED
    BY <1>4, <2>2, CloseMoney
<1>7. CASE q.left # 0
  <2>1. q # None
    BY <1>2, <1>7, NoneAssumption DEF LeftOf
  <2>2. books' = Booked(books, net, part, 0) /\ positions' = [positions EXCEPT ![s] = q] /\ pending' = pending
    BY <1>3, <1>7
  <2>3. MarginOf(q) = Margin(p) - 0 /\ QuantityOf(q) = p.left - part /\ 0 <= Margin(p)
    BY <1>5, <2>1 DEF MarginOf, QuantityOf
  <2> QED
    BY <1>4, <2>2, <2>3, BookedMoney
<1> QED
  BY <1>6, <1>7

LEMMA StageMoney ==
    ASSUME Typed, Typed', MarginBooked, BalanceExplained, StageAction
    PROVE  MarginBooked' /\ BalanceExplained'
<1> DEFINE s == path.symbol
<1>1. AtStage /\ (OrderEffect(s) \/ PositionEffect(s))
  BY OrderEffects, PositionEffects DEF StageAction
<1>2. Accounts /\ Accounts' /\ Clock \in Nat
  BY <1>1, StageType, TypeParts, TypePartsNext DEF Typed
<1>3. CASE OrderEffect(s)
  <2>1. s \in Ordered /\ (Entering(s) \/ GivingUp(s) \/ Waiting(s))
    BY <1>3 DEF OrderEffect
  <2> QED
    BY <1>2, <2>1, FillMoney, CancelMoney, WaitingMoney DEF Entering
<1>4. CASE PositionEffect(s)
  <2>1. s \in Held /\ (Parting(s) \/ Sharing(s) \/ Moving(s))
    BY <1>4 DEF PositionEffect
  <2> QED
    BY <1>2, <2>1, PartingMoney, SharingMoney, MovingMoney
<1> QED
  BY <1>1, <1>3, <1>4

LEMMA PlaceMoney ==
    ASSUME Typed, Typed', MarginBooked, BalanceExplained, PlaceNext
    PROVE  MarginBooked' /\ BalanceExplained'
<1>1. UNCHANGED positions /\ step = "place" /\ Accounts /\ Accounts'
  BY TypeParts, TypePartsNext DEF PlaceNext, Typed
<1>2. PICK x \in heard : (Affordable(x) /\ Placing(x)) \/ UNCHANGED <<pending, books>>
  BY PlaceEffects
<1>3. CASE Affordable(x) /\ Placing(x)
  <2> DEFINE s == x.symbol
             o == PlacedOrder(x)
  <2>1. s \in Symbols /\ pending[s] = None
    BY <1>1, SignalsAssumption DEF Typed, Hearing, Busy, Ordered
  <2>2. o \in Order /\ o.size = Size(x) /\ Size(x) \in Nat
    BY <1>3, PlacedType
  <2>3. o # None
    BY <2>2, NoneAssumption
  <2>4. pending' = [pending EXCEPT ![s] = o] /\ books' = [books EXCEPT !.locked = books.locked + Margin(o)]
    BY <1>3, <2>2 DEF Placing, Margin
  <2> HIDE DEF s, o
  <2>5. pending'[s] = o /\ \A y \in Symbols \ {s} : pending'[y] = pending[y]
    BY <1>1, <2>1, <2>4 DEF Accounts
  <2>6. /\ books'.used = books.used /\ books'.locked = books.locked + Margin(o)
        /\ books'.balance = books.balance /\ books'.booked = books.booked /\ books'.paid = books.paid
    BY <1>1, <2>4 DEF Accounts, Money
  <2>7. Margin(o) \in Nat /\ MarginOf(pending[s]) = 0 /\ MarginOf(pending'[s]) = Margin(o)
    BY <2>1, <2>2, <2>3, <2>5, MarginType DEF MarginOf
  <2>8. EntryFee * QuantityOf(positions[s]) \in Nat
    BY <1>1, <2>1, MarginCovered, Amounts, ProductType
  <2> QED
    BY <1>1, <2>1, <2>5, <2>6, <2>7, <2>8, MarginCovered, MoneyStep
<1>4. CASE UNCHANGED <<pending, books>>
  BY <1>1, <1>4 DEF MarginBooked, BalanceExplained, Held, Ordered
<1> QED
  BY <1>2, <1>3, <1>4

LEMMA UntouchedMoney ==
    ASSUME MarginBooked, BalanceExplained, UNCHANGED <<positions, pending, books>>
    PROVE  MarginBooked' /\ BalanceExplained'
  BY DEF MarginBooked, BalanceExplained, Held, Ordered

\* Funding moves the balance and what is listed as paid, and nothing else.
LEMMA FundingMoney ==
    ASSUME Typed, Typed', MarginBooked, BalanceExplained, NextBar
    PROVE  MarginBooked' /\ BalanceExplained'
<1>1. Funding /\ UNCHANGED <<positions, pending>> /\ Accounts
  BY TypeParts DEF NextBar, Typed
<1>2. CASE FundingDue
  <2>1. PICK rate \in [Held -> {-FundingUnit, FundingUnit}] :
          LET paid == SumFunction([s \in Held |-> Toward(positions[s].side) * rate[s]
                                                   * positions[s].left])
          IN  books' = [books EXCEPT !.balance = @ - paid, !.paid = @ + paid]
    BY <1>1, <1>2 DEF Funding
  <2> DEFINE paid == SumFunction([s \in Held |-> Toward(positions[s].side) * rate[s]
                                                 * positions[s].left])
  <2>2. books' = [[books EXCEPT !.balance = books.balance - paid] EXCEPT !.paid = books.paid + paid]
    BY <2>1
  <2> HIDE DEF paid
  <2>3. /\ books'.used = books.used /\ books'.locked = books.locked /\ books'.booked = books.booked
        /\ books'.balance = books.balance - paid /\ books'.paid = books.paid + paid
    BY <1>1, <2>2 DEF Accounts, Money
  <2>4. MarginBooked'
    BY <1>1, <2>3 DEF MarginBooked, Held, Ordered
  <2>5. paid \in Int
    <3> DEFINE f == [s \in Held |-> Toward(positions[s].side) * rate[s] * positions[s].left]
    <3>1. f \in [Held -> Int]
      <4> SUFFICES ASSUME NEW s \in Held
                   PROVE  Toward(positions[s].side) * rate[s] * positions[s].left \in Int
        OBVIOUS
      <4>1. positions[s].left \in Nat /\ rate[s] \in Int
        BY <1>1, HeldTyped, Amounts DEF Position
      <4>2. Toward(positions[s].side) * rate[s] \in Int
        BY <4>1, Turned
      <4>3. \A a \in Int, b \in Nat : a * b \in Int
        OBVIOUS
      <4> QED
        BY <4>1, <4>2, <4>3
    <3>2. IsFiniteSet(Held)
      BY SymbolsAssumption, FS_Subset DEF Held
    <3> HIDE DEF f
    <3>3. SumFunction(f) \in Int
      BY <3>1, <3>2, SumType
    <3> QED
      BY <3>3 DEF paid, f
  <2>6. BalanceExplained'
    <3> DEFINE open == EntryFee * SumFunction(HeldQuantities)
    <3>1. books.balance = InitialBalance + books.booked - books.paid - open
      BY DEF BalanceExplained, HeldQuantities
    <3>2. open \in Nat
      BY <1>1, SumsTyped, Amounts, ProductType DEF SumsWellTyped
    <3>3. books.balance \in Int /\ books.booked \in Int /\ books.paid \in Int
      BY <1>1 DEF Accounts, Money
    <3> HIDE DEF open
    <3>4. books'.balance = InitialBalance + books'.booked - books'.paid - open
      BY <2>3, <2>5, <3>1, <3>2, <3>3, Amounts
    <3> QED
      BY <1>1, <3>4 DEF BalanceExplained, HeldQuantities, Held, open
  <2> QED
    BY <2>4, <2>6
<1>3. CASE ~FundingDue
  BY <1>1, <1>3, UntouchedMoney DEF Funding
<1> QED
  BY <1>2, <1>3

LEMMA StepMoney ==
    ASSUME Typed, Typed', MarginBooked, BalanceExplained, [Next]_vars
    PROVE  MarginBooked' /\ BalanceExplained'
<1>1. ASSUME NEW s \in Symbols, StartSymbol(s) \/ NoCandle(s)
      PROVE  MarginBooked' /\ BalanceExplained'
  BY <1>1, UntouchedMoney DEF StartSymbol, NoCandle, account
<1>2. CASE StageAction
  BY <1>2, StageMoney
<1>3. CASE Done \/ UNCHANGED vars
  BY <1>3, UntouchedMoney DEF Done, vars, account
<1>4. CASE StartMinute \/ SkipMinute \/ EndMinute \/ SignalsArrive \/ EndBar \/ EndOfData
  BY <1>4, UntouchedMoney DEF StartMinute, SkipMinute, EndMinute, SignalsArrive, EndBar, EndOfData, account
<1>5. CASE TellOfBar \/ TellOfMinutes
  BY <1>5, UntouchedMoney DEF TellOfBar, TellOfMinutes
<1>6. CASE Batch
  <2>1. Accounts /\ Accounts'
    BY TypeParts, TypePartsNext DEF Typed
  <2> QED
    BY <1>6, <2>1, BatchEffects, CancelMoney, UntouchedMoney DEF account
<1>7. CASE CloseNext
  <2>1. PICK x \in closing :
          /\ Close(x.symbol, Gain(positions[x.symbol], x.price),
                   IF x.reason = "END_OF_DATA" THEN 0 ELSE Slip, x.reason)
    BY <1>7 DEF CloseNext
  <2>2. x.symbol \in Held /\ x.price \in Int /\ x.reason \in Reason /\ Accounts /\ Accounts'
    BY TypeParts, TypePartsNext DEF Typed, Looping
  <2>3. /\ Gain(positions[x.symbol], x.price) \in Int
        /\ (IF x.reason = "END_OF_DATA" THEN 0 ELSE Slip) \in Nat
    BY <2>2, HeldTyped, GainType, Amounts
  <2>4. Parting(x.symbol)
    BY <2>1, <2>2, <2>3 DEF Parting
  <2> QED
    BY <2>2, <2>4, PartingMoney
<1> QED
  BY <1>1, <1>2, <1>3, <1>4, <1>5, <1>6, <1>7, FundingMoney, PlaceMoney DEF Next, StageAction

LEMMA InitMoney ==
    ASSUME Init
    PROVE  MarginBooked /\ BalanceExplained
<1>1. /\ books = [balance |-> InitialBalance, used |-> 0, locked |-> 0, booked |-> 0, paid |-> 0]
      /\ Held = {} /\ Ordered = {}
  BY InitTyped DEF Init
<1>2. /\ [s \in Held |-> Margin(positions[s])] \in [{} -> Int]
      /\ [s \in Ordered |-> Margin(pending[s])] \in [{} -> Int]
      /\ [s \in Held |-> positions[s].left] \in [{} -> Int]
  BY <1>1
<1>3. /\ SumFunction([s \in Held |-> Margin(positions[s])]) = 0
      /\ SumFunction([s \in Ordered |-> Margin(pending[s])]) = 0
      /\ SumFunction([s \in Held |-> positions[s].left]) = 0
  BY <1>2, SumEmpty
<1>4. EntryFee * 0 = 0
  BY Amounts
<1> QED
  BY <1>1, <1>3, <1>4, Amounts DEF MarginBooked, BalanceExplained

--------------------------------------------------------------------------------
(* The slots: positions, orders and the signals that are to be placed.     *)

OfSide(side) == {s \in Busy : SideOf(s) = side}
HeardOf(side) == {x \in heard : x.side = side}

\* What the batch lets through still fits, whichever of it is placed: the code checks the
\* slots and the sides when it picks the signals and not when it places them.
RoomLeft ==
    /\ Cardinality(Busy) <= opt.slots
    /\ step = "place" => Cardinality(Busy) + Cardinality(heard) <= opt.slots
    /\ opt.sameSide > 0 => \A side \in Sides :
         /\ Same(side) <= opt.sameSide
         /\ step = "place" => Same(side) + Cardinality(HeardOf(side)) <= opt.sameSide

\* Signals with a symbol each are as few as the symbols.
LEMMA HeardFinite ==
    ASSUME Hearing
    PROVE  IsFiniteSet(heard) /\ \A b \in SUBSET heard : IsFiniteSet(b) /\ Cardinality(b) \in Nat
<1> DEFINE f == [x \in heard |-> x.symbol]
<1>1. f \in Injection(heard, Symbols)
  BY SignalsAssumption DEF Hearing, Injection, IsInjective
<1> HIDE DEF f
<1>2. IsFiniteSet(heard)
  BY <1>1, SymbolsAssumption, FS_Injection
<1> QED
  BY <1>2, FS_Subset, FS_CardinalityType

LEMMA CountTypes ==
    ASSUME Typed
    PROVE  /\ IsFiniteSet(Busy) /\ Cardinality(Busy) \in Nat
           /\ \A side : IsFiniteSet(OfSide(side)) /\ Cardinality(OfSide(side)) \in Nat
           /\ \A side : Same(side) = Cardinality(OfSide(side))
           /\ opt.slots \in Nat /\ opt.sameSide \in Nat
<1>1. IsFiniteSet(Busy)
  BY SymbolsAssumption, FS_Subset DEF Busy, Held, Ordered
<1>2. \A side : OfSide(side) \in SUBSET Busy
  BY DEF OfSide
<1>3. \A side : Same(side) = Cardinality(OfSide(side))
  BY DEF Same, OfSide
<1>4. opt.slots \in Nat /\ opt.sameSide \in Nat
  BY OptionsAssumption DEF Typed, Looping
<1> QED
  BY <1>1, <1>2, <1>3, <1>4, FS_Subset, FS_CardinalityType

\* Steps that take no symbol and turn none to the other side.
LEMMA NoMoreTaken ==
    ASSUME Typed, RoomLeft, opt' = opt, Busy' \subseteq Busy, \A s \in Busy' : SideOf(s)' = SideOf(s)
    PROVE  /\ Cardinality(Busy') <= Cardinality(Busy) /\ Cardinality(Busy') \in Nat
           /\ \A side : Same(side)' <= Same(side) /\ Same(side)' \in Nat
           /\ Cardinality(Busy') <= opt.slots
           /\ opt.sameSide > 0 => \A side \in Sides : Same(side)' <= opt.sameSide
<1>1. Cardinality(Busy') <= Cardinality(Busy) /\ Cardinality(Busy') \in Nat
  BY CountTypes, FS_Subset, FS_CardinalityType
<1>2. ASSUME NEW side
      PROVE  Same(side)' <= Same(side) /\ Same(side)' \in Nat
  <2>1. OfSide(side)' \in SUBSET OfSide(side)
    BY DEF OfSide
  <2>2. Same(side)' = Cardinality(OfSide(side)')
    BY DEF Same, OfSide
  <2>3. IsFiniteSet(OfSide(side)) /\ Same(side) = Cardinality(OfSide(side))
    BY CountTypes
  <2> QED
    BY <2>1, <2>2, <2>3, FS_Subset, FS_CardinalityType
<1>3. opt.slots \in Nat /\ opt.sameSide \in Nat /\ Cardinality(Busy) \in Nat
      /\ \A side : Same(side) \in Nat
  BY CountTypes
<1> QED
  BY <1>1, <1>2, <1>3 DEF RoomLeft

LEMMA RoomKept ==
    ASSUME Typed, RoomLeft, opt' = opt, Busy' \subseteq Busy, \A s \in Busy' : SideOf(s)' = SideOf(s),
           step' # "place"
    PROVE  RoomLeft'
<1>1. /\ Cardinality(Busy') <= opt'.slots
      /\ opt'.sameSide > 0 => \A side \in Sides : Same(side)' <= opt'.sameSide
  BY NoMoreTaken
<1> QED
  BY <1>1 DEF RoomLeft

LEMMA RoomUntouched ==
    ASSUME Typed, RoomLeft, UNCHANGED <<opt, positions, pending>>, step' # "place"
    PROVE  RoomLeft'
<1>1. Busy' = Busy /\ \A s \in Busy' : SideOf(s)' = SideOf(s)
  BY Untouched DEF SideOf, Held
<1> QED
  BY <1>1, RoomKept

\* A step at one symbol leaves the sides of the others.
LEMMA OthersSide ==
    ASSUME NEW s, \A y \in Symbols \ {s} : positions'[y] = positions[y] /\ pending'[y] = pending[y]
    PROVE  /\ Busy' \ {s} = Busy \ {s}
           /\ \A y \in Busy' \ {s} : SideOf(y)' = SideOf(y)
<1>1. \A y \in Symbols \ {s} : (y \in Held' <=> y \in Held) /\ (y \in Ordered' <=> y \in Ordered)
  BY DEF Held, Ordered
<1>2. Busy \subseteq Symbols /\ Busy' \subseteq Symbols
  BY DEF Busy, Held, Ordered
<1> QED
  BY <1>1, <1>2 DEF Busy, SideOf

\* The symbol of a step keeps its side or is free afterwards.
LEMMA RoomAt ==
    ASSUME Typed, RoomLeft, NEW s \in Busy, opt' = opt, step' # "place",
           \A y \in Symbols \ {s} : positions'[y] = positions[y] /\ pending'[y] = pending[y],
           s \in Busy' => SideOf(s)' = SideOf(s)
    PROVE  RoomLeft'
<1>1. Busy' \subseteq Busy /\ \A y \in Busy' : SideOf(y)' = SideOf(y)
  BY OthersSide
<1> QED
  BY <1>1, RoomKept

LEMMA PartingRoom ==
    ASSUME Typed, RoomLeft, NEW s \in Held, Parting(s), opt' = opt, step' # "place"
    PROVE  RoomLeft'
<1>1. positions' = [positions EXCEPT ![s] = None] /\ pending' = pending
  BY DEF Parting, Close, Liquidate
<1>2. Accounts /\ s \in Symbols
  BY TypeParts DEF Typed, Held
<1>3. positions'[s] = None /\ pending'[s] = None
  BY <1>1, <1>2 DEF Accounts, Ordered
<1>4. s \in Busy /\ s \notin Busy'
  BY <1>3 DEF Busy, Held, Ordered
<1>5. \A y \in Symbols \ {s} : positions'[y] = positions[y] /\ pending'[y] = pending[y]
  BY <1>1, <1>2 DEF Accounts
<1> QED
  BY <1>4, <1>5, RoomAt

LEMMA HeldSide ==
    ASSUME Typed, RoomLeft, NEW s \in Held, NEW q \in Position, q.side = positions[s].side,
           positions' = [positions EXCEPT ![s] = q], pending' = pending, opt' = opt, step' # "place"
    PROVE  RoomLeft'
<1>1. Accounts /\ s \in Symbols
  BY TypeParts DEF Typed, Held
<1>2. positions'[s] = q /\ q # None
  BY <1>1, NoneAssumption DEF Accounts
<1>3. s \in Busy /\ s \in Held' /\ SideOf(s)' = SideOf(s)
  BY <1>1, <1>2 DEF Busy, Held, SideOf
<1>4. \A y \in Symbols \ {s} : positions'[y] = positions[y] /\ pending'[y] = pending[y]
  BY <1>1 DEF Accounts
<1> QED
  BY <1>3, <1>4, RoomAt

LEMMA StageRoom ==
    ASSUME Typed, RoomLeft, StageAction
    PROVE  RoomLeft'
<1>0. PICK s : s = path.symbol
  OBVIOUS
<1>1. AtStage /\ UNCHANGED <<opt, loop>> /\ (OrderEffect(s) \/ PositionEffect(s))
  BY <1>0, OrderEffects, PositionEffects DEF StageAction
<1>2. Accounts /\ Clock \in Nat /\ step \in Walking
  BY <1>1, StageType, TypeParts DEF Typed
<1>2a. opt' = opt /\ step' # "place" /\ step' = step
  <2>1. opt' = opt /\ step' = step
    BY <1>1 DEF loop
  <2> QED
    BY <1>2, <2>1 DEF Walking
<1>3. ASSUME s \in Ordered
      PROVE  /\ s \in Symbols /\ s \in Busy /\ s \notin Held /\ pending[s] \in Order
             /\ SideOf(s) = pending[s].side /\ positions[s] = None
  BY <1>2, <1>3, HeldTyped DEF Busy, SideOf, Accounts
<1>4. ASSUME s \in Ordered, NEW price \in Int, NEW slip \in Nat, Fill(s, price, slip)
      PROVE  RoomLeft'
  <2> DEFINE p == Filled(pending[s], price, slip)
  <2>1. p \in Position /\ p.side = pending[s].side
    BY <1>2, <1>3, <1>4, FilledType
  <2>2. positions' = [positions EXCEPT ![s] = p] /\ pending' = [pending EXCEPT ![s] = None]
    BY <1>4 DEF Fill
  <2> HIDE DEF p
  <2>3. positions'[s] = p /\ p # None
    BY <1>2, <1>3, <1>4, <2>1, <2>2, NoneAssumption DEF Accounts
  <2>4. SideOf(s)' = SideOf(s)
    BY <1>3, <1>4, <2>1, <2>3 DEF SideOf, Held
  <2>5. \A y \in Symbols \ {s} : positions'[y] = positions[y] /\ pending'[y] = pending[y]
    BY <1>2, <2>2 DEF Accounts
  <2> QED
    BY <1>2a, <1>3, <1>4, <2>4, <2>5, RoomAt
<1>5. ASSUME s \in Ordered, GivingUp(s)
      PROVE  RoomLeft'
  <2>1. positions' = positions /\ pending' = [pending EXCEPT ![s] = None]
    BY <1>5 DEF GivingUp, Cancel
  <2>2. \A y \in Symbols \ {s} : positions'[y] = positions[y] /\ pending'[y] = pending[y]
    BY <1>2, <2>1 DEF Accounts
  <2>3. s \notin Busy'
    BY <1>2, <1>3, <1>5, <2>1 DEF Busy, Held, Ordered, Accounts
  <2> QED
    BY <1>2a, <1>3, <1>5, <2>2, <2>3, RoomAt
<1>6. ASSUME s \in Ordered, Waiting(s)
      PROVE  RoomLeft'
  <2>1. PICK o \in Order :
          /\ o.side = pending[s].side /\ pending' = [pending EXCEPT ![s] = o] /\ positions' = positions
    BY <1>6 DEF Waiting
  <2>2. \A y \in Symbols \ {s} : positions'[y] = positions[y] /\ pending'[y] = pending[y]
    BY <1>2, <2>1 DEF Accounts
  <2>3. SideOf(s)' = SideOf(s)
    BY <1>2, <1>3, <1>6, <2>1 DEF SideOf, Held, Accounts
  <2> QED
    BY <1>2a, <1>3, <1>6, <2>2, <2>3, RoomAt
<1>7. ASSUME s \in Held, Sharing(s)
      PROVE  RoomLeft'
  <2>1. PICK gain \in Int, part \in Nat, reason \in Reason : \E r :
          LeftOf(positions[s], part, r) /\ TakePart(s, gain, part, r, reason)
    BY <1>7 DEF Sharing
  <2>2. PICK q : LeftOf(positions[s], part, q) /\ TakePart(s, gain, part, q, reason)
    BY <2>1
  <2>3. CASE q.left = 0
    <3>1. positions' = [positions EXCEPT ![s] = None] /\ pending' = pending
      BY <2>2, <2>3 DEF TakePart
    <3>2. s \in Busy /\ s \notin Busy'
      BY <1>2, <1>7, <3>1 DEF Busy, Held, Ordered, Accounts
    <3>3. \A y \in Symbols \ {s} : positions'[y] = positions[y] /\ pending'[y] = pending[y]
      BY <1>2, <3>1 DEF Accounts
    <3> QED
      BY <1>2a, <3>2, <3>3, RoomAt
  <2>4. CASE q.left # 0
    BY <1>2a, <1>7, <2>2, <2>4, HeldSide DEF TakePart, LeftOf
  <2> QED
    BY <2>3, <2>4
<1>8. ASSUME s \in Held, Moving(s)
      PROVE  RoomLeft'
  BY <1>2a, <1>8, HeldSide DEF Moving
<1> QED
  BY <1>1, <1>2a, <1>4, <1>5, <1>6, <1>7, <1>8, PartingRoom DEF OrderEffect, PositionEffect, Entering

\* The same-direction filter lets through what each side has room for.
LEMMA PassingRoom ==
    ASSUME Typed, RoomLeft, NEW k \in Passing(heard), opt.sameSide > 0, NEW side \in Sides
    PROVE  /\ IsFiniteSet({x \in k : x.side = side}) /\ Cardinality({x \in k : x.side = side}) \in Nat
           /\ Same(side) + Cardinality({x \in k : x.side = side}) <= opt.sameSide
<1>1. k \in Filtered(heard)
  BY DEF Passing
<1>2. k \subseteq heard /\ Cardinality({x \in k : x.side = side})
        = Min2(Cardinality({x \in heard : x.side = side}), Max2(0, opt.sameSide - Same(side)))
  BY <1>1 DEF Filtered, Sides
<1>3. /\ {x \in k : x.side = side} \in SUBSET heard /\ {x \in heard : x.side = side} \in SUBSET heard
  BY <1>2
<1>4. /\ IsFiniteSet({x \in k : x.side = side}) /\ Cardinality({x \in k : x.side = side}) \in Nat
      /\ Cardinality({x \in heard : x.side = side}) \in Nat
  BY <1>3, HeardFinite DEF Typed
<1>5. Same(side) \in Nat /\ opt.sameSide \in Nat /\ Same(side) <= opt.sameSide
  BY CountTypes DEF RoomLeft
<1> QED
  BY <1>2, <1>4, <1>5 DEF Min2, Max2

LEMMA BatchSides ==
    ASSUME Typed, Batch
    PROVE  opt' = opt /\ Busy' \subseteq Busy /\ \A s \in Busy' : SideOf(s)' = SideOf(s)
<1>1. opt' = opt /\ Busy' \subseteq Busy
  BY BatchTyped DEF Batch
<1>2. Accounts
  BY TypeParts DEF Typed
<1>3. CASE UNCHANGED account
  BY <1>1, <1>3 DEF SideOf, Held, account
<1>4. ASSUME NEW worst \in Ordered, GivingUp(worst)
      PROVE  \A s \in Busy' : SideOf(s)' = SideOf(s)
  <2>1. positions' = positions /\ pending' = [pending EXCEPT ![worst] = None]
    BY <1>4 DEF GivingUp, Cancel
  <2>2. \A y \in Symbols \ {worst} : positions'[y] = positions[y] /\ pending'[y] = pending[y]
    BY <1>2, <2>1 DEF Accounts
  <2>3. worst \notin Busy'
    BY <1>2, <2>1, HeldTyped DEF Busy, Held, Ordered, Accounts
  <2> QED
    BY <2>2, <2>3, OthersSide
<1> QED
  BY <1>1, <1>3, <1>4, BatchEffects

LEMMA BatchRoom ==
    ASSUME Typed, RoomLeft, Batch
    PROVE  RoomLeft'
<1>1. PICK k \in Passing(heard) : Admit(k) \/ Recycle(k) \/ KeepsAll(k)
  BY DEF Batch
<1>2. /\ Cardinality(Busy') <= Cardinality(Busy) /\ Cardinality(Busy') \in Nat
      /\ \A side : Same(side)' <= Same(side) /\ Same(side)' \in Nat
      /\ Cardinality(Busy') <= opt'.slots
      /\ opt'.sameSide > 0 => \A side \in Sides : Same(side)' <= opt'.sameSide
      /\ opt' = opt
  BY BatchSides, NoMoreTaken
<1>3. k \subseteq heard
  BY <1>1 DEF Passing, Filtered
<1>4. /\ Cardinality(Busy) \in Nat /\ opt.slots \in Nat /\ opt.sameSide \in Nat
      /\ \A side : Same(side) \in Nat
  BY CountTypes
<1>5. heard' \subseteq k
  BY <1>1 DEF Admit, Recycle, KeepsAll, Candidates, Best, Recyclable
<1>6. heard' \in SUBSET heard /\ Cardinality(heard') \in Nat
  BY <1>3, <1>5, HeardFinite DEF Typed
<1>7. Cardinality(Busy') + Cardinality(heard') <= opt.slots
  <2>1. CASE Admit(k)
    <3>1. Candidates(k) \in SUBSET heard
      BY <1>3 DEF Candidates
    <3>2. Cardinality(heard') = Min2(Free, Cardinality(Candidates(k))) /\ Cardinality(Candidates(k)) \in Nat
      BY <2>1, <3>1, HeardFinite DEF Admit, Typed
    <3>3. Free = opt.slots - Cardinality(Busy) /\ Free \in Int
      BY <1>4 DEF Free
    <3>4. Cardinality(heard') <= Free
      BY <3>2, <3>3 DEF Min2
    <3> QED
      BY <1>2, <1>4, <1>6, <3>3, <3>4
  <2>2. CASE Recycle(k)
    <3>1. PICK may \in Recyclable : \E w \in may :
            /\ Cancel(w)
            /\ \E x \in Best({y \in Candidates(k) : y.confidence * 10 > pending[w].confidence * 11}) :
                 heard' = {x}
      BY <2>2 DEF Recycle
    <3>2. PICK worst \in may :
            /\ Cancel(worst)
            /\ \E x \in Best({y \in Candidates(k) : y.confidence * 10 > pending[worst].confidence * 11}) :
                 heard' = {x}
      BY <3>1
    <3>3. worst \in Ordered /\ Cardinality(heard') = 1
      BY <3>2, FS_Singleton DEF Recyclable
    <3>4. GivingUp(worst) /\ Accounts
      BY <2>2, <3>2, TypeParts DEF GivingUp, Recycle, Typed
    <3>5. worst \notin Busy'
      BY <3>3, <3>4, HeldTyped DEF GivingUp, Cancel, Busy, Held, Ordered, Accounts
    <3>6. worst \in Busy /\ Busy' \in SUBSET (Busy \ {worst})
      BY <3>3, <3>5, BatchSides DEF Busy
    <3>7. Cardinality(Busy') <= Cardinality(Busy) - 1
      <4>1. IsFiniteSet(Busy \ {worst}) /\ Cardinality(Busy \ {worst}) = Cardinality(Busy) - 1
        BY <3>6, CountTypes, FS_RemoveElement
      <4>2. Cardinality(Busy') <= Cardinality(Busy \ {worst})
        BY <3>6, <4>1, FS_Subset
      <4> QED
        BY <4>1, <4>2
    <3>8. Cardinality(Busy) <= opt.slots
      BY DEF RoomLeft
    <3> QED
      BY <1>2, <1>4, <3>3, <3>7, <3>8
  <2>3. CASE KeepsAll(k)
    BY <1>2, <1>4, <2>3, FS_EmptySet DEF KeepsAll
  <2> QED
    BY <1>1, <2>1, <2>2, <2>3
<1>8. ASSUME opt.sameSide > 0, NEW side \in Sides
      PROVE  Same(side)' + Cardinality(HeardOf(side)') <= opt.sameSide
  <2>1. HeardOf(side)' \in SUBSET {x \in k : x.side = side}
    BY <1>5 DEF HeardOf
  <2>2. /\ IsFiniteSet({x \in k : x.side = side}) /\ Cardinality({x \in k : x.side = side}) \in Nat
        /\ Same(side) + Cardinality({x \in k : x.side = side}) <= opt.sameSide
    BY <1>8, PassingRoom
  <2>3. /\ Cardinality(HeardOf(side)') <= Cardinality({x \in k : x.side = side})
        /\ Cardinality(HeardOf(side)') \in Nat
    BY <2>1, <2>2, FS_Subset, FS_CardinalityType
  <2> QED
    BY <1>2, <1>4, <2>2, <2>3
<1> QED
  BY <1>2, <1>7, <1>8 DEF RoomLeft

LEMMA PlaceRoom ==
    ASSUME Typed, Typed', RoomLeft, PlaceNext
    PROVE  RoomLeft'
<1>1. step = "place" /\ UNCHANGED <<opt, step, positions>> /\ Accounts
  BY TypeParts DEF PlaceNext, Typed
<1>2. PICK x \in heard : /\ heard' = heard \ {x}
                         /\ (Affordable(x) /\ Placing(x)) \/ UNCHANGED <<pending, books>>
  BY PlaceEffects
<1>3. /\ IsFiniteSet(heard) /\ Cardinality(heard) \in Nat \ {0} /\ Cardinality(heard') = Cardinality(heard) - 1
      /\ Cardinality(heard') \in Nat
  <2>1. IsFiniteSet(heard)
    BY HeardFinite DEF Typed
  <2>2. Cardinality(heard) \in Nat \ {0} /\ Cardinality(heard \ {x}) = Cardinality(heard) - 1
    BY <2>1, Smaller
  <2> QED
    BY <1>2, <2>1, <2>2
<1>4. /\ Cardinality(Busy) \in Nat /\ opt.slots \in Nat /\ opt.sameSide \in Nat
      /\ IsFiniteSet(Busy) /\ \A side : IsFiniteSet(OfSide(side)) /\ Same(side) = Cardinality(OfSide(side))
      /\ \A side : Same(side) \in Nat
  BY CountTypes
<1>5. \A side : /\ HeardOf(side)' = HeardOf(side) \ {x}
                /\ x \in HeardOf(side) <=> x.side = side
                /\ IsFiniteSet(HeardOf(side)) /\ Cardinality(HeardOf(side)) \in Nat
  <2>1. \A side : HeardOf(side) \in SUBSET heard
    BY DEF HeardOf
  <2>2. \A side : IsFiniteSet(HeardOf(side)) /\ Cardinality(HeardOf(side)) \in Nat
    BY <2>1, HeardFinite DEF Typed
  <2> QED
    BY <1>2, <2>2 DEF HeardOf
<1>6. \A side : /\ Cardinality(HeardOf(side)') \in Nat
                /\ Cardinality(HeardOf(side)') = IF x.side = side THEN Cardinality(HeardOf(side)) - 1
                                                 ELSE Cardinality(HeardOf(side))
  <2> SUFFICES ASSUME NEW side
               PROVE  /\ Cardinality(HeardOf(side)') \in Nat
                      /\ Cardinality(HeardOf(side)') = IF x.side = side THEN Cardinality(HeardOf(side)) - 1
                                                       ELSE Cardinality(HeardOf(side))
    OBVIOUS
  <2>1. /\ IsFiniteSet(HeardOf(side)')
        /\ Cardinality(HeardOf(side)') = IF x \in HeardOf(side) THEN Cardinality(HeardOf(side)) - 1
                                         ELSE Cardinality(HeardOf(side))
    BY <1>5, FS_RemoveElement
  <2>2. Cardinality(HeardOf(side)') \in Nat
    BY <2>1, FS_CardinalityType
  <2> QED
    BY <1>5, <2>1, <2>2
<1>7. CASE UNCHANGED <<pending, books>>
  <2>1. Busy' = Busy /\ \A side : Same(side)' = Same(side)
    BY <1>1, <1>7 DEF Busy, Held, Ordered, Same, SideOf
  <2> QED
    BY <1>1, <1>3, <1>4, <1>5, <1>6, <2>1 DEF RoomLeft
<1>8. CASE Affordable(x) /\ Placing(x)
  <2>1. PICK s \in Symbols : s = x.symbol /\ s \notin Busy
    BY <1>1, SignalsAssumption DEF Typed, Hearing
  <2>2. PICK o \in Order : o = PlacedOrder(x) /\ o.side = x.side /\ o # None
    BY <1>8, PlacedType, NoneAssumption
  <2>3. pending' = [pending EXCEPT ![s] = o]
    BY <1>8, <2>1, <2>2 DEF Placing
  <2>4. pending'[s] = o /\ \A y \in Symbols \ {s} : positions'[y] = positions[y] /\ pending'[y] = pending[y]
    BY <1>1, <2>3 DEF Accounts
  <2>5. /\ Busy' \ {s} = Busy /\ \A y \in Busy : SideOf(y)' = SideOf(y)
    BY <2>1, <2>4, OthersSide
  <2>6. s \in Busy' /\ SideOf(s)' = x.side
    BY <1>1, <2>1, <2>2, <2>4 DEF Busy, Held, Ordered, SideOf
  <2>7. Busy' = Busy \cup {s} /\ Cardinality(Busy') = Cardinality(Busy) + 1
    <3>1. Busy' = Busy \cup {s}
      BY <2>5, <2>6
    <3> QED
      BY <1>4, <2>1, <3>1, FS_AddElement
  <2>8. ASSUME NEW side
        PROVE  Same(side)' = IF x.side = side THEN Same(side) + 1 ELSE Same(side)
    <3>1. OfSide(side)' = IF x.side = side THEN OfSide(side) \cup {s} ELSE OfSide(side)
      BY <2>5, <2>6, <2>7 DEF OfSide
    <3>2. Same(side)' = Cardinality(OfSide(side)') /\ s \notin OfSide(side)
      BY <2>1 DEF Same, OfSide
    <3> QED
      BY <1>4, <3>1, <3>2, FS_AddElement
  <2>9. Cardinality(Busy') + Cardinality(heard') <= opt.slots /\ Cardinality(Busy') <= opt.slots
    BY <1>1, <1>3, <1>4, <2>7 DEF RoomLeft
  <2>10. ASSUME opt.sameSide > 0, NEW side \in Sides
         PROVE  /\ Same(side)' + Cardinality(HeardOf(side)') <= opt.sameSide
                /\ Same(side)' <= opt.sameSide
    <3>1. Same(side) + Cardinality(HeardOf(side)) <= opt.sameSide
      BY <1>1, <2>10 DEF RoomLeft
    <3>2. Same(side) \in Nat /\ Cardinality(HeardOf(side)) \in Nat /\ opt.sameSide \in Nat
      BY <1>4, <1>5
    <3>3. Cardinality(HeardOf(side)') \in Nat
      BY <1>6
    <3> QED
      BY <1>6, <2>8, <3>1, <3>2, <3>3
  <2> QED
    BY <1>1, <2>9, <2>10 DEF RoomLeft
<1> QED
  BY <1>2, <1>7, <1>8

LEMMA StepRoom ==
    ASSUME Typed, Typed', RoomLeft, [Next]_vars
    PROVE  RoomLeft'
<1>1. ASSUME NEW s \in Symbols, StartSymbol(s) \/ NoCandle(s)
      PROVE  RoomLeft'
  <2>1. UNCHANGED <<opt, step, positions, pending>> /\ step # "place"
    BY <1>1 DEF StartSymbol, NoCandle, account
  <2> QED
    BY <2>1, RoomUntouched
<1>2. CASE StageAction
  BY <1>2, StageRoom
<1>3. CASE Done \/ UNCHANGED vars
  <2>1. UNCHANGED <<opt, step, heard, positions, pending>>
    BY <1>3 DEF Done, vars, account
  <2>2. Busy' = Busy /\ \A side : Same(side)' = Same(side) /\ HeardOf(side)' = HeardOf(side)
    BY <2>1 DEF Busy, Held, Ordered, Same, SideOf, HeardOf
  <2> QED
    BY <2>1, <2>2 DEF RoomLeft
<1>4. CASE StartMinute \/ SkipMinute \/ EndMinute \/ SignalsArrive \/ EndBar \/ EndOfData
  <2>1. UNCHANGED <<opt, positions, pending>> /\ step' # "place"
    BY <1>4 DEF StartMinute, SkipMinute, EndMinute, SignalsArrive, EndBar, EndOfData, account
  <2> QED
    BY <2>1, RoomUntouched
<1>5. CASE NextBar \/ TellOfBar \/ TellOfMinutes
  <2>1. UNCHANGED <<opt, positions, pending>> /\ step' # "place"
    BY <1>5 DEF NextBar, TellOfBar, TellOfMinutes
  <2> QED
    BY <2>1, RoomUntouched
<1>6. CASE CloseNext
  <2>1. PICK x \in closing :
          /\ Close(x.symbol, Gain(positions[x.symbol], x.price),
                   IF x.reason = "END_OF_DATA" THEN 0 ELSE Slip, x.reason)
          /\ UNCHANGED <<opt, step>>
    BY <1>6 DEF CloseNext
  <2>2. x.symbol \in Held /\ x.price \in Int /\ x.reason \in Reason /\ Accounts /\ step \in Leaving
    BY TypeParts DEF Typed, Looping
  <2>3. /\ Gain(positions[x.symbol], x.price) \in Int
        /\ (IF x.reason = "END_OF_DATA" THEN 0 ELSE Slip) \in Nat
    BY <2>2, HeldTyped, GainType, Amounts
  <2>4. Parting(x.symbol)
    BY <2>1, <2>2, <2>3 DEF Parting
  <2> QED
    BY <2>1, <2>2, <2>4, PartingRoom DEF Leaving
<1> QED
  BY <1>1, <1>2, <1>3, <1>4, <1>5, <1>6, BatchRoom, PlaceRoom DEF Next, StageAction

\* The account is sound whatever the backtest goes through: the margin used and locked is
\* that of the open positions and pending orders, the balance is explained by the listed
\* trades, the funding and the fees of what is open, and the slots and the shares of the
\* sides are kept.
THEOREM AccountStaysSound == Spec => []AccountSound
<1> DEFINE Sound == Typed /\ MarginBooked /\ BalanceExplained /\ RoomLeft
<1>1. Init => Sound
  <2> SUFFICES ASSUME Init PROVE Sound
    OBVIOUS
  <2>1. Typed /\ Held = {} /\ Ordered = {} /\ step # "place" /\ MarginBooked /\ BalanceExplained
    BY InitTyped, InitMoney DEF Init
  <2>2. Cardinality(Busy) = 0 /\ \A side : Same(side) = 0
    BY <2>1, FS_EmptySet DEF Busy, Same
  <2>3. opt.slots \in Nat /\ opt.sameSide \in Nat
    BY <2>1, CountTypes
  <2> QED
    BY <2>1, <2>2, <2>3 DEF RoomLeft
<1>2. Sound /\ [Next]_vars => Sound'
  BY StepTyped, StepMoney, StepRoom
<1>3. Sound => AccountSound
  BY DEF RoomLeft, AccountSound, SlotsKept, Sides
<1> QED
  BY <1>1, <1>2, <1>3, PTL DEF Spec

--------------------------------------------------------------------------------
(* The stops of a replayed bar.                                            *)

\* A stop never moves to where the price that moves it already is.  The code does not check
\* its settings for this; with those it runs with, breakeven at a share of the risk sets a
\* stop 0.05% beyond the entry, and the profit lock keeps four of the five per cent that
\* trigger it.
LevelsApart == LockAt > Lock /\ BreakevenAt > Buffer /\ Trail > 0

\* The first of the checks that applies.
LEMMA FirstCheck ==
    ASSUME NEW hits, hits \subseteq Nat, hits # {}
    PROVE  Min(hits) \in hits /\ \A n \in hits : Min(hits) <= n
<1>1. hits \in SUBSET Nat
  OBVIOUS
<1>2. \E m \in hits : \A n \in hits : m <= n
  BY <1>1, SmallestOf
<1> QED
  BY <1>2 DEF Min

\* When a bar is replayed without minutes.
LEMMA BarVerdict ==
    ASSUME NEW p, NEW g, step # "minute", ~opt.minutes
    PROVE  /\ Verdict(p, g) = "HOLD" =>
                /\ ~(p.hits = 0 /\ g >= p.tp)
                /\ ~((opt.closeOnly => Stage = "CLOSE") /\ g <= p.stop)
           /\ Verdict(p, g) = "TAKE_PROFIT" => p.hits = 0 /\ g >= p.tp
           /\ Verdict(p, g) = "AUTO_CLOSE" => AutoCloses(p, g)
           /\ Verdict(p, g) = "LIQUIDATION" => g <= -Liq
           /\ Verdict(p, g) \in {"HOLD", "TAKE_PROFIT"} =>
                ~(g <= -Liq) /\ ~(~opt.closeOnly /\ g <= p.stop)
<1> DEFINE checks == BarChecks(p, g)
           hits == {i \in DOMAIN checks : checks[i][2]}
<1>1. Verdict(p, g) = IF hits = {} THEN "HOLD" ELSE checks[Min(hits)][1]
  BY DEF Verdict, Checks
<1>2. DOMAIN checks = 1 .. 6
  BY DEF BarChecks
<1>3. ASSUME hits # {}
      PROVE  Min(hits) \in hits /\ \A n \in hits : Min(hits) <= n
  <2>1. hits \subseteq Nat
    BY <1>2
  <2> HIDE DEF hits
  <2> QED
    BY <1>3, <2>1, FirstCheck
<1>4. /\ checks[1][1] = "LIQUIDATION" /\ checks[2][1] = "TIME_EXIT" /\ checks[3][1] = "STOP"
      /\ checks[4][1] = "HARD_CAP" /\ checks[5][1] = "AUTO_CLOSE" /\ checks[6][1] = "TAKE_PROFIT"
      /\ checks[1][2] <=> g <= -Liq
      /\ checks[3][2] <=> (opt.closeOnly => Stage = "CLOSE") /\ g <= p.stop
      /\ checks[5][2] <=> AutoCloses(p, g)
      /\ checks[6][2] <=> p.hits = 0 /\ g >= p.tp
  BY DEF BarChecks
<1>5. hits = {} => ~checks[1][2] /\ ~checks[3][2] /\ ~checks[6][2]
  BY <1>2
<1>6. hits # {} => /\ Min(hits) \in 1 .. 6 /\ checks[Min(hits)][2]
                   /\ \A n \in {1, 3} : checks[n][2] => Min(hits) <= n
  BY <1>2, <1>3
<1> HIDE DEF checks
<1>7. ASSUME hits # {}, NEW m, m = Min(hits)
      PROVE  /\ m \in 1 .. 6 /\ checks[m][2] /\ Verdict(p, g) = checks[m][1]
             /\ m = 6 => ~checks[1][2] /\ ~checks[3][2]
  BY <1>1, <1>6, <1>7
<1> HIDE DEF hits
<1>8. CASE hits = {}
  BY <1>1, <1>4, <1>5, <1>8
<1>9. CASE hits # {}
  <2>1. PICK m : m = Min(hits)
    OBVIOUS
  <2>2. /\ m \in 1 .. 6 /\ checks[m][2] /\ Verdict(p, g) = checks[m][1]
        /\ m = 6 => ~checks[1][2] /\ ~checks[3][2]
    BY <1>7, <1>9, <2>1
  <2>3. m = 1 \/ m = 2 \/ m = 3 \/ m = 4 \/ m = 5 \/ m = 6
    BY <2>2
  <2> QED
    BY <1>4, <2>2, <2>3
<1> QED
  BY <1>8, <1>9

LEMMA MultGrows ==
    ASSUME NEW a \in Nat, NEW b \in Nat, NEW c \in Nat
    PROVE  (c # 0 /\ a < b => a * c < b * c) /\ (a <= b => c * a <= c * b)
<1>1. ASSUME a <= b
      PROVE  c * a <= c * b
  <2>1. b - a \in Nat /\ c * (b - a) \in Nat
    BY <1>1
  <2>2. c * b = c * a + c * (b - a)
    OBVIOUS
  <2> QED
    BY <2>1, <2>2
<1>2. ASSUME c # 0, a < b
      PROVE  a * c < b * c
  <2>1. b - a \in Nat \ {0} /\ (b - a) * c \in Nat \ {0}
    BY <1>2
  <2>2. b * c = a * c + (b - a) * c
    OBVIOUS
  <2> QED
    BY <2>1, <2>2
<1> QED
  BY <1>1, <1>2

\* What moved the stop of a position that holds has not passed the price.
LEMMA LockBelow ==
    ASSUME NEW p \in Position, NEW g \in Int, p.left <= p.size, LevelsApart,
           g * p.left >= LockAt * p.size
    PROVE  g > Lock
<1>1. p.left \in Nat \ {0} /\ p.size \in Nat \ {0}
  BY DEF Position
<1>2. LockAt \in Nat /\ Lock \in Nat /\ LockAt > Lock
  BY Amounts DEF LevelsApart
<1>3. \A a, b, c, d \in Nat : c # 0 /\ c <= d /\ a * c >= b * d => a >= b
  <2> SUFFICES ASSUME NEW a \in Nat, NEW b \in Nat, NEW c \in Nat, NEW d \in Nat, c # 0, c <= d, a < b
               PROVE  a * c < b * d
    OBVIOUS
  <2>1. a * c < b * c
    BY ONLY a \in Nat, b \in Nat, c \in Nat, c # 0, a < b, MultGrows
  <2>2. b * c <= b * d
    BY ONLY b \in Nat, c \in Nat, d \in Nat, c <= d, MultGrows
  <2> QED
    BY <2>1, <2>2, ProductType
<1>4. LockAt * p.size \in Nat
  BY <1>1, <1>2, ProductType
<1>5. g >= 0
  <2>1. \A a \in Int, b \in Nat : b # 0 /\ a < 0 => a * b < 0
    OBVIOUS
  <2>2. g * p.left \in Int
    BY <1>1
  <2> QED
    BY <1>1, <1>4, <2>1, <2>2
<1> QED
  BY <1>1, <1>2, <1>3, <1>5

\* Where a stage that holds moves the stop when a bar is replayed.
Moved(p, g) == Trailed(AtBreakeven(LockedIn(Watched(p, g), g), g))

Trailing(p) == p.hits > 0 => p.stop >= p.best - Trail

LEMMA MovedStop ==
    ASSUME NEW p \in Position, NEW g \in Int, p.left <= p.size, LevelsApart, NEW q, q = Moved(p, g)
    PROVE  /\ q \in Position /\ q.size = p.size /\ q.left = p.left /\ q.side = p.side
           /\ q.entry = p.entry /\ q.at = p.at /\ q.hits = p.hits /\ q.tp = p.tp
           /\ Trailing(q)
           /\ g > p.stop /\ Trailing(p) => g > q.stop
<1>1. PICK w : w = Watched(p, g)
  OBVIOUS
<1>2. /\ w \in Position /\ w.size = p.size /\ w.left = p.left /\ w.side = p.side /\ w.entry = p.entry
      /\ w.at = p.at /\ w.hits = p.hits /\ w.stop = p.stop /\ w.tp = p.tp /\ w.best = Max2(p.best, g)
  BY <1>1, WatchedType
<1>3. PICK l : l = LockedIn(w, g)
  OBVIOUS
<1>4. /\ l \in Position /\ Kept(w, l) /\ l.stop \in {w.stop, Max2(w.stop, Lock)}
      /\ l.stop # w.stop => g * w.left >= LockAt * w.size
  BY <1>2, <1>3, LockedInType
<1>5. PICK b : b = AtBreakeven(l, g)
  OBVIOUS
<1>6. /\ b \in Position /\ Kept(l, b)
      /\ b.stop = l.stop \/ (b.stop = Buffer /\ g >= BreakevenAt)
  BY <1>4, <1>5, AtBreakevenType
<1>7. q = Trailed(b)
  BY <1>1, <1>3, <1>5 DEF Moved
<1>8. /\ q \in Position /\ Kept(b, q)
      /\ q.stop = IF b.hits > 0 THEN Max2(b.stop, b.best - Trail) ELSE b.stop
  BY <1>6, <1>7, TrailedType
<1>9. /\ q.size = p.size /\ q.left = p.left /\ q.side = p.side /\ q.entry = p.entry /\ q.at = p.at
      /\ q.hits = p.hits /\ q.tp = p.tp /\ q.best = Max2(p.best, g)
      /\ b.hits = p.hits /\ b.best = Max2(p.best, g)
  BY <1>2, <1>4, <1>6, <1>8 DEF Kept
<1>10. /\ p.best \in Int /\ p.stop \in Int /\ p.hits \in Nat /\ b.stop \in Int /\ l.stop \in Int
       /\ q.stop \in Int /\ q.best \in Int
  BY <1>4, <1>6, <1>8 DEF Position
<1>11. Trailing(q)
  BY <1>8, <1>9, <1>10, Amounts DEF Trailing, Max2
<1>12. ASSUME g > p.stop, Trailing(p)
       PROVE  g > q.stop
  <2>1. l.stop # p.stop => g > Lock
    BY <1>2, <1>4, LockBelow
  <2>2. g > l.stop
    BY <1>2, <1>4, <1>10, <1>12, <2>1, Amounts DEF Max2
  <2>3. g > b.stop
    BY <1>6, <2>2, Amounts DEF LevelsApart
  <2>4. p.hits > 0 => g > p.best - Trail
    BY <1>10, <1>12, Amounts DEF Trailing
  <2>5. g > g - Trail
    BY Amounts DEF LevelsApart
  <2> QED
    BY <1>8, <1>9, <1>10, <2>3, <2>4, <2>5, Amounts DEF Max2
<1> QED
  BY <1>8, <1>9, <1>11, <1>12

\* The path of a bar: it ends with the close, and some price before that is at least as good,
\* unless the target is out of reach.
Later(stages) == 1 .. Len(stages) - 1
EndsAt(stages, price) ==
    /\ stages[Len(stages)] = [stage |-> "CLOSE", price |-> price]
    /\ \A i \in Later(stages) : stages[i].stage # "CLOSE"
BetterAhead(p, stages, g) == \E i \in Later(stages) : Gain(p, stages[i].price) >= g

\* Where the replay stands with the position of the symbol that is walked.
MidBar(p, stages, close) ==
    /\ close \in Int /\ EndsAt(stages, close)
    /\ BetterAhead(p, stages, Gain(p, close)) \/ (p.hits = 0 => Gain(p, close) < p.tp)
    /\ Len(stages) = 1 => Trailing(p)

\* A position that the replay of the bar has passed.
Settled(s) ==
    positions[s].at < Clock /\ closes[s] # None
      => Gain(positions[s], closes[s]) > positions[s].stop

StopsKept ==
    /\ step \in {"minute", "minutes"} => opt.minutes
    /\ \A s \in Held : positions[s].left <= positions[s].size
    /\ ~opt.minutes /\ step = "update" /\ AtStage /\ path.symbol \in Held =>
         MidBar(positions[path.symbol], path.stages, closes[path.symbol])
    /\ ~opt.minutes /\ step \in {"update", "signals"} =>
         \A s \in Held : (AtStage => s # path.symbol) => Settled(s)

\* The stages before the close.
EarlyName == {"OPEN", "LOW", "HIGH", "SL_CHECK", "LIQ_CHECK"}
Early == [stage : EarlyName, price : Int]
Holding(f, stage, price) == \E i \in 1 .. Len(f) : f[i] = [stage |-> stage, price |-> price]

LEMMA EarlyAt ==
    ASSUME NEW stage \in EarlyName, NEW price \in Int
    PROVE  At(stage, price) \in Seq(Early) /\ Holding(At(stage, price), stage, price)
  BY DEF At, Early, Holding

LEMMA EarlyCheckpoints ==
    ASSUME NEW p \in Position, NEW c
    PROVE  Checkpoints(p, c) \in Seq(Early)
<1>1. PriceAt(p, p.stop) \in Int /\ PriceAt(p, -Liq) \in Int
  BY GainType, Amounts DEF Position
<1>2. "SL_CHECK" \in EarlyName /\ "LIQ_CHECK" \in EarlyName
  BY DEF EarlyName
<1>3. StopCheck(p, c) \in Seq(Early) /\ LiqCheck(p, c) \in Seq(Early)
  BY <1>1, <1>2, EarlyAt, EmptySeq DEF StopCheck, LiqCheck, Reached
<1> QED
  BY <1>3, ConcatProperties DEF Checkpoints

LEMMA ContainsConcat ==
    ASSUME NEW f \in Seq(Early), NEW g \in Seq(Early), NEW stage, NEW price,
           Holding(f, stage, price) \/ Holding(g, stage, price)
    PROVE  f \o g \in Seq(Early) /\ Holding(f \o g, stage, price)
<1>1. /\ f \o g \in Seq(Early) /\ Len(f \o g) = Len(f) + Len(g) /\ Len(f) \in Nat /\ Len(g) \in Nat
      /\ \A i \in 1 .. Len(f) + Len(g) : (f \o g)[i] = IF i <= Len(f) THEN f[i] ELSE g[i - Len(f)]
  BY ConcatProperties, LenProperties
<1>2. CASE Holding(f, stage, price)
  <2>1. PICK i \in 1 .. Len(f) : f[i] = [stage |-> stage, price |-> price]
    BY <1>2 DEF Holding
  <2>2. i \in 1 .. Len(f \o g) /\ (f \o g)[i] = f[i]
    BY <1>1
  <2> QED
    BY <1>1, <2>1, <2>2 DEF Holding
<1>3. CASE Holding(g, stage, price)
  <2>1. PICK i \in 1 .. Len(g) : g[i] = [stage |-> stage, price |-> price]
    BY <1>3 DEF Holding
  <2>2. i + Len(f) \in 1 .. Len(f \o g) /\ (f \o g)[i + Len(f)] = g[i]
    BY <1>1
  <2> QED
    BY <1>1, <2>1, <2>2 DEF Holding
<1> QED
  BY <1>2, <1>3

\* What comes before the close on the path of a position.
EarlyPath(s, c) ==
    IF LowFirst(s, c)
    THEN At("OPEN", c.open) \o Checkpoints(positions[s], c) \o At("LOW", c.low) \o At("HIGH", c.high)
    ELSE At("OPEN", c.open) \o At("HIGH", c.high) \o Checkpoints(positions[s], c) \o At("LOW", c.low)

LEMMA FrontType ==
    ASSUME Typed, NEW s \in Held, NEW c \in opt.market
    PROVE  /\ EarlyPath(s, c) \in Seq(Early)
           /\ Holding(EarlyPath(s, c), "LOW", c.low) /\ Holding(EarlyPath(s, c), "HIGH", c.high)
           /\ Path(s, c) = EarlyPath(s, c) \o At("CLOSE", c.close)
<1>1. c.open \in Int /\ c.high \in Int /\ c.low \in Int
  BY CandleType
<1>2. /\ At("OPEN", c.open) \in Seq(Early)
      /\ At("LOW", c.low) \in Seq(Early) /\ Holding(At("LOW", c.low), "LOW", c.low)
      /\ At("HIGH", c.high) \in Seq(Early) /\ Holding(At("HIGH", c.high), "HIGH", c.high)
  BY <1>1, EarlyAt DEF EarlyName
<1>3. PICK checks : checks = Checkpoints(positions[s], c)
  OBVIOUS
<1>4. checks \in Seq(Early)
  BY <1>3, EarlyCheckpoints, HeldTyped, TypeParts DEF Typed
<1>5. CASE LowFirst(s, c)
  <2>1. At("OPEN", c.open) \o checks \in Seq(Early)
    BY <1>2, <1>4, ConcatProperties
  <2>2. /\ At("OPEN", c.open) \o checks \o At("LOW", c.low) \in Seq(Early)
        /\ Holding(At("OPEN", c.open) \o checks \o At("LOW", c.low), "LOW", c.low)
    BY <1>2, <2>1, ContainsConcat
  <2>3. PICK low : low = At("OPEN", c.open) \o checks \o At("LOW", c.low)
    OBVIOUS
  <2>4. /\ low \o At("HIGH", c.high) \in Seq(Early)
        /\ Holding(low \o At("HIGH", c.high), "LOW", c.low)
    BY <1>2, <2>2, <2>3, ContainsConcat
  <2>5. Holding(low \o At("HIGH", c.high), "HIGH", c.high)
    BY <1>2, <2>2, <2>3, ContainsConcat
  <2>6. EarlyPath(s, c) = low \o At("HIGH", c.high)
    BY <1>3, <1>5, <2>3 DEF EarlyPath
  <2>7. Path(s, c) = EarlyPath(s, c) \o At("CLOSE", c.close)
    BY <1>5 DEF Path, EarlyPath
  <2> QED
    BY <2>4, <2>5, <2>6, <2>7
<1>6. CASE ~LowFirst(s, c)
  <2>1. /\ At("OPEN", c.open) \o At("HIGH", c.high) \in Seq(Early)
        /\ Holding(At("OPEN", c.open) \o At("HIGH", c.high), "HIGH", c.high)
    BY <1>2, ContainsConcat
  <2>2. /\ At("OPEN", c.open) \o At("HIGH", c.high) \o checks \in Seq(Early)
        /\ Holding(At("OPEN", c.open) \o At("HIGH", c.high) \o checks, "HIGH", c.high)
    BY <1>4, <2>1, ContainsConcat
  <2>3. PICK high : high = At("OPEN", c.open) \o At("HIGH", c.high) \o checks
    OBVIOUS
  <2>4. /\ high \o At("LOW", c.low) \in Seq(Early)
        /\ Holding(high \o At("LOW", c.low), "HIGH", c.high)
    BY <1>2, <2>2, <2>3, ContainsConcat
  <2>5. Holding(high \o At("LOW", c.low), "LOW", c.low)
    BY <1>2, <2>2, <2>3, ContainsConcat
  <2>6. EarlyPath(s, c) = high \o At("LOW", c.low)
    BY <1>3, <1>6, <2>3 DEF EarlyPath
  <2>7. Path(s, c) = EarlyPath(s, c) \o At("CLOSE", c.close)
    BY <1>6 DEF Path, EarlyPath
  <2> QED
    BY <2>4, <2>5, <2>6, <2>7
<1> QED
  BY <1>5, <1>6

\* A path that begins: the best price of the candle comes before its close.
LEMMA PathBegins ==
    ASSUME Typed, NEW s \in Held, NEW c \in opt.market
    PROVE  MidBar(positions[s], Path(s, c), c.close) /\ Path(s, c) # <<>>
<1>1. PICK front : front = EarlyPath(s, c)
  OBVIOUS
<1>2. /\ front \in Seq(Early) /\ Holding(front, "LOW", c.low) /\ Holding(front, "HIGH", c.high)
      /\ Path(s, c) = front \o At("CLOSE", c.close)
  BY <1>1, FrontType
<1>3. PICK p : p = positions[s]
  OBVIOUS
<1>4. p \in Position /\ p.side \in {"LONG", "SHORT"} /\ p.entry \in Int
  BY <1>3, HeldTyped, TypeParts DEF Typed, Position
<1>5. c.close \in Int /\ c.high \in Int /\ c.low \in Int /\ c.low <= c.close /\ c.close <= c.high
  BY CandleType
<1>6. PICK stages : stages = Path(s, c)
  OBVIOUS
<1>7. /\ Len(front) \in Nat /\ Len(stages) = Len(front) + 1
      /\ stages[Len(stages)] = [stage |-> "CLOSE", price |-> c.close]
      /\ \A i \in 1 .. Len(front) : stages[i] = front[i] /\ front[i] \in Early
  <2>1. At("CLOSE", c.close) = <<[stage |-> "CLOSE", price |-> c.close]>>
    BY DEF At
  <2>2. Len(front) \in Nat /\ \A i \in 1 .. Len(front) : front[i] \in Early
    BY <1>2, LenProperties, ElementOfSeq
  <2> QED
    BY <1>2, <1>6, <2>1, <2>2, ConcatProperties
<1>8. Later(stages) = 1 .. Len(front)
  BY <1>7 DEF Later
<1>9. EndsAt(stages, c.close)
  <2>1. \A r \in Early : r.stage # "CLOSE"
    BY DEF Early, EarlyName
  <2> QED
    BY <1>7, <1>8, <2>1 DEF EndsAt
<1>10. PICK l \in 1 .. Len(front), h \in 1 .. Len(front) :
         front[l] = [stage |-> "LOW", price |-> c.low] /\ front[h] = [stage |-> "HIGH", price |-> c.high]
  BY <1>2 DEF Holding
<1>11. stages[l].price = c.low /\ stages[h].price = c.high
  BY <1>7, <1>10
<1>12. BetterAhead(p, stages, Gain(p, c.close))
  <2>1. \A price \in Int : Gain(p, price) = IF p.side = "LONG" THEN price - p.entry ELSE -(price - p.entry)
    BY <1>4 DEF Gain, Toward
  <2>2. CASE p.side = "LONG"
    <3>1. Gain(p, stages[h].price) = c.high - p.entry /\ Gain(p, c.close) = c.close - p.entry
      BY <1>5, <1>11, <2>1, <2>2
    <3>2. Gain(p, stages[h].price) >= Gain(p, c.close)
      BY <1>4, <1>5, <3>1
    <3> QED
      BY <1>8, <3>2 DEF BetterAhead
  <2>3. CASE p.side # "LONG"
    <3>1. Gain(p, stages[l].price) = -(c.low - p.entry) /\ Gain(p, c.close) = -(c.close - p.entry)
      BY <1>5, <1>11, <2>1, <2>3
    <3>2. Gain(p, stages[l].price) >= Gain(p, c.close)
      BY <1>4, <1>5, <3>1
    <3> QED
      BY <1>8, <3>2 DEF BetterAhead
  <2> QED
    BY <2>2, <2>3
<1>13. Len(stages) # 1 /\ stages # <<>>
  BY <1>7, <1>10, EmptySeq
<1> QED
  BY <1>3, <1>5, <1>6, <1>9, <1>12, <1>13 DEF MidBar


--------------------------------------------------------------------------------
(* A stage of the replayed bar.                                            *)

LEMMA AutoClosesGaining ==
    ASSUME NEW p \in Position, NEW g \in Int, AutoCloses(p, g)
    PROVE  g > 0
<1>1. p.left \in Nat \ {0} /\ AutoClose * p.size \in Nat
  BY Amounts, ProductType DEF Position
<1>2. g * p.left > AutoClose * p.size /\ g * p.left \in Int
  BY <1>1 DEF AutoCloses
<1>3. \A a \in Int, b \in Nat : a <= 0 => a * b <= 0
  OBVIOUS
<1> QED
  BY <1>1, <1>2, <1>3

\* The close of the bar: what came before it had its chance to take the profit.
LEMMA AtTheClose ==
    ASSUME NEW p, NEW stages \in Seq(StageRecord), stages # <<>>, NEW close, MidBar(p, stages, close)
    PROVE  /\ Len(stages) = 1 <=> Head(stages).stage = "CLOSE"
           /\ Len(stages) = 1 => /\ Head(stages).price = close /\ Trailing(p)
                                 /\ p.hits = 0 => Gain(p, close) < p.tp
<1>1. Len(stages) \in Nat \ {0} /\ Head(stages) = stages[1]
  BY EmptySeq, LenProperties
<1>2. /\ stages[Len(stages)] = [stage |-> "CLOSE", price |-> close]
      /\ \A i \in 1 .. Len(stages) - 1 : stages[i].stage # "CLOSE"
  BY DEF MidBar, EndsAt, Later
<1>3. Len(stages) = 1 => ~BetterAhead(p, stages, Gain(p, close))
  BY DEF BetterAhead, Later
<1>4. CASE Len(stages) = 1
  <2>1. Head(stages) = [stage |-> "CLOSE", price |-> close]
    BY <1>1, <1>2, <1>4
  <2>2. Trailing(p) /\ (p.hits = 0 => Gain(p, close) < p.tp)
    BY <1>3, <1>4 DEF MidBar
  <2> QED
    BY <1>4, <2>1, <2>2
<1>5. CASE Len(stages) # 1
  <2>1. 1 \in 1 .. Len(stages) - 1
    <3>1. \A n \in Nat \ {0} : n # 1 => 1 \in 1 .. n - 1
      OBVIOUS
    <3> QED
      BY <1>1, <1>5, <3>1
  <2> QED
    BY <1>1, <1>2, <1>5, <2>1
<1> QED
  BY <1>4, <1>5

\* Before the close: the walk goes on with a position whose profit was not there to be taken
\* at this stage, or has been taken.
LEMMA BeforeTheClose ==
    ASSUME NEW p \in Position, NEW q \in Position, q.side = p.side, q.entry = p.entry, q.tp = p.tp,
           NEW stages \in Seq(StageRecord), stages # <<>>, Len(stages) # 1,
           NEW close, MidBar(p, stages, close), Trailing(q),
           q.hits = 0 => p.hits = 0 /\ Gain(p, Head(stages).price) < p.tp
    PROVE  MidBar(q, Tail(stages), close)
<1>1. /\ Len(stages) \in Nat /\ Len(stages) > 1 /\ Head(stages) = stages[1]
      /\ Len(Tail(stages)) = Len(stages) - 1
      /\ \A i \in 1 .. Len(stages) - 1 : Tail(stages)[i] = stages[i + 1]
  <2>1. Len(stages) \in Nat \ {0}
    BY EmptySeq, LenProperties
  <2>2. /\ Len(Tail(stages)) = Len(stages) - 1
        /\ \A i \in 1 .. Len(Tail(stages)) : Tail(stages)[i] = stages[i + 1]
    BY HeadTailProperties
  <2> QED
    BY <2>1, <2>2
<1>2. /\ close \in Int
      /\ stages[Len(stages)] = [stage |-> "CLOSE", price |-> close]
      /\ \A i \in 1 .. Len(stages) - 1 : stages[i].stage # "CLOSE"
  BY DEF MidBar, EndsAt, Later
<1>3. EndsAt(Tail(stages), close)
  <2>1. Tail(stages)[Len(stages) - 1] = stages[Len(stages)]
    BY <1>1
  <2>2. \A i \in 1 .. Len(stages) - 2 : Tail(stages)[i].stage # "CLOSE"
    BY <1>1, <1>2
  <2> QED
    BY <1>1, <1>2, <2>1, <2>2 DEF EndsAt, Later
<1>4. \A price : Gain(q, price) = Gain(p, price)
  BY DEF Gain
<1>5. p.tp \in Int /\ Gain(p, close) \in Int
  BY <1>2, GainType DEF Position
<1>6. BetterAhead(q, Tail(stages), Gain(q, close)) \/ (q.hits = 0 => Gain(q, close) < q.tp)
  <2>1. CASE p.hits = 0 => Gain(p, close) < p.tp
    BY <1>4, <2>1
  <2>2. CASE BetterAhead(p, stages, Gain(p, close))
    <3>1. PICK i \in 1 .. Len(stages) - 1 : Gain(p, stages[i].price) >= Gain(p, close)
      BY <2>2 DEF BetterAhead, Later
    <3>2. CASE i = 1
      <4>1. ASSUME q.hits = 0
            PROVE  Gain(p, close) < p.tp
        <5>1. Head(stages) \in StageRecord
          BY HeadTailProperties
        <5>2. Gain(p, Head(stages).price) \in Int
          BY <5>1, GainType DEF StageRecord
        <5> QED
          BY <1>1, <1>5, <3>1, <3>2, <4>1, <5>2
      <4> QED
        BY <1>4, <4>1
    <3>3. CASE i # 1
      <4>1. i - 1 \in 1 .. Len(Tail(stages)) - 1 /\ Tail(stages)[i - 1] = stages[i]
        BY <1>1, <3>3
      <4>2. Gain(q, Tail(stages)[i - 1].price) >= Gain(q, close)
        BY <1>4, <3>1, <4>1
      <4> QED
        BY <4>1, <4>2 DEF BetterAhead, Later
    <3> QED
      BY <3>2, <3>3
  <2> QED
    BY <2>1, <2>2 DEF MidBar
<1> QED
  BY <1>2, <1>3, <1>6 DEF MidBar

\* Where the walk leaves the position of its symbol.
Along(q) ==
    \/ path' = Walked /\ Len(path.stages) # 1 /\ MidBar(q, Tail(path.stages), closes[path.symbol])
    \/ path' = Idle /\ Gain(q, closes[path.symbol]) > q.stop
BarEffect(s) ==
    \/ positions' = [positions EXCEPT ![s] = None] /\ path' = Idle
    \/ \E q \in Position : Along(q) /\ positions' = [positions EXCEPT ![s] = q]

LEMMA BarEffects ==
    ASSUME Typed, StopsKept, LevelsApart, ~opt.minutes,
           Liquidated \/ Stopped \/ AutoClosed \/ TookProfit \/ Holds
    PROVE  BarEffect(path.symbol)
<1>1. PICK s : s = path.symbol
  OBVIOUS
<1>2. AtStage /\ s \in Held /\ step = "update" /\ step # "minute"
  <2>1. AtStage /\ s \in Held
    BY <1>1 DEF Liquidated, Stopped, AutoClosed, TookProfit, Holds, PositionStage
  <2> QED
    BY <2>1, StageType DEF Walking, StopsKept
<1>3. PICK p : p = positions[s]
  OBVIOUS
<1>4. p \in Position /\ p.left <= p.size
  BY <1>2, <1>3, TypeParts, HeldTyped DEF Typed, StopsKept
<1>5. PICK g : g = Gain(p, Price)
  OBVIOUS
<1>6. g \in Int
  BY <1>2, <1>4, <1>5, StageType, GainType
<1>7. PICK close : close = closes[s]
  OBVIOUS
<1>8. PICK stages : stages = path.stages
  OBVIOUS
<1>9. stages \in Seq(StageRecord) /\ stages # <<>> /\ MidBar(p, stages, close)
  BY <1>1, <1>2, <1>3, <1>7, <1>8, StageType DEF StopsKept, AtStage
<1>10. /\ Stage = Head(stages).stage /\ g = Gain(p, Head(stages).price)
       /\ Walked = IF Len(stages) <= 1 THEN Idle ELSE [path EXCEPT !.stages = Tail(@)]
  BY <1>5, <1>8 DEF Stage, Price, Walked
<1>11. /\ Len(stages) = 1 <=> Stage = "CLOSE"
       /\ Len(stages) = 1 => /\ g = Gain(p, close) /\ Trailing(p) /\ Walked = Idle
                             /\ p.hits = 0 => g < p.tp
  <2>1. /\ Len(stages) = 1 <=> Head(stages).stage = "CLOSE"
        /\ Len(stages) = 1 => Head(stages).price = close /\ Trailing(p)
        /\ Len(stages) = 1 => (p.hits = 0 => Gain(p, close) < p.tp)
    BY <1>9, AtTheClose
  <2>2. Len(stages) = 1 => Walked = Idle
    BY <1>10
  <2>3. Len(stages) = 1 => g = Gain(p, close)
    BY <1>10, <2>1
  <2>4. Len(stages) = 1 <=> Stage = "CLOSE"
    BY <1>10, <2>1
  <2>5. Len(stages) = 1 => (p.hits = 0 => g < p.tp)
    BY <2>1, <2>3
  <2> QED
    BY <2>1, <2>2, <2>3, <2>4, <2>5
<1>12. Len(stages) # 1 =>
         \A q \in Position :
           /\ q.side = p.side /\ q.entry = p.entry /\ q.tp = p.tp /\ Trailing(q)
           /\ q.hits = 0 => p.hits = 0 /\ g < p.tp
           => MidBar(q, Tail(stages), close)
  BY <1>4, <1>9, <1>10, BeforeTheClose
<1>13. p.tp \in Int /\ p.hits \in Nat /\ p.left \in Nat \ {0}
  BY <1>4 DEF Position
<1>14. CASE Liquidated
  BY <1>1, <1>14 DEF Liquidated, Liquidate, BarEffect
<1>15. CASE Stopped
  BY <1>1, <1>15 DEF Stopped, Close, BarEffect
<1>16. CASE AutoClosed
  <2>1. PICK part : part = Part(p, 50)
    OBVIOUS
  <2>2. PICK seen : seen = Watched(p, g)
    OBVIOUS
  <2>3. PICK q : q = PartTaken(seen, part)
    OBVIOUS
  <2>4. Verdict(p, g) = "AUTO_CLOSE" /\ path' = Idle
    BY <1>1, <1>3, <1>5, <1>16 DEF AutoClosed, PositionStage
  <2>5. g > 0
    BY <1>2, <1>4, <1>6, <2>4, BarVerdict, AutoClosesGaining
  <2>6. \/ Stage = "CLOSE" /\ positions' = [positions EXCEPT ![s] = IF q.left = 0 THEN None ELSE q]
        \/ positions' = [positions EXCEPT ![s] = None]
    BY <1>1, <1>2, <1>3, <1>5, <1>16, <2>1, <2>2, <2>3 DEF AutoClosed, TakePart, Close
  <2>7. CASE positions' = [positions EXCEPT ![s] = None]
    BY <1>1, <2>4, <2>7 DEF BarEffect
  <2>8. CASE Stage = "CLOSE" /\ q.left # 0 /\ positions' = [positions EXCEPT ![s] = q]
    <3>1. part \in Nat /\ part <= p.left
      BY <1>4, <2>1, PartType
    <3>2. /\ seen \in Position /\ seen.left = p.left /\ seen.side = p.side /\ seen.entry = p.entry
      BY <1>4, <1>6, <2>2, WatchedType
    <3>3. q \in Position /\ q.stop = 0 /\ q.side = p.side /\ q.entry = p.entry
      BY <2>3, <2>8, <3>1, <3>2, PartTakenType
    <3>4. Gain(q, close) = g
      BY <1>11, <2>8, <3>3 DEF Gain
    <3>5. Along(q)
      BY <1>1, <1>7, <2>4, <2>5, <3>3, <3>4 DEF Along
    <3> QED
      BY <1>1, <2>8, <3>3, <3>5 DEF BarEffect
  <2> QED
    BY <2>6, <2>7, <2>8
<1>17. CASE TookProfit
  <2>1. PICK part : part = Part(p, IF opt.fullTp THEN 100 ELSE 60)
    OBVIOUS
  <2>2. PICK seen : seen = Watched(p, g)
    OBVIOUS
  <2>3. PICK q : q = PartTaken(seen, part)
    OBVIOUS
  <2>4. Verdict(p, g) = "TAKE_PROFIT"
    BY <1>1, <1>3, <1>5, <1>17 DEF TookProfit, PositionStage
  <2>5. p.hits = 0 /\ g >= p.tp
    BY <1>2, <2>4, BarVerdict
  <2>6. Len(stages) # 1
    BY <1>6, <1>11, <1>13, <2>5
  <2>7. part \in Nat /\ part <= p.left
    BY <1>4, <2>1, PartType
  <2>8. /\ seen \in Position /\ seen.left = p.left /\ seen.side = p.side /\ seen.entry = p.entry
        /\ seen.hits = p.hits /\ seen.tp = p.tp
    BY <1>4, <1>6, <2>2, WatchedType
  <2>9. /\ q.left \in Nat /\ (q.left # 0 => q \in Position) /\ q.hits = p.hits + 1
        /\ q.side = p.side /\ q.entry = p.entry /\ q.tp = p.tp
    BY <2>3, <2>7, <2>8, PartTakenType
  <2>10. IF q.left > 0
         THEN positions' = [positions EXCEPT ![s] = Trailed(q)] /\ path' = Walked
         ELSE positions' = [positions EXCEPT ![s] = None] /\ path' = Idle
    <3>1. /\ TakePart(s, p.tp, part, IF step # "minute" /\ q.left > 0 THEN Trailed(q) ELSE q,
                      "TAKE_PROFIT")
          /\ path' = IF step # "minute" /\ q.left > 0 THEN Walked ELSE Idle
      BY <1>1, <1>3, <1>5, <1>17, <2>1, <2>2, <2>3 DEF TookProfit
    <3>2. /\ TakePart(s, p.tp, part, IF q.left > 0 THEN Trailed(q) ELSE q, "TAKE_PROFIT")
          /\ path' = IF q.left > 0 THEN Walked ELSE Idle
      BY <1>2, <3>1
    <3>3. CASE q.left > 0
      <4>1. q.left # 0
        BY <3>3
      <4>2. q \in Position
        BY <2>9, <4>1
      <4>3. Trailed(q).left # 0
        BY <4>1, <4>2, TrailedType DEF Kept
      <4> QED
        BY <3>2, <3>3, <4>3 DEF TakePart
    <3>4. CASE ~(q.left > 0)
      <4>1. q.left = 0
        BY <2>9, <3>4
      <4> QED
        BY <3>2, <3>4, <4>1 DEF TakePart
    <3> QED
      BY <3>3, <3>4
  <2>11. CASE q.left > 0
    <3>1. PICK r : r = Trailed(q)
      OBVIOUS
    <3>2. q \in Position
      BY <2>9, <2>11
    <3>3. /\ r \in Position /\ Kept(q, r)
          /\ r.stop = IF q.hits > 0 THEN Max2(q.stop, q.best - Trail) ELSE q.stop
      BY <3>1, <3>2, TrailedType
    <3>4. Trailing(r)
      BY <3>2, <3>3, Amounts DEF Trailing, Kept, Max2, Position
    <3>5. r.side = p.side /\ r.entry = p.entry /\ r.tp = p.tp /\ r.hits # 0
      BY <1>13, <2>9, <3>3 DEF Kept
    <3>6. MidBar(r, Tail(stages), close)
      BY <1>12, <2>6, <3>3, <3>4, <3>5
    <3>7. Along(r)
      BY <1>1, <1>7, <1>8, <2>6, <2>10, <2>11, <3>6 DEF Along
    <3> QED
      BY <1>1, <2>10, <2>11, <3>1, <3>3, <3>7 DEF BarEffect
  <2>12. CASE ~(q.left > 0)
    BY <1>1, <2>10, <2>12 DEF BarEffect
  <2> QED
    BY <2>11, <2>12
<1>18. CASE Holds
  <2>1. PICK q : q = Moved(p, g)
    OBVIOUS
  <2>2. Verdict(p, g) = "HOLD" /\ path' = Walked
    BY <1>1, <1>3, <1>5, <1>18 DEF Holds, PositionStage
  <2>3. positions' = [positions EXCEPT ![s] = q]
    BY <1>1, <1>2, <1>3, <1>5, <1>18, <2>1 DEF Holds, Moved
  <2>4. /\ q \in Position /\ q.side = p.side /\ q.entry = p.entry /\ q.hits = p.hits /\ q.tp = p.tp
        /\ Trailing(q)
        /\ g > p.stop /\ Trailing(p) => g > q.stop
    BY <1>4, <1>6, <2>1, MovedStop
  <2>5. /\ ~(p.hits = 0 /\ g >= p.tp)
        /\ ~((opt.closeOnly => Stage = "CLOSE") /\ g <= p.stop)
    BY <1>2, <2>2, BarVerdict
  <2>6. CASE Len(stages) = 1
    <3>1. g > p.stop /\ p.stop \in Int
      BY <1>4, <1>6, <1>11, <2>5, <2>6 DEF Position
    <3>2. Gain(q, close) > q.stop
      BY <1>11, <2>4, <2>6, <3>1 DEF Gain
    <3>3. Along(q)
      BY <1>1, <1>7, <1>11, <2>2, <2>6, <3>2 DEF Along
    <3> QED
      BY <1>1, <2>3, <2>4, <3>3 DEF BarEffect
  <2>7. CASE Len(stages) # 1
    <3>1. q.hits = 0 => p.hits = 0 /\ g < p.tp
      BY <1>6, <1>13, <2>4, <2>5
    <3>2. MidBar(q, Tail(stages), close)
      BY <1>12, <2>4, <2>7, <3>1
    <3>3. Along(q)
      BY <1>1, <1>7, <1>8, <2>2, <2>7, <3>2 DEF Along
    <3> QED
      BY <1>1, <2>3, <2>4, <3>3 DEF BarEffect
  <2> QED
    BY <2>6, <2>7
<1> QED
  BY <1>14, <1>15, <1>16, <1>17, <1>18

\* A stage only changes the position of the symbol that is walked, and never adds to it.
LEMMA StageAlone ==
    ASSUME Typed, StopsKept, StageAction
    PROVE  /\ \A r \in Symbols : r # path.symbol => positions'[r] = positions[r]
           /\ \A r \in Held' : positions'[r].left <= positions'[r].size
<1>1. PICK s : s = path.symbol
  OBVIOUS
<1>2. AtStage /\ (OrderEffect(s) \/ PositionEffect(s))
  BY <1>1, OrderEffects, PositionEffects DEF StageAction
<1>3. Accounts /\ Clock \in Nat /\ s \in Symbols
  BY <1>1, <1>2, StageType, TypeParts DEF Typed
<1>4. \A r \in Held : positions[r].left <= positions[r].size
  BY DEF StopsKept
<1>5. ASSUME NEW q, positions' = [positions EXCEPT ![s] = q], q = None \/ q.left <= q.size
      PROVE  /\ \A r \in Symbols : r # s => positions'[r] = positions[r]
             /\ \A r \in Held' : positions'[r].left <= positions'[r].size
  <2>1. positions'[s] = q /\ \A r \in Symbols : r # s => positions'[r] = positions[r]
    BY <1>3, <1>5 DEF Accounts
  <2> QED
    BY <1>4, <1>5, <2>1 DEF Held
<1>6. CASE positions' = positions
  BY <1>4, <1>6 DEF Held
<1>7. CASE s \in Ordered /\ Entering(s)
  <2>1. PICK price \in Int, slip \in Nat : Fill(s, price, slip)
    BY <1>7 DEF Entering
  <2>2. PICK q : q = Filled(pending[s], price, slip)
    OBVIOUS
  <2>3. pending[s] \in Order /\ pending[s].size \in Nat
    BY <1>3, <1>7, HeldTyped DEF Order
  <2>4. q.left <= q.size
    BY <1>3, <2>2, <2>3, FilledType
  <2> QED
    BY <1>1, <1>5, <2>1, <2>2, <2>4 DEF Fill
<1>8. CASE s \in Held /\ Parting(s)
  BY <1>1, <1>5, <1>8 DEF Parting, Close, Liquidate
<1>9. CASE s \in Held /\ Sharing(s)
  <2>1. PICK gain \in Int, part \in Nat, reason \in Reason : \E r :
           LeftOf(positions[s], part, r) /\ TakePart(s, gain, part, r, reason)
    BY <1>9 DEF Sharing
  <2>2. PICK q : LeftOf(positions[s], part, q) /\ TakePart(s, gain, part, q, reason)
    BY <2>1
  <2>3. positions[s].left \in Nat /\ positions[s].size \in Nat /\ positions[s].left <= positions[s].size
    BY <1>3, <1>4, <1>9, HeldTyped DEF Position
  <2>4. q.left <= q.size
    BY <2>2, <2>3 DEF LeftOf
  <2> QED
    BY <1>1, <1>5, <2>2, <2>4 DEF TakePart
<1>10. CASE s \in Held /\ Moving(s)
  <2>1. PICK q \in Position : /\ q.size = positions[s].size /\ q.left = positions[s].left
                              /\ positions' = [positions EXCEPT ![s] = q]
    BY <1>10 DEF Moving
  <2>2. q.left <= q.size
    BY <1>4, <1>10, <2>1
  <2> QED
    BY <1>1, <1>5, <2>1, <2>2
<1> QED
  BY <1>2, <1>6, <1>7, <1>8, <1>9, <1>10 DEF OrderEffect, PositionEffect, GivingUp, Waiting

\* Where the stage of an order leaves the symbol: a position it opens is as old as the bar.
LEMMA OrderLeaves ==
    ASSUME Typed, CancelOrder \/ FillOrder \/ OrderWaits
    PROVE  path.symbol \in Held' => ~AtStage' /\ positions'[path.symbol].at = Clock
<1>1. PICK s : s = path.symbol
  OBVIOUS
<1>2. AtStage /\ OrderEffect(s)
  BY <1>1, OrderEffects
<1>3. Accounts /\ Clock \in Nat /\ s \in Symbols /\ s \in Ordered /\ s \notin Held
  BY <1>1, <1>2, StageType, TypeParts DEF Typed, OrderEffect, Accounts
<1>4. CASE positions' = positions
  BY <1>1, <1>3, <1>4 DEF Held
<1>5. CASE Entering(s) /\ path' = Idle
  <2>1. PICK price \in Int, slip \in Nat : Fill(s, price, slip)
    BY <1>5 DEF Entering
  <2>2. pending[s] \in Order
    BY <1>3, HeldTyped
  <2>3. positions'[s] = Filled(pending[s], price, slip)
    BY <1>3, <2>1 DEF Fill, Accounts
  <2>4. positions'[s].at = Clock
    BY <1>3, <2>2, <2>3, FilledType
  <2> QED
    BY <1>1, <1>5, <2>4 DEF AtStage, Idle
<1> QED
  BY <1>2, <1>4, <1>5 DEF OrderEffect, GivingUp, Waiting

LEMMA StageStops ==
    ASSUME Typed, StopsKept, LevelsApart, StageAction
    PROVE  StopsKept'
<1>1. PICK s : s = path.symbol
  OBVIOUS
<1>2. AtStage /\ UNCHANGED <<opt, loop>>
  BY OrderEffects, PositionEffects DEF StageAction
<1>3. /\ \A r \in Symbols : r # s => positions'[r] = positions[r]
      /\ \A r \in Held' : positions'[r].left <= positions'[r].size
  BY <1>1, StageAlone
<1>4. s \in Symbols /\ Accounts /\ Clock' = Clock /\ Clock \in Nat /\ closes' = closes /\ step' = step /\ opt' = opt
  BY <1>1, <1>2, StageType, TypeParts DEF Typed, Clock, loop
<1>5. ASSUME ~opt.minutes, step \in {"update", "signals"}
      PROVE  /\ AtStage' => path'.symbol = s
             /\ step = "update" /\ AtStage' /\ s \in Held' =>
                  MidBar(positions'[s], path'.stages, closes[s])
             /\ ~AtStage' /\ s \in Held' /\ positions'[s].at < Clock /\ closes[s] # None =>
                  Gain(positions'[s], closes[s]) > positions'[s].stop
  <2>1. AtStage' => path'.symbol = s
    <3>1. path' \in {Idle, Walked}
      BY OrderEffects, PositionEffects DEF StageAction, OrderEffect, PositionEffect
    <3> QED
      BY <1>1, <1>2, <3>1, WalkedType DEF AtStage, Typed, Looping
  <2>2. CASE CancelOrder \/ FillOrder \/ OrderWaits
    <3>1. s \in Held' => ~AtStage' /\ positions'[s].at = Clock
      BY <1>1, <2>2, OrderLeaves
    <3> QED
      BY <1>4, <2>1, <3>1
  <2>3. CASE Liquidated \/ Stopped \/ AutoClosed \/ TookProfit \/ Holds
    <3>1. BarEffect(s)
      BY <1>1, <1>5, <2>3, BarEffects
    <3>2. CASE positions' = [positions EXCEPT ![s] = None]
      BY <1>4, <2>1, <3>2 DEF Held, Accounts
    <3>3. ASSUME NEW q \in Position, Along(q), positions' = [positions EXCEPT ![s] = q]
          PROVE  /\ step = "update" /\ AtStage' /\ s \in Held' =>
                      MidBar(positions'[s], path'.stages, closes[s])
                 /\ ~AtStage' /\ s \in Held' /\ positions'[s].at < Clock /\ closes[s] # None =>
                      Gain(positions'[s], closes[s]) > positions'[s].stop
      <4>1. positions'[s] = q
        BY <1>4, <3>3 DEF Accounts
      <4>2. CASE path' = Idle /\ Gain(q, closes[s]) > q.stop
        BY <4>1, <4>2 DEF AtStage, Idle
      <4>3. CASE /\ path' = Walked /\ Len(path.stages) # 1
                 /\ MidBar(q, Tail(path.stages), closes[s])
        <5>1. Len(path.stages) \in Nat \ {0} /\ path \in [symbol : Symbols \cup {None}, stages : Seq(StageRecord)]
          BY <1>2, StageType DEF Typed, Looping
        <5>2. path'.stages = Tail(path.stages)
          <6>1. ~(Len(path.stages) <= 1)
            <7>1. \A n \in Nat \ {0} : n # 1 => ~(n <= 1)
              OBVIOUS
            <7> QED
              BY <4>3, <5>1, <7>1
          <6>2. path' = [path EXCEPT !.stages = Tail(path.stages)]
            BY <4>3, <6>1 DEF Walked
          <6> QED
            BY <5>1, <6>2
        <5>3. path'.stages # <<>>
          <6>1. Len(Tail(path.stages)) = Len(path.stages) - 1
            BY <1>2, StageType, HeadTailProperties DEF AtStage
          <6>2. Len(Tail(path.stages)) # 0
            BY <4>3, <5>1, <6>1
          <6>3. Len(<<>>) = 0
            BY EmptySeq
          <6> QED
            BY <5>2, <6>2, <6>3
        <5> QED
          BY <4>1, <4>3, <5>2, <5>3 DEF AtStage
      <4> QED
        BY <1>1, <3>3, <4>2, <4>3 DEF Along
    <3> QED
      BY <2>1, <3>1, <3>2, <3>3 DEF BarEffect
  <2> QED
    BY <2>2, <2>3 DEF StageAction
<1>6. ASSUME ~opt.minutes, step \in {"update", "signals"}, NEW r \in Held', r # s
      PROVE  Settled(r)'
  <2>1. r \in Symbols /\ positions'[r] = positions[r] /\ r \in Held
    BY <1>3, <1>6 DEF Held
  <2>2. Settled(r)
    BY <1>1, <1>6, <2>1 DEF StopsKept
  <2> QED
    BY <1>4, <2>1, <2>2 DEF Settled
<1>7. ASSUME ~opt.minutes, step \in {"update", "signals"}, s \in Held', ~AtStage'
      PROVE  Settled(s)'
  BY <1>4, <1>5, <1>7 DEF Settled
<1>8. step \in {"minute", "minutes"} => opt.minutes
  BY DEF StopsKept
<1> QED
  BY <1>3, <1>4, <1>5, <1>6, <1>7, <1>8 DEF StopsKept

--------------------------------------------------------------------------------
(* The main loop around the replay.                                        *)

\* Steps of the loop that are not part of the replay of bars without minutes.
LEMMA AsideStops ==
    ASSUME StopsKept, opt' = opt, step' \in {"minute", "minutes", "update", "signals"} => opt.minutes,
           \A r \in Held' : r \in Held /\ positions'[r] = positions[r]
    PROVE  StopsKept'
  BY DEF StopsKept

LEMMA StartSymbolStops ==
    ASSUME Typed, StopsKept, NEW s \in Symbols, StartSymbol(s)
    PROVE  StopsKept'
<1>1. PICK c \in opt.market :
        /\ path' = IF Stages(s, c) = <<>> THEN Idle ELSE [symbol |-> s, stages |-> Stages(s, c)]
        /\ IF step = "minute" THEN ticks' = [ticks EXCEPT ![s] = c.close] /\ UNCHANGED closes
                              ELSE closes' = [closes EXCEPT ![s] = c.close] /\ UNCHANGED ticks
  BY DEF StartSymbol
<1>2. /\ UNCHANGED <<opt, bar, minute, step, positions, pending>>
      /\ s \in todo /\ ~AtStage /\ step \in {"update", "minute"}
  BY DEF StartSymbol, account
<1>3. Held' = Held /\ Clock' = Clock /\ Accounts /\ Clock \in Nat
  <2>1. bar \in Nat /\ minute \in Nat
    BY Amounts DEF Typed, Looping
  <2> QED
    BY <1>2, <2>1, ClockType, TypeParts DEF Held, Clock, Typed
<1>4. CASE opt.minutes
  <2>1. opt' = opt /\ positions' = positions
    BY <1>2
  <2> QED
    BY <1>3, <1>4, <2>1, AsideStops
<1>5. CASE ~opt.minutes
  <2>1. step = "update" /\ step # "minute"
    BY <1>2, <1>5 DEF StopsKept
  <2>2. closes' = [closes EXCEPT ![s] = c.close] /\ closes \in [Symbols -> Int \cup {None}]
    BY <1>1, <2>1 DEF Typed, Looping
  <2>3. closes'[s] = c.close /\ \A r \in Symbols : r # s => closes'[r] = closes[r]
    BY <2>2
  <2>4. \A r \in Held : r # s => Settled(r)'
    <3> SUFFICES ASSUME NEW r \in Held, r # s PROVE Settled(r)'
      OBVIOUS
    <3>1. Settled(r) /\ r \in Symbols
      BY <1>2, <1>5, <2>1 DEF StopsKept, Held
    <3> QED
      BY <1>2, <1>3, <2>3, <3>1 DEF Settled
  <2>5. ASSUME s \in Held
        PROVE  \/ ~AtStage' /\ positions[s].at = Clock
               \/ /\ AtStage' /\ path'.symbol = s
                  /\ MidBar(positions[s], path'.stages, c.close)
    <3>1. s \notin Ordered
      BY <1>3, <2>5 DEF Accounts
    <3>2. CASE positions[s].at = Clock
      <4>1. Stages(s, c) = <<>>
        BY <3>1, <3>2 DEF Stages
      <4> QED
        BY <1>1, <3>2, <4>1 DEF AtStage, Idle
    <3>3. CASE positions[s].at # Clock
      <4>1. Stages(s, c) = Path(s, c)
        BY <1>5, <2>1, <3>1, <3>3 DEF Stages
      <4>2. MidBar(positions[s], Path(s, c), c.close) /\ Path(s, c) # <<>>
        BY <2>5, PathBegins
      <4>3. path' = [symbol |-> s, stages |-> Path(s, c)]
        BY <1>1, <4>1, <4>2
      <4> QED
        BY <4>2, <4>3 DEF AtStage
    <3> QED
      BY <3>2, <3>3
  <2>6. s \notin Held => path'.symbol \notin Held \/ ~AtStage'
    BY <1>1 DEF AtStage, Idle
  <2>7. ASSUME s \in Held
        PROVE  (AtStage' => s # path'.symbol) => Settled(s)'
    <3>1. CASE ~AtStage' /\ positions[s].at = Clock
      BY <1>2, <1>3, <3>1 DEF Settled
    <3>2. CASE AtStage' /\ path'.symbol = s
      BY <3>2
    <3> QED
      BY <2>5, <2>7, <3>1, <3>2
  <2>8. AtStage' /\ path'.symbol \in Held =>
          MidBar(positions'[path'.symbol], path'.stages, closes'[path'.symbol])
    <3>1. AtStage' => path'.symbol = s
      BY <1>1 DEF AtStage, Idle
    <3> QED
      BY <1>2, <2>3, <2>5, <3>1
  <2>9. opt' = opt /\ step' = step /\ positions' = positions
    BY <1>2
  <2>10. \A r \in Held : positions[r].left <= positions[r].size
    BY DEF StopsKept
  <2>11. \A r \in Held : (AtStage' => r # path'.symbol) => Settled(r)'
    BY <2>4, <2>7
  <2> QED
    BY <1>3, <1>5, <2>1, <2>8, <2>9, <2>10, <2>11 DEF StopsKept
<1> QED
  BY <1>4, <1>5

LEMMA NextBarStops ==
    ASSUME Typed, StopsKept, NextBar
    PROVE  StopsKept'
<1>1. /\ UNCHANGED <<opt, path, positions>> /\ step' = "update" /\ step = "bar" /\ closes' = Unknown
  BY DEF NextBar
<1>2. Held' = Held /\ ~AtStage /\ ~AtStage'
  BY <1>1 DEF Held, AtStage, Typed, Looping, Walking
<1>3. \A r \in Held : Settled(r)'
  BY <1>1 DEF Settled, Unknown, Held
<1> QED
  BY <1>1, <1>2, <1>3 DEF StopsKept

LEMMA ReplayedStops ==
    ASSUME Typed, StopsKept, ~AtStage, step = "update", UNCHANGED <<opt, bar, minute, path, positions, closes>>,
           step' = "update" \/ step' = IF opt.minutes THEN "minutes" ELSE "signals"
    PROVE  StopsKept'
<1>1. Held' = Held /\ ~AtStage' /\ Clock' = Clock
  BY DEF Held, AtStage, Clock
<1>2. ~opt.minutes => \A r \in Held : Settled(r)'
  BY <1>1 DEF Settled, StopsKept
<1> QED
  BY <1>1, <1>2 DEF StopsKept

LEMMA StepStops ==
    ASSUME Typed, StopsKept, LevelsApart, [Next]_vars
    PROVE  StopsKept'
<1>1. positions' = positions => \A r \in Held' : r \in Held /\ positions'[r] = positions[r]
  BY DEF Held
<1>2. ASSUME NEW s \in Symbols, StartSymbol(s)
      PROVE  StopsKept'
  BY <1>2, StartSymbolStops
<1>3. ASSUME NEW s \in Symbols, NoCandle(s)
      PROVE  StopsKept'
  BY <1>3, ReplayedStops DEF NoCandle, account
<1>4. CASE StageAction
  BY <1>4, StageStops
<1>5. CASE Done \/ UNCHANGED vars
  <2>1. UNCHANGED <<opt, step, path, positions, closes, bar, minute>>
    BY <1>5 DEF Done, vars, account
  <2>2. Held' = Held /\ Clock' = Clock /\ AtStage' = AtStage /\ \A r \in Held : Settled(r)' = Settled(r)
    BY <2>1 DEF Held, Clock, AtStage, Settled
  <2> QED
    BY <2>1, <2>2 DEF StopsKept
<1>6. CASE TellOfBar
  BY <1>6, ReplayedStops DEF TellOfBar
<1>7. CASE StartMinute \/ SkipMinute \/ EndMinute \/ TellOfMinutes
  <2>1. opt' = opt /\ positions' = positions /\ step \in {"minute", "minutes"}
    BY <1>7 DEF StartMinute, SkipMinute, EndMinute, TellOfMinutes, account
  <2>2. opt.minutes
    BY <2>1 DEF StopsKept
  <2> QED
    BY <1>1, <2>1, <2>2, AsideStops
<1>8. CASE CloseNext
  <2>1. PICK x \in closing : /\ positions' = [positions EXCEPT ![x.symbol] = None]
                             /\ UNCHANGED <<opt, step>>
    BY <1>8 DEF CloseNext, Close
  <2>2. step \in Leaving
    BY <2>1 DEF Typed, Looping
  <2>3. \A r \in Held' : r \in Held /\ positions'[r] = positions[r]
    BY <2>1, TypeParts DEF Typed, Accounts, Held
  <2>4. step' \in {"minute", "minutes", "update", "signals"} => opt.minutes
    BY <2>1, <2>2 DEF StopsKept, Leaving
  <2> QED
    BY <2>1, <2>3, <2>4, AsideStops
<1>9. CASE SignalsArrive \/ PlaceNext \/ EndBar \/ EndOfData \/ Batch
  <2>1. opt' = opt /\ step' \notin {"minute", "minutes", "update", "signals"}
    BY <1>9 DEF SignalsArrive, PlaceNext, EndBar, EndOfData, Batch
  <2>2. positions' = positions
    BY <1>9 DEF SignalsArrive, PlaceNext, EndBar, EndOfData, Batch, Admit, Recycle, KeepsAll, account
  <2> QED
    BY <1>1, <2>1, <2>2, AsideStops
<1> QED
  BY <1>2, <1>3, <1>4, <1>5, <1>6, <1>7, <1>8, <1>9, NextBarStops DEF Next, StageAction

\* A position that was open when a bar began and survives its replay has not closed the bar
\* at or beyond its stop, wherever the stop, breakeven, the profit lock, the trailing stop and
\* the partial closes of the bar have moved it: whatever moves a stop leaves it below the
\* price that moved it, and a target that is still there at the close was never in reach.
THEOREM StopsAreHonoured ==
    ASSUME LevelsApart
    PROVE  Spec => []StopsHonoured
<1>1. Init => Typed /\ StopsKept
  BY InitTyped DEF Init, StopsKept, AtStage, Idle
<1>2. Typed /\ StopsKept /\ [Next]_vars => Typed' /\ StopsKept'
  BY StepTyped, StepStops
<1>3. Typed /\ StopsKept => StopsHonoured
  BY DEF Typed, Looping, Walking, StopsKept, StopsHonoured, Settled
<1> QED
  BY <1>1, <1>2, <1>3, PTL DEF Spec

--------------------------------------------------------------------------------
(* The liquidation of a replayed bar.  A path is guarded when before each  *)
(* of its prices that would liquidate the position comes one that takes it *)
(* out of the market.  The path of a candle begins guarded, and what is    *)
(* left of it stays guarded for the position each stage leaves.            *)

\* The stops a position can have while the profit lock is off.
Shape(p) ==
    IF p.hits = 0 THEN p.stop = (IF p.breakeven THEN Buffer ELSE -Risk)
                  ELSE p.breakeven /\ p.stop >= 0

\* A price at which the margin is used up, and the stages that may come before the stop.
Fatal(p, r) == Gain(p, r.price) <= -Liq
Excepted(p, r) == r.stage = "OPEN" \/ (r.stage = "HIGH" /\ p.side = "SHORT")

\* A price that stops the position, or would have before a part was taken.
Covers(p, g) ==
    \/ g <= p.stop
    \/ p.hits > 0 /\ Trailing(p) /\ g <= Buffer /\ g <= p.best

\* The checkpoint of the former stop is passed, and no price up to the i-th moves the stop.
Missed(p, stages, i) ==
    /\ p.hits > 0 /\ p.stop < Buffer /\ Trailing(p)
    /\ \A k \in 1 .. i : Gain(p, stages[k].price) <= p.best

\* What comes before the first price of the path that would liquidate the position.
Preceded(p, stages, i) ==
    \/ Excepted(p, stages[i])
    \/ \E h \in 1 .. i - 1 : Fatal(p, stages[h])
    \/ i > 1 /\ Gain(p, stages[1].price) <= p.stop
    \/ \E j \in 1 .. i - 1 :
         /\ Covers(p, Gain(p, stages[j].price))
         /\ \A k \in j + 1 .. i : Gain(p, stages[k].price) <= Gain(p, stages[j].price)
    \/ Missed(p, stages, i)
Guarded(p, stages) == \A i \in 1 .. Len(stages) : Fatal(p, stages[i]) => Preceded(p, stages, i)

\* Where a stage that does not close the position takes it.
GoesOn(p, q, g) ==
    /\ q.side = p.side /\ q.entry = p.entry
    /\ p.hits = 0 => \/ q.stop >= p.stop
                     \/ q.hits > 0 /\ Trailing(q) /\ p.stop = Buffer /\ q.best >= g
    /\ p.hits > 0 => q.hits > 0 /\ q.stop >= p.stop /\ q.best >= p.best /\ Trailing(q)
    /\ p.hits > 0 /\ Trailing(p) /\ g <= p.best => q.stop = p.stop /\ q.best = p.best

\* A price that takes the position out still does so after a stage that leaves it open.
LEMMA CoversOn ==
    ASSUME NEW p \in Position, NEW q \in Position, NEW g \in Int, GoesOn(p, q, g), g > p.stop,
           NEW x \in Int, Covers(p, x)
    PROVE  Covers(q, x)
<1>1. /\ p.stop \in Int /\ q.stop \in Int /\ p.best \in Int /\ q.best \in Int /\ Buffer \in Int
      /\ p.hits \in Nat /\ q.hits \in Nat
  BY Amounts DEF Position
<1>2. CASE x <= p.stop /\ q.stop >= p.stop
  BY ONLY <1>1, <1>2, x \in Int DEF Covers
<1>3. CASE x <= p.stop /\ p.hits = 0 /\ q.hits > 0 /\ Trailing(q) /\ p.stop = Buffer /\ q.best >= g
  BY ONLY <1>1, <1>3, x \in Int, g \in Int, g > p.stop DEF Covers
<1>4. CASE p.hits > 0 /\ Trailing(p) /\ x <= Buffer /\ x <= p.best
  <2>1. q.hits > 0 /\ q.best >= p.best /\ Trailing(q)
    BY <1>4 DEF GoesOn
  <2> QED
    BY ONLY <1>1, <1>4, <2>1, x \in Int DEF Covers
<1>5. p.hits = 0 \/ p.hits > 0
  BY <1>1
<1> QED
  BY <1>2, <1>3, <1>4, <1>5 DEF Covers, GoesOn

\* One stage of the walk.
LEMMA GuardedOn ==
    ASSUME NEW p \in Position, NEW q \in Position, NEW stages \in Seq(StageRecord), stages # <<>>,
           NEW g, g = Gain(p, Head(stages).price), ~(g <= -Liq), ~(g <= p.stop),
           Guarded(p, stages), GoesOn(p, q, g)
    PROVE  Guarded(q, Tail(stages))
<1>1. /\ Len(stages) \in Nat \ {0} /\ Len(Tail(stages)) = Len(stages) - 1 /\ Head(stages) = stages[1]
      /\ \A i \in 1 .. Len(stages) - 1 : Tail(stages)[i] = stages[i + 1]
      /\ \A i \in 1 .. Len(stages) : stages[i] \in StageRecord
  <2>1. Len(stages) \in Nat \ {0}
    BY EmptySeq, LenProperties
  <2>2. /\ Len(Tail(stages)) = Len(stages) - 1
        /\ \A i \in 1 .. Len(Tail(stages)) : Tail(stages)[i] = stages[i + 1]
    BY HeadTailProperties
  <2>3. \A i \in 1 .. Len(stages) : stages[i] \in StageRecord
    BY ElementOfSeq
  <2> QED
    BY <2>1, <2>2, <2>3
<1>2. \A price : Gain(q, price) = Gain(p, price)
  BY DEF Gain, GoesOn
<1>3. \A i \in 1 .. Len(stages) : Gain(p, stages[i].price) \in Int
  <2> SUFFICES ASSUME NEW i \in 1 .. Len(stages) PROVE Gain(p, stages[i].price) \in Int
    OBVIOUS
  <2>1. stages[i].price \in Int
    BY <1>1 DEF StageRecord
  <2> QED
    BY <2>1, GainType
<1>4. g \in Int /\ g = Gain(p, stages[1].price) /\ p.stop \in Int /\ p.best \in Int /\ Buffer \in Int
  <2>1. p.stop \in Int /\ p.best \in Int
    BY DEF Position
  <2>2. Buffer \in Int
    BY Amounts
  <2>3. 1 \in 1 .. Len(stages) /\ Head(stages) = stages[1]
    BY <1>1
  <2>4. g = Gain(p, stages[1].price) /\ g \in Int
    BY <1>3, <2>3
  <2> QED
    BY <2>1, <2>2, <2>4
<1> SUFFICES ASSUME NEW i \in 1 .. Len(stages) - 1, Fatal(q, Tail(stages)[i])
             PROVE  Preceded(q, Tail(stages), i)
  BY <1>1 DEF Guarded
<1>5. i \in Nat /\ i >= 1 /\ i + 1 \in 1 .. Len(stages) /\ (i + 1) - 1 = i /\ 1 \in 1 .. Len(stages)
  BY <1>1
<1>6. \A k \in 1 .. i : Gain(q, Tail(stages)[k].price) = Gain(p, stages[k + 1].price)
  BY <1>1, <1>2, <1>5
<1>7. Fatal(p, stages[i + 1]) /\ Preceded(p, stages, i + 1)
  <2>1. Fatal(p, stages[i + 1])
    BY <1>5, <1>6 DEF Fatal
  <2> QED
    BY <1>5, <2>1 DEF Guarded
<1>8. CASE Excepted(p, stages[i + 1])
  BY <1>1, <1>8 DEF Preceded, Excepted, GoesOn
<1>9. CASE \E h \in 1 .. i : Fatal(p, stages[h])
  <2>1. PICK h \in 1 .. i : Fatal(p, stages[h])
    BY <1>9
  <2>2. h # 1
    BY <1>4, <2>1 DEF Fatal
  <2>3. h - 1 \in 1 .. i - 1 /\ h - 1 \in 1 .. i /\ (h - 1) + 1 = h
    BY <1>5, <2>2
  <2>4. Fatal(q, Tail(stages)[h - 1])
    BY <1>6, <2>1, <2>3 DEF Fatal
  <2> QED
    BY <2>3, <2>4 DEF Preceded
<1>10. CASE \E j \in 1 .. i :
              /\ Covers(p, Gain(p, stages[j].price))
              /\ \A k \in j + 1 .. i + 1 : Gain(p, stages[k].price) <= Gain(p, stages[j].price)
  <2>1. PICK j \in 1 .. i :
              /\ Covers(p, Gain(p, stages[j].price))
              /\ \A k \in j + 1 .. i + 1 : Gain(p, stages[k].price) <= Gain(p, stages[j].price)
    BY <1>10
  <2>2. CASE j = 1
    <3>1. p.hits > 0 /\ Trailing(p) /\ g <= Buffer /\ g <= p.best
      BY <1>4, <2>1, <2>2 DEF Covers
    <3>2. q.hits > 0 /\ Trailing(q) /\ q.stop = p.stop /\ q.best = p.best
      BY <3>1 DEF GoesOn
    <3>3. q.stop < Buffer
      BY <1>4, <3>1, <3>2
    <3>4. ASSUME NEW k \in 1 .. i PROVE Gain(q, Tail(stages)[k].price) <= q.best
      <4>1. k + 1 \in j + 1 .. i + 1 /\ k + 1 \in 1 .. Len(stages)
        BY <1>5, <2>2
      <4>2. Gain(p, stages[k + 1].price) <= g
        BY <1>4, <2>1, <2>2, <4>1
      <4>3. Gain(p, stages[k + 1].price) \in Int
        BY <1>3, <4>1
      <4> QED
        BY <1>4, <1>6, <3>1, <3>2, <4>2, <4>3
    <3> QED
      BY <3>2, <3>3, <3>4 DEF Preceded, Missed
  <2>3. CASE j # 1
    <3>1. j - 1 \in 1 .. i - 1 /\ j - 1 \in 1 .. i /\ (j - 1) + 1 = j /\ j \in 1 .. Len(stages)
      BY <1>5, <2>3
    <3>2. Covers(q, Gain(p, stages[j].price))
      BY <1>3, <1>4, <2>1, <3>1, CoversOn
    <3>3. Covers(q, Gain(q, Tail(stages)[j - 1].price))
      BY <1>6, <3>1, <3>2
    <3>4. ASSUME NEW k \in (j - 1) + 1 .. i
          PROVE  Gain(q, Tail(stages)[k].price) <= Gain(q, Tail(stages)[j - 1].price)
      <4>1. k + 1 \in j + 1 .. i + 1 /\ k \in 1 .. i
        BY <1>5, <2>3
      <4> QED
        BY <1>6, <2>1, <3>1, <4>1
    <3> QED
      BY <3>1, <3>3, <3>4 DEF Preceded
  <2> QED
    BY <2>2, <2>3
<1>11. CASE Missed(p, stages, i + 1)
  <2>1. g <= p.best /\ p.hits > 0 /\ Trailing(p) /\ p.stop < Buffer
    BY <1>4, <1>5, <1>11 DEF Missed
  <2>2. q.hits > 0 /\ Trailing(q) /\ q.stop = p.stop /\ q.best = p.best
    BY <2>1 DEF GoesOn
  <2>3. ASSUME NEW k \in 1 .. i PROVE Gain(q, Tail(stages)[k].price) <= q.best
    <3>1. k + 1 \in 1 .. i + 1
      BY <1>5
    <3> QED
      BY <1>6, <1>11, <2>2, <3>1 DEF Missed
  <2> QED
    BY <2>1, <2>2, <2>3 DEF Preceded, Missed
<1>12. ~(i + 1 > 1 /\ Gain(p, stages[1].price) <= p.stop)
  BY <1>4
<1> QED
  BY <1>5, <1>7, <1>8, <1>9, <1>10, <1>11, <1>12 DEF Preceded

--------------------------------------------------------------------------------
(* The path begins guarded.                                                *)

\* Prices of a candle lie on the same side of a level the candle does not reach.
LEMMA OneSide ==
    ASSUME NEW p \in Position, NEW level \in Int, NEW low \in Int, NEW high \in Int,
           NEW a \in low .. high, NEW b \in low .. high,
           ~(low <= PriceAt(p, level) /\ PriceAt(p, level) <= high), Gain(p, a) <= level
    PROVE  Gain(p, b) <= level
<1>1. p.entry \in Int /\ a \in Int /\ b \in Int
  BY DEF Position
<1>2. CASE p.side = "LONG"
  <2>1. Gain(p, a) = a - p.entry /\ Gain(p, b) = b - p.entry /\ PriceAt(p, level) = p.entry + level
    BY <1>1, <1>2 DEF Gain, PriceAt, Toward
  <2> QED
    BY <1>1, <2>1
<1>3. CASE p.side # "LONG"
  <2>1. Gain(p, a) = -(a - p.entry) /\ Gain(p, b) = -(b - p.entry) /\ PriceAt(p, level) = p.entry - level
    BY <1>1, <1>3 DEF Gain, PriceAt, Toward
  <2> QED
    BY <1>1, <2>1
<1> QED
  BY <1>2, <1>3

\* The price of a level is at that level.
LEMMA GainAt ==
    ASSUME NEW p \in Position, NEW level \in Int
    PROVE  PriceAt(p, level) \in Int /\ Gain(p, PriceAt(p, level)) = level
<1>1. p.entry \in Int
  BY DEF Position
<1>2. CASE p.side = "LONG"
  BY <1>1, <1>2 DEF PriceAt, Gain, Toward
<1>3. CASE p.side # "LONG"
  BY <1>1, <1>3 DEF PriceAt, Gain, Toward
<1> QED
  BY <1>2, <1>3

\* The beginning of a path through a candle.
Begun(p, f, c) ==
    /\ f \in Seq(StageRecord) /\ Len(f) \in Nat \ {0} /\ f[1].price = c.open
    /\ Guarded(p, f)

\* Why a price may follow the beginning f of a path.
Follows(p, f, r) ==
    \/ ~Fatal(p, r) \/ Excepted(p, r)
    \/ \E h \in 1 .. Len(f) : Fatal(p, f[h])
    \/ Gain(p, f[1].price) <= p.stop
    \/ Gain(p, f[Len(f)].price) <= p.stop /\ Gain(p, r.price) <= Gain(p, f[Len(f)].price)

\* A path stays guarded when a price follows that has a reason to.
LEMMA GuardedThen ==
    ASSUME NEW p, NEW c, NEW f, NEW stage \in StageName, NEW price \in Int,
           Begun(p, f, c), Follows(p, f, [stage |-> stage, price |-> price])
    PROVE  LET longer == f \o At(stage, price)
           IN /\ Begun(p, longer, c) /\ Len(longer) = Len(f) + 1
              /\ longer[Len(f) + 1] = [stage |-> stage, price |-> price]
              /\ \A i \in 1 .. Len(f) : longer[i] = f[i]
<1>1. PICK r : r = [stage |-> stage, price |-> price]
  OBVIOUS
<1>2. r \in StageRecord /\ At(stage, price) = <<r>> /\ <<r>> \in Seq(StageRecord) /\ Len(<<r>>) = 1 /\ <<r>>[1] = r
  BY <1>1 DEF StageRecord, At
<1>3. PICK n : n = Len(f)
  OBVIOUS
<1>4. f \in Seq(StageRecord) /\ n \in Nat \ {0}
  BY <1>3 DEF Begun
<1>5. PICK longer : longer = f \o At(stage, price)
  OBVIOUS
<1>6. /\ longer \in Seq(StageRecord) /\ Len(longer) = n + 1
      /\ \A i \in 1 .. n + 1 : longer[i] = IF i <= n THEN f[i] ELSE <<r>>[i - n]
  BY <1>2, <1>3, <1>4, <1>5, ConcatProperties
<1>7. longer[n + 1] = r /\ \A i \in 1 .. n : longer[i] = f[i]
  <2>1. n + 1 \in 1 .. n + 1 /\ ~(n + 1 <= n) /\ (n + 1) - n = 1
    BY <1>4
  <2>2. \A i \in 1 .. n : i \in 1 .. n + 1 /\ i <= n
    BY <1>4
  <2> QED
    BY <1>2, <1>6, <2>1, <2>2
<1>8. longer[1].price = c.open /\ longer[1] = f[1]
  BY <1>4, <1>7 DEF Begun
<1>9. ASSUME NEW i \in 1 .. n, Fatal(p, longer[i]) PROVE Preceded(p, longer, i)
  <2>1. Preceded(p, f, i)
    BY <1>3, <1>7, <1>9 DEF Begun, Guarded
  <2>2. \A k \in 1 .. i : longer[k] = f[k]
    BY <1>4, <1>7
  <2>3. CASE Excepted(p, f[i])
    BY <1>7, <2>3 DEF Preceded
  <2>4. CASE \E h \in 1 .. i - 1 : Fatal(p, f[h])
    <3>1. \A h \in 1 .. i - 1 : h \in 1 .. i
      BY <1>4
    <3> QED
      BY <2>2, <2>4, <3>1 DEF Preceded
  <2>5. CASE i > 1 /\ Gain(p, f[1].price) <= p.stop
    BY <1>8, <2>5 DEF Preceded
  <2>6. CASE \E j \in 1 .. i - 1 :
               /\ Covers(p, Gain(p, f[j].price))
               /\ \A k \in j + 1 .. i : Gain(p, f[k].price) <= Gain(p, f[j].price)
    <3>1. PICK j \in 1 .. i - 1 :
               /\ Covers(p, Gain(p, f[j].price))
               /\ \A k \in j + 1 .. i : Gain(p, f[k].price) <= Gain(p, f[j].price)
      BY <2>6
    <3>2. j \in 1 .. i /\ \A k \in j + 1 .. i : k \in 1 .. i
      BY <1>4
    <3> QED
      BY <2>2, <3>1, <3>2 DEF Preceded
  <2>7. CASE Missed(p, f, i)
    BY <2>2, <2>7 DEF Preceded, Missed
  <2> QED
    BY <2>1, <2>3, <2>4, <2>5, <2>6, <2>7 DEF Preceded
<1>10. ASSUME Fatal(p, r) PROVE Preceded(p, longer, n + 1)
  <2>1. (n + 1) - 1 = n /\ n + 1 > 1 /\ n \in 1 .. n
    BY <1>4
  <2>2. CASE Excepted(p, r)
    BY <1>7, <2>2 DEF Preceded
  <2>3. CASE \E h \in 1 .. n : Fatal(p, f[h])
    BY <1>7, <2>1, <2>3 DEF Preceded
  <2>4. CASE Gain(p, f[1].price) <= p.stop
    BY <1>8, <2>1, <2>4 DEF Preceded
  <2>5. CASE Gain(p, f[n].price) <= p.stop /\ Gain(p, r.price) <= Gain(p, f[n].price)
    <3>1. Covers(p, Gain(p, longer[n].price))
      BY <1>7, <2>1, <2>5 DEF Covers
    <3>2. \A k \in n + 1 .. n + 1 : k = n + 1
      BY <1>4
    <3>3. \A k \in n + 1 .. n + 1 : Gain(p, longer[k].price) <= Gain(p, longer[n].price)
      BY <1>7, <2>1, <2>5, <3>2
    <3> QED
      BY <2>1, <3>1, <3>3 DEF Preceded
  <2> QED
    BY <1>1, <1>3, <1>10, <2>2, <2>3, <2>4, <2>5 DEF Follows
<1>11. Guarded(p, longer)
  <2>1. \A i \in 1 .. n + 1 : i \in 1 .. n \/ i = n + 1
    BY <1>4
  <2> QED
    BY <1>6, <1>7, <1>9, <1>10, <2>1 DEF Guarded
<1>12. Begun(p, longer, c)
  BY <1>4, <1>6, <1>8, <1>11 DEF Begun
<1> QED
  BY <1>1, <1>3, <1>5, <1>6, <1>7, <1>12

\* The liquidation price is a checkpoint whenever the candle reaches it.
Exposed(p, f, c) ==
    c.low <= PriceAt(p, -Liq) /\ PriceAt(p, -Liq) <= c.high => \E h \in 1 .. Len(f) : Fatal(p, f[h])

\* The checkpoints: the stop's is nearer to the entry, so it comes first or not at all.
LEMMA GuardedChecks ==
    ASSUME NEW p \in Position, p.stop > -Liq, NEW c, c.low \in Int, c.high \in Int,
           c.open \in c.low .. c.high, NEW f, Begun(p, f, c)
    PROVE  Begun(p, f \o Checkpoints(p, c), c) /\ Exposed(p, f \o Checkpoints(p, c), c)
<1>1. p.stop \in Int /\ -Liq \in Int
  BY Amounts DEF Position
<1>2. PICK stopAt, liqAt : stopAt = PriceAt(p, p.stop) /\ liqAt = PriceAt(p, -Liq)
  OBVIOUS
<1>3. stopAt \in Int /\ liqAt \in Int /\ Gain(p, stopAt) = p.stop /\ Gain(p, liqAt) = -Liq
  BY <1>1, <1>2, GainAt
<1>4. "SL_CHECK" \in StageName /\ "LIQ_CHECK" \in StageName
  BY DEF StageName
<1>5. Checkpoints(p, c) = StopCheck(p, c) \o LiqCheck(p, c)
  BY <1>1 DEF Checkpoints
<1>6. StopCheck(p, c) \in Seq(StageRecord) /\ LiqCheck(p, c) \in Seq(StageRecord)
  <2>1. At("SL_CHECK", stopAt) \in Seq(StageRecord) /\ At("LIQ_CHECK", liqAt) \in Seq(StageRecord)
    BY <1>3, <1>4 DEF At, StageRecord
  <2> QED
    BY <1>2, <2>1, EmptySeq DEF StopCheck, LiqCheck, Reached
<1>7. f \in Seq(StageRecord)
  BY DEF Begun
<1>8. f \o Checkpoints(p, c) = (f \o StopCheck(p, c)) \o LiqCheck(p, c)
  <2>1. PICK a, b : a = StopCheck(p, c) /\ b = LiqCheck(p, c)
    OBVIOUS
  <2>2. f \o (a \o b) = (f \o a) \o b
    BY ONLY <1>6, <1>7, <2>1, ConcatAssociative
  <2>3. Checkpoints(p, c) = a \o b
    BY <1>5, <2>1
  <2> QED
    BY <2>1, <2>2, <2>3
<1>9. PICK mid : mid = f \o StopCheck(p, c)
  OBVIOUS
<1>10. Begun(p, mid, c) /\ (Gain(p, mid[Len(mid)].price) = p.stop \/ Gain(p, mid[1].price) <= p.stop
                            \/ ~(c.low <= liqAt /\ liqAt <= c.high))
  <2>1. CASE c.low <= stopAt /\ stopAt <= c.high
    <3>1. mid = f \o At("SL_CHECK", stopAt)
      BY <1>2, <1>9, <2>1 DEF StopCheck, Reached
    <3>2. ~Fatal(p, [stage |-> "SL_CHECK", price |-> stopAt])
      BY <1>1, <1>3 DEF Fatal
    <3>3. Begun(p, mid, c) /\ Len(mid) = Len(f) + 1 /\ mid[Len(f) + 1] = [stage |-> "SL_CHECK", price |-> stopAt]
      BY <1>3, <1>4, <3>1, <3>2, GuardedThen DEF Follows
    <3> QED
      BY <1>3, <3>3
  <2>2. CASE ~(c.low <= stopAt /\ stopAt <= c.high)
    <3>1. mid = f
      BY <1>2, <1>7, <1>9, <2>2, ConcatEmptySeq DEF StopCheck, Reached
    <3>2. ASSUME c.low <= liqAt, liqAt <= c.high PROVE Gain(p, c.open) <= p.stop
      <4>1. liqAt \in c.low .. c.high /\ Gain(p, liqAt) <= p.stop
        BY <1>1, <1>3, <3>2
      <4> QED
        BY <1>1, <1>2, <2>2, <4>1, OneSide
    <3> QED
      BY <3>1, <3>2 DEF Begun
  <2> QED
    BY <2>1, <2>2
<1>11. CASE c.low <= liqAt /\ liqAt <= c.high
  <2>1. f \o Checkpoints(p, c) = mid \o At("LIQ_CHECK", liqAt)
    BY <1>2, <1>8, <1>9, <1>11 DEF LiqCheck, Reached
  <2>2. Follows(p, mid, [stage |-> "LIQ_CHECK", price |-> liqAt])
    BY <1>1, <1>3, <1>10, <1>11 DEF Follows
  <2>3. PICK longer : longer = mid \o At("LIQ_CHECK", liqAt)
    OBVIOUS
  <2>4. /\ Begun(p, longer, c) /\ Len(longer) = Len(mid) + 1 /\ Len(longer) \in Nat \ {0}
        /\ longer[Len(mid) + 1] = [stage |-> "LIQ_CHECK", price |-> liqAt]
    BY <1>3, <1>4, <1>10, <2>2, <2>3, GuardedThen DEF Begun
  <2>5. Fatal(p, longer[Len(longer)]) /\ Len(longer) \in 1 .. Len(longer)
    BY <1>1, <1>3, <2>4 DEF Fatal
  <2> QED
    BY <2>1, <2>3, <2>4, <2>5 DEF Exposed
<1>12. CASE ~(c.low <= liqAt /\ liqAt <= c.high)
  <2>1. mid \in Seq(StageRecord)
    BY <1>10 DEF Begun
  <2>2. f \o Checkpoints(p, c) = mid
    BY <1>2, <1>8, <1>9, <1>12, <2>1, ConcatEmptySeq DEF LiqCheck, Reached
  <2> QED
    BY <1>2, <1>10, <1>12, <2>2 DEF Exposed
<1> QED
  BY <1>11, <1>12

\* After the checkpoints, a price beyond the liquidation price comes second to one of them or
\* to the first price of the candle.
LEMMA GuardedAfter ==
    ASSUME NEW p \in Position, NEW c, c.low \in Int, c.high \in Int, c.open \in c.low .. c.high,
           NEW f, Begun(p, f, c), Exposed(p, f, c),
           NEW stage \in StageName, NEW price \in c.low .. c.high
    PROVE  Begun(p, f \o At(stage, price), c) /\ Exposed(p, f \o At(stage, price), c)
<1>1. price \in Int /\ -Liq \in Int /\ Len(f) \in Nat \ {0} /\ 1 \in 1 .. Len(f)
  BY Amounts DEF Begun
<1>2. Follows(p, f, [stage |-> stage, price |-> price])
  <2>1. CASE c.low <= PriceAt(p, -Liq) /\ PriceAt(p, -Liq) <= c.high
    BY <2>1 DEF Exposed, Follows
  <2>2. CASE ~(c.low <= PriceAt(p, -Liq) /\ PriceAt(p, -Liq) <= c.high)
    <3>1. Gain(p, price) <= -Liq => Gain(p, c.open) <= -Liq
      BY <1>1, <2>2, OneSide
    <3> QED
      BY <1>1, <3>1 DEF Follows, Fatal, Begun
  <2> QED
    BY <2>1, <2>2
<1>3. PICK longer : longer = f \o At(stage, price)
  OBVIOUS
<1>4. Begun(p, longer, c) /\ Len(longer) = Len(f) + 1 /\ \A i \in 1 .. Len(f) : longer[i] = f[i]
  BY <1>1, <1>2, <1>3, GuardedThen
<1>5. Exposed(p, longer, c)
  <2>1. \A h \in 1 .. Len(f) : h \in 1 .. Len(longer)
    BY <1>1, <1>4
  <2> QED
    BY <1>4, <2>1 DEF Exposed
<1> QED
  BY <1>3, <1>4, <1>5

\* Both orders of a candle: the checkpoints come after the open, or after the open and HIGH.
LEMMA PathGuarded ==
    ASSUME Typed, NEW s \in Held, NEW c \in opt.market, Shape(positions[s]), Risk < Liq
    PROVE  Guarded(positions[s], Path(s, c))
<1>1. PICK p : p = positions[s]
  OBVIOUS
<1>2. p \in Position /\ Shape(p)
  BY <1>1, HeldTyped, TypeParts DEF Typed
<1>3. p.stop > -Liq
  BY <1>2, Amounts DEF Shape, Position
<1>4. /\ c.low \in Int /\ c.high \in Int /\ c.open \in c.low .. c.high /\ c.close \in c.low .. c.high
      /\ c.low \in c.low .. c.high /\ c.high \in c.low .. c.high
  BY CandleType
<1>5. {"OPEN", "LOW", "HIGH", "CLOSE"} \subseteq StageName
  BY DEF StageName
<1>6. PICK open : open = At("OPEN", c.open)
  OBVIOUS
<1>7. Begun(p, open, c) /\ Len(open) = 1
  <2>1. /\ open = <<[stage |-> "OPEN", price |-> c.open]>> /\ Len(open) = 1
        /\ open[1] = [stage |-> "OPEN", price |-> c.open]
    BY <1>6 DEF At
  <2>2. open \in Seq(StageRecord)
    BY <1>4, <1>5, <2>1 DEF StageRecord
  <2>3. \A i \in 1 .. 1 : i = 1
    OBVIOUS
  <2> QED
    BY <2>1, <2>2, <2>3 DEF Begun, Guarded, Preceded, Excepted
<1>8. CASE LowFirst(s, c)
  <2>1. Path(s, c) = ((open \o Checkpoints(p, c)) \o At("LOW", c.low)) \o At("HIGH", c.high) \o At("CLOSE", c.close)
    BY <1>1, <1>6, <1>8 DEF Path
  <2>2. PICK a : a = open \o Checkpoints(p, c)
    OBVIOUS
  <2>3. Begun(p, a, c) /\ Exposed(p, a, c)
    BY <1>2, <1>3, <1>4, <1>7, <2>2, GuardedChecks
  <2>4. PICK b : b = a \o At("LOW", c.low)
    OBVIOUS
  <2>5. Begun(p, b, c) /\ Exposed(p, b, c)
    BY <1>2, <1>4, <1>5, <2>3, <2>4, GuardedAfter
  <2>6. PICK d : d = b \o At("HIGH", c.high)
    OBVIOUS
  <2>7. Begun(p, d, c) /\ Exposed(p, d, c)
    BY <1>2, <1>4, <1>5, <2>5, <2>6, GuardedAfter
  <2>8. Begun(p, d \o At("CLOSE", c.close), c)
    BY <1>2, <1>4, <1>5, <2>7, GuardedAfter
  <2> QED
    BY <1>1, <2>1, <2>2, <2>4, <2>6, <2>8 DEF Begun
<1>9. CASE ~LowFirst(s, c)
  <2>1. Path(s, c) = ((open \o At("HIGH", c.high)) \o Checkpoints(p, c)) \o At("LOW", c.low) \o At("CLOSE", c.close)
    BY <1>1, <1>6, <1>9 DEF Path
  <2>2. PICK a : a = open \o At("HIGH", c.high)
    OBVIOUS
  <2>3. Begun(p, a, c)
    <3>1. Follows(p, open, [stage |-> "HIGH", price |-> c.high])
      <4>1. CASE p.side = "LONG"
        <5>1. Gain(p, c.open) <= Gain(p, c.high) /\ Gain(p, c.open) \in Int /\ Gain(p, c.high) \in Int
          <6>1. p.entry \in Int
            BY <1>2 DEF Position
          <6>2. Gain(p, c.open) = c.open - p.entry /\ Gain(p, c.high) = c.high - p.entry
            BY <1>4, <4>1, <6>1 DEF Gain, Toward
          <6> QED
            BY <1>4, <6>1, <6>2
        <5>2. Fatal(p, [stage |-> "HIGH", price |-> c.high]) => Fatal(p, open[1])
          BY <1>7, <5>1, Amounts DEF Fatal, Begun
        <5> QED
          BY <1>7, <5>2 DEF Follows
      <4>2. CASE p.side = "SHORT"
        BY <4>2 DEF Follows, Excepted
      <4> QED
        BY <1>2, <4>1, <4>2 DEF Position
    <3> QED
      BY <1>4, <1>5, <1>7, <2>2, <3>1, GuardedThen
  <2>4. PICK b : b = a \o Checkpoints(p, c)
    OBVIOUS
  <2>5. Begun(p, b, c) /\ Exposed(p, b, c)
    BY <1>2, <1>3, <1>4, <2>3, <2>4, GuardedChecks
  <2>6. PICK d : d = b \o At("LOW", c.low)
    OBVIOUS
  <2>7. Begun(p, d, c) /\ Exposed(p, d, c)
    BY <1>2, <1>4, <1>5, <2>5, <2>6, GuardedAfter
  <2>8. Begun(p, d \o At("CLOSE", c.close), c)
    BY <1>2, <1>4, <1>5, <2>7, GuardedAfter
  <2> QED
    BY <1>1, <2>1, <2>2, <2>4, <2>6, <2>8 DEF Begun
<1> QED
  BY <1>8, <1>9

\* With one-minute monitoring the bar itself does not liquidate.
LEMMA UncoveredVerdict ==
    ASSUME NEW p, NEW g, step # "minute", opt.minutes
    PROVE  Verdict(p, g) # "LIQUIDATION"
<1> DEFINE checks == UncoveredChecks(p, g)
           hits == {i \in DOMAIN checks : checks[i][2]}
<1>1. Verdict(p, g) = IF hits = {} THEN "HOLD" ELSE checks[Min(hits)][1]
  BY DEF Verdict, Checks
<1>2. DOMAIN checks = 1 .. 3 /\ \A i \in 1 .. 3 : checks[i][1] # "LIQUIDATION"
  <2>1. /\ DOMAIN checks = 1 .. 3
        /\ checks[1][1] = "HARD_CAP" /\ checks[2][1] = "MAX_SL" /\ checks[3][1] = "AUTO_CLOSE"
    BY DEF UncoveredChecks
  <2> QED
    BY <2>1
<1>3. hits # {} => Min(hits) \in 1 .. 3
  <2>1. hits \subseteq Nat /\ hits \subseteq 1 .. 3
    BY <1>2
  <2> HIDE DEF hits
  <2> QED
    BY <2>1, FirstCheck
<1> QED
  BY <1>1, <1>2, <1>3

\* While the profit lock is off, a stage that holds moves the stop to breakeven or trails it.
LEMMA HeldOn ==
    ASSUME NEW p \in Position, Shape(p), ~opt.lock, NEW g \in Int, NEW q, q = Moved(p, g)
    PROVE  q \in Position /\ Shape(q) /\ GoesOn(p, q, g)
<1>1. PICK w : w = Watched(p, g)
  OBVIOUS
<1>2. /\ w \in Position /\ w.side = p.side /\ w.entry = p.entry /\ w.hits = p.hits /\ w.stop = p.stop
      /\ w.breakeven = p.breakeven /\ w.best = Max2(p.best, g)
  BY <1>1, WatchedType
<1>3. PICK b : b = AtBreakeven(w, g)
  OBVIOUS
<1>4. /\ b \in Position /\ b.side = p.side /\ b.entry = p.entry /\ b.hits = p.hits
      /\ b.best = Max2(p.best, g)
  BY <1>2, <1>3, AtBreakevenType DEF Kept
<1>5. ASSUME ~p.breakeven, g >= BreakevenAt
      PROVE  b.stop = Buffer /\ b.breakeven
  <2>1. b = [w EXCEPT !.stop = Buffer, !.breakeven = TRUE]
    BY <1>2, <1>3, <1>5 DEF AtBreakeven
  <2> QED
    BY <1>2, <2>1 DEF Position
<1>6. \/ b.stop = p.stop /\ b.breakeven = p.breakeven
      \/ ~p.breakeven /\ b.stop = Buffer /\ b.breakeven
  <2>1. ~(~p.breakeven /\ g >= BreakevenAt) => b = w
    BY <1>2, <1>3 DEF AtBreakeven
  <2> QED
    BY <1>2, <1>5, <2>1
<1>7. LockedIn(w, g) = w /\ q = Trailed(b)
  BY <1>1, <1>3 DEF LockedIn, Moved
<1>8. /\ q \in Position /\ q.side = p.side /\ q.entry = p.entry /\ q.hits = p.hits
      /\ q.best = Max2(p.best, g)
      /\ q.stop = IF b.hits > 0 THEN Max2(b.stop, b.best - Trail) ELSE b.stop
  BY <1>4, <1>7, TrailedType DEF Kept
<1>9. q.breakeven = b.breakeven
  BY <1>4, <1>7 DEF Trailed, Position
<1>10. /\ p.best \in Int /\ p.stop \in Int /\ p.hits \in Nat /\ b.stop \in Int
       /\ q.stop \in Int /\ q.best \in Int /\ Buffer \in Nat /\ Risk \in Nat /\ Trail \in Nat
  BY <1>4, <1>8, Amounts DEF Position
<1>11. CASE p.hits = 0
  <2>1. q.stop = b.stop
    BY <1>4, <1>8, <1>11
  <2>2. CASE b.stop = p.stop /\ b.breakeven = p.breakeven
    BY <1>8, <1>9, <1>10, <1>11, <2>1, <2>2 DEF Shape, GoesOn
  <2>3. CASE ~p.breakeven /\ b.stop = Buffer /\ b.breakeven
    <3>1. q.stop >= p.stop
      BY <1>10, <1>11, <2>1, <2>3 DEF Shape
    <3> QED
      BY <1>8, <1>9, <1>10, <1>11, <2>1, <2>3, <3>1 DEF Shape, GoesOn
  <2> QED
    BY <1>6, <2>2, <2>3
<1>12. CASE p.hits > 0
  <2>1. b.stop = p.stop /\ b.breakeven /\ q.breakeven /\ p.stop >= 0
    BY <1>6, <1>9, <1>10, <1>12 DEF Shape
  <2>2. q.stop = Max2(p.stop, Max2(p.best, g) - Trail) /\ q.best = Max2(p.best, g) /\ q.hits > 0
    BY <1>4, <1>8, <1>12, <2>1
  <2>3. q.stop >= p.stop /\ q.best >= p.best /\ Trailing(q)
    BY <1>10, <2>2, g \in Int DEF Max2, Trailing
  <2>4. Trailing(p) /\ g <= p.best => q.stop = p.stop /\ q.best = p.best
    BY <1>10, <1>12, <2>2, g \in Int DEF Max2, Trailing
  <2>5. Shape(q)
    BY <1>10, <2>1, <2>2, <2>3 DEF Shape
  <2> QED
    BY <1>8, <1>10, <1>12, <2>2, <2>3, <2>4, <2>5 DEF GoesOn
<1> QED
  BY <1>10, <1>11, <1>12

\* A part that is taken puts the stop at the entry, and then it trails.
LEMMA PartShape ==
    ASSUME NEW p \in Position, NEW part \in Nat, part <= p.left, NEW q, q = PartTaken(p, part), q.left # 0
    PROVE  Shape(q) /\ q.breakeven
<1>1. q \in Position /\ q.hits = p.hits + 1 /\ q.stop = 0 /\ p.hits \in Nat
  BY PartTakenType DEF Position
<1>2. q.breakeven
  <2>1. q = [[p EXCEPT !.left = @ - part, !.hits = @ + 1, !.stop = 0] EXCEPT !.breakeven = TRUE]
    BY DEF PartTaken
  <2> QED
    BY <2>1, Zenon DEF Position
<1> QED
  BY <1>1, <1>2 DEF Shape

\* The replay goes on with what the target leaves.
LEMMA PartOn ==
    ASSUME NEW p \in Position, Shape(p), p.hits = 0, NEW g \in Int, NEW part \in Nat, part <= p.left,
           NEW q, q = PartTaken(Watched(p, g), part), q.left # 0
    PROVE  q \in Position /\ Shape(q)
           /\ Trailed(q) \in Position /\ Shape(Trailed(q)) /\ GoesOn(p, Trailed(q), g)
<1>1. PICK w : w = Watched(p, g)
  OBVIOUS
<1>2. /\ w \in Position /\ w.side = p.side /\ w.entry = p.entry /\ w.hits = 0 /\ w.left = p.left
      /\ w.best = Max2(p.best, g)
  BY <1>1, WatchedType
<1>3. /\ q \in Position /\ q.side = p.side /\ q.entry = p.entry /\ q.hits = 1 /\ q.stop = 0
      /\ q.best = Max2(p.best, g)
  BY <1>1, <1>2, PartTakenType
<1>4. Shape(q) /\ q.breakeven
  BY <1>1, <1>2, PartShape
<1>5. PICK r : r = Trailed(q)
  OBVIOUS
<1>6. /\ r \in Position /\ r.side = p.side /\ r.entry = p.entry /\ r.hits = 1
      /\ r.best = Max2(p.best, g) /\ r.stop = Max2(0, r.best - Trail)
  BY <1>3, <1>5, TrailedType DEF Kept
<1>7. r.breakeven
  BY <1>3, <1>4, <1>5 DEF Trailed, Position
<1>8. /\ p.best \in Int /\ p.stop \in Int /\ r.best \in Int /\ r.stop \in Int
      /\ Trail \in Nat /\ Risk \in Nat /\ Buffer \in Nat
  BY <1>6, Amounts DEF Position
<1>9. r.stop >= 0 /\ r.stop >= r.best - Trail /\ r.best >= g
  BY <1>6, <1>8, g \in Int DEF Max2
<1>10. Shape(r)
  BY <1>6, <1>7, <1>9 DEF Shape
<1>11. p.stop = Buffer \/ r.stop >= p.stop
  BY <1>8, <1>9 DEF Shape
<1> QED
  BY <1>3, <1>4, <1>5, <1>6, <1>8, <1>9, <1>10, <1>11 DEF GoesOn, Trailing

\* A position begins with the stop of its signal.
LEMMA FilledShape ==
    ASSUME NEW o \in Order, NEW price \in Int, NEW slip \in Nat
    PROVE  Shape(Filled(o, price, slip))
<1>1. PICK q : q = Filled(o, price, slip)
  OBVIOUS
<1>2. q.hits = 0 /\ q.stop = -Risk /\ ~q.breakeven
  BY <1>1 DEF Filled
<1> QED
  BY <1>1, <1>2 DEF Shape

\* What a stage of a replayed bar makes of the position of its symbol.
Onward(p, q) ==
    LET g == Gain(p, Price)
    IN GoesOn(p, q, g) /\ ~(g <= -Liq) /\ ~(~opt.closeOnly /\ g <= p.stop)
ShapedEffect(s) ==
    \/ positions' = [positions EXCEPT ![s] = None] /\ path' = Idle
    \/ \E q \in Position :
         /\ Shape(q) /\ positions' = [positions EXCEPT ![s] = q]
         /\ path' = Idle \/ (path' = Walked /\ Onward(positions[s], q))

\* The stages of a position, in a bar without minutes.
LEMMA ShapedEffects ==
    ASSUME Typed, step # "minute", ~opt.minutes, ~opt.lock, Shape(positions[path.symbol]),
           Liquidated \/ Stopped \/ AutoClosed \/ TookProfit \/ Holds
    PROVE  ShapedEffect(path.symbol)
<1>1. PICK s : s = path.symbol
  OBVIOUS
<1>2. AtStage /\ s \in Held
  BY <1>1 DEF Liquidated, Stopped, AutoClosed, TookProfit, Holds, PositionStage
<1>3. PICK p : p = positions[s]
  OBVIOUS
<1>4. p \in Position /\ Shape(p)
  BY <1>1, <1>2, <1>3, TypeParts, HeldTyped DEF Typed
<1>5. PICK g : g = Gain(p, Price)
  OBVIOUS
<1>6. g \in Int
  BY <1>2, <1>4, <1>5, StageType, GainType
<1>7. CASE Liquidated
  BY <1>1, <1>7 DEF Liquidated, Liquidate, ShapedEffect
<1>8. CASE Stopped
  BY <1>1, <1>8 DEF Stopped, Close, ShapedEffect
<1>9. CASE AutoClosed
  <2>1. PICK part : part = Part(p, 50)
    OBVIOUS
  <2>2. PICK seen : seen = Watched(p, g)
    OBVIOUS
  <2>3. PICK q : q = PartTaken(seen, part)
    OBVIOUS
  <2>4. path' = Idle
    BY <1>9 DEF AutoClosed
  <2>5. \/ positions' = [positions EXCEPT ![s] = IF q.left = 0 THEN None ELSE q]
        \/ positions' = [positions EXCEPT ![s] = None]
    BY <1>1, <1>3, <1>5, <1>9, <2>1, <2>2, <2>3, step # "minute" DEF AutoClosed, TakePart, Close
  <2>6. CASE positions' = [positions EXCEPT ![s] = None]
    BY <1>1, <2>4, <2>6 DEF ShapedEffect
  <2>7. CASE q.left # 0 /\ positions' = [positions EXCEPT ![s] = q]
    <3>1. part \in Nat /\ part <= p.left
      BY <1>4, <2>1, PartType
    <3>2. seen \in Position /\ seen.left = p.left
      BY <1>4, <1>6, <2>2, WatchedType
    <3>3. q \in Position /\ Shape(q)
      BY <2>3, <2>7, <3>1, <3>2, PartTakenType, PartShape
    <3> QED
      BY <1>1, <2>4, <2>7, <3>3 DEF ShapedEffect
  <2> QED
    BY <2>5, <2>6, <2>7
<1>10. CASE TookProfit
  <2>1. PICK part : part = Part(p, IF opt.fullTp THEN 100 ELSE 60)
    OBVIOUS
  <2>2. PICK q : q = PartTaken(Watched(p, g), part)
    OBVIOUS
  <2>3. Verdict(p, g) = "TAKE_PROFIT"
    BY <1>1, <1>3, <1>5, <1>10 DEF TookProfit, PositionStage
  <2>4. p.hits = 0 /\ ~(g <= -Liq) /\ ~(~opt.closeOnly /\ g <= p.stop)
    BY <2>3, BarVerdict
  <2>5. part \in Nat /\ part <= p.left
    BY <1>4, <2>1, PartType
  <2>6. q.left \in Nat
    BY <1>4, <1>6, <2>2, <2>5, WatchedType, PartTakenType
  <2>7. /\ TakePart(s, p.tp, part, IF q.left > 0 THEN Trailed(q) ELSE q, "TAKE_PROFIT")
        /\ path' = IF q.left > 0 THEN Walked ELSE Idle
    BY <1>1, <1>3, <1>5, <1>10, <2>1, <2>2, step # "minute" DEF TookProfit
  <2>8. CASE q.left = 0
    BY <1>1, <2>7, <2>8 DEF TakePart, ShapedEffect
  <2>9. CASE q.left # 0
    <3>1. PICK r : r = Trailed(q)
      OBVIOUS
    <3>2. q \in Position /\ r \in Position /\ Shape(r) /\ GoesOn(p, r, g)
      BY <1>4, <1>6, <2>2, <2>4, <2>5, <2>9, <3>1, PartOn
    <3>3. q.left > 0 /\ r.left # 0
      BY <2>6, <2>9, <3>1, <3>2, TrailedType DEF Kept
    <3>4. positions' = [positions EXCEPT ![s] = r] /\ path' = Walked
      BY <2>7, <3>1, <3>3 DEF TakePart
    <3> QED
      BY <1>1, <1>3, <1>5, <2>4, <3>2, <3>4 DEF ShapedEffect, Onward
  <2> QED
    BY <2>8, <2>9
<1>11. CASE Holds
  <2>1. PICK q : q = Moved(p, g)
    OBVIOUS
  <2>2. Verdict(p, g) = "HOLD" /\ path' = Walked
    BY <1>1, <1>3, <1>5, <1>11 DEF Holds, PositionStage
  <2>3. positions' = [positions EXCEPT ![s] = q]
    BY <1>1, <1>3, <1>5, <1>11, <2>1, step # "minute", ~opt.minutes DEF Holds, Moved
  <2>4. q \in Position /\ Shape(q) /\ GoesOn(p, q, g)
    BY <1>4, <1>6, <2>1, HeldOn
  <2>5. ~(g <= -Liq) /\ ~(~opt.closeOnly /\ g <= p.stop)
    BY <2>2, BarVerdict
  <2> QED
    BY <1>1, <1>3, <1>5, <2>2, <2>3, <2>4, <2>5 DEF ShapedEffect, Onward
<1> QED
  BY <1>7, <1>8, <1>9, <1>10, <1>11

--------------------------------------------------------------------------------
\* Before each price at which the position would be liquidated comes one that takes it out of
\* the market, but for the exceptions.
StopsAhead(s) ==
    Risk < Liq /\ ~opt.lock /\ ~opt.closeOnly => Guarded(positions[s], path.stages)

PathsGuarded ==
    /\ step \in {"minute", "minutes"} => opt.minutes
    /\ ~opt.minutes /\ ~opt.lock => \A s \in Held : Shape(positions[s])
    /\ ~opt.minutes /\ step = "update" /\ AtStage /\ path.symbol \in Held => StopsAhead(path.symbol)

\* A stage leaves what is left of the path guarded.
LEMMA StageGuarded ==
    ASSUME Typed, PathsGuarded, StageAction
    PROVE  PathsGuarded'
<1>1. PICK s : s = path.symbol
  OBVIOUS
<1>2. AtStage /\ UNCHANGED <<opt, loop>> /\ (OrderEffect(s) \/ PositionEffect(s))
  BY <1>1, OrderEffects, PositionEffects DEF StageAction
<1>3. /\ s \in Symbols /\ Accounts /\ Clock \in Nat /\ step \in Walking /\ step' = step /\ opt' = opt
      /\ path.stages \in Seq(StageRecord) /\ path.stages # <<>>
      /\ path \in [symbol : Symbols \cup {None}, stages : Seq(StageRecord)]
  BY <1>1, <1>2, StageType, TypeParts DEF Typed, Looping, loop, AtStage
<1>4. path' \in {Idle, Walked}
  BY <1>2 DEF OrderEffect, PositionEffect
<1>5. path' = Idle => ~AtStage'
  BY DEF AtStage, Idle
<1>6. AtStage' => path' = Walked /\ path'.symbol = s /\ path'.stages = Tail(path.stages)
  BY <1>1, <1>3, <1>4, <1>5 DEF Walked
<1>7. CASE opt.minutes
  BY <1>3, <1>7 DEF PathsGuarded
<1>8. CASE ~opt.minutes
  <2>1. step # "minute" /\ step = "update"
    BY <1>3, <1>8 DEF PathsGuarded, Walking
  <2>2. ASSUME s \in Ordered
        PROVE  PathsGuarded'
    <3>1. s \notin Held /\ OrderEffect(s)
      BY <1>2, <1>3, <2>2 DEF Accounts, PositionEffect
    <3>2. CASE positions' = positions
      <4>1. Held' = Held
        BY <3>2 DEF Held
      <4> QED
        BY <1>3, <1>6, <1>8, <2>1, <3>1, <3>2, <4>1 DEF PathsGuarded
    <3>3. CASE Entering(s) /\ path' = Idle
      <4>1. PICK price \in Int, slip \in Nat : Fill(s, price, slip)
        BY <3>3 DEF Entering
      <4>2. PICK q : q = Filled(pending[s], price, slip)
        OBVIOUS
      <4>3. Shape(q)
        BY <1>3, <2>2, <4>2, HeldTyped, FilledShape
      <4>4. positions' = [positions EXCEPT ![s] = q]
        BY <4>1, <4>2 DEF Fill
      <4>5. \A r \in Held' : (r = s /\ positions'[r] = q) \/ (r \in Held /\ positions'[r] = positions[r])
        BY <1>3, <4>4 DEF Held, Accounts
      <4> QED
        BY <1>3, <1>5, <1>8, <2>1, <3>3, <4>3, <4>5 DEF PathsGuarded
    <3> QED
      BY <3>1, <3>2, <3>3 DEF OrderEffect, GivingUp, Waiting
  <2>3. ASSUME s \in Held, ~opt.lock
        PROVE  PathsGuarded'
    <3>1. Liquidated \/ Stopped \/ AutoClosed \/ TookProfit \/ Holds
      BY <1>1, <1>3, <2>3 DEF StageAction, CancelOrder, FillOrder, OrderWaits, OrderStage, Accounts
    <3>2. PICK p : p = positions[s]
      OBVIOUS
    <3>3. p \in Position /\ Shape(p)
      BY <1>3, <1>8, <2>3, <3>2, HeldTyped DEF PathsGuarded
    <3>4. ShapedEffect(s)
      BY <1>1, <1>8, <2>1, <2>3, <3>1, <3>2, <3>3, ShapedEffects
    <3>5. CASE positions' = [positions EXCEPT ![s] = None] /\ path' = Idle
      <4>1. \A r \in Held' : r \in Held /\ positions'[r] = positions[r]
        BY <1>3, <3>5 DEF Held, Accounts
      <4> QED
        BY <1>3, <1>5, <1>8, <2>1, <3>5, <4>1 DEF PathsGuarded
    <3>6. ASSUME NEW q \in Position, Shape(q), positions' = [positions EXCEPT ![s] = q],
                 path' = Idle \/ (path' = Walked /\ Onward(p, q))
          PROVE  PathsGuarded'
      <4>1. \A r \in Held' : (r = s /\ positions'[r] = q) \/ (r \in Held /\ positions'[r] = positions[r])
        BY <1>3, <3>6 DEF Held, Accounts
      <4>2. \A r \in Held' : Shape(positions'[r])
        BY <1>8, <2>3, <3>6, <4>1 DEF PathsGuarded
      <4>3. ASSUME AtStage', Risk < Liq, ~opt.closeOnly
            PROVE  Guarded(q, Tail(path.stages))
        <5>1. Onward(p, q)
          BY <1>5, <3>6, <4>3
        <5>2. Guarded(p, path.stages)
          BY <1>1, <1>2, <1>8, <2>1, <2>3, <3>2, <4>3 DEF PathsGuarded, StopsAhead
        <5> QED
          BY <1>3, <3>3, <4>3, <5>1, <5>2, GuardedOn DEF Onward, Price
      <4>4. positions'[s] = q
        BY <1>3, <3>6 DEF Accounts
      <4> QED
        BY <1>3, <1>6, <1>8, <2>1, <4>2, <4>3, <4>4 DEF PathsGuarded, StopsAhead
    <3> QED
      BY <3>2, <3>4, <3>5, <3>6 DEF ShapedEffect
  <2>4. CASE opt.lock
    BY <1>3, <1>8, <2>1, <2>4 DEF PathsGuarded, StopsAhead
  <2> QED
    BY <1>2, <2>2, <2>3, <2>4 DEF OrderEffect, PositionEffect
<1> QED
  BY <1>7, <1>8

\* Steps outside the replay.
LEMMA AsideGuarded ==
    ASSUME PathsGuarded, opt' = opt, step' \in {"minute", "minutes"} => opt.minutes,
           step' = "update" /\ AtStage' => opt.minutes,
           \A r \in Held' : r \in Held /\ positions'[r] = positions[r]
    PROVE  PathsGuarded'
  BY DEF PathsGuarded

\* The path of a candle is guarded when the symbol is begun.
LEMMA StartSymbolGuarded ==
    ASSUME Typed, PathsGuarded, NEW s \in Symbols, StartSymbol(s)
    PROVE  PathsGuarded'
<1>1. PICK c \in opt.market :
        path' = IF Stages(s, c) = <<>> THEN Idle ELSE [symbol |-> s, stages |-> Stages(s, c)]
  BY DEF StartSymbol
<1>2. UNCHANGED <<opt, step, positions>> /\ step \in {"update", "minute"}
  BY DEF StartSymbol, account
<1>3. Held' = Held /\ Accounts
  BY <1>2, TypeParts DEF Held, Typed
<1>4. ASSUME ~opt.minutes, ~opt.lock, AtStage', path'.symbol \in Held, Risk < Liq
      PROVE  Guarded(positions[path'.symbol], path'.stages)
  <2>1. path' = [symbol |-> s, stages |-> Stages(s, c)] /\ Stages(s, c) # <<>>
    BY <1>1, <1>4 DEF AtStage, Idle
  <2>2. path'.symbol = s /\ path'.stages = Stages(s, c) /\ s \in Held
    BY <1>4, <2>1
  <2>3. Stages(s, c) = Path(s, c)
    BY <1>2, <1>3, <1>4, <2>1, <2>2 DEF Stages, PathsGuarded, Accounts
  <2>4. Shape(positions[s])
    BY <1>4, <2>2 DEF PathsGuarded
  <2> QED
    BY <1>4, <2>2, <2>3, <2>4, PathGuarded
<1> QED
  BY <1>2, <1>3, <1>4 DEF PathsGuarded, StopsAhead

\* Every step keeps the paths guarded.
LEMMA StepGuarded ==
    ASSUME Typed, PathsGuarded, [Next]_vars
    PROVE  PathsGuarded'
<1>1. positions' = positions => \A r \in Held' : r \in Held /\ positions'[r] = positions[r]
  BY DEF Held
<1>2. ASSUME NEW s \in Symbols, StartSymbol(s)
      PROVE  PathsGuarded'
  BY <1>2, StartSymbolGuarded
<1>3. ASSUME NEW s \in Symbols, NoCandle(s)
      PROVE  PathsGuarded'
  <2>1. UNCHANGED <<opt, step, path, positions>> /\ ~AtStage /\ step = "update"
    BY <1>3 DEF NoCandle, account
  <2> QED
    BY <1>1, <2>1, AsideGuarded DEF AtStage
<1>4. CASE StageAction
  BY <1>4, StageGuarded
<1>5. CASE Done \/ UNCHANGED vars
  <2>1. UNCHANGED <<opt, step, path, positions>>
    BY <1>5 DEF Done, vars, account
  <2>2. Held' = Held /\ AtStage' = AtStage /\ \A s \in Held : StopsAhead(s)' = StopsAhead(s)
    BY <2>1 DEF Held, AtStage, StopsAhead
  <2> QED
    BY <2>1, <2>2 DEF PathsGuarded
<1>6. CASE NextBar
  <2>1. UNCHANGED <<opt, path, positions>> /\ step = "bar" /\ step' = "update"
    BY <1>6 DEF NextBar
  <2>2. ~AtStage'
    BY <2>1 DEF AtStage, Typed, Looping, Walking
  <2> QED
    BY <1>1, <2>1, <2>2, AsideGuarded
<1>7. CASE TellOfBar
  <2>1. UNCHANGED <<opt, positions>> /\ step' = IF opt.minutes THEN "minutes" ELSE "signals"
    BY <1>7 DEF TellOfBar
  <2> QED
    BY <1>1, <2>1, AsideGuarded
<1>8. CASE StartMinute \/ SkipMinute \/ EndMinute \/ TellOfMinutes
  <2>1. opt' = opt /\ positions' = positions /\ step \in {"minute", "minutes"}
    BY <1>8 DEF StartMinute, SkipMinute, EndMinute, TellOfMinutes, account
  <2>2. opt.minutes
    BY <2>1 DEF PathsGuarded
  <2> QED
    BY <1>1, <2>1, <2>2, AsideGuarded
<1>9. CASE CloseNext
  <2>1. PICK x \in closing : /\ positions' = [positions EXCEPT ![x.symbol] = None]
                             /\ UNCHANGED <<opt, step>>
    BY <1>9 DEF CloseNext, Close
  <2>2. step \in Leaving
    BY <2>1 DEF Typed, Looping
  <2>3. \A r \in Held' : r \in Held /\ positions'[r] = positions[r]
    BY <2>1, TypeParts DEF Typed, Accounts, Held
  <2>4. step' # "update" /\ (step' \in {"minute", "minutes"} => opt.minutes)
    BY <2>1, <2>2 DEF PathsGuarded, Leaving
  <2> QED
    BY <2>1, <2>3, <2>4, AsideGuarded
<1>10. CASE SignalsArrive \/ PlaceNext \/ EndBar \/ EndOfData \/ Batch
  <2>1. opt' = opt /\ step' \notin {"minute", "minutes", "update"}
    BY <1>10 DEF SignalsArrive, PlaceNext, EndBar, EndOfData, Batch
  <2>2. positions' = positions
    BY <1>10 DEF SignalsArrive, PlaceNext, EndBar, EndOfData, Batch, Admit, Recycle, KeepsAll, account
  <2> QED
    BY <1>1, <2>1, <2>2, AsideGuarded
<1> QED
  BY <1>2, <1>3, <1>4, <1>5, <1>6, <1>7, <1>8, <1>9, <1>10 DEF Next, StageAction

\* The last trade of the list is the one a step adds.
LEMMA LastListed ==
    ASSUME Typed, step \in {"update"} \cup Leaving, NEW reason \in Reason, trades' = Recorded(reason)
    PROVE  trades'[Len(trades')].reason = reason
<1> DEFINE t == [at |-> Clock, reason |-> reason, by |-> step, told |-> 0]
<1>1. Accounts /\ Clock \in Nat
  BY TypeParts, ClockInBar DEF Typed, Looping
<1>2. t \in Trade
  BY <1>1 DEF Trade, Leaving
<1>3. t.reason = reason
  OBVIOUS
<1>4. trades' = Append(trades, t)
  BY DEF Recorded
<1> HIDE DEF t
<1> QED
  BY <1>1, <1>2, <1>3, <1>4, TradeType, AppendProperties

\* Nothing but a stage of the replay lists a trade while a bar is replayed.
LEMMA ListsLiquidation ==
    ASSUME Typed, Next, step = "update", Len(trades') > Len(trades),
           trades'[Len(trades')].reason = "LIQUIDATION"
    PROVE  Liquidated
<1>1. Len(trades) \in Nat /\ Accounts
  BY TradeType, TypeParts DEF Typed
<1>2. trades' # trades /\ ~(Len(trades') = Len(trades))
  BY <1>1
<1>3. \A reason \in Reason : trades' = Recorded(reason) => reason = "LIQUIDATION"
  BY LastListed
<1>4. {"STOP", "TIME_EXIT", "HARD_CAP", "AUTO_CLOSE", "AUTO_CLOSE_PARTIAL", "TAKE_PROFIT"} \subseteq Reason
  BY DEF Reason
<1>5. ~Stopped
  BY <1>3, <1>4 DEF Stopped, Close
<1>6. ~AutoClosed
  BY <1>3, <1>4 DEF AutoClosed, Close, TakePart
<1>7. ~TookProfit
  BY <1>3, <1>4 DEF TookProfit, TakePart
<1>8. ~Holds
  BY <1>2 DEF Holds
<1>9. ~(CancelOrder \/ FillOrder \/ OrderWaits)
  BY <1>2 DEF CancelOrder, FillOrder, OrderWaits, Fill
<1>10. ~TellOfBar
  <2>1. ASSUME TellOfBar PROVE FALSE
    <3>1. Telling({i \in DOMAIN trades : trades[i].at = Clock})
      BY <2>1, TellingOfBar
    <3>2. Len(trades') = Len(trades)
      BY <1>1, <3>1, TellingType
    <3> QED
      BY <1>2, <3>2
  <2> QED
    BY <2>1
<1>11. ~CloseNext
  BY DEF CloseNext, Typed, Looping, Leaving
<1>12. ~(\E s \in Symbols : StartSymbol(s) \/ NoCandle(s))
  BY <1>2 DEF StartSymbol, NoCandle, account
<1>13. ~(NextBar \/ StartMinute \/ SkipMinute \/ EndMinute \/ TellOfMinutes \/ SignalsArrive
         \/ Batch \/ PlaceNext \/ EndBar \/ EndOfData \/ Done)
  BY DEF NextBar, StartMinute, SkipMinute, EndMinute, TellOfMinutes, SignalsArrive, Batch,
         PlaceNext, EndBar, EndOfData, Done
<1> QED
  BY <1>5, <1>6, <1>7, <1>8, <1>9, <1>10, <1>11, <1>12, <1>13 DEF Next

\* What a guarded path says of a liquidation at its first price.
LEMMA LiquidatedLate ==
    ASSUME Typed, PathsGuarded, Liquidated, step = "update",
           ~opt.closeOnly, ~opt.lock, Risk < Liq
    PROVE  LET p == positions[path.symbol]
           IN \/ Stage = "OPEN"
              \/ Stage = "HIGH" /\ p.side = "SHORT"
              \/ p.hits > 0 /\ p.stop < Buffer
<1>1. PICK p : p = positions[path.symbol]
  OBVIOUS
<1>2. AtStage /\ path.symbol \in Held /\ Verdict(p, Gain(p, Price)) = "LIQUIDATION"
  BY <1>1 DEF Liquidated, PositionStage
<1>3. ~opt.minutes
  BY <1>2, UncoveredVerdict
<1>4. Gain(p, Price) <= -Liq
  BY <1>2, <1>3, BarVerdict
<1>5. Guarded(p, path.stages)
  BY <1>1, <1>2, <1>3 DEF PathsGuarded, StopsAhead
<1>6. Len(path.stages) \in Nat \ {0} /\ path.stages[1] = Head(path.stages)
  BY <1>2, StageType, EmptySeq, LenProperties DEF AtStage
<1>7. Fatal(p, path.stages[1]) /\ 1 \in 1 .. Len(path.stages)
  BY <1>4, <1>6 DEF Fatal, Price
<1>8. Preceded(p, path.stages, 1)
  BY <1>5, <1>7 DEF Guarded
<1>9. Excepted(p, path.stages[1]) \/ Missed(p, path.stages, 1)
  BY <1>8 DEF Preceded
<1> QED
  BY <1>1, <1>6, <1>9 DEF Excepted, Missed, Stage

\* In the replay of a bar a position is liquidated before its stop applies only in the three
\* ways the property names, whatever the candles and the settings: the checkpoint of the stop
\* comes before every price at which the margin is used up, and a stage that leaves the
\* position open either leaves the stop where that checkpoint still meets it, or moves it on.
THEOREM StoppedBeforeLiquidated == Spec => StopBeforeLiquidation
<1>1. Init => Typed /\ PathsGuarded
  BY InitTyped DEF Init, PathsGuarded, Held, Unknown
<1>2. Typed /\ PathsGuarded /\ [Next]_vars => Typed' /\ PathsGuarded'
  BY StepTyped, StepGuarded
<1>3. Typed /\ PathsGuarded /\ [Next]_vars =>
        [Len(trades') > Len(trades) /\ trades'[Len(trades')].reason = "LIQUIDATION"
           /\ step = "update" /\ ~opt.closeOnly /\ ~opt.lock /\ Risk < Liq
         => LET p == positions[path.symbol] IN
            \/ Stage = "OPEN"
            \/ Stage = "HIGH" /\ p.side = "SHORT"
            \/ p.hits > 0 /\ p.stop < Buffer]_vars
  BY ListsLiquidation, LiquidatedLate
<1> QED
  BY <1>1, <1>2, <1>3, PTL DEF Spec, StopBeforeLiquidation
================================================================================
