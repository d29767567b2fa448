---------------------------- MODULE TaskMoneyProofs ----------------------------
(***************************************************************************)
(* Proofs about one task's money, for every set of decreases, every price, *)
(* fee and limit and any number of corrections: refunds and reimbursement  *)
(* stay within what the customer paid, a receipt is recorded once, what    *)
(* was decided stays decided and every view of the rows agrees with them.  *)
(*                                                                         *)
(* The rows carry the induction: a payout is traced through its            *)
(* corrections, the latest of which says what a query reads of it, and a   *)
(* line's feed balances (Traced, SentLatest, Balanced; ReviewRows and      *)
(* LineRows).  Sums are folds over finite sets, reasoned about by          *)
(* induction over subsets.                                                 *)
(*                                                                         *)
(* At the end PriceChanges, the agreement of the price all this starts     *)
(* from: what was agreed is what is charged, and a request is decided once.*)
(***************************************************************************)
EXTENDS TaskMoney, AgreedPrice, FiniteSetTheorems, SequenceTheorems, WellFoundedInduction, TLAPS

\* Induction over the subsets of a finite set: a smallest subset outside F
\* would have all its proper subsets in F.
LEMMA SubsetInduction ==
    ASSUME NEW D, IsFiniteSet(D), NEW F,
           \A T \in SUBSET D : (\A U \in SUBSET T : U # T => U \in F) => T \in F
    PROVE  SUBSET D \subseteq F
<1> SUFFICES ASSUME NEW B \in SUBSET D, B \notin F PROVE FALSE
    OBVIOUS
<1> DEFINE Bad == {T \in SUBSET D : T \notin F}
<1>1. IsWellFoundedOn(StrictSubsetOrdering(D), FiniteSubsetsOf(D))
  BY FS_StrictSubsetOrderingWellFounded
<1>2. Bad \subseteq FiniteSubsetsOf(D) /\ Bad # {}
  BY FS_Subset DEF FiniteSubsetsOf
<1> HIDE DEF Bad
<1>3. PICK T \in Bad : \A U \in Bad : ~(<<U, T>> \in StrictSubsetOrdering(D))
  BY <1>1, <1>2, WFMin
<1> USE DEF Bad
<1>4. \A U \in SUBSET T : U # T => U \in F
  <2> SUFFICES ASSUME NEW U \in SUBSET T, U # T, U \notin F PROVE FALSE
      OBVIOUS
  <2>1. U \in Bad /\ T \in SUBSET D
    OBVIOUS
  <2>2. <<U, T>> \in StrictSubsetOrdering(D)
    BY <2>1 DEF StrictSubsetOrdering
  <2> QED
    BY <1>3, <2>1, <2>2
<1> QED
  BY <1>4

-----------------------------------------------------------------------------
(* A fold over the subsets of a finite set: it has one function of parts. *)

\* The fold of base over D, element by element, by the recursion the community
\* modules define folds with.
Fold(g, D, base, step, pick) ==
    g = [s \in SUBSET D |-> IF s = {} THEN base ELSE step[<<g[s \ {pick[s]}], pick[s]>>]]

\* Two functions that satisfy the recursion of a fold are the same one.
LEMMA FoldUnique ==
    ASSUME NEW T, NEW U, IsFiniteSet(T), NEW base, NEW step, NEW pick,
           \A s \in SUBSET T : s # {} => pick[s] \in s,
           NEW g, NEW h, Fold(g, T, base, step, pick), Fold(h, U, base, step, pick),
           NEW s \in SUBSET T, s \subseteq U
    PROVE  g[s] = h[s]
<1>0. PICK D : D = T \cap U
  OBVIOUS
<1> DEFINE F == {w \in SUBSET D : g[w] = h[w]}
<1>1. IsFiniteSet(D)
  BY <1>0, FS_Subset
<1>2. ASSUME NEW w \in SUBSET D, \A u \in SUBSET w : u # w => u \in F
      PROVE  w \in F
  <2>1. w # {} => w \ {pick[w]} \in F
    BY <1>0, <1>2
  <2>2. /\ g[w] = IF w = {} THEN base ELSE step[<<g[w \ {pick[w]}], pick[w]>>]
        /\ h[w] = IF w = {} THEN base ELSE step[<<h[w \ {pick[w]}], pick[w]>>]
    BY <1>0 DEF Fold
  <2> QED
    BY <1>0, <2>1, <2>2
<1> HIDE DEF F
<1>3. SUBSET D \subseteq F
  BY <1>1, <1>2, SubsetInduction
<1> QED
  BY <1>0, <1>3 DEF F

\* There is such a function: the union of the folds over the proper subsets.
LEMMA FoldExists ==
    ASSUME NEW D, IsFiniteSet(D), NEW V, NEW base \in V, NEW step \in [V \X D -> V],
           NEW pick, \A s \in SUBSET D : s # {} => pick[s] \in s
    PROVE  \E g \in [SUBSET D -> V] : Fold(g, D, base, step, pick)
<1> DEFINE F == {T \in SUBSET D : \E g \in [SUBSET T -> V] : Fold(g, T, base, step, pick)}
<1>1. ASSUME NEW T \in SUBSET D, \A U \in SUBSET T : U # T => U \in F
      PROVE  T \in F
  <2> DEFINE Part(U) == CHOOSE g \in [SUBSET U -> V] : Fold(g, U, base, step, pick)
             rest(s) == s \ {pick[s]}
             g == [s \in SUBSET T |-> IF s = {} THEN base
                                      ELSE step[<<Part(rest(s))[rest(s)], pick[s]>>]]
  <2>1. ASSUME NEW U \in SUBSET T, U # T
        PROVE  Part(U) \in [SUBSET U -> V] /\ Fold(Part(U), U, base, step, pick)
    <3>1. \E k \in [SUBSET U -> V] : Fold(k, U, base, step, pick)
      BY <1>1, <2>1
    <3> QED
      BY <3>1
  <2>2. ASSUME NEW s \in SUBSET T, s # {}
        PROVE  /\ pick[s] \in s /\ rest(s) \in SUBSET T /\ rest(s) # T
               /\ rest(s) \subseteq s /\ pick[s] \in D
    BY <2>2
  <2> HIDE DEF Part, rest
  <2>3. ASSUME NEW s \in SUBSET T, s # {} PROVE Part(rest(s))[rest(s)] \in V
    <3>1. rest(s) \in SUBSET T /\ rest(s) # T
      BY <2>2, <2>3
    <3>2. Part(rest(s)) \in [SUBSET rest(s) -> V]
      BY <2>1, <3>1
    <3> QED
      BY <3>2
  <2>4. g \in [SUBSET T -> V]
    <3> SUFFICES ASSUME NEW s \in SUBSET T PROVE g[s] \in V
        OBVIOUS
    <3>1. CASE s = {}
      BY <3>1
    <3>2. CASE s # {}
      BY <2>2, <2>3, <3>2
    <3> QED
      BY <3>1, <3>2
  <2>5. ASSUME NEW u \in SUBSET T, u # T PROVE g[u] = Part(u)[u]
    <3>1. Part(u)[u] = IF u = {} THEN base ELSE step[<<Part(u)[rest(u)], pick[u]>>]
      <4>1. PICK k : k = Part(u)
        OBVIOUS
      <4>2. Fold(k, u, base, step, pick)
        BY <2>1, <2>5, <4>1
      <4>3. k = [s \in SUBSET u |-> IF s = {} THEN base ELSE step[<<k[rest(s)], pick[s]>>]]
        BY <4>2 DEF Fold, rest
      <4> QED
        BY <4>1, <4>3
    <3>2. ASSUME u # {} PROVE Part(u)[rest(u)] = Part(rest(u))[rest(u)]
      <4>1. /\ Fold(Part(u), u, base, step, pick) /\ Fold(Part(rest(u)), rest(u), base, step, pick)
            /\ IsFiniteSet(u) /\ rest(u) \subseteq u /\ \A s \in SUBSET u : s # {} => pick[s] \in s
        BY <2>1, <2>2, <2>5, <3>2, FS_Subset
      <4> QED
        BY <4>1, FoldUnique
    <3> QED
      BY <3>1, <3>2
  <2>6. Fold(g, T, base, step, pick)
    <3>1. ASSUME NEW s \in SUBSET T, s # {}
          PROVE  g[s] = step[<<g[rest(s)], pick[s]>>]
      BY <2>2, <2>5, <3>1
    <3>2. g = [s \in SUBSET T |-> IF s = {} THEN base ELSE step[<<g[rest(s)], pick[s]>>]]
      BY <3>1
    <3> QED
      BY <3>2 DEF Fold, rest
  <2> QED
    BY <2>4, <2>6
<1> HIDE DEF F
<1>2. SUBSET D \subseteq F
  BY <1>1, SubsetInduction
<1> QED
  BY <1>2 DEF F

-----------------------------------------------------------------------------
(* Sums over a finite set. *)

\* The element a sum over a set takes first.
SomeOf(s) == CHOOSE x \in s : TRUE

\* The sums of f over the parts of T.
Parts(g, f, T) ==
    g = [s \in SUBSET T |-> IF s = {} THEN 0 ELSE f[SomeOf(s)] + g[s \ {SomeOf(s)}]]

\* A finite set has its partial sums.
LEMMA PartsExist ==
    ASSUME NEW D, IsFiniteSet(D), NEW f \in [D -> Int], NEW T \in SUBSET D
    PROVE  \E g \in [SUBSET T -> Int] : Parts(g, f, T)
<1> DEFINE pick == [s \in SUBSET T |-> SomeOf(s)]
           step == [p \in Int \X T |-> f[p[2]] + p[1]]
<1>1. \A s \in SUBSET T : s # {} => SomeOf(s) \in s /\ pick[s] = SomeOf(s)
  BY DEF SomeOf
<1>2. IsFiniteSet(T) /\ step \in [Int \X T -> Int] /\ \A m \in Int, x \in T : step[<<m, x>>] = f[x] + m
  BY FS_Subset
<1> HIDE DEF pick, step
<1>3. PICK g \in [SUBSET T -> Int] : Fold(g, T, 0, step, pick)
  <2>1. \A s \in SUBSET T : s # {} => pick[s] \in s
    BY <1>1
  <2>2. 0 \in Int
    OBVIOUS
  <2> QED
    BY <1>2, <2>1, <2>2, FoldExists
<1>4. ASSUME NEW s \in SUBSET T, s # {}
      PROVE  step[<<g[s \ {pick[s]}], pick[s]>>] = f[SomeOf(s)] + g[s \ {SomeOf(s)}]
  BY <1>1, <1>2, <1>4
<1>5. g = [s \in SUBSET T |-> IF s = {} THEN 0 ELSE f[SomeOf(s)] + g[s \ {SomeOf(s)}]]
  BY <1>3, <1>4 DEF Fold
<1> QED
  BY <1>5 DEF Parts

\* The community module sums f over T with them.
LEMMA SumOfParts ==
    ASSUME NEW f, NEW T
    PROVE  SumFunctionOnSet(f, T) = (CHOOSE g : Parts(g, f, T))[T]
BY DEF SumFunctionOnSet, FoldFunctionOnSet, MapThenFoldSet, Parts, SomeOf

\* They are determined by f and T.
LEMMA PartsUnique ==
    ASSUME NEW T, IsFiniteSet(T), NEW f, NEW g, NEW h, NEW U,
           Parts(g, f, T), Parts(h, f, U), NEW s \in SUBSET T, s \subseteq U
    PROVE  g[s] = h[s]
<1>0. PICK C : C = T \cap U
  OBVIOUS
<1> DEFINE F == {w \in SUBSET C : g[w] = h[w]}
<1>1. IsFiniteSet(C) /\ s \in SUBSET C
  BY <1>0, FS_Subset
<1>2. ASSUME NEW w \in SUBSET C, \A u \in SUBSET w : u # w => u \in F
      PROVE  w \in F
  <2>1. w # {} => SomeOf(w) \in w
    BY DEF SomeOf
  <2>2. w # {} => w \ {SomeOf(w)} \in F
    BY <1>0, <1>2, <2>1
  <2>3. /\ g[w] = IF w = {} THEN 0 ELSE f[SomeOf(w)] + g[w \ {SomeOf(w)}]
        /\ h[w] = IF w = {} THEN 0 ELSE f[SomeOf(w)] + h[w \ {SomeOf(w)}]
    BY <1>0 DEF Parts
  <2> QED
    BY <2>2, <2>3
<1> HIDE DEF F
<1>3. SUBSET C \subseteq F
  BY <1>1, <1>2, SubsetInduction
<1>4. s \in F
  BY <1>1, <1>3
<1> QED
  BY <1>4 DEF F

\* A set that is not empty has that element.
LEMMA SomeOfIn == \A s : s # {} => SomeOf(s) \in s
BY DEF SomeOf

\* A sum over a set is an element taken first and the sum of the others.
LEMMA SumStep ==
    ASSUME NEW D, IsFiniteSet(D), NEW f \in [D -> Int]
    PROVE  /\ SumFunctionOnSet(f, {}) = 0
           /\ \A T \in SUBSET D :
                  /\ SumFunctionOnSet(f, T) \in Int
                  /\ T # {} => SumFunctionOnSet(f, T)
                               = f[SomeOf(T)] + SumFunctionOnSet(f, T \ {SomeOf(T)})
<1> DEFINE part(T) == CHOOSE g : Parts(g, f, T)
<1>1. ASSUME NEW T \in SUBSET D PROVE Parts(part(T), f, T)
  <2>1. \E g : Parts(g, f, T)
    BY PartsExist
  <2> QED
    BY <2>1
<1>2. ASSUME NEW T \in SUBSET D, NEW g, Parts(g, f, T), NEW U \in SUBSET T
      PROVE  g[U] = part(U)[U]
  <2>1. Parts(part(U), f, U) /\ IsFiniteSet(T) /\ U \in SUBSET T
    BY <1>1, FS_Subset
  <2> HIDE DEF part
  <2> QED
    BY <1>2, <2>1, PartsUnique
<1>3. ASSUME NEW T \in SUBSET D PROVE SumFunctionOnSet(f, T) = part(T)[T]
  BY SumOfParts
<1>4. ASSUME NEW T \in SUBSET D PROVE part(T)[T] \in Int
  <2>1. PICK g \in [SUBSET T -> Int] : Parts(g, f, T)
    BY PartsExist
  <2>2. part(T)[T] = g[T]
    BY <1>2, <2>1
  <2> QED
    BY <2>1, <2>2
<1>5. ASSUME NEW T \in SUBSET D
      PROVE  part(T)[T] = IF T = {} THEN 0 ELSE f[SomeOf(T)] + part(T)[T \ {SomeOf(T)}]
  <2>1. PICK g : g = part(T) /\ Parts(g, f, T)
    BY <1>1
  <2> QED
    BY <2>1 DEF Parts
<1>6. ASSUME NEW T \in SUBSET D, T # {}
      PROVE  part(T)[T \ {SomeOf(T)}] = part(T \ {SomeOf(T)})[T \ {SomeOf(T)}]
  <2>1. T \ {SomeOf(T)} \in SUBSET T
    OBVIOUS
  <2> QED
    BY <1>1, <1>2, <2>1
<1> HIDE DEF part
<1> QED
  BY <1>3, <1>4, <1>5, <1>6

\* One term taken out of a sum.
LEMMA SumSplit ==
    ASSUME NEW D, IsFiniteSet(D), NEW f \in [D -> Int], NEW T \in SUBSET D, NEW x \in T
    PROVE  /\ SumFunctionOnSet(f, T) = f[x] + SumFunctionOnSet(f, T \ {x})
           /\ SumFunctionOnSet(f, T \ {x}) \in Int /\ f[x] \in Int
<1> DEFINE S(U) == SumFunctionOnSet(f, U)
           F == {U \in SUBSET D : \A y \in U : S(U) = f[y] + S(U \ {y})}
<1>1. \A U \in SUBSET D :
          S(U) \in Int /\ (U # {} => SomeOf(U) \in U /\ S(U) = f[SomeOf(U)] + S(U \ {SomeOf(U)}))
  <2>1. \A U \in SUBSET D : S(U) \in Int /\ (U # {} => S(U) = f[SomeOf(U)] + S(U \ {SomeOf(U)}))
    BY SumStep
  <2> QED
    BY <2>1, SomeOfIn
<1> HIDE DEF S
<1>2. ASSUME NEW U \in SUBSET D, \A W \in SUBSET U : W # U => W \in F
      PROVE  U \in F
  <2> SUFFICES ASSUME NEW y \in U PROVE S(U) = f[y] + S(U \ {y})
      OBVIOUS
  <2> DEFINE c == SomeOf(U)
  <2>1. c \in U /\ S(U) = f[c] + S(U \ {c}) /\ f[c] \in Int /\ f[y] \in Int
    BY <1>1
  <2> HIDE DEF c
  <2>2. ASSUME y # c PROVE S(U) = f[y] + S(U \ {y})
    <3>1. S(U \ {c}) = f[y] + S((U \ {c}) \ {y})
      BY <1>2, <2>1, <2>2
    <3>2. S(U \ {y}) = f[c] + S((U \ {y}) \ {c})
      BY <1>2, <2>1, <2>2
    <3>3. (U \ {c}) \ {y} = (U \ {y}) \ {c}
      OBVIOUS
    <3>4. PICK m \in Int : m = S((U \ {c}) \ {y})
      BY <1>1
    <3>5. S(U) = f[c] + (f[y] + m) /\ S(U \ {y}) = f[c] + m
      BY <2>1, <3>1, <3>2, <3>3, <3>4
    <3>6. PICK a \in Int, b \in Int : a = f[c] /\ b = f[y]
      BY <2>1
    <3>7. a + (b + m) = b + (a + m)
      OBVIOUS
    <3> QED
      BY <3>5, <3>6, <3>7
  <2> QED
    BY <2>1, <2>2
<1> HIDE DEF F
<1>3. SUBSET D \subseteq F
  BY <1>2, SubsetInduction
<1> QED
  BY <1>1, <1>3 DEF F, S

\* Sums over the same set compare as their terms do.
LEMMA SumCompare ==
    ASSUME NEW D, IsFiniteSet(D), NEW f \in [D -> Int], NEW E, IsFiniteSet(E), NEW h \in [E -> Int],
           NEW T \in SUBSET D, T \subseteq E
    PROVE  /\ (\A x \in T : f[x] <= h[x]) => SumFunctionOnSet(f, T) <= SumFunctionOnSet(h, T)
           /\ (\A x \in T : f[x] = h[x]) => SumFunctionOnSet(f, T) = SumFunctionOnSet(h, T)
<1> DEFINE S(U) == SumFunctionOnSet(f, U)
           R(U) == SumFunctionOnSet(h, U)
           F == {U \in SUBSET T :
                    /\ (\A x \in U : f[x] <= h[x]) => S(U) <= R(U)
                    /\ (\A x \in U : f[x] = h[x]) => S(U) = R(U)}
<1>1. /\ S({}) = 0 /\ R({}) = 0
      /\ \A U \in SUBSET T :
          /\ S(U) \in Int /\ R(U) \in Int
          /\ U # {} => /\ SomeOf(U) \in U
                       /\ S(U) = f[SomeOf(U)] + S(U \ {SomeOf(U)})
                       /\ R(U) = h[SomeOf(U)] + R(U \ {SomeOf(U)})
  BY SumStep, SomeOfIn
<1> HIDE DEF S, R
<1>2. ASSUME NEW U \in SUBSET T, \A W \in SUBSET U : W # U => W \in F
      PROVE  U \in F
  <2>1. CASE U = {}
    BY <1>1, <2>1
  <2>2. CASE U # {}
    <3>1. PICK c \in U : S(U) = f[c] + S(U \ {c}) /\ R(U) = h[c] + R(U \ {c})
      BY <1>1, <2>2
    <3>2. U \ {c} \in F
      BY <1>2, <3>1
    <3>3. PICK m \in Int, n \in Int : m = S(U \ {c}) /\ n = R(U \ {c})
      BY <1>1
    <3>4. f[c] \in Int /\ h[c] \in Int
      OBVIOUS
    <3> QED
      BY <3>1, <3>2, <3>3, <3>4
  <2> QED
    BY <2>1, <2>2
<1> HIDE DEF F
<1>3. IsFiniteSet(T)
  BY FS_Subset
<1>4. SUBSET T \subseteq F
  BY <1>2, <1>3, SubsetInduction
<1>5. T \in F
  BY <1>4
<1> QED
  BY <1>5 DEF F, S, R

\* Zeros sum to zero.
LEMMA ZeroSum ==
    ASSUME NEW D, IsFiniteSet(D), NEW f \in [D -> Int], NEW T \in SUBSET D, \A x \in T : f[x] = 0
    PROVE  SumFunctionOnSet(f, T) = 0
<1> DEFINE F == {U \in SUBSET T : SumFunctionOnSet(f, U) = 0}
<1>1. ASSUME NEW U \in SUBSET T, \A W \in SUBSET U : W # U => W \in F
      PROVE  U \in F
  <2>1. CASE U = {}
    BY <2>1, SumStep
  <2>2. CASE U # {}
    <3>1. PICK c \in U : SumFunctionOnSet(f, U) = f[c] + SumFunctionOnSet(f, U \ {c})
      <4>1. SomeOf(U) \in U /\ U \in SUBSET D
        BY <2>2, SomeOfIn
      <4> QED
        BY <2>2, <4>1, SumStep
    <3>2. f[c] = 0 /\ SumFunctionOnSet(f, U \ {c}) = 0
      BY <1>1, <3>1
    <3> QED
      BY <3>1, <3>2
  <2> QED
    BY <2>1, <2>2
<1> HIDE DEF F
<1>2. IsFiniteSet(T)
  BY FS_Subset
<1>3. SUBSET T \subseteq F
  BY <1>1, <1>2, SubsetInduction
<1>4. T \in F
  BY <1>3
<1> QED
  BY <1>4 DEF F

\* Natural numbers sum to a natural number.
LEMMA SumNat ==
    ASSUME NEW D, IsFiniteSet(D), NEW f \in [D -> Nat], NEW T \in SUBSET D
    PROVE  SumFunctionOnSet(f, T) \in Nat
<1>1. PICK zero : zero = [x \in D |-> 0]
  OBVIOUS
<1>2. zero \in [D -> Int] /\ f \in [D -> Int] /\ \A x \in T : zero[x] = 0 /\ zero[x] <= f[x]
  BY <1>1
<1>3. SumFunctionOnSet(zero, T) = 0
  BY <1>2, ZeroSum
<1>4. SumFunctionOnSet(zero, T) <= SumFunctionOnSet(f, T)
  BY <1>2, SumCompare
<1>5. SumFunctionOnSet(f, T) \in Int
  BY <1>2, SumStep
<1> QED
  BY <1>3, <1>4, <1>5

-----------------------------------------------------------------------------
(* The payout after its corrections. *)

\* The maximum of a nonempty set of positions is one of them and above all.
MaxOf(n) == \A s \in SUBSET (1..n) : s # {} => Max(s) \in s /\ \A y \in s : Max(s) >= y

\* A set of positions of a sequence has its maximum.
LEMMA MaxIn == ASSUME NEW n \in Nat PROVE MaxOf(n)
<1>0. PICK D : D = 1..n
  OBVIOUS
<1> DEFINE F == {s \in SUBSET D : s # {} => \E x \in s : \A y \in s : x >= y}
<1>1. ASSUME NEW s \in SUBSET D, \A u \in SUBSET s : u # s => u \in F
      PROVE  s \in F
  <2> SUFFICES ASSUME NEW x \in s PROVE \E m \in s : \A y \in s : m >= y
      OBVIOUS
  <2>0. \A y \in s : y \in Int
    BY <1>0
  <2>1. s \ {x} \in F
    BY <1>1
  <2>2. CASE s \ {x} = {}
    <3>1. \A y \in s : x >= y
      BY <2>0, <2>2
    <3> QED
      BY <3>1
  <2>3. CASE s \ {x} # {}
    <3>1. PICK m \in s : \A y \in s \ {x} : m >= y
      BY <2>1, <2>3
    <3>2. CASE m >= x
      BY <3>1, <3>2
    <3>3. CASE x >= m
      <4>1. \A y \in s : x >= y
        BY <2>0, <3>1, <3>3
      <4> QED
        BY <4>1
    <3> QED
      BY <2>0, <3>2, <3>3
  <2> QED
    BY <2>2, <2>3
<1> HIDE DEF F
<1>2. IsFiniteSet(D)
  BY <1>0, FS_Interval
<1>3. SUBSET D \subseteq F
  BY <1>1, <1>2, SubsetInduction
<1>4. \A s \in SUBSET (1..n) : s # {} => \E x \in s : \A y \in s : x >= y
  BY <1>0, <1>3 DEF F
<1> QED
  BY <1>4 DEF MaxOf, Max

\* A payout as it stands.
Payouts == [state : {"sent", "reversed"}, amount : Nat, receipt : MaybeReceipt]

\* A correction as it is recorded, a payout sent again with its amount.
CorrectionRows ==
    {c \in [kind : Kinds, previous : Nat, amount : Nat \union {NoAmount}, receipt : MaybeReceipt] :
        c.kind = "resent" => c.amount # NoAmount}

\* A payout as it was first recorded.
FirstPayout(a, c) == [state |-> "sent", amount |-> a, receipt |-> c]

\* A correction of a payout leaves a payout.
LEMMA ApplyType ==
    ASSUME NEW a \in Nat, NEW p \in Payouts, NEW c \in CorrectionRows
    PROVE  Apply(a, p, c) \in Payouts
<1>1. c.kind \in {"corrected", "reversed", "resent"} /\ c.amount \in Nat \union {NoAmount}
      /\ c.receipt \in MaybeReceipt /\ (c.kind = "resent" => c.amount # NoAmount)
  BY DEF CorrectionRows, Kinds
<1>2. Or(c.amount, NoAmount, p.amount) \in Nat /\ Or(c.receipt, NoReceipt, p.receipt) \in MaybeReceipt
      /\ Or(c.amount, NoAmount, a) \in Nat
  BY <1>1 DEF Or, Payouts
<1>3. CASE c.kind = "corrected"
  <2> DEFINE row(n, r) == [state |-> p.state, amount |-> n, receipt |-> r]
             n == Or(c.amount, NoAmount, p.amount)  r == Or(c.receipt, NoReceipt, p.receipt)
  <2>1. p = row(p.amount, p.receipt)
    BY DEF Payouts
  <2>2. [row(p.amount, p.receipt) EXCEPT !.amount = n] = row(n, p.receipt)
    OBVIOUS
  <2>3. [row(n, p.receipt) EXCEPT !.receipt = r] = row(n, r)
    OBVIOUS
  <2>4. Apply(a, p, c) = [p EXCEPT !.amount = n, !.receipt = r]
    BY <1>3 DEF Apply
  <2>5. Apply(a, p, c) = row(n, r)
    BY <2>1, <2>2, <2>3, <2>4
  <2> QED
    BY <1>2, <2>5 DEF Payouts
<1>4. CASE c.kind = "reversed"
  BY <1>4 DEF Apply, Payouts, MaybeReceipt
<1>5. CASE c.kind = "resent"
  BY <1>1, <1>2, <1>5 DEF Apply, Payouts
<1> QED
  BY <1>1, <1>3, <1>4, <1>5

\* The payouts along the corrections q, the first one before any of them.
Trail(g, a, c, q) ==
    g = [s \in SUBSET DOMAIN q |-> IF s = {} THEN FirstPayout(a, c)
                                   ELSE Apply(a, g[s \ {Max(s)}], q[Max(s)])]

\* What is effectively sent is the last of the trail.
LEMMA EffectiveTrail ==
    ASSUME NEW a, NEW c, NEW q
    PROVE  Effective(a, c, q) = (CHOOSE g : Trail(g, a, c, q))[DOMAIN q]
BY DEF Effective, FoldLeft, MapThenFoldSet, Trail, FirstPayout

\* Any corrections have a trail.
LEMMA TrailExists ==
    ASSUME NEW a \in Nat, NEW c \in MaybeReceipt, NEW q \in Seq(CorrectionRows)
    PROVE  \E g \in [SUBSET DOMAIN q -> Payouts] : Trail(g, a, c, q)
<1>0. PICK D : D = DOMAIN q
  OBVIOUS
<1> DEFINE pick == [s \in SUBSET D |-> Max(s)]
           step == [p \in Payouts \X D |-> Apply(a, p[1], q[p[2]])]
<1>1. D = 1..Len(q) /\ Len(q) \in Nat /\ IsFiniteSet(D) /\ \A i \in D : q[i] \in CorrectionRows
  BY <1>0, LenProperties, ElementOfSeq, FS_Interval
<1>2. \A s \in SUBSET D : pick[s] = Max(s) /\ (s # {} => pick[s] \in s)
  BY <1>1, MaxIn DEF MaxOf
<1>3. step \in [Payouts \X D -> Payouts]
  BY <1>1, ApplyType
<1>4. \A p \in Payouts, i \in D : step[<<p, i>>] = Apply(a, p, q[i])
  OBVIOUS
<1>5. FirstPayout(a, c) \in Payouts
  BY DEF FirstPayout, Payouts
<1> HIDE DEF pick, step
<1>6. PICK g \in [SUBSET D -> Payouts] : Fold(g, D, FirstPayout(a, c), step, pick)
  BY <1>1, <1>2, <1>3, <1>5, FoldExists
<1>7. ASSUME NEW s \in SUBSET D, s # {}
      PROVE  step[<<g[s \ {pick[s]}], pick[s]>>] = Apply(a, g[s \ {Max(s)}], q[Max(s)])
  <2>1. PICK i \in D : i = pick[s] /\ i = Max(s)
    BY <1>2, <1>7
  <2>2. PICK p \in Payouts : p = g[s \ {i}]
    <3>1. s \ {i} \in SUBSET D
      OBVIOUS
    <3> QED
      BY <1>6, <3>1
  <2>3. step[<<p, i>>] = Apply(a, p, q[i])
    BY <1>4
  <2> QED
    BY <2>1, <2>2, <2>3
<1>8. g = [s \in SUBSET D |-> IF s = {} THEN FirstPayout(a, c) ELSE Apply(a, g[s \ {Max(s)}], q[Max(s)])]
  BY <1>6, <1>7 DEF Fold
<1> QED
  BY <1>0, <1>8 DEF Trail

\* The trails of two sequences agree as long as the sequences do.
LEMMA TrailUnique ==
    ASSUME NEW a, NEW c, NEW X, NEW q \in Seq(X), NEW r \in Seq(X),
           NEW n \in Nat, n <= Len(q), n <= Len(r), \A i \in 1..n : q[i] = r[i],
           NEW g, NEW h, Trail(g, a, c, q), Trail(h, a, c, r)
    PROVE  g[1..n] = h[1..n]
<1>0. PICK D : D = 1..n
  OBVIOUS
<1> DEFINE F == {s \in SUBSET D : g[s] = h[s]}
<1>1. /\ IsFiniteSet(D) /\ D \subseteq DOMAIN q /\ D \subseteq DOMAIN r
      /\ \A i \in D : q[i] = r[i]
  <2>1. DOMAIN q = 1..Len(q) /\ Len(q) \in Nat /\ DOMAIN r = 1..Len(r) /\ Len(r) \in Nat
    BY LenProperties
  <2>2. 1..n \subseteq DOMAIN q /\ 1..n \subseteq DOMAIN r
    BY <2>1
  <2>3. IsFiniteSet(1..n)
    BY FS_Interval
  <2> QED
    BY <1>0, <2>2, <2>3
<1>2. ASSUME NEW s \in SUBSET D, \A u \in SUBSET s : u # s => u \in F
      PROVE  s \in F
  <2>1. s # {} => Max(s) \in s
    BY <1>0, MaxIn DEF MaxOf
  <2>2. s # {} => s \ {Max(s)} \in F
    BY <1>2, <2>1
  <2>3. /\ g[s] = IF s = {} THEN FirstPayout(a, c) ELSE Apply(a, g[s \ {Max(s)}], q[Max(s)])
        /\ h[s] = IF s = {} THEN FirstPayout(a, c) ELSE Apply(a, h[s \ {Max(s)}], r[Max(s)])
    BY <1>1 DEF Trail
  <2>4. s # {} => q[Max(s)] = r[Max(s)]
    BY <1>1, <2>1
  <2> QED
    BY <2>2, <2>3, <2>4
<1> HIDE DEF F
<1>3. SUBSET D \subseteq F
  BY <1>1, <1>2, SubsetInduction
<1>4. D \in F
  BY <1>3
<1> QED
  BY <1>0, <1>4 DEF F

\* What is effectively sent is a payout.
LEMMA EffectiveType ==
    ASSUME NEW a \in Nat, NEW c \in MaybeReceipt, NEW q \in Seq(CorrectionRows)
    PROVE  /\ Effective(a, c, q) \in Payouts
           /\ q = <<>> => Effective(a, c, q) = FirstPayout(a, c)
<1>1. PICK g \in [SUBSET DOMAIN q -> Payouts] : Trail(g, a, c, q)
  BY TrailExists
<1>2. PICK h : h = (CHOOSE k : Trail(k, a, c, q)) /\ Trail(h, a, c, q)
  BY <1>1
<1>3. Len(q) \in Nat /\ DOMAIN q = 1..Len(q)
  BY LenProperties
<1>4. h[1..Len(q)] = g[1..Len(q)]
  <2>1. PICK n : n = Len(q)
    OBVIOUS
  <2>2. n \in Nat /\ n <= Len(q)
    BY <1>3, <2>1
  <2>3. g[1..n] = h[1..n]
    BY <1>1, <1>2, <2>2, TrailUnique
  <2> QED
    BY <2>1, <2>3
<1>5. Effective(a, c, q) = h[DOMAIN q]
  BY <1>2, EffectiveTrail
<1>6. Effective(a, c, q) \in Payouts
  BY <1>3, <1>4, <1>5
<1>7. ASSUME q = <<>> PROVE Effective(a, c, q) = FirstPayout(a, c)
  <2>1. DOMAIN q = {}
    BY <1>7
  <2>2. h[{}] = FirstPayout(a, c)
    BY <1>2, <2>1 DEF Trail
  <2> QED
    BY <1>5, <2>1, <2>2
<1> QED
  BY <1>6, <1>7

\* A correction is applied to the payout as it stands.
LEMMA EffectiveAppend ==
    ASSUME NEW a \in Nat, NEW c \in MaybeReceipt, NEW q \in Seq(CorrectionRows), NEW x \in CorrectionRows
    PROVE  Effective(a, c, Append(q, x)) = Apply(a, Effective(a, c, q), x)
<1>0. PICK r : r = Append(q, x)
  OBVIOUS
<1>1. /\ r \in Seq(CorrectionRows) /\ Len(q) \in Nat /\ Len(r) = Len(q) + 1
      /\ DOMAIN q = 1..Len(q) /\ DOMAIN r = 1..(Len(q) + 1)
      /\ r[Len(q) + 1] = x /\ \A i \in 1..Len(q) : r[i] = q[i]
  BY <1>0, AppendProperties, LenProperties
<1>2. PICK h : h = (CHOOSE k : Trail(k, a, c, q)) /\ Trail(h, a, c, q)
  BY TrailExists
<1>3. PICK g : g = (CHOOSE k : Trail(k, a, c, r)) /\ Trail(g, a, c, r)
  BY <1>1, TrailExists
<1>4. g[1..Len(q)] = h[1..Len(q)]
  BY <1>1, <1>2, <1>3, TrailUnique
<1>5. Max(DOMAIN r) = Len(q) + 1
  <2>1. /\ Max(DOMAIN r) \in DOMAIN r /\ \A y \in DOMAIN r : Max(DOMAIN r) >= y
    <3>1. PICK n \in Nat : n = Len(q) + 1
      BY <1>1
    <3>2. DOMAIN r \in SUBSET (1..n) /\ DOMAIN r # {}
      BY <1>1, <3>1
    <3>3. MaxOf(n)
      BY MaxIn
    <3> QED
      BY <3>2, <3>3 DEF MaxOf
  <2>2. Max(DOMAIN r) \in 1..(Len(q) + 1) /\ Max(DOMAIN r) >= Len(q) + 1
    BY <1>1, <2>1
  <2> QED
    BY <1>1, <2>2
<1>6. DOMAIN r # {} /\ DOMAIN r \ {Len(q) + 1} = 1..Len(q)
  BY <1>1
<1>7. g[DOMAIN r] = Apply(a, g[DOMAIN r \ {Max(DOMAIN r)}], r[Max(DOMAIN r)])
  BY <1>3, <1>6 DEF Trail
<1>8. Effective(a, c, r) = g[DOMAIN r] /\ Effective(a, c, q) = h[DOMAIN q]
  BY <1>2, <1>3, EffectiveTrail
<1> QED
  BY <1>0, <1>1, <1>4, <1>5, <1>6, <1>7, <1>8

-----------------------------------------------------------------------------
(* Rows with their corrections. *)

\* Rows by their fields.
ReviewRow(s, p, a, c, q) ==
    [status |-> s, paid |-> p, amount |-> a, receipt |-> c, corrections |-> q]

\* The same of a payout line.
LineRow(s, n, a, m, l, c, q) ==
    [status |-> s, requested |-> n, amount |-> a, cap |-> m, limit |-> l, receipt |-> c,
     corrections |-> q]

\* The payout p of corrections q: reversed by the latest of them or sent.
Traced(p, q) ==
    /\ p.state = "reversed" => p.amount = 0
    /\ p.state = "reversed" <=> q # <<>> /\ Last(q).kind = "reversed"

\* The corrections that have an amount.
WithAmount(q) == {i \in DOMAIN q : q[i].amount # NoAmount}

\* The amount of a payout that is not reversed is that of the latest correction
\* that has one.
SentLatest(a, p, q) ==
    p.state = "sent" => p.amount = IF WithAmount(q) = {} THEN a ELSE q[Max(WithAmount(q))].amount

\* What each correction adds to the feed.
Signs(q) == [i \in DOMAIN q |-> Signed(q[i])]

\* What the corrections of a line took back is what is not paid out of it.
Balanced(a, p, q) ==
    /\ p.amount <= a
    /\ SumFunction(Signs(q)) = a - p.amount

\* The rows of refund reviews: a payout only when refunded, and traced.
ReviewRows ==
    {r \in [status : {"none", "pending_review", "no_refund"} \union Committed, paid : Nat,
            amount : Nat, receipt : MaybeReceipt, corrections : Seq(CorrectionRows)] :
        /\ r.status = "refunded" <=> r.receipt # NoReceipt
        /\ r.status # "refunded" => r.corrections = <<>>
        /\ Traced(Payout(r), r.corrections)
        /\ SentLatest(r.amount, Payout(r), r.corrections)}

\* The rows of payout lines: a payout only when paid, traced and balanced.
LineRows ==
    {l \in [status : {"none", "on_hold", "payable", "paid", "rejected"}, requested : Nat,
            amount : Nat \union {NoAmount}, cap : Nat, limit : Nat, receipt : MaybeReceipt,
            corrections : Seq(CorrectionRows)] :
        /\ l.status \in {"payable", "paid"} => l.amount \in Nat
        /\ l.status = "paid" <=> l.receipt # NoReceipt
        /\ l.status # "paid" => l.corrections = <<>>
        /\ l.status = "paid" => /\ Traced(Payout(l), l.corrections)
                                /\ Balanced(l.amount, Payout(l), l.corrections)}

\* The last of a sequence an element is appended to.
LEMMA LastOfAppend ==
    ASSUME NEW X, NEW q \in Seq(X), NEW x \in X
    PROVE  Append(q, x) # <<>> /\ Last(Append(q, x)) = x
BY AppendProperties, LenProperties, EmptySeq DEF Last

\* A valid correction of a payout leaves it traced.
LEMMA TracedAppend ==
    ASSUME NEW a \in Nat, NEW c \in MaybeReceipt, NEW q \in Seq(CorrectionRows), NEW x \in CorrectionRows,
           Valid(x.kind, Effective(a, c, q), x.amount, x.receipt),
           Traced(Effective(a, c, q), q)
    PROVE  Traced(Effective(a, c, Append(q, x)), Append(q, x))
<1>1. PICK p \in Payouts : p = Effective(a, c, q)
  BY EffectiveType
<1>2. PICK z \in Payouts : z = Effective(a, c, Append(q, x)) /\ z = Apply(a, p, x)
  BY <1>1, ApplyType, EffectiveAppend
<1>3. Append(q, x) # <<>> /\ Last(Append(q, x)) = x
  BY LastOfAppend
<1>4. x.kind \in Kinds
  BY DEF CorrectionRows
<1>5. CASE x.kind = "reversed"
  BY <1>2, <1>3, <1>5 DEF Apply, Traced
<1>6. CASE x.kind = "resent"
  <2>1. z.state = "sent"
    BY <1>2, <1>6 DEF Apply
  <2> QED
    BY <1>2, <1>3, <1>6, <2>1 DEF Traced
<1>7. CASE x.kind = "corrected"
  <2>1. p.state = "sent"
    BY <1>1, <1>7 DEF Valid
  <2>2. z.state = p.state
    BY <1>2, <1>7 DEF Apply, Payouts
  <2> QED
    BY <1>2, <1>3, <1>7, <2>1, <2>2 DEF Traced
<1> QED
  BY <1>4, <1>5, <1>6, <1>7 DEF Kinds

\* The amount a valid correction leaves.
LEMMA AmountApplied ==
    ASSUME NEW a \in Nat, NEW p \in Payouts, NEW x \in CorrectionRows,
           Valid(x.kind, p, x.amount, x.receipt)
    PROVE  /\ x.kind = "reversed" => x.amount = NoAmount /\ Apply(a, p, x).amount = 0
           /\ x.kind # "reversed" /\ x.amount = NoAmount =>
                  x.kind = "corrected" /\ p.state = "sent" /\ Apply(a, p, x).amount = p.amount
           /\ x.amount # NoAmount => Apply(a, p, x).amount = x.amount
           /\ x.amount # NoAmount => x.kind \in {"corrected", "resent"}
<1>1. x.kind \in {"corrected", "reversed", "resent"}
  BY DEF CorrectionRows, Kinds
<1>2. ASSUME x.kind = "corrected" PROVE Apply(a, p, x).amount = Or(x.amount, NoAmount, p.amount)
  <2> DEFINE n == Or(x.amount, NoAmount, p.amount)
             c == Or(x.receipt, NoReceipt, p.receipt)
             row(m, r) == [state |-> p.state, amount |-> m, receipt |-> r]
  <2>1. p = row(p.amount, p.receipt)
    BY DEF Payouts
  <2>2. [row(p.amount, p.receipt) EXCEPT !.amount = n] = row(n, p.receipt)
    OBVIOUS
  <2>3. [row(n, p.receipt) EXCEPT !.receipt = c] = row(n, c)
    OBVIOUS
  <2>4. Apply(a, p, x) = [p EXCEPT !.amount = n, !.receipt = c]
    BY <1>2 DEF Apply
  <2>5. Apply(a, p, x) = row(n, c)
    BY <2>1, <2>2, <2>3, <2>4
  <2> QED
    BY <2>5
<1>3. x.kind = "corrected" => p.state = "sent"
  BY DEF Valid
<1>4. x.kind = "reversed" => x.amount = NoAmount /\ Apply(a, p, x).amount = 0
  BY DEF Valid, Apply
<1>5. x.kind = "resent" => x.amount # NoAmount /\ Apply(a, p, x).amount = x.amount
  BY DEF Valid, Apply, Or
<1> QED
  BY <1>1, <1>2, <1>3, <1>4, <1>5 DEF Or

\* A correction keeps the latest amount the one that is sent.
LEMMA SentLatestAppend ==
    ASSUME NEW a \in Nat, NEW c \in MaybeReceipt, NEW q \in Seq(CorrectionRows), NEW x \in CorrectionRows,
           Valid(x.kind, Effective(a, c, q), x.amount, x.receipt),
           SentLatest(a, Effective(a, c, q), q)
    PROVE  SentLatest(a, Effective(a, c, Append(q, x)), Append(q, x))
<1>1. PICK p \in Payouts : p = Effective(a, c, q)
  BY EffectiveType
<1>2. PICK z \in Payouts : z = Effective(a, c, Append(q, x)) /\ z = Apply(a, p, x)
  BY <1>1, ApplyType, EffectiveAppend
<1>3. PICK r : r = Append(q, x)
  OBVIOUS
<1>4. /\ Len(q) \in Nat /\ DOMAIN q = 1..Len(q) /\ DOMAIN r = 1..(Len(q) + 1)
      /\ r[Len(q) + 1] = x /\ \A i \in 1..Len(q) : r[i] = q[i]
  BY <1>3, AppendProperties, LenProperties
<1>5. CASE x.kind = "reversed"
  BY <1>2, <1>5 DEF Apply, SentLatest
<1>6. CASE x.amount # NoAmount
  <2>1. Len(q) + 1 \in WithAmount(r) /\ WithAmount(r) \in SUBSET (1..(Len(q) + 1))
    BY <1>4, <1>6 DEF WithAmount
  <2>2. PICK n \in Nat : n = Len(q) + 1
    BY <1>4
  <2>3. Max(WithAmount(r)) = n
    <3>1. MaxOf(n) /\ WithAmount(r) \in SUBSET (1..n) /\ n \in WithAmount(r)
      BY <2>1, <2>2, MaxIn
    <3>2. Max(WithAmount(r)) \in WithAmount(r) /\ Max(WithAmount(r)) >= n
      BY <3>1 DEF MaxOf
    <3>3. Max(WithAmount(r)) \in 1..n
      BY <3>1, <3>2
    <3> QED
      BY <3>2, <3>3
  <2>4. z.amount = x.amount
    BY <1>1, <1>2, <1>6, AmountApplied
  <2> QED
    BY <1>2, <1>3, <1>4, <2>1, <2>2, <2>3, <2>4 DEF SentLatest
<1>7. CASE x.kind # "reversed" /\ x.amount = NoAmount
  <2>1. p.state = "sent" /\ z.amount = p.amount
    BY <1>1, <1>2, <1>7, AmountApplied
  <2>2. WithAmount(r) = WithAmount(q)
    BY <1>4, <1>7 DEF WithAmount
  <2>3. WithAmount(q) # {} => r[Max(WithAmount(q))] = q[Max(WithAmount(q))]
    <3>1. PICK n \in Nat : n = Len(q)
      BY <1>4
    <3>2. WithAmount(q) \in SUBSET (1..n) /\ MaxOf(n)
      BY <1>4, <3>1, MaxIn DEF WithAmount
    <3>3. WithAmount(q) # {} => Max(WithAmount(q)) \in 1..n
      BY <3>2 DEF MaxOf
    <3> QED
      BY <1>4, <3>1, <3>3
  <2> QED
    BY <1>1, <1>2, <1>3, <2>1, <2>2, <2>3 DEF SentLatest
<1> QED
  BY <1>5, <1>6, <1>7

\* What a correction adds to the feed is an integer.
LEMMA SignedType ==
    ASSUME NEW x \in CorrectionRows
    PROVE  Signed(x) \in Int
<1>1. /\ x.kind \in {"corrected", "reversed", "resent"} /\ x.previous \in Nat
      /\ x.amount \in Nat \union {NoAmount} /\ (x.kind = "resent" => x.amount # NoAmount)
  BY DEF CorrectionRows, Kinds
<1> QED
  BY <1>1 DEF Signed

\* A sum over a sequence is the sum before its last term and that term.
LEMMA LastTerm ==
    ASSUME NEW n \in Nat, NEW f \in [1..n -> Int], n \in 1..n
    PROVE  SumFunctionOnSet(f, 1..n) = f[n] + SumFunctionOnSet(f, 1..n \ {n})
<1>1. PICK D : D = 1..n
  OBVIOUS
<1>2. IsFiniteSet(D)
  BY <1>1, FS_Interval
<1>3. f \in [D -> Int] /\ D \in SUBSET D /\ n \in D
  BY <1>1
<1>4. SumFunctionOnSet(f, D) = f[n] + SumFunctionOnSet(f, D \ {n})
  BY <1>2, <1>3, SumSplit
<1> QED
  BY <1>1, <1>4

\* A correction that is made on the payout as it stands keeps the balance.
LEMMA BalancedAppend ==
    ASSUME NEW a \in Nat, NEW c \in MaybeReceipt, NEW q \in Seq(CorrectionRows), NEW x \in CorrectionRows,
           Valid(x.kind, Effective(a, c, q), x.amount, x.receipt),
           x.previous = Effective(a, c, q).amount, x.amount # NoAmount => x.amount <= a,
           Traced(Effective(a, c, q), q), Balanced(a, Effective(a, c, q), q)
    PROVE  Balanced(a, Effective(a, c, Append(q, x)), Append(q, x))
<1>1. PICK p \in Payouts : p = Effective(a, c, q)
  BY EffectiveType
<1>2. PICK z \in Payouts : z = Effective(a, c, Append(q, x)) /\ z = Apply(a, p, x)
  BY <1>1, ApplyType, EffectiveAppend
<1>3. PICK r : r = Append(q, x)
  OBVIOUS
<1>4. /\ Len(q) \in Nat /\ DOMAIN q = 1..Len(q) /\ DOMAIN r = 1..(Len(q) + 1)
      /\ r[Len(q) + 1] = x /\ \A i \in 1..Len(q) : r[i] = q[i] /\ q[i] \in CorrectionRows
  BY <1>3, AppendProperties, LenProperties, ElementOfSeq
<1>5. p.amount \in Nat /\ z.amount \in Nat /\ p.amount <= a
  BY <1>1 DEF Payouts, Balanced
<1>6. z.amount <= a
  BY <1>1, <1>2, <1>5, AmountApplied DEF CorrectionRows
<1>7. Signed(x) = p.amount - z.amount
  <2>1. /\ x.kind \in {"corrected", "reversed", "resent"} /\ x.previous = p.amount
        /\ x.amount \in Nat \union {NoAmount}
    BY <1>1 DEF CorrectionRows, Kinds
  <2>2. CASE x.kind = "reversed"
    BY <1>1, <1>2, <1>5, <2>1, <2>2, AmountApplied DEF Signed
  <2>3. CASE x.kind = "resent"
    <3>1. p.amount = 0 /\ x.amount # NoAmount
      BY <1>1, <2>3 DEF Valid, Traced
    <3>2. z.amount = x.amount
      BY <1>1, <1>2, <3>1, AmountApplied
    <3> QED
      BY <2>1, <2>3, <3>1, <3>2 DEF Signed
  <2>4. CASE x.kind = "corrected"
    BY <1>1, <1>2, <1>5, <2>1, <2>4, AmountApplied DEF Signed
  <2> QED
    BY <2>1, <2>2, <2>3, <2>4
<1>8. SumFunction(Signs(r)) = Signed(x) + SumFunction(Signs(q))
  <2>1. PICK f : f = Signs(r)
    OBVIOUS
  <2>2. PICK g : g = Signs(q)
    OBVIOUS
  <2>3. PICK n \in Nat : n = Len(q) + 1
    BY <1>4
  <2>4. /\ f \in [1..n -> Int] /\ f[n] = Signed(x) /\ DOMAIN f = 1..n
        /\ g \in [1..Len(q) -> Int] /\ DOMAIN g = 1..Len(q)
        /\ \A i \in 1..Len(q) : f[i] = g[i]
    <3>1. \A i \in 1..Len(q) : Signed(q[i]) \in Int
      BY <1>4, SignedType
    <3>2. Signed(x) \in Int
      BY SignedType
    <3>3. \A i \in 1..n : i \in 1..Len(q) \/ i = n
      BY <1>4, <2>3
    <3>4. \A i \in 1..n : Signed(r[i]) \in Int
      BY <1>4, <2>3, <3>1, <3>2, <3>3
    <3>5. 1..Len(q) \subseteq 1..n /\ n \in 1..n
      BY <1>4, <2>3
    <3> QED
      BY <1>4, <2>1, <2>2, <2>3, <3>1, <3>2, <3>4, <3>5 DEF Signs
  <2>5. 1..n \ {n} = 1..Len(q) /\ n \in 1..n
    BY <1>4, <2>3
  <2>6. IsFiniteSet(1..n) /\ IsFiniteSet(1..Len(q))
    BY <1>4, FS_Interval
  <2>7. SumFunctionOnSet(f, 1..n) = Signed(x) + SumFunctionOnSet(f, 1..Len(q))
    <3>1. SumFunctionOnSet(f, 1..n) = f[n] + SumFunctionOnSet(f, 1..n \ {n})
      BY <2>4, <2>5, LastTerm
    <3> QED
      BY <2>4, <2>5, <3>1
  <2>8. SumFunctionOnSet(f, 1..Len(q)) = SumFunctionOnSet(g, 1..Len(q))
    <3>1. PICK D : D = 1..n
      OBVIOUS
    <3>2. PICK E : E = 1..Len(q)
      OBVIOUS
    <3>3. E \in SUBSET D /\ E \subseteq E
      BY <2>5, <3>1, <3>2
    <3>4. /\ IsFiniteSet(D) /\ f \in [D -> Int] /\ IsFiniteSet(E) /\ g \in [E -> Int]
          /\ \A i \in E : f[i] = g[i]
      BY <2>4, <2>6, <3>1, <3>2
    <3>5. SumFunctionOnSet(f, E) = SumFunctionOnSet(g, E)
      BY <3>3, <3>4, SumCompare, SMTT(30)
    <3> QED
      BY <3>2, <3>5
  <2> QED
    BY <2>1, <2>2, <2>4, <2>7, <2>8 DEF SumFunction
<1>9. SumFunction(Signs(q)) = a - p.amount
  BY <1>1 DEF Balanced
<1> QED
  BY <1>2, <1>3, <1>5, <1>6, <1>7, <1>8, <1>9 DEF Balanced

\* A payout as it was first recorded.
LEMMA FirstTraced ==
    ASSUME NEW a \in Nat, NEW c \in MaybeReceipt
    PROVE  /\ Traced(Effective(a, c, <<>>), <<>>)
           /\ SentLatest(a, Effective(a, c, <<>>), <<>>)
           /\ Balanced(a, Effective(a, c, <<>>), <<>>)
           /\ Effective(a, c, <<>>) = FirstPayout(a, c)
<1>1. <<>> \in Seq(CorrectionRows) /\ DOMAIN <<>> = {}
  BY EmptySeq
<1>2. Effective(a, c, <<>>) = FirstPayout(a, c)
  BY <1>1, EffectiveType
<1>3. SumFunction(Signs(<<>>)) = 0
  <2>1. PICK f : f = Signs(<<>>)
    OBVIOUS
  <2>2. PICK D : D = {} /\ IsFiniteSet(D)
    BY FS_EmptySet
  <2>3. f \in [D -> Int] /\ DOMAIN f = D
    BY <1>1, <2>1, <2>2 DEF Signs
  <2>4. SumFunctionOnSet(f, {}) = 0
    BY <2>2, <2>3, SumStep
  <2> QED
    BY <2>1, <2>2, <2>3, <2>4 DEF SumFunction
<1> QED
  BY <1>1, <1>2, <1>3 DEF Traced, SentLatest, WithAmount, Balanced, FirstPayout

-----------------------------------------------------------------------------
(* What the customer paid, what the reviews send back of it. *)

\* What sums of a task range over is finite.
LEMMA PartsOfTheTaskFinite ==
    /\ IsFiniteSet(Payments) /\ IsFiniteSet(Reviews) /\ IsFiniteSet(Lines)
    /\ Decreases \in SUBSET Reviews /\ Reviews \ {Cancellation} = Decreases
<1>1. \A a, b : IsFiniteSet({a, b})
  <2> SUFFICES ASSUME NEW a, NEW b PROVE IsFiniteSet({a, b})
      OBVIOUS
  <2>1. {a, b} = {a} \union {b}
    OBVIOUS
  <2>2. PICK A, B : A = {a} /\ B = {b} /\ {a, b} = A \union B
    BY <2>1
  <2>3. IsFiniteSet(A) /\ IsFiniteSet(B)
    BY <2>2, FS_Singleton
  <2>4. IsFiniteSet(A \union B)
    BY <2>3, FS_Union
  <2> QED
    BY <2>2, <2>4
<1>2. IsFiniteSet(Reviews)
  BY FS_Singleton, FS_Union, ExposureAssumption DEF Reviews
<1> QED
  BY <1>1, <1>2, ExposureAssumption DEF Payments, Reviews, Lines

\* What the customer paid is a natural number that further payments only raise.
LEMMA PaidGrows ==
    ASSUME NEW S \in SUBSET Payments, NEW p \in Payments
    PROVE  /\ PaidBy(S) \in Nat /\ PaidBy(S) <= PaidBy(S \union {p})
           /\ SumFunctionOnSet([x \in Payments |-> ItemOf(x)], S) \in Nat
           /\ SumFunctionOnSet([x \in Payments |-> ItemOf(x)], S)
              <= SumFunctionOnSet([x \in Payments |-> ItemOf(x)], S \union {p})
           /\ SumFunctionOnSet([x \in Payments |-> ItemOf(x)], S) <= PaidBy(S)
<1>0. PICK f : f = [x \in Payments |-> AmountOf(x)]
  OBVIOUS
<1>1. PICK h : h = [x \in Payments |-> ItemOf(x)]
  OBVIOUS
<1>2. /\ f \in [Payments -> Nat] /\ h \in [Payments -> Nat]
      /\ \A x \in Payments : h[x] <= f[x]
  BY <1>0, <1>1, ExposureAssumption DEF AmountOf, ItemOf
<1>3. f \in [Payments -> Int] /\ h \in [Payments -> Int] /\ IsFiniteSet(Payments)
  BY <1>2, PartsOfTheTaskFinite
<1>4. ASSUME NEW g \in [Payments -> Nat]
      PROVE  /\ SumFunctionOnSet(g, S) \in Nat
             /\ SumFunctionOnSet(g, S) <= SumFunctionOnSet(g, S \union {p})
  <2>0. PICK T : T = S \union {p}
    OBVIOUS
  <2>1. SumFunctionOnSet(g, S) \in Nat
    BY <1>3, SumNat
  <2>2. CASE p \in S
    <3>1. T = S
      BY <2>0, <2>2
    <3> QED
      BY <2>0, <2>1, <3>1
  <2>3. CASE p \notin S
    <3>1. g \in [Payments -> Int] /\ T \in SUBSET Payments /\ p \in T /\ T \ {p} = S
      BY <2>0, <2>3
    <3>2. SumFunctionOnSet(g, T) = g[p] + SumFunctionOnSet(g, S) /\ g[p] \in Nat
      BY <1>3, <3>1, SumSplit
    <3> QED
      BY <2>0, <2>1, <3>2
  <2> QED
    BY <2>2, <2>3
<1>5. SumFunctionOnSet(h, S) <= SumFunctionOnSet(f, S)
  BY <1>2, <1>3, SumCompare
<1> QED
  BY <1>0, <1>1, <1>2, <1>4, <1>5 DEF PaidBy

\* What a review sends is at most what it commits.
LEMMA RowAmounts ==
    ASSUME NEW r \in ReviewRows
    PROVE  Sent(r) \in Nat /\ CommittedAmount(r) \in Nat /\ Sent(r) <= CommittedAmount(r)
<1>1. /\ r.status \in {"none", "pending_review", "no_refund", "approved", "refunded"}
      /\ r.amount \in Nat /\ r.receipt \in MaybeReceipt /\ r.corrections \in Seq(CorrectionRows)
  BY DEF ReviewRows, Committed
<1>2. PICK p \in Payouts : p = Payout(r)
  BY <1>1, EffectiveType DEF Payout
<1>3. p.state = "reversed" => p.amount = 0
  BY <1>2 DEF ReviewRows, Traced
<1> QED
  BY <1>1, <1>2, <1>3 DEF Sent, CommittedAmount, Payouts

\* What every review sends, and commits.
SentBy(rv) == [v \in Reviews |-> Sent(rv[v])]
CommittedBy(rv) == [v \in Reviews |-> CommittedAmount(rv[v])]

\* Both are sums of natural numbers, the first at most the second.
LEMMA ReviewSums ==
    ASSUME NEW rv \in [Reviews -> ReviewRows], NEW S \in SUBSET Reviews
    PROVE  /\ SentBy(rv) \in [Reviews -> Nat] /\ CommittedBy(rv) \in [Reviews -> Nat]
           /\ SentBy(rv) \in [Reviews -> Int] /\ CommittedBy(rv) \in [Reviews -> Int]
           /\ SumFunctionOnSet(SentBy(rv), S) \in Nat
           /\ SumFunctionOnSet(CommittedBy(rv), S) \in Nat
           /\ SumFunctionOnSet(SentBy(rv), S) <= SumFunctionOnSet(CommittedBy(rv), S)
<1>1. PICK f : f = SentBy(rv)
  OBVIOUS
<1>2. PICK g : g = CommittedBy(rv)
  OBVIOUS
<1>3. f \in [Reviews -> Nat] /\ g \in [Reviews -> Nat] /\ \A v \in Reviews : f[v] <= g[v]
  BY <1>1, <1>2, RowAmounts DEF SentBy, CommittedBy
<1>4. f \in [Reviews -> Int] /\ g \in [Reviews -> Int] /\ IsFiniteSet(Reviews)
  BY <1>3, PartsOfTheTaskFinite
<1>5. SumFunctionOnSet(f, S) \in Nat
  BY <1>3, <1>4, SumNat
<1>6. SumFunctionOnSet(g, S) \in Nat
  BY <1>3, <1>4, SumNat
<1>7. SumFunctionOnSet(f, S) <= SumFunctionOnSet(g, S)
  BY <1>3, <1>4, SumCompare
<1> QED
  BY <1>1, <1>2, <1>3, <1>4, <1>5, <1>6, <1>7

\* Reviews that send the same send the same sum.
LEMMA SameSent ==
    ASSUME NEW rv \in [Reviews -> ReviewRows], NEW nv \in [Reviews -> ReviewRows],
           NEW S \in SUBSET Reviews, \A v \in S : Sent(nv[v]) = Sent(rv[v])
    PROVE  SumFunctionOnSet(SentBy(nv), S) = SumFunctionOnSet(SentBy(rv), S)
<1>1. PICK f : f = SentBy(rv)
  OBVIOUS
<1>2. PICK g : g = SentBy(nv)
  OBVIOUS
<1>3. f \in [Reviews -> Int] /\ g \in [Reviews -> Int] /\ IsFiniteSet(Reviews)
  BY <1>1, <1>2, ReviewSums, PartsOfTheTaskFinite
<1>4. \A v \in S : g[v] = f[v]
  BY <1>1, <1>2 DEF SentBy
<1>5. SumFunctionOnSet(g, S) = SumFunctionOnSet(f, S)
  BY <1>3, <1>4, SumCompare
<1> QED
  BY <1>1, <1>2, <1>5

\* A review whose refund stays or shrinks, or fits beside what the others
\* commit, leaves the cap kept.
LEMMA OneReviewReplaced ==
    ASSUME NEW rv \in [Reviews -> ReviewRows], NEW nv \in [Reviews -> ReviewRows],
           NEW S \in SUBSET Reviews, NEW v \in S, \A x \in S \ {v} : nv[x] = rv[x],
           NEW m \in Nat, NEW limit \in Nat,
           \/ /\ Sent(nv[v]) <= Sent(rv[v])
              /\ SumFunctionOnSet(SentBy(rv), S) + m <= limit
           \/ Sent(nv[v]) + SumFunctionOnSet(CommittedBy(rv), S \ {v}) + m <= limit
    PROVE  SumFunctionOnSet(SentBy(nv), S) + m <= limit
<1>1. PICK f : f = SentBy(rv)
  OBVIOUS
<1>2. PICK g : g = SentBy(nv)
  OBVIOUS
<1>3. f \in [Reviews -> Int] /\ g \in [Reviews -> Int] /\ IsFiniteSet(Reviews)
  BY <1>1, <1>2, ReviewSums, PartsOfTheTaskFinite
<1>4. PICK T : T = S \ {v}
  OBVIOUS
<1>5. T \in SUBSET Reviews /\ \A x \in T : g[x] = f[x]
  BY <1>1, <1>2, <1>4 DEF SentBy
<1>6. SumFunctionOnSet(g, T) = SumFunctionOnSet(f, T)
  BY <1>3, <1>5, SumCompare
<1>7. /\ SumFunctionOnSet(f, S) = f[v] + SumFunctionOnSet(f, T)
      /\ SumFunctionOnSet(g, S) = g[v] + SumFunctionOnSet(g, T)
  BY <1>3, <1>4, SumSplit
<1>8. /\ SumFunctionOnSet(f, T) \in Nat
      /\ SumFunctionOnSet(CommittedBy(rv), T) \in Nat
      /\ SumFunctionOnSet(f, T) <= SumFunctionOnSet(CommittedBy(rv), T)
  BY <1>1, <1>5, ReviewSums
<1>9. f[v] = Sent(rv[v]) /\ g[v] = Sent(nv[v]) /\ Sent(rv[v]) \in Nat /\ Sent(nv[v]) \in Nat
  BY <1>1, <1>2, RowAmounts DEF SentBy
<1> QED
  BY <1>1, <1>2, <1>4, <1>6, <1>7, <1>8, <1>9

-----------------------------------------------------------------------------
(* The rows the actions write. *)

\* What is known of the fields of a review.
LEMMA ReviewRowFields ==
    ASSUME NEW r \in ReviewRows
    PROVE  /\ r = ReviewRow(r.status, r.paid, r.amount, r.receipt, r.corrections)
           /\ r.status \in {"none", "pending_review", "no_refund", "approved", "refunded"}
           /\ r.paid \in Nat /\ r.amount \in Nat /\ r.receipt \in MaybeReceipt
           /\ r.corrections \in Seq(CorrectionRows)
           /\ r.status # "refunded" => r.receipt = NoReceipt /\ r.corrections = <<>>
           /\ r.status = "refunded" => r.receipt # NoReceipt
<1>1. r \in [status : {"none", "pending_review", "no_refund"} \union Committed, paid : Nat,
             amount : Nat, receipt : MaybeReceipt, corrections : Seq(CorrectionRows)]
      /\ (r.status = "refunded" <=> r.receipt # NoReceipt)
      /\ (r.status # "refunded" => r.corrections = <<>>)
  BY DEF ReviewRows
<1> QED
  BY <1>1 DEF ReviewRow, Committed

\* What is known of the fields of a line.
LEMMA LineRowFields ==
    ASSUME NEW l \in LineRows
    PROVE  /\ l = LineRow(l.status, l.requested, l.amount, l.cap, l.limit, l.receipt, l.corrections)
           /\ l.status \in {"none", "on_hold", "payable", "paid", "rejected"}
           /\ l.requested \in Nat /\ l.amount \in Nat \union {NoAmount} /\ l.cap \in Nat
           /\ l.limit \in Nat /\ l.receipt \in MaybeReceipt /\ l.corrections \in Seq(CorrectionRows)
           /\ l.status \in {"payable", "paid"} => l.amount \in Nat
           /\ l.status # "paid" => l.receipt = NoReceipt /\ l.corrections = <<>>
           /\ l.status = "paid" => l.receipt # NoReceipt
<1>1. l \in [status : {"none", "on_hold", "payable", "paid", "rejected"}, requested : Nat,
             amount : Nat \union {NoAmount}, cap : Nat, limit : Nat, receipt : MaybeReceipt,
             corrections : Seq(CorrectionRows)]
      /\ (l.status \in {"payable", "paid"} => l.amount \in Nat)
      /\ (l.status = "paid" <=> l.receipt # NoReceipt)
      /\ (l.status # "paid" => l.corrections = <<>>)
  BY DEF LineRows
<1> QED
  BY <1>1 DEF LineRow

\* A review without corrections is a row.
LEMMA UncorrectedReview ==
    ASSUME NEW s \in {"none", "pending_review", "no_refund", "approved", "refunded"},
           NEW p \in Nat, NEW a \in Nat, NEW c \in MaybeReceipt,
           s = "refunded" <=> c # NoReceipt
    PROVE  ReviewRow(s, p, a, c, <<>>) \in ReviewRows
<1>1. PICK r : r = ReviewRow(s, p, a, c, <<>>)
  OBVIOUS
<1>2. /\ r \in [status : {"none", "pending_review", "no_refund"} \union Committed, paid : Nat,
                amount : Nat, receipt : MaybeReceipt, corrections : Seq(CorrectionRows)]
      /\ r.status = s /\ r.amount = a /\ r.receipt = c /\ r.corrections = <<>>
  BY <1>1, EmptySeq DEF ReviewRow, Committed
<1>3. Traced(Payout(r), r.corrections) /\ SentLatest(r.amount, Payout(r), r.corrections)
  BY <1>2, FirstTraced DEF Payout
<1> QED
  BY <1>1, <1>2, <1>3 DEF ReviewRows

\* A refunded review with a valid correction more is a row.
LEMMA CorrectedReview ==
    ASSUME NEW r \in ReviewRows, NEW x \in CorrectionRows, r.status = "refunded",
           Valid(x.kind, Payout(r), x.amount, x.receipt)
    PROVE  ReviewRow(r.status, r.paid, r.amount, r.receipt, Append(r.corrections, x)) \in ReviewRows
<1>1. PICK n : n = ReviewRow(r.status, r.paid, r.amount, r.receipt, Append(r.corrections, x))
  OBVIOUS
<1>2. /\ r.status = "refunded" /\ r.paid \in Nat /\ r.amount \in Nat /\ r.receipt \in MaybeReceipt
      /\ r.corrections \in Seq(CorrectionRows) /\ r.receipt # NoReceipt
  BY ReviewRowFields
<1>3. /\ n.status = r.status /\ n.paid = r.paid /\ n.amount = r.amount /\ n.receipt = r.receipt
      /\ n.corrections = Append(r.corrections, x)
  BY <1>1 DEF ReviewRow
<1>4. n.corrections \in Seq(CorrectionRows)
  BY <1>2, <1>3, AppendProperties
<1>5. Traced(Payout(r), r.corrections) /\ SentLatest(r.amount, Payout(r), r.corrections)
  BY DEF ReviewRows
<1>6. Traced(Payout(n), n.corrections)
  BY <1>2, <1>3, <1>5, TracedAppend DEF Payout
<1>7. SentLatest(n.amount, Payout(n), n.corrections)
  BY <1>2, <1>3, <1>5, SentLatestAppend DEF Payout
<1>8. n \in [status : {"none", "pending_review", "no_refund"} \union Committed, paid : Nat,
             amount : Nat, receipt : MaybeReceipt, corrections : Seq(CorrectionRows)]
  BY <1>1, <1>2, <1>3, <1>4 DEF ReviewRow, Committed
<1> QED
  BY <1>1, <1>2, <1>3, <1>6, <1>7, <1>8 DEF ReviewRows

\* A line without corrections is a row.
LEMMA UncorrectedLine ==
    ASSUME NEW s \in {"none", "on_hold", "payable", "paid", "rejected"}, NEW n \in Nat,
           NEW a \in Nat \union {NoAmount}, NEW m \in Nat, NEW l \in Nat, NEW c \in MaybeReceipt,
           s = "paid" <=> c # NoReceipt, s \in {"payable", "paid"} => a \in Nat
    PROVE  LineRow(s, n, a, m, l, c, <<>>) \in LineRows
<1>1. PICK r : r = LineRow(s, n, a, m, l, c, <<>>)
  OBVIOUS
<1>2. /\ r \in [status : {"none", "on_hold", "payable", "paid", "rejected"}, requested : Nat,
                amount : Nat \union {NoAmount}, cap : Nat, limit : Nat, receipt : MaybeReceipt,
                corrections : Seq(CorrectionRows)]
      /\ r.status = s /\ r.amount = a /\ r.receipt = c /\ r.corrections = <<>>
  BY <1>1, EmptySeq DEF LineRow
<1>3. s = "paid" => /\ Traced(Payout(r), r.corrections)
                    /\ Balanced(r.amount, Payout(r), r.corrections)
  BY <1>2, FirstTraced DEF Payout
<1> QED
  BY <1>1, <1>2, <1>3 DEF LineRows

\* A paid line with a valid correction more is a row.
LEMMA CorrectedLine ==
    ASSUME NEW l \in LineRows, NEW x \in CorrectionRows, l.status = "paid",
           Valid(x.kind, Payout(l), x.amount, x.receipt), x.previous = Payout(l).amount,
           x.amount # NoAmount => x.amount <= l.amount
    PROVE  LineRow(l.status, l.requested, l.amount, l.cap, l.limit, l.receipt,
                   Append(l.corrections, x)) \in LineRows
<1>1. PICK n : n = LineRow(l.status, l.requested, l.amount, l.cap, l.limit, l.receipt,
                           Append(l.corrections, x))
  OBVIOUS
<1>2. /\ l.requested \in Nat /\ l.amount \in Nat /\ l.cap \in Nat /\ l.limit \in Nat
      /\ l.receipt \in MaybeReceipt /\ l.corrections \in Seq(CorrectionRows) /\ l.receipt # NoReceipt
  BY LineRowFields
<1>3. /\ n.status = l.status /\ n.requested = l.requested /\ n.amount = l.amount
      /\ n.cap = l.cap /\ n.limit = l.limit /\ n.receipt = l.receipt
      /\ n.corrections = Append(l.corrections, x)
  BY <1>1 DEF LineRow
<1>4. n.corrections \in Seq(CorrectionRows)
  BY <1>2, <1>3, AppendProperties
<1>5. Traced(Payout(l), l.corrections) /\ Balanced(l.amount, Payout(l), l.corrections)
  BY DEF LineRows
<1>6. Traced(Payout(n), n.corrections)
  BY <1>2, <1>3, <1>5, TracedAppend DEF Payout
<1>7. Balanced(n.amount, Payout(n), n.corrections)
  BY <1>2, <1>3, <1>5, BalancedAppend DEF Payout
<1>8. n \in [status : {"none", "on_hold", "payable", "paid", "rejected"}, requested : Nat,
             amount : Nat \union {NoAmount}, cap : Nat, limit : Nat, receipt : MaybeReceipt,
             corrections : Seq(CorrectionRows)]
  BY <1>1, <1>2, <1>3, <1>4 DEF LineRow
<1> QED
  BY <1>1, <1>2, <1>3, <1>6, <1>7, <1>8 DEF LineRows

\* The updates of one row, field by field, are the row they leave.
StatusAndAmount(f, v, s, n)  == [f EXCEPT ![v].status = s, ![v].amount = n]
StatusAndPaid(f, v, s, n)    == [f EXCEPT ![v].status = s, ![v].paid = n]
StatusAndReceipt(f, v, s, c) == [f EXCEPT ![v].status = s, ![v].receipt = c]
NewStatus(f, v, s)           == [f EXCEPT ![v].status = s]
NewCorrections(f, v, q)      == [f EXCEPT ![v].corrections = q]
PaidWith(l, s, c)            == [l EXCEPT !.status = s, !.receipt = c]
WithRow(f, v, row)           == [f EXCEPT ![v] = row]

\* The updates of a review by the row they leave.
LEMMA ReviewUpdates ==
    ASSUME NEW f \in [Reviews -> ReviewRows], NEW v \in Reviews, NEW s, NEW n
    PROVE  LET r == f[v] IN
           /\ StatusAndAmount(f, v, s, n)
              = WithRow(f, v, ReviewRow(s, r.paid, n, r.receipt, r.corrections))
           /\ StatusAndPaid(f, v, s, n)
              = WithRow(f, v, ReviewRow(s, n, r.amount, r.receipt, r.corrections))
           /\ StatusAndReceipt(f, v, s, n)
              = WithRow(f, v, ReviewRow(s, r.paid, r.amount, n, r.corrections))
           /\ NewCorrections(f, v, n)
              = WithRow(f, v, ReviewRow(r.status, r.paid, r.amount, r.receipt, n))
<1>1. PICK s0, p, a, c, q : /\ f[v] = ReviewRow(s0, p, a, c, q)
                            /\ s0 = f[v].status /\ p = f[v].paid /\ a = f[v].amount
                            /\ c = f[v].receipt /\ q = f[v].corrections
  BY ReviewRowFields
<1>2. PICK g : g = [f EXCEPT ![v] = ReviewRow(s, p, a, c, q)]
  OBVIOUS
<1>3. [f EXCEPT ![v].status = s] = g
  <2>1. [f EXCEPT ![v].status = s] = [f EXCEPT ![v] = [f[v] EXCEPT !.status = s]]
    OBVIOUS
  <2>2. [ReviewRow(s0, p, a, c, q) EXCEPT !.status = s] = ReviewRow(s, p, a, c, q)
    BY DEF ReviewRow
  <2> QED
    BY <1>1, <1>2, <2>1, <2>2
<1>4. g[v] = ReviewRow(s, p, a, c, q)
  BY <1>2
<1>5. [g EXCEPT ![v].amount = n] = [f EXCEPT ![v] = ReviewRow(s, p, n, c, q)]
  <2>1. [g EXCEPT ![v].amount = n] = [g EXCEPT ![v] = [g[v] EXCEPT !.amount = n]]
    OBVIOUS
  <2>2. [ReviewRow(s, p, a, c, q) EXCEPT !.amount = n] = ReviewRow(s, p, n, c, q)
    BY DEF ReviewRow
  <2> QED
    BY <1>2, <1>4, <2>1, <2>2
<1>6. [g EXCEPT ![v].paid = n] = [f EXCEPT ![v] = ReviewRow(s, n, a, c, q)]
  <2>1. [g EXCEPT ![v].paid = n] = [g EXCEPT ![v] = [g[v] EXCEPT !.paid = n]]
    OBVIOUS
  <2>2. [ReviewRow(s, p, a, c, q) EXCEPT !.paid = n] = ReviewRow(s, n, a, c, q)
    BY DEF ReviewRow
  <2> QED
    BY <1>2, <1>4, <2>1, <2>2
<1>7. [g EXCEPT ![v].receipt = n] = [f EXCEPT ![v] = ReviewRow(s, p, a, n, q)]
  <2>1. [g EXCEPT ![v].receipt = n] = [g EXCEPT ![v] = [g[v] EXCEPT !.receipt = n]]
    OBVIOUS
  <2>2. [ReviewRow(s, p, a, c, q) EXCEPT !.receipt = n] = ReviewRow(s, p, a, n, q)
    BY DEF ReviewRow
  <2> QED
    BY <1>2, <1>4, <2>1, <2>2
<1>8. [f EXCEPT ![v].corrections = n] = [f EXCEPT ![v] = ReviewRow(s0, p, a, c, n)]
  <2>1. [f EXCEPT ![v].corrections = n] = [f EXCEPT ![v] = [f[v] EXCEPT !.corrections = n]]
    OBVIOUS
  <2>2. [ReviewRow(s0, p, a, c, q) EXCEPT !.corrections = n] = ReviewRow(s0, p, a, c, n)
    BY DEF ReviewRow
  <2> QED
    BY <1>1, <2>1, <2>2
<1>9. /\ [f EXCEPT ![v].status = s, ![v].amount = n] = [g EXCEPT ![v].amount = n]
      /\ [f EXCEPT ![v].status = s, ![v].paid = n] = [g EXCEPT ![v].paid = n]
      /\ [f EXCEPT ![v].status = s, ![v].receipt = n] = [g EXCEPT ![v].receipt = n]
  BY <1>3
<1> QED
  BY <1>1, <1>5, <1>6, <1>7, <1>8, <1>9
     DEF StatusAndAmount, StatusAndPaid, StatusAndReceipt, NewCorrections, WithRow

\* The updates of a line by the row they leave.
LEMMA LineUpdates ==
    ASSUME NEW f \in [Lines -> LineRows], NEW k \in Lines, NEW s, NEW n
    PROVE  LET l == f[k] IN
           /\ NewStatus(f, k, s)
              = WithRow(f, k, LineRow(s, l.requested, l.amount, l.cap, l.limit, l.receipt, l.corrections))
           /\ StatusAndAmount(f, k, s, n)
              = WithRow(f, k, LineRow(s, l.requested, n, l.cap, l.limit, l.receipt, l.corrections))
           /\ PaidWith(l, s, n)
              = LineRow(s, l.requested, l.amount, l.cap, l.limit, n, l.corrections)
           /\ NewCorrections(f, k, n)
              = WithRow(f, k, LineRow(l.status, l.requested, l.amount, l.cap, l.limit, l.receipt, n))
<1>1. PICK s0, r, a, m, l, c, q : /\ f[k] = LineRow(s0, r, a, m, l, c, q)
                                  /\ s0 = f[k].status /\ r = f[k].requested /\ a = f[k].amount
                                  /\ m = f[k].cap /\ l = f[k].limit /\ c = f[k].receipt
                                  /\ q = f[k].corrections
  BY LineRowFields
<1>2. PICK g : g = [f EXCEPT ![k] = LineRow(s, r, a, m, l, c, q)]
  OBVIOUS
<1>3. [f EXCEPT ![k].status = s] = g
  <2>1. [f EXCEPT ![k].status = s] = [f EXCEPT ![k] = [f[k] EXCEPT !.status = s]]
    OBVIOUS
  <2>2. [LineRow(s0, r, a, m, l, c, q) EXCEPT !.status = s] = LineRow(s, r, a, m, l, c, q)
    BY DEF LineRow
  <2> QED
    BY <1>1, <1>2, <2>1, <2>2
<1>4. g[k] = LineRow(s, r, a, m, l, c, q)
  BY <1>2
<1>5. [g EXCEPT ![k].amount = n] = [f EXCEPT ![k] = LineRow(s, r, n, m, l, c, q)]
  <2>1. [g EXCEPT ![k].amount = n] = [g EXCEPT ![k] = [g[k] EXCEPT !.amount = n]]
    OBVIOUS
  <2>2. [LineRow(s, r, a, m, l, c, q) EXCEPT !.amount = n] = LineRow(s, r, n, m, l, c, q)
    BY DEF LineRow
  <2> QED
    BY <1>2, <1>4, <2>1, <2>2
<1>6. [f EXCEPT ![k].corrections = n] = [f EXCEPT ![k] = LineRow(s0, r, a, m, l, c, n)]
  <2>1. [f EXCEPT ![k].corrections = n] = [f EXCEPT ![k] = [f[k] EXCEPT !.corrections = n]]
    OBVIOUS
  <2>2. [LineRow(s0, r, a, m, l, c, q) EXCEPT !.corrections = n] = LineRow(s0, r, a, m, l, c, n)
    BY DEF LineRow
  <2> QED
    BY <1>1, <2>1, <2>2
<1>7. [f EXCEPT ![k].status = s, ![k].amount = n] = [g EXCEPT ![k].amount = n]
  BY <1>3
<1>8. [f[k] EXCEPT !.status = s, !.receipt = n] = LineRow(s, r, a, m, l, n, q)
  <2>1. [f[k] EXCEPT !.status = s] = LineRow(s, r, a, m, l, c, q)
    <3>1. [LineRow(s0, r, a, m, l, c, q) EXCEPT !.status = s] = LineRow(s, r, a, m, l, c, q)
      BY DEF LineRow
    <3> QED
      BY <1>1, <3>1
  <2>2. [f[k] EXCEPT !.status = s, !.receipt = n] = [[f[k] EXCEPT !.status = s] EXCEPT !.receipt = n]
    OBVIOUS
  <2>3. [LineRow(s, r, a, m, l, c, q) EXCEPT !.receipt = n] = LineRow(s, r, a, m, l, n, q)
    BY DEF LineRow
  <2> QED
    BY <2>1, <2>2, <2>3
<1> QED
  BY <1>1, <1>2, <1>3, <1>5, <1>6, <1>7, <1>8
     DEF NewStatus, StatusAndAmount, PaidWith, NewCorrections, WithRow

\* New lines by the fields they are inserted with.
ThreeFields(s, n, a) == [NoLine EXCEPT !.status = s, !.requested = n, !.amount = a]
\* The same with the cap and the purchase limit.
FiveFields(s, n, a, m, l) ==
    [NoLine EXCEPT !.status = s, !.requested = n, !.amount = a, !.cap = m, !.limit = l]

\* They are lines without receipt and corrections.
LEMMA NewLines ==
    ASSUME NEW s, NEW n, NEW a, NEW m, NEW l
    PROVE  /\ ThreeFields(s, n, a) = LineRow(s, n, a, 0, 0, NoReceipt, <<>>)
           /\ FiveFields(s, n, a, m, l) = LineRow(s, n, a, m, l, NoReceipt, <<>>)
<1>0. PICK e : e = <<>>
  OBVIOUS
<1>1. PICK f : f = NoLine
  OBVIOUS
<1>2. f = LineRow("none", 0, 0, 0, 0, NoReceipt, e)
  BY <1>0, <1>1 DEF NoLine, LineRow
<1>3. [f EXCEPT !.status = s] = LineRow(s, 0, 0, 0, 0, NoReceipt, e)
  <2>1. [LineRow("none", 0, 0, 0, 0, NoReceipt, e) EXCEPT !.status = s]
        = LineRow(s, 0, 0, 0, 0, NoReceipt, e)
    BY DEF LineRow
  <2> QED
    BY <1>2, <2>1
<1>4. [f EXCEPT !.status = s, !.requested = n] = LineRow(s, n, 0, 0, 0, NoReceipt, e)
  <2>1. [f EXCEPT !.status = s, !.requested = n] = [[f EXCEPT !.status = s] EXCEPT !.requested = n]
    OBVIOUS
  <2>2. [LineRow(s, 0, 0, 0, 0, NoReceipt, e) EXCEPT !.requested = n]
        = LineRow(s, n, 0, 0, 0, NoReceipt, e)
    BY DEF LineRow
  <2> QED
    BY <1>3, <2>1, <2>2
<1>5. [f EXCEPT !.status = s, !.requested = n, !.amount = a] = LineRow(s, n, a, 0, 0, NoReceipt, e)
  <2>1. [f EXCEPT !.status = s, !.requested = n, !.amount = a]
        = [[f EXCEPT !.status = s, !.requested = n] EXCEPT !.amount = a]
    OBVIOUS
  <2>2. [LineRow(s, n, 0, 0, 0, NoReceipt, e) EXCEPT !.amount = a]
        = LineRow(s, n, a, 0, 0, NoReceipt, e)
    BY DEF LineRow
  <2> QED
    BY <1>4, <2>1, <2>2
<1>6. [f EXCEPT !.status = s, !.requested = n, !.amount = a, !.cap = m]
      = LineRow(s, n, a, m, 0, NoReceipt, e)
  <2>1. [f EXCEPT !.status = s, !.requested = n, !.amount = a, !.cap = m]
        = [[f EXCEPT !.status = s, !.requested = n, !.amount = a] EXCEPT !.cap = m]
    OBVIOUS
  <2>2. [LineRow(s, n, a, 0, 0, NoReceipt, e) EXCEPT !.cap = m]
        = LineRow(s, n, a, m, 0, NoReceipt, e)
    BY DEF LineRow
  <2> QED
    BY <1>5, <2>1, <2>2
<1>7. [f EXCEPT !.status = s, !.requested = n, !.amount = a, !.cap = m, !.limit = l]
      = LineRow(s, n, a, m, l, NoReceipt, e)
  <2>1. [f EXCEPT !.status = s, !.requested = n, !.amount = a, !.cap = m, !.limit = l]
        = [[f EXCEPT !.status = s, !.requested = n, !.amount = a, !.cap = m] EXCEPT !.limit = l]
    OBVIOUS
  <2>2. [LineRow(s, n, a, m, 0, NoReceipt, e) EXCEPT !.limit = l]
        = LineRow(s, n, a, m, l, NoReceipt, e)
    BY DEF LineRow
  <2> QED
    BY <1>6, <2>1, <2>2
<1> QED
  BY <1>0, <1>1, <1>5, <1>7 DEF ThreeFields, FiveFields

-----------------------------------------------------------------------------
(* The inductive invariant. *)

\* Nothing of a task that has not ended is refunded as cancelled, and no result
\* of it is recorded as one of an ended task.
NotEndedYet ==
    status # "CANCELLED" =>
        /\ review[Cancellation].status = "none" /\ refresh.step = "none"
        /\ \A p \in Payments : result[p].step \in {"none", "under way"}

ResultSteps  == [step : {"none", "under way", "ended", "summed"}, sum : Nat]
\* The same of the backstop.
RefreshSteps == [step : {"none", "due", "summed"}, sum : Nat]

\* The inductive invariant.
MoneyInv ==
    /\ status \in {"under way", "CONFIRMED", "CANCELLED"} /\ paid \in SUBSET Payments
    /\ result \in [Payments -> ResultSteps]
    /\ refresh \in RefreshSteps
    /\ review \in [Reviews -> ReviewRows]
    /\ line \in [Lines -> LineRows]
    /\ NotEndedYet

\* It holds before the first payment.
LEMMA InitMoney == Init => MoneyInv
<1> SUFFICES ASSUME Init PROVE MoneyInv
    OBVIOUS
<1>1. NoReview = ReviewRow("none", 0, 0, NoReceipt, <<>>) /\ NoReceipt \in MaybeReceipt
  BY DEF NoReview, ReviewRow, MaybeReceipt
<1>2. NoReview \in ReviewRows /\ NoReview.status = "none"
  <2>1. ReviewRow("none", 0, 0, NoReceipt, <<>>) \in ReviewRows
    BY <1>1, UncorrectedReview
  <2> QED
    BY <1>1, <2>1 DEF NoReview
<1>3. NoLine \in LineRows
  <2>1. LineRow("none", 0, 0, 0, 0, NoReceipt, <<>>) \in LineRows
    BY <1>1, UncorrectedLine
  <2> QED
    BY <2>1 DEF NoLine, LineRow
<1>4. Cancellation \in Reviews
  BY DEF Reviews
<1>5. review \in [Reviews -> ReviewRows] /\ line \in [Lines -> LineRows]
      /\ review[Cancellation].status = "none"
  BY <1>2, <1>3, <1>4 DEF Init
<1>6. result \in [Payments -> ResultSteps] /\ refresh \in RefreshSteps
      /\ refresh.step = "none" /\ \A p \in Payments : result[p].step = "none"
  BY DEF Init, NoSum, ResultSteps, RefreshSteps
<1> QED
  BY <1>5, <1>6 DEF Init, MoneyInv, NotEndedYet

\* The upsert of a review leaves a row, its payout and any decision untouched.
LEMMA OpenWithinRow ==
    ASSUME NEW r \in ReviewRows, NEW sum \in Nat
    PROVE  /\ OpenWithin(r, sum) \in ReviewRows
           /\ Sent(OpenWithin(r, sum)) = Sent(r)
           /\ OpenWithin(r, sum).receipt = r.receipt
           /\ OpenWithin(r, sum).corrections = r.corrections
           /\ r.status \notin {"none", "pending_review"} => OpenWithin(r, sum) = r
<1>1. PICK n : n = OpenWithin(r, sum)
  OBVIOUS
<1>2. CASE r.status \in {"none", "pending_review"}
  <2>1. PICK s, p, a, c, q : /\ r = ReviewRow(s, p, a, c, q) /\ s = r.status /\ p = r.paid
                             /\ a = r.amount /\ c = r.receipt /\ q = r.corrections
    BY ReviewRowFields
  <2>2. s \in {"none", "pending_review"} /\ p \in Nat /\ a \in Nat /\ c = NoReceipt /\ q = <<>>
    BY <1>2, <2>1, ReviewRowFields
  <2>3. n \in {r, ReviewRow("pending_review", sum, a, c, q)}
    <3>1. [r EXCEPT !.paid = sum] = ReviewRow(s, sum, a, c, q)
      BY <2>1 DEF ReviewRow
    <3>2. [r EXCEPT !.status = "pending_review", !.paid = sum]
          = ReviewRow("pending_review", sum, a, c, q)
      <4>1. PICK g : g = [r EXCEPT !.status = "pending_review"]
        OBVIOUS
      <4>2. g = ReviewRow("pending_review", p, a, c, q)
        BY <2>1, <4>1 DEF ReviewRow
      <4>3. [g EXCEPT !.paid = sum] = ReviewRow("pending_review", sum, a, c, q)
        BY <4>2 DEF ReviewRow
      <4>4. [r EXCEPT !.status = "pending_review", !.paid = sum] = [g EXCEPT !.paid = sum]
        BY <4>1
      <4> QED
        BY <4>3, <4>4
    <3> QED
      BY <1>1, <1>2, <2>1, <3>1, <3>2 DEF OpenWithin
  <2>4. ReviewRow("pending_review", sum, a, c, q) \in ReviewRows
    BY <2>2, UncorrectedReview DEF MaybeReceipt
  <2>5. n.status \in {"none", "pending_review"} /\ n.receipt = c /\ n.corrections = q
    BY <1>2, <2>1, <2>3 DEF ReviewRow
  <2>6. Sent(n) = 0 /\ Sent(r) = 0
    BY <1>2, <2>5 DEF Sent, CommittedAmount
  <2> QED
    BY <1>1, <1>2, <2>1, <2>3, <2>4, <2>5, <2>6
<1>3. CASE r.status \notin {"none", "pending_review"}
  BY <1>3 DEF OpenWithin
<1> QED
  BY <1>2, <1>3

\* The amounts an admin enters.
LEMMA AmountsAreNat == \A n \in Amounts : n \in Nat
BY ExposureAssumption DEF Amounts

\* The row a decision leaves.
LEMMA DecideRow ==
    ASSUME MoneyInv, NEW v \in Reviews, NEW n \in Amounts, NEW note, Decide(v, n, note)
    PROVE  LET row == ReviewRow(IF n > 0 THEN "approved" ELSE "no_refund",
                                review[v].paid, n, NoReceipt, <<>>)
           IN  row \in ReviewRows /\ review' = WithRow(review, v, row)
<1> DEFINE s == IF n > 0 THEN "approved" ELSE "no_refund"
<1>1. review \in [Reviews -> ReviewRows] /\ review[v].status = "pending_review"
  BY DEF MoneyInv, Decide
<1>2. review[v].paid \in Nat /\ review[v].receipt = NoReceipt /\ review[v].corrections = <<>>
  BY <1>1, ReviewRowFields
<1>3. n \in Nat /\ s \in {"approved", "no_refund"} /\ NoReceipt \in MaybeReceipt
  BY AmountsAreNat DEF MaybeReceipt
<1>4. review' = StatusAndAmount(review, v, s, n)
  BY DEF Decide, StatusAndAmount
<1> HIDE DEF s
<1>5. ReviewRow(s, review[v].paid, n, NoReceipt, <<>>) \in ReviewRows
  BY <1>2, <1>3, UncorrectedReview
<1>6. review' = WithRow(review, v, ReviewRow(s, review[v].paid, n, review[v].receipt,
                                             review[v].corrections))
  BY <1>1, <1>4, ReviewUpdates
<1> QED
  BY <1>2, <1>5, <1>6 DEF s

\* The row a price decrease opens.
LEMMA OpenForDecreaseRow ==
    ASSUME MoneyInv, NEW d \in Decreases, NEW n \in DecreasesBy, OpenForDecrease(d, n)
    PROVE  LET row == ReviewRow("pending_review", n, review[d].amount, NoReceipt, <<>>)
           IN  /\ d \in Reviews /\ review[d].status = "none" /\ row \in ReviewRows
               /\ review' = WithRow(review, d, row)
<1>0. d \in Reviews
  BY DEF Reviews
<1>1. review \in [Reviews -> ReviewRows] /\ review[d].status = "none" /\ n \in Nat
  BY ExposureAssumption DEF MoneyInv, OpenForDecrease
<1>2. review[d].amount \in Nat /\ review[d].receipt = NoReceipt /\ review[d].corrections = <<>>
  BY <1>0, <1>1, ReviewRowFields
<1>3. review' = StatusAndPaid(review, d, "pending_review", n)
  BY DEF OpenForDecrease, StatusAndPaid
<1>4. ReviewRow("pending_review", n, review[d].amount, NoReceipt, <<>>) \in ReviewRows
  BY <1>1, <1>2, UncorrectedReview DEF MaybeReceipt
<1>5. review' = WithRow(review, d, ReviewRow("pending_review", n, review[d].amount,
                                             review[d].receipt, review[d].corrections))
  BY <1>0, <1>1, <1>3, ReviewUpdates
<1> QED
  BY <1>0, <1>1, <1>2, <1>4, <1>5

\* The row a refund paid out leaves.
LEMMA MarkRefundedRow ==
    ASSUME MoneyInv, NEW v \in Reviews, NEW c \in Receipts, MarkRefunded(v, c)
    PROVE  LET row == ReviewRow("refunded", review[v].paid, review[v].amount, c, <<>>)
           IN  /\ review[v].status = "approved" /\ row \in ReviewRows
               /\ review' = WithRow(review, v, row)
<1>1. review \in [Reviews -> ReviewRows] /\ review[v].status = "approved"
  BY DEF MoneyInv, MarkRefunded
<1>2. review[v].paid \in Nat /\ review[v].amount \in Nat /\ review[v].corrections = <<>>
  BY <1>1, ReviewRowFields
<1>3. c \in MaybeReceipt /\ c # NoReceipt
  BY ReceiptAssumption DEF MaybeReceipt
<1>4. review' = StatusAndReceipt(review, v, "refunded", c)
  BY DEF MarkRefunded, StatusAndReceipt
<1>5. ReviewRow("refunded", review[v].paid, review[v].amount, c, <<>>) \in ReviewRows
  BY <1>2, <1>3, UncorrectedReview
<1>6. review' = WithRow(review, v, ReviewRow("refunded", review[v].paid, review[v].amount, c,
                                             review[v].corrections))
  BY <1>1, <1>4, ReviewUpdates
<1> QED
  BY <1>1, <1>2, <1>5, <1>6

\* The correction an action records.
LEMMA CorrectionType ==
    ASSUME NEW kind \in Kinds, NEW m \in Nat, NEW n \in MaybeAmount, NEW c \in MaybeReceipt,
           NEW p, Valid(kind, p, n, c)
    PROVE  LET x == Correction(kind, m, n, c)
           IN  /\ x \in CorrectionRows /\ x.kind = kind /\ x.previous = m
               /\ x.amount = n /\ x.receipt = c
<1>1. n \in Nat \union {NoAmount}
  BY AmountsAreNat DEF MaybeAmount
<1>2. kind = "resent" => n # NoAmount
  BY DEF Valid
<1> QED
  BY <1>1, <1>2 DEF Correction, CorrectionRows

\* The row a correction of a refund leaves.
LEMMA CorrectRefundRow ==
    ASSUME MoneyInv, NEW v \in Reviews, NEW kind \in Kinds, NEW n \in MaybeAmount,
           NEW c \in MaybeReceipt, NEW note, CorrectRefund(v, kind, n, c, note)
    PROVE  LET r   == review[v]
               x   == Correction(kind, Payout(r).amount, n, c)
               row == ReviewRow("refunded", r.paid, r.amount, r.receipt, Append(r.corrections, x))
           IN  /\ r.status = "refunded" /\ Payout(r) \in Payouts
               /\ x \in CorrectionRows /\ x.kind = kind /\ x.amount = n /\ x.receipt = c
               /\ Valid(kind, Payout(r), n, c)
               /\ row \in ReviewRows /\ review' = WithRow(review, v, row)
               /\ Payout(row) = Apply(r.amount, Payout(r), x)
<1>1. review \in [Reviews -> ReviewRows] /\ review[v].status = "refunded"
      /\ Valid(kind, Payout(review[v]), n, c)
  BY DEF MoneyInv, CorrectRefund
<1>2. PICK r \in ReviewRows : r = review[v]
  BY <1>1
<1>3. r.amount \in Nat /\ r.receipt \in MaybeReceipt /\ r.corrections \in Seq(CorrectionRows)
  BY ReviewRowFields
<1>4. PICK p \in Payouts : p = Payout(r)
  BY <1>3, EffectiveType DEF Payout
<1>5. PICK x : x = Correction(kind, p.amount, n, c)
  OBVIOUS
<1>6. x \in CorrectionRows /\ x.kind = kind /\ x.amount = n /\ x.receipt = c
  <2>1. p.amount \in Nat /\ Valid(kind, p, n, c)
    BY <1>1, <1>2, <1>4 DEF Payouts
  <2> QED
    BY <1>5, <2>1, CorrectionType
<1>7. ReviewRow(r.status, r.paid, r.amount, r.receipt, Append(r.corrections, x)) \in ReviewRows
  BY <1>1, <1>2, <1>6, CorrectedReview
<1>8. review' = NewCorrections(review, v, Append(r.corrections, x))
  <2>1. review' = [review EXCEPT ![v].corrections
                       = Append(@, Correction(kind, Payout(review[v]).amount, n, c))]
    BY DEF CorrectRefund
  <2> QED
    BY <1>1, <1>2, <1>4, <1>5, <2>1 DEF NewCorrections
<1>9. review' = WithRow(review, v, ReviewRow(r.status, r.paid, r.amount, r.receipt,
                                             Append(r.corrections, x)))
  <2>1. PICK q : q = Append(r.corrections, x)
    OBVIOUS
  <2>2. NewCorrections(review, v, q)
        = WithRow(review, v, ReviewRow(review[v].status, review[v].paid, review[v].amount,
                                       review[v].receipt, q))
    BY <1>1, ReviewUpdates
  <2> QED
    BY <1>2, <1>8, <2>1, <2>2
<1>10. Payout(ReviewRow("refunded", r.paid, r.amount, r.receipt, Append(r.corrections, x)))
       = Apply(r.amount, p, x)
  BY <1>3, <1>4, <1>6, EffectiveAppend DEF Payout, ReviewRow
<1> QED
  BY <1>1, <1>2, <1>4, <1>5, <1>6, <1>7, <1>9, <1>10

-----------------------------------------------------------------------------
(* The sums of the task's money. *)

\* Sums over reviews by what each review sends and commits.
LEMMA RefundSums ==
    \A S : /\ CommittedRefunds(S) = SumFunctionOnSet(CommittedBy(review), S)
           /\ SentRefunds(S) = SumFunctionOnSet(SentBy(review), S)
BY DEF CommittedRefunds, SentRefunds, CommittedBy, SentBy

\* What a reimbursement commits of the item.
LEMMA ReimbursedType ==
    ASSUME NEW l \in LineRows
    PROVE  /\ CommittedReimbursements(l) \in Nat
           /\ l.status \notin {"payable", "paid"} => CommittedReimbursements(l) = 0
           /\ l.status \in {"payable", "paid"} => CommittedReimbursements(l) = l.amount
<1>1. l.status \in {"payable", "paid"} => l.amount \in Nat
  BY LineRowFields
<1> QED
  BY <1>1 DEF CommittedReimbursements

\* The sums of the task are natural numbers.
LEMMA MoneyTypes ==
    ASSUME MoneyInv
    PROVE  /\ TotalPaid \in Nat /\ ItemPaidGross \in Nat /\ ItemPaidGross <= TotalPaid
           /\ Reimbursed \in Nat
           /\ \A S \in SUBSET Reviews : CommittedRefunds(S) \in Nat /\ SentRefunds(S) \in Nat
                                        /\ SentRefunds(S) <= CommittedRefunds(S)
<1>1. paid \in SUBSET Payments /\ review \in [Reviews -> ReviewRows] /\ line \in [Lines -> LineRows]
  BY DEF MoneyInv
<1>2. \A p \in Payments : TotalPaid \in Nat /\ ItemPaidGross \in Nat /\ ItemPaidGross <= TotalPaid
  BY <1>1, PaidGrows DEF TotalPaid, ItemPaidGross
<1>3. "main" \in Payments /\ "item_reimbursement" \in Lines
  BY DEF Payments, Lines
<1>4. Reimbursed \in Nat
  BY <1>1, <1>3, ReimbursedType DEF Reimbursed
<1> QED
  BY <1>1, <1>2, <1>3, <1>4, ReviewSums, RefundSums

\* What is left of the item fits beside the decreases committed.
LEMMA ItemPaidToNitumeType ==
    ASSUME MoneyInv
    PROVE  /\ ItemPaidToNitume \in Nat
           /\ ItemPaidToNitume > 0 => ItemPaidToNitume + CommittedRefunds(Decreases) <= ItemPaidGross
<1>1. ItemPaidGross \in Nat /\ CommittedRefunds(Decreases) \in Nat
  BY MoneyTypes, PartsOfTheTaskFinite
<1> QED
  BY <1>1 DEF ItemPaidToNitume, Minus

-----------------------------------------------------------------------------
(* The lines the actions write. *)

\* The reimbursement a confirmed task records, payable only in full.
LEMMA ItemRowType ==
    ASSUME NEW item \in Nat, NEW limit \in Nat, NEW evidence \in BOOLEAN
    PROVE  /\ ItemRow(item, evidence, limit) \in LineRows
           /\ ItemRow(item, evidence, limit).receipt = NoReceipt
           /\ ItemRow(item, evidence, limit).corrections = <<>>
           /\ \/ ItemRow(item, evidence, limit).status \notin {"payable", "paid"}
              \/ item > 0 /\ ItemRow(item, evidence, limit).amount = item
<1> DEFINE held == PendingDecrease \/ ~evidence \/ item > limit
           s == IF held THEN "on_hold" ELSE "payable"
           a == IF held THEN NoAmount ELSE item
<1>1. CASE item = 0
  <2>1. ItemRow(item, evidence, limit) = NoLine
    BY <1>1 DEF ItemRow
  <2>2. NoLine = LineRow("none", 0, 0, 0, 0, NoReceipt, <<>>) /\ NoReceipt \in MaybeReceipt
    BY DEF NoLine, LineRow, MaybeReceipt
  <2>3. LineRow("none", 0, 0, 0, 0, NoReceipt, <<>>) \in LineRows
    BY <2>2, UncorrectedLine
  <2> QED
    BY <2>1, <2>2, <2>3 DEF NoLine
<1>2. CASE item # 0
  <2>1. ItemRow(item, evidence, limit) = FiveFields(s, item, a, item, limit)
    BY <1>2 DEF ItemRow, FiveFields
  <2>2. /\ s \in {"on_hold", "payable"} /\ a \in Nat \union {NoAmount}
        /\ s = "payable" => a = item
    OBVIOUS
  <2> HIDE DEF s, a
  <2>3. ItemRow(item, evidence, limit) = LineRow(s, item, a, item, limit, NoReceipt, <<>>)
    BY <2>1, NewLines
  <2>4. LineRow(s, item, a, item, limit, NoReceipt, <<>>) \in LineRows
    BY <2>2, UncorrectedLine DEF MaybeReceipt
  <2>5. PICK r : r = ItemRow(item, evidence, limit)
    OBVIOUS
  <2>6. r.status = s /\ r.amount = a /\ r.receipt = NoReceipt /\ r.corrections = <<>>
    BY <2>3, <2>5 DEF LineRow
  <2>7. s \notin {"payable", "paid"} \/ (item > 0 /\ a = item)
    BY <1>2, <2>2
  <2>8. r \in LineRows
    BY <2>3, <2>4, <2>5
  <2> QED
    BY <2>5, <2>6, <2>7, <2>8
<1> QED
  BY <1>1, <1>2

\* The fee a confirmed task records.
LEMMA FeeRowType ==
    FeeRow \in LineRows /\ FeeRow.receipt = NoReceipt /\ FeeRow.corrections = <<>>
<1>1. RunnerFee \in Nat /\ NoReceipt \in MaybeReceipt
  BY ExposureAssumption DEF MaybeReceipt
<1>2. PICK r : r = FeeRow
  OBVIOUS
<1>3. r \in {LineRow("none", 0, 0, 0, 0, NoReceipt, <<>>),
             LineRow("payable", RunnerFee, RunnerFee, 0, 0, NoReceipt, <<>>)}
  <2>1. NoLine = LineRow("none", 0, 0, 0, 0, NoReceipt, <<>>)
    BY DEF NoLine, LineRow
  <2>2. FeeRow \in {NoLine, ThreeFields("payable", RunnerFee, RunnerFee)}
    BY DEF FeeRow, ThreeFields
  <2> QED
    BY <1>2, <2>1, <2>2, NewLines
<1>4. /\ LineRow("none", 0, 0, 0, 0, NoReceipt, <<>>) \in LineRows
      /\ LineRow("payable", RunnerFee, RunnerFee, 0, 0, NoReceipt, <<>>) \in LineRows
  BY <1>1, UncorrectedLine
<1>5. r.receipt = NoReceipt /\ r.corrections = <<>>
  BY <1>3 DEF LineRow
<1> QED
  BY <1>2, <1>3, <1>4, <1>5

\* What the hook of a confirmation leaves: no line that was there is changed.
LEMMA RecordConfirmedRows ==
    ASSUME MoneyInv, NEW evidence \in BOOLEAN, NEW limit \in Limits, RecordConfirmed(evidence, limit)
    PROVE  /\ line' \in [Lines -> LineRows]
           /\ \A k \in Lines : /\ line[k].status # "none" => line'[k] = line[k]
                               /\ line[k].status = "none" =>
                                      line'[k].receipt = NoReceipt /\ line'[k].corrections = <<>>
           /\ \/ line'[ItemLine] = line[ItemLine]
              \/ line'[ItemLine].status \notin {"payable", "paid"}
              \/ ItemPaidToNitume > 0 /\ line'[ItemLine].amount = ItemPaidToNitume
<1>0. PICK item, fee, row : /\ item = ItemPaidToNitume /\ fee = FeeRow
                            /\ row = ItemRow(item, evidence, limit)
  OBVIOUS
<1>1. line \in [Lines -> LineRows] /\ item \in Nat /\ limit \in Nat
  BY <1>0, ItemPaidToNitumeType, ExposureAssumption DEF MoneyInv
<1>2. /\ row \in LineRows /\ row.receipt = NoReceipt /\ row.corrections = <<>>
      /\ row.status \notin {"payable", "paid"} \/ (item > 0 /\ row.amount = item)
  BY <1>0, <1>1, ItemRowType
<1>3. fee \in LineRows /\ fee.receipt = NoReceipt /\ fee.corrections = <<>>
  BY <1>0, FeeRowType
<1>4. line' = [line EXCEPT !["runner_fee"] = Insert(@, fee), !["item_reimbursement"] = Insert(@, row)]
  BY <1>0 DEF RecordConfirmed, ItemLine
<1>5. /\ line'["runner_fee"] = Insert(line["runner_fee"], fee)
      /\ line'["item_reimbursement"] = Insert(line["item_reimbursement"], row)
      /\ DOMAIN line' = Lines /\ line' = [k \in Lines |-> line'[k]]
  BY <1>1, <1>4 DEF Lines
<1>6. ASSUME NEW k \in Lines
      PROVE  /\ line'[k] \in LineRows
             /\ line[k].status # "none" => line'[k] = line[k]
             /\ line[k].status = "none" => line'[k].receipt = NoReceipt /\ line'[k].corrections = <<>>
  <2>1. CASE k = "runner_fee"
    BY <1>1, <1>3, <1>5, <2>1 DEF Insert
  <2>2. CASE k = "item_reimbursement"
    BY <1>1, <1>2, <1>5, <2>2 DEF Insert
  <2> QED
    BY <2>1, <2>2 DEF Lines
<1>7. line'[ItemLine] \in {line[ItemLine], row}
  BY <1>5 DEF Insert, ItemLine
<1>8. line' \in [Lines -> LineRows]
  BY <1>5, <1>6
<1> QED
  BY <1>0, <1>2, <1>6, <1>7, <1>8

\* The row a claim leaves.
LEMMA ClaimRow ==
    ASSUME MoneyInv, NEW n \in Amounts, NEW limit \in Limits, Claim(n, limit)
    PROVE  \E row \in LineRows :
               /\ row.status = "on_hold" /\ row.receipt = NoReceipt /\ row.corrections = <<>>
               /\ line[ItemLine].status = "none" /\ ItemLine \in Lines
               /\ line' = WithRow(line, ItemLine, row)
<1> DEFINE m == Lesser(ItemPaidToNitume, limit)
           row == LineRow("on_hold", n, NoAmount, m, limit, NoReceipt, <<>>)
<1>1. ItemPaidToNitume \in Nat /\ limit \in Nat /\ n \in Nat /\ NoReceipt \in MaybeReceipt
  BY ItemPaidToNitumeType, AmountsAreNat, ExposureAssumption DEF MaybeReceipt
<1>2. m \in Nat
  BY <1>1 DEF Lesser
<1>3. line[ItemLine].status = "none" /\ ItemLine \in Lines
      /\ line' = WithRow(line, ItemLine, FiveFields("on_hold", n, NoAmount, m, limit))
  BY DEF Claim, WithRow, FiveFields, Lines, ItemLine
<1> HIDE DEF m
<1>4. FiveFields("on_hold", n, NoAmount, m, limit) = row
  BY NewLines
<1>5. row \in LineRows
  BY <1>1, <1>2, UncorrectedLine
<1>6. row.status = "on_hold" /\ row.receipt = NoReceipt /\ row.corrections = <<>>
  BY DEF LineRow
<1> HIDE DEF row
<1> QED
  BY <1>3, <1>4, <1>5, <1>6

\* The row a rejection leaves.
LEMMA RejectRow ==
    ASSUME MoneyInv, Reject
    PROVE  \E row \in LineRows :
               /\ row.status = "rejected" /\ row.receipt = NoReceipt /\ row.corrections = <<>>
               /\ line[ItemLine].status = "on_hold" /\ ItemLine \in Lines
               /\ line' = WithRow(line, ItemLine, row)
<1>1. line \in [Lines -> LineRows] /\ line[ItemLine].status = "on_hold" /\ ItemLine \in Lines
  BY DEF MoneyInv, Reject, Lines, ItemLine
<1>2. PICK l \in LineRows : l = line[ItemLine]
  BY <1>1
<1>3. /\ l.requested \in Nat /\ l.amount \in Nat \union {NoAmount} /\ l.cap \in Nat /\ l.limit \in Nat
      /\ l.receipt = NoReceipt /\ l.corrections = <<>>
  BY <1>1, <1>2, LineRowFields
<1>4. line' = NewStatus(line, ItemLine, "rejected")
  BY DEF Reject, NewStatus
<1>5. PICK row : row = LineRow("rejected", l.requested, l.amount, l.cap, l.limit, l.receipt, l.corrections)
  OBVIOUS
<1>6. line' = WithRow(line, ItemLine, row)
  BY <1>1, <1>2, <1>4, <1>5, LineUpdates
<1>7. LineRow("rejected", l.requested, l.amount, l.cap, l.limit, NoReceipt, <<>>) \in LineRows
  BY <1>3, UncorrectedLine DEF MaybeReceipt
<1>8. row.status = "rejected" /\ row.receipt = NoReceipt /\ row.corrections = <<>>
  BY <1>3, <1>5 DEF LineRow
<1> QED
  BY <1>1, <1>3, <1>5, <1>6, <1>7, <1>8

\* The row an approval or a hold leaves.
LEMMA ReviewedRow ==
    ASSUME MoneyInv, NEW s \in {"on_hold", "payable"}, NEW a \in Nat \union {NoAmount},
           s = "payable" => a \in Nat,
           line[ItemLine].status \in {"on_hold", "payable"},
           line' = StatusAndAmount(line, ItemLine, s, a)
    PROVE  \E row \in LineRows :
               /\ row.status = s /\ row.amount = a /\ row.receipt = NoReceipt /\ row.corrections = <<>>
               /\ ItemLine \in Lines
               /\ line' = WithRow(line, ItemLine, row)
<1>1. line \in [Lines -> LineRows] /\ ItemLine \in Lines
  BY DEF MoneyInv, Lines, ItemLine
<1>2. PICK l \in LineRows : l = line[ItemLine]
  BY <1>1
<1>3. /\ l.requested \in Nat /\ l.cap \in Nat /\ l.limit \in Nat
      /\ l.receipt = NoReceipt /\ l.corrections = <<>>
  BY <1>2, LineRowFields
<1>5. PICK row : row = LineRow(s, l.requested, a, l.cap, l.limit, l.receipt, l.corrections)
  OBVIOUS
<1>6. line' = WithRow(line, ItemLine, row)
  BY <1>1, <1>2, <1>5, LineUpdates
<1>7. LineRow(s, l.requested, a, l.cap, l.limit, NoReceipt, <<>>) \in LineRows
  BY <1>3, UncorrectedLine DEF MaybeReceipt
<1>8. row.status = s /\ row.amount = a /\ row.receipt = NoReceipt /\ row.corrections = <<>>
  BY <1>3, <1>5 DEF LineRow
<1> QED
  BY <1>1, <1>3, <1>5, <1>6, <1>7, <1>8

\* The rows a payout of several lines leaves.
LEMMA MarkLinesPaidRows ==
    ASSUME MoneyInv, NEW S \in SUBSET Lines, NEW c \in Receipts, MarkLinesPaid(S, c)
    PROVE  /\ line' \in [Lines -> LineRows]
           /\ \A k \in Lines \ S : line'[k] = line[k]
           /\ \A k \in S : /\ line[k].status = "payable"
                           /\ line'[k].status = "paid" /\ line'[k].amount = line[k].amount
                           /\ line'[k].receipt = c /\ line'[k].corrections = <<>>
                           /\ line[k].receipt = NoReceipt /\ line[k].corrections = <<>>
<1>1. line \in [Lines -> LineRows] /\ \A k \in S : line[k].status = "payable"
  BY DEF MoneyInv, MarkLinesPaid
<1>2. line' = [k \in Lines |-> IF k \in S THEN PaidWith(line[k], "paid", c) ELSE line[k]]
  BY DEF MarkLinesPaid, PaidWith
<1>3. ASSUME NEW k \in S
      PROVE  /\ line'[k] \in LineRows
             /\ line'[k].status = "paid" /\ line'[k].amount = line[k].amount
             /\ line'[k].receipt = c /\ line'[k].corrections = <<>>
             /\ line[k].receipt = NoReceipt /\ line[k].corrections = <<>>
  <2>1. PICK l \in LineRows : l = line[k] /\ l.status = "payable"
    BY <1>1
  <2>2. /\ l.requested \in Nat /\ l.amount \in Nat /\ l.cap \in Nat /\ l.limit \in Nat
        /\ l.receipt = NoReceipt /\ l.corrections = <<>>
    BY <2>1, LineRowFields
  <2>3. PICK row : row = LineRow("paid", l.requested, l.amount, l.cap, l.limit, c, <<>>)
    OBVIOUS
  <2>4. line'[k] = row
    <3>1. k \in Lines
      OBVIOUS
    <3>2. PaidWith(line[k], "paid", c)
          = LineRow("paid", l.requested, l.amount, l.cap, l.limit, c, l.corrections)
      BY <1>1, <2>1, <3>1, LineUpdates
    <3> QED
      BY <1>2, <2>2, <2>3, <3>1, <3>2
  <2>5. c \in MaybeReceipt /\ c # NoReceipt
    BY ReceiptAssumption DEF MaybeReceipt
  <2>6. row \in LineRows
    BY <2>2, <2>3, <2>5, UncorrectedLine
  <2>7. row.status = "paid" /\ row.amount = l.amount /\ row.receipt = c /\ row.corrections = <<>>
    BY <2>3 DEF LineRow
  <2> QED
    BY <2>1, <2>2, <2>4, <2>6, <2>7
<1>4. \A k \in Lines \ S : line'[k] = line[k]
  BY <1>2
<1>5. line' \in [Lines -> LineRows]
  <2>1. DOMAIN line' = Lines /\ line' = [k \in Lines |-> line'[k]]
    BY <1>2
  <2>2. \A k \in Lines : line'[k] \in LineRows
    BY <1>1, <1>3, <1>4
  <2> QED
    BY <2>1, <2>2
<1> QED
  BY <1>1, <1>3, <1>4, <1>5

\* The row a correction of a payout leaves.
LEMMA CorrectLineRow ==
    ASSUME MoneyInv, NEW k \in Lines, NEW kind \in Kinds, NEW n \in MaybeAmount,
           NEW c \in MaybeReceipt, CorrectLine(k, kind, n, c)
    PROVE  LET l   == line[k]
               x   == Correction(kind, Payout(l).amount, n, c)
               row == LineRow("paid", l.requested, l.amount, l.cap, l.limit, l.receipt,
                              Append(l.corrections, x))
           IN  /\ l.status = "paid" /\ Payout(l) \in Payouts
               /\ x \in CorrectionRows /\ x.kind = kind /\ x.receipt = c
               /\ Valid(kind, Payout(l), n, c)
               /\ row \in LineRows /\ line' = WithRow(line, k, row)
<1>1. /\ line \in [Lines -> LineRows] /\ line[k].status = "paid"
      /\ Valid(kind, Payout(line[k]), n, c) /\ (n # NoAmount => n <= line[k].amount)
  BY DEF MoneyInv, CorrectLine
<1>2. PICK l \in LineRows : l = line[k]
  BY <1>1
<1>3. l.amount \in Nat /\ l.receipt \in MaybeReceipt /\ l.corrections \in Seq(CorrectionRows)
  BY <1>1, <1>2, LineRowFields
<1>4. PICK p \in Payouts : p = Payout(l)
  BY <1>3, EffectiveType DEF Payout
<1>5. PICK x : x = Correction(kind, p.amount, n, c)
  OBVIOUS
<1>6. x \in CorrectionRows /\ x.kind = kind /\ x.previous = p.amount /\ x.amount = n /\ x.receipt = c
  <2>1. p.amount \in Nat /\ Valid(kind, p, n, c)
    BY <1>1, <1>2, <1>4 DEF Payouts
  <2> QED
    BY <1>5, <2>1, CorrectionType
<1>7. LineRow(l.status, l.requested, l.amount, l.cap, l.limit, l.receipt, Append(l.corrections, x))
      \in LineRows
  BY <1>1, <1>2, <1>4, <1>6, CorrectedLine
<1>8. line' = NewCorrections(line, k, Append(l.corrections, x))
  <2>1. line' = [line EXCEPT ![k].corrections
                     = Append(@, Correction(kind, Payout(line[k]).amount, n, c))]
    BY DEF CorrectLine
  <2> QED
    BY <1>1, <1>2, <1>4, <1>5, <2>1 DEF NewCorrections
<1>9. line' = WithRow(line, k, LineRow(l.status, l.requested, l.amount, l.cap, l.limit, l.receipt,
                                       Append(l.corrections, x)))
  <2>1. PICK q : q = Append(l.corrections, x)
    OBVIOUS
  <2>2. NewCorrections(line, k, q)
        = WithRow(line, k, LineRow(line[k].status, line[k].requested, line[k].amount, line[k].cap,
                                   line[k].limit, line[k].receipt, q))
    BY <1>1, LineUpdates
  <2> QED
    BY <1>2, <1>8, <2>1, <2>2
<1> QED
  BY <1>1, <1>2, <1>4, <1>5, <1>6, <1>7, <1>9

-----------------------------------------------------------------------------
(* The invariant is inductive. *)

\* A function with one value replaced.
LEMMA WithRowType ==
    ASSUME NEW A, NEW R, NEW f \in [A -> R], NEW v \in A, NEW row \in R
    PROVE  /\ WithRow(f, v, row) \in [A -> R] /\ WithRow(f, v, row)[v] = row
           /\ \A x \in A \ {v} : WithRow(f, v, row)[x] = f[x]
BY DEF WithRow

\* The step of a result or of the backstop replaced, its sum as it was.
WithStep(r, s) == [r EXCEPT !.step = s]

\* It is a record of the same kind.
LEMMA WithStepType ==
    ASSUME NEW T, NEW r \in [step : T, sum : Nat], NEW s \in T
    PROVE  WithStep(r, s) \in [step : T, sum : Nat] /\ WithStep(r, s).step = s
<1>1. PICK a, b : r = [step |-> a, sum |-> b] /\ b \in Nat
  OBVIOUS
<1>2. [[step |-> a, sum |-> b] EXCEPT !.step = s] = [step |-> s, sum |-> b]
  OBVIOUS
<1>3. WithStep(r, s) = [step |-> s, sum |-> b]
  BY <1>1, <1>2 DEF WithStep
<1> QED
  BY <1>1, <1>3

\* The same of results.
LEMMA ResultStepType ==
    ASSUME NEW r \in ResultSteps, NEW s \in {"none", "under way", "ended", "summed"}
    PROVE  WithStep(r, s) \in ResultSteps /\ WithStep(r, s).step = s
<1>1. PICK T : T = {"none", "under way", "ended", "summed"}
  OBVIOUS
<1>2. ResultSteps = [step : T, sum : Nat] /\ s \in T
  BY <1>1 DEF ResultSteps
<1> QED
  BY <1>2, WithStepType, ZenonT(30)

\* The same of the backstop.
LEMMA RefreshStepType ==
    ASSUME NEW r \in RefreshSteps, NEW s \in {"none", "due", "summed"}
    PROVE  WithStep(r, s) \in RefreshSteps /\ WithStep(r, s).step = s
<1>1. PICK T : T = {"none", "due", "summed"}
  OBVIOUS
<1>2. RefreshSteps = [step : T, sum : Nat] /\ s \in T
  BY <1>1 DEF RefreshSteps
<1> QED
  BY <1>2, WithStepType

\* The cancellation review is none of the decreases.
LEMMA CancellationReview == Cancellation \in Reviews /\ \A d \in Decreases : d \in Reviews /\ d # Cancellation
BY ExposureAssumption DEF Reviews

\* The steps on payments and on the task's own refund.
LEMMA PaymentSteps ==
    ASSUME MoneyInv, NEW p \in Payments, ReadTask(p) \/ RecordResult(p) \/ SumLegs(p) \/ RecordLateResult(p)
    PROVE  MoneyInv'
<1> USE DEF MoneyInv, NotEndedYet
<1>0. Cancellation \in Reviews /\ result[p] \in ResultSteps /\ refresh \in RefreshSteps
  BY CancellationReview
<1>1. CASE ReadTask(p)
  <2>1. PICK s \in {"ended", "under way"} : s = IF status = "CANCELLED" THEN "ended" ELSE "under way"
    OBVIOUS
  <2>2. s \in {"none", "under way", "ended", "summed"}
    OBVIOUS
  <2>3. PICK r \in ResultSteps : r = WithStep(result[p], s) /\ r.step = s
    BY <1>0, <2>2, ResultStepType
  <2>4. result' = [result EXCEPT ![p] = r]
    BY <1>1, <2>1, <2>3 DEF ReadTask, WithStep
  <2>5. UNCHANGED <<status, paid, refresh, review, line>>
    BY <1>1 DEF ReadTask
  <2> QED
    BY <1>0, <2>1, <2>3, <2>4, <2>5
<1>2. CASE RecordResult(p)
  <2>1. PICK r \in ResultSteps : r = WithStep(result[p], "none") /\ r.step = "none"
    BY <1>0, ResultStepType
  <2>2. PICK f \in RefreshSteps : f = WithStep(refresh, "due")
    BY <1>0, RefreshStepType
  <2>3. /\ result' = [result EXCEPT ![p] = r]
        /\ refresh' = IF p = "main" /\ status = "CANCELLED" THEN f ELSE refresh
        /\ paid' = paid \union {p} /\ UNCHANGED <<status, review, line>>
    BY <1>2, <2>1, <2>2 DEF RecordResult, WithStep
  <2> QED
    BY <1>0, <2>1, <2>2, <2>3
<1>3. CASE SumLegs(p)
  <2>1. paid \union {p} \in SUBSET Payments
    OBVIOUS
  <2>2. PaidBy(paid \union {p}) \in Nat
    BY <2>1, PaidGrows
  <2>3. PICK r \in ResultSteps : r = [step |-> "summed", sum |-> PaidBy(paid \union {p})]
    BY <2>2 DEF ResultSteps
  <2>4. /\ result' = [result EXCEPT ![p] = r] /\ status = "CANCELLED"
        /\ UNCHANGED <<status, paid, refresh, review, line>>
    BY <1>3, <2>3 DEF SumLegs
  <2> QED
    BY <1>0, <2>4
<1>4. CASE RecordLateResult(p)
  <2>1. result[p].sum \in Nat /\ review[Cancellation] \in ReviewRows
    BY <1>0 DEF ResultSteps
  <2>2. PICK row \in ReviewRows : row = OpenWithin(review[Cancellation], result[p].sum)
    BY <2>1, OpenWithinRow
  <2>3. PICK r \in ResultSteps : r = [step |-> "none", sum |-> 0]
    BY DEF ResultSteps
  <2>4. /\ review' = [review EXCEPT ![Cancellation] = row] /\ result' = [result EXCEPT ![p] = r]
        /\ paid' = paid \union {p} /\ UNCHANGED <<status, refresh, line>>
    BY <1>4, <2>2, <2>3 DEF RecordLateResult
  <2>5. status = "CANCELLED"
    BY <1>4 DEF RecordLateResult
  <2> QED
    BY <1>0, <2>4, <2>5
<1> QED
  BY <1>1, <1>2, <1>3, <1>4

\* The steps of the task's end and of the backstop.
LEMMA EndSteps ==
    ASSUME MoneyInv, End \/ SumAgain \/ Refresh
    PROVE  MoneyInv'
<1>0. Cancellation \in Reviews /\ TotalPaid \in Nat
  BY CancellationReview, MoneyTypes
<1> USE DEF MoneyInv, NotEndedYet
<1>1. CASE End
  <2>1. PICK row \in ReviewRows : row = OpenWithin(review[Cancellation], TotalPaid)
    BY <1>0, OpenWithinRow
  <2>2. PICK f \in RefreshSteps : f = WithStep(refresh, "due")
    BY RefreshStepType
  <2>3. /\ review' = [review EXCEPT ![Cancellation] = row] /\ refresh' = f
        /\ status' = "CANCELLED" /\ UNCHANGED <<paid, result, line>>
    BY <1>1, <2>1, <2>2 DEF End, WithStep
  <2> QED
    BY <1>0, <2>3
<1>2. CASE SumAgain
  <2>1. PICK f \in RefreshSteps : f = [step |-> "summed", sum |-> TotalPaid]
    BY <1>0 DEF RefreshSteps
  <2>2. refresh' = f /\ status = "CANCELLED" /\ UNCHANGED <<status, paid, result, review, line>>
    BY <1>2, <2>1 DEF SumAgain
  <2> QED
    BY <1>0, <2>2
<1>3. CASE Refresh
  <2>1. refresh.sum \in Nat /\ review[Cancellation] \in ReviewRows
    BY <1>0 DEF RefreshSteps
  <2>2. PICK row \in ReviewRows : row = OpenWithin(review[Cancellation], refresh.sum)
    BY <2>1, OpenWithinRow
  <2>3. PICK f \in RefreshSteps : f = [step |-> "none", sum |-> 0]
    BY DEF RefreshSteps
  <2>4. /\ review' = [review EXCEPT ![Cancellation] = row] /\ refresh' = f
        /\ status = "CANCELLED" /\ UNCHANGED <<status, paid, result, line>>
    BY <1>3, <2>2, <2>3 DEF Refresh
  <2> QED
    BY <1>0, <2>4
<1> QED
  BY <1>1, <1>2, <1>3

\* A step that replaces a review, of the cancellation only once the task ended.
LEMMA ReviewStep ==
    ASSUME MoneyInv, NEW v \in Reviews, NEW row \in ReviewRows, review' = WithRow(review, v, row),
           v = Cancellation => status = "CANCELLED",
           UNCHANGED <<status, paid, result, refresh, line>>
    PROVE  MoneyInv'
<1>1. /\ review' \in [Reviews -> ReviewRows] /\ review'[v] = row
      /\ \A x \in Reviews \ {v} : review'[x] = review[x]
  <2>1. review \in [Reviews -> ReviewRows]
    BY DEF MoneyInv
  <2> QED
    BY <2>1 DEF WithRow
<1>2. status # "CANCELLED" => review'[Cancellation] = review[Cancellation]
  BY <1>1, CancellationReview
<1> QED
  BY <1>1, <1>2 DEF MoneyInv, NotEndedYet

\* A step on the lines alone.
LEMMA LineStep ==
    ASSUME MoneyInv, line' \in [Lines -> LineRows],
           UNCHANGED <<status, paid, result, refresh, review>>
    PROVE  MoneyInv'
BY DEF MoneyInv, NotEndedYet

\* The steps of an admin on the reviews.
LEMMA RefundSteps ==
    ASSUME MoneyInv,
           \/ \E d \in Decreases, n \in DecreasesBy : OpenForDecrease(d, n)
           \/ \E v \in Reviews, n \in Amounts, note \in BOOLEAN : Decide(v, n, note)
           \/ \E v \in Reviews, c \in Receipts : MarkRefunded(v, c)
           \/ \E v \in Reviews, kind \in Kinds, n \in MaybeAmount, c \in MaybeReceipt, note \in BOOLEAN :
                  CorrectRefund(v, kind, n, c, note)
    PROVE  MoneyInv'
<1>0. status # "CANCELLED" => review[Cancellation].status = "none"
  BY DEF MoneyInv, NotEndedYet
<1>1. CASE \E d \in Decreases, n \in DecreasesBy : OpenForDecrease(d, n)
  <2>1. PICK d \in Decreases, n \in DecreasesBy : OpenForDecrease(d, n)
    BY <1>1
  <2>2. PICK row \in ReviewRows : d \in Reviews /\ review' = WithRow(review, d, row)
    BY <2>1, OpenForDecreaseRow
  <2>3. UNCHANGED <<status, paid, result, refresh, line>> /\ d # Cancellation
    BY <2>1, CancellationReview DEF OpenForDecrease
  <2> QED
    BY <2>2, <2>3, ReviewStep
<1>2. CASE \E v \in Reviews, n \in Amounts, note \in BOOLEAN : Decide(v, n, note)
  <2>1. PICK v \in Reviews, n \in Amounts, note \in BOOLEAN : Decide(v, n, note)
    BY <1>2
  <2>2. PICK row \in ReviewRows : review' = WithRow(review, v, row)
    BY <2>1, DecideRow
  <2>3. UNCHANGED <<status, paid, result, refresh, line>> /\ review[v].status = "pending_review"
    BY <2>1 DEF Decide
  <2>4. v = Cancellation => status = "CANCELLED"
    BY <1>0, <2>3
  <2> QED
    BY <2>2, <2>3, <2>4, ReviewStep
<1>3. CASE \E v \in Reviews, c \in Receipts : MarkRefunded(v, c)
  <2>1. PICK v \in Reviews, c \in Receipts : MarkRefunded(v, c)
    BY <1>3
  <2>2. PICK row \in ReviewRows : review' = WithRow(review, v, row)
    BY <2>1, MarkRefundedRow
  <2>3. UNCHANGED <<status, paid, result, refresh, line>> /\ review[v].status = "approved"
    BY <2>1 DEF MarkRefunded
  <2>4. v = Cancellation => status = "CANCELLED"
    BY <1>0, <2>3
  <2> QED
    BY <2>2, <2>3, <2>4, ReviewStep
<1>4. CASE \E v \in Reviews, kind \in Kinds, n \in MaybeAmount, c \in MaybeReceipt, note \in BOOLEAN :
               CorrectRefund(v, kind, n, c, note)
  <2>1. PICK v \in Reviews, kind \in Kinds, n \in MaybeAmount, c \in MaybeReceipt, note \in BOOLEAN :
            CorrectRefund(v, kind, n, c, note)
    BY <1>4
  <2>2. PICK row \in ReviewRows : review' = WithRow(review, v, row)
    BY <2>1, CorrectRefundRow
  <2>3. UNCHANGED <<status, paid, result, refresh, line>> /\ review[v].status = "refunded"
    BY <2>1 DEF CorrectRefund
  <2>4. v = Cancellation => status = "CANCELLED"
    BY <1>0, <2>3
  <2> QED
    BY <2>2, <2>3, <2>4, ReviewStep
<1> QED
  BY <1>1, <1>2, <1>3, <1>4

\* The steps on the lines.
LEMMA PayoutSteps ==
    ASSUME MoneyInv, PayoutNext
    PROVE  MoneyInv'
<1>0. line \in [Lines -> LineRows]
  BY DEF MoneyInv
<1>1. CASE \E evidence \in BOOLEAN, limit \in Limits : RecordConfirmed(evidence, limit)
  <2>1. PICK evidence \in BOOLEAN, limit \in Limits : RecordConfirmed(evidence, limit)
    BY <1>1
  <2>2. line' \in [Lines -> LineRows]
    BY <2>1, RecordConfirmedRows
  <2> QED
    BY <2>1, <2>2 DEF MoneyInv, NotEndedYet, RecordConfirmed
<1>2. CASE \E n \in Amounts, limit \in Limits : Claim(n, limit)
  <2>1. PICK n \in Amounts, limit \in Limits : Claim(n, limit)
    BY <1>2
  <2>2. line' \in [Lines -> LineRows]
    <3>1. PICK row \in LineRows : ItemLine \in Lines /\ line' = WithRow(line, ItemLine, row)
      BY <2>1, ClaimRow
    <3> QED
      BY <1>0, <3>1, WithRowType
  <2> QED
    BY <2>1, <2>2, LineStep DEF Claim
<1>3. CASE Reject
  <2>1. line' \in [Lines -> LineRows]
    <3>1. PICK row \in LineRows : ItemLine \in Lines /\ line' = WithRow(line, ItemLine, row)
      BY <1>3, RejectRow
    <3> QED
      BY <1>0, <3>1, WithRowType
  <2> QED
    BY <1>3, <2>1, LineStep DEF Reject
<1>4. CASE Hold
  <2>1. line' = StatusAndAmount(line, ItemLine, "on_hold", NoAmount)
    BY <1>4 DEF Hold, StatusAndAmount
  <2>2. line[ItemLine].status = "payable"
    BY <1>4 DEF Hold
  <2>3. line' \in [Lines -> LineRows]
    <3>1. PICK row \in LineRows : ItemLine \in Lines /\ line' = WithRow(line, ItemLine, row)
      BY <2>1, <2>2, ReviewedRow
    <3> QED
      BY <1>0, <3>1, WithRowType
  <2> QED
    BY <1>4, <2>3, LineStep DEF Hold
<1>5. CASE \E n \in Amounts, exception, note \in BOOLEAN : Approve(n, exception, note)
  <2>1. PICK n \in Amounts, exception \in BOOLEAN, note \in BOOLEAN : Approve(n, exception, note)
    BY <1>5
  <2>2. line' = StatusAndAmount(line, ItemLine, "payable", n)
    BY <2>1 DEF Approve, StatusAndAmount
  <2>3. line[ItemLine].status = "on_hold" /\ n \in Nat
    BY <2>1, AmountsAreNat DEF Approve
  <2>4. line' \in [Lines -> LineRows]
    <3>1. PICK row \in LineRows : ItemLine \in Lines /\ line' = WithRow(line, ItemLine, row)
      BY <2>2, <2>3, ReviewedRow
    <3> QED
      BY <1>0, <3>1, WithRowType
  <2> QED
    BY <2>1, <2>4, LineStep DEF Approve
<1>6. CASE \E S \in SUBSET Lines, c \in Receipts : MarkLinesPaid(S, c)
  <2>1. PICK S \in SUBSET Lines, c \in Receipts : MarkLinesPaid(S, c)
    BY <1>6
  <2>2. line' \in [Lines -> LineRows]
    BY <2>1, MarkLinesPaidRows
  <2> QED
    BY <2>1, <2>2, LineStep DEF MarkLinesPaid
<1>7. CASE \E k \in Lines, kind \in Kinds, n \in MaybeAmount, c \in MaybeReceipt : CorrectLine(k, kind, n, c)
  <2>1. PICK k \in Lines, kind \in Kinds, n \in MaybeAmount, c \in MaybeReceipt : CorrectLine(k, kind, n, c)
    BY <1>7
  <2>2. PICK row \in LineRows : line' = WithRow(line, k, row)
    BY <2>1, CorrectLineRow
  <2>3. line' \in [Lines -> LineRows]
    BY <1>0, <2>2, WithRowType
  <2> QED
    BY <2>1, <2>3, LineStep DEF CorrectLine
<1> QED
  BY <1>1, <1>2, <1>3, <1>4, <1>5, <1>6, <1>7 DEF PayoutNext

\* Every step keeps the invariant.
LEMMA MoneyNext == MoneyInv /\ [Next]_vars => MoneyInv'
<1> SUFFICES ASSUME MoneyInv, [Next]_vars PROVE MoneyInv'
    OBVIOUS
<1>1. CASE UNCHANGED vars
  BY <1>1 DEF vars, MoneyInv, NotEndedYet
<1>2. CASE PayoutNext
  BY <1>2, PayoutSteps
<1>3. CASE RefundNext
  <2>1. CASE \E p \in Payments : ReadTask(p) \/ RecordResult(p) \/ SumLegs(p) \/ RecordLateResult(p)
    BY <2>1, PaymentSteps
  <2>2. CASE End \/ SumAgain \/ Refresh
    BY <2>2, EndSteps
  <2>3. CASE \/ \E d \in Decreases, n \in DecreasesBy : OpenForDecrease(d, n)
             \/ \E v \in Reviews, n \in Amounts, note \in BOOLEAN : Decide(v, n, note)
             \/ \E v \in Reviews, c \in Receipts : MarkRefunded(v, c)
             \/ \E v \in Reviews, kind \in Kinds, n \in MaybeAmount, c \in MaybeReceipt, note \in BOOLEAN :
                    CorrectRefund(v, kind, n, c, note)
    BY <2>3, RefundSteps
  <2> QED
    BY <1>3, <2>1, <2>2, <2>3 DEF RefundNext
<1> QED
  BY <1>1, <1>2, <1>3 DEF Next

\* Every row a task reaches is one the code can write, with its payout traced
\* through its corrections; a task that did not end refunds nothing as cancelled.
THEOREM MoneyInvThm == Spec => []MoneyInv
BY InitMoney, MoneyNext, PTL DEF Spec

-----------------------------------------------------------------------------
(* What is derived from the rows. *)

\* Of one line: its feed sums to what is available, it is listed as due when its
\* status says it is owed.
LEMMA LineViews ==
    ASSUME NEW l \in LineRows
    PROVE  /\ Available(l) = FeedSum(l)
           /\ LineDue(l) <=> EffectiveStatus(l) = "payable"
<1>1. /\ l.status \in {"none", "on_hold", "payable", "paid", "rejected"}
      /\ l.status \in {"payable", "paid"} => l.amount \in Nat
      /\ l.receipt \in MaybeReceipt /\ l.corrections \in Seq(CorrectionRows)
      /\ l.status # "paid" => l.corrections = <<>>
  BY LineRowFields
<1>2. CASE l.status = "paid"
  <2>1. PICK p \in Payouts : p = Payout(l)
    BY <1>1, <1>2, EffectiveType DEF Payout
  <2>2. Traced(p, l.corrections) /\ Balanced(l.amount, p, l.corrections)
    BY <1>2, <2>1 DEF LineRows
  <2>3. p.state \in {"sent", "reversed"} /\ p.amount \in Nat /\ l.amount \in Nat
    BY <1>1, <1>2 DEF Payouts
  <2>4. FeedSum(l) = l.amount - l.amount + SumFunction(Signs(l.corrections))
    BY <1>2 DEF FeedSum, Signs
  <2>5. FeedSum(l) = l.amount - p.amount
    BY <2>2, <2>3, <2>4 DEF Balanced
  <2>6. Available(l) = l.amount - p.amount
    <3>1. CASE p.state = "reversed"
      <4>1. EffectiveStatus(l) = "payable" /\ p.amount = 0
        BY <1>2, <2>1, <2>2, <3>1 DEF EffectiveStatus, Traced
      <4> QED
        <5>1. Minus(l.amount, Payout(l).amount) = l.amount
          BY <2>1, <2>3, <4>1 DEF Minus
        <5>2. Available(l) = l.amount
          BY <1>2, <4>1, <5>1 DEF Available
        <5> QED
          BY <2>3, <4>1, <5>2
    <3>2. CASE p.state = "sent"
      <4>1. EffectiveStatus(l) = "paid" /\ p.amount <= l.amount
        BY <1>2, <2>1, <2>2, <3>2 DEF EffectiveStatus, Balanced
      <4> QED
        BY <1>2, <2>1, <2>3, <4>1 DEF Available, Minus
    <3> QED
      BY <2>3, <3>1, <3>2
  <2>7. LineDue(l) <=> EffectiveStatus(l) = "payable"
    BY <1>2, <2>1, <2>2 DEF LineDue, EffectiveStatus, Traced
  <2> QED
    BY <2>5, <2>6, <2>7
<1>3. CASE l.status = "payable"
  <2>1. SumFunction(Signs(<<>>)) = 0
    BY FirstTraced DEF Balanced, MaybeReceipt, FirstPayout
  <2>2. FeedSum(l) = l.amount - 0 + SumFunction(Signs(l.corrections))
    BY <1>3 DEF FeedSum, Signs
  <2>3. FeedSum(l) = l.amount
    BY <1>1, <1>3, <2>1, <2>2
  <2> QED
    BY <1>3, <2>3 DEF Available, LineDue, EffectiveStatus
<1>4. CASE l.status \in {"none", "on_hold", "rejected"}
  BY <1>4 DEF Available, FeedSum, LineDue, EffectiveStatus
<1> QED
  BY <1>1, <1>2, <1>3, <1>4

\* What the query takes of one review.
QueryAmount(r) ==
    CASE r.status \notin Committed -> 0
      [] RefundDue(r) -> r.amount
      [] OTHER -> IF WithAmount(r.corrections) = {} THEN r.amount
                  ELSE r.corrections[Max(WithAmount(r.corrections))].amount

\* Of one review: it is listed as due when nothing is sent of what was approved,
\* and the query reads what the review commits.
LEMMA ReviewViews ==
    ASSUME NEW r \in ReviewRows
    PROVE  /\ RefundDue(r) <=> \/ r.status = "approved"
                               \/ r.status = "refunded" /\ Payout(r).state = "reversed"
           /\ QueryAmount(r) = CommittedAmount(r)
<1>1. /\ r.status \in {"none", "pending_review", "no_refund", "approved", "refunded"}
      /\ r.amount \in Nat /\ r.receipt \in MaybeReceipt /\ r.corrections \in Seq(CorrectionRows)
  BY ReviewRowFields
<1>2. PICK p \in Payouts : p = Payout(r)
  BY <1>1, EffectiveType DEF Payout
<1>3. Traced(p, r.corrections) /\ SentLatest(r.amount, p, r.corrections)
  BY <1>2 DEF ReviewRows
<1>4. p.state \in {"sent", "reversed"}
  BY DEF Payouts
<1>5. RefundDue(r) <=> r.status = "approved" \/ (r.status = "refunded" /\ p.state = "reversed")
  BY <1>3 DEF RefundDue, Traced
<1>6. CASE r.status = "refunded"
  <2>1. CASE p.state = "reversed"
    BY <1>2, <1>5, <1>6, <2>1 DEF QueryAmount, CommittedAmount, Committed
  <2>2. CASE p.state = "sent"
    <3>1. CommittedAmount(r) = p.amount
      BY <1>2, <1>6, <2>2 DEF CommittedAmount
    <3>2. ~RefundDue(r)
      BY <1>5, <1>6, <2>2
    <3>3. QueryAmount(r) = IF WithAmount(r.corrections) = {} THEN r.amount
                           ELSE r.corrections[Max(WithAmount(r.corrections))].amount
      BY <1>6, <3>2 DEF QueryAmount, Committed
    <3> QED
      BY <1>2, <1>3, <1>5, <2>2, <3>1, <3>3 DEF SentLatest
  <2> QED
    BY <1>2, <1>4, <1>5, <2>1, <2>2
<1>7. CASE r.status # "refunded"
  BY <1>1, <1>2, <1>5, <1>7 DEF QueryAmount, CommittedAmount, Committed
<1> QED
  BY <1>2, <1>5, <1>6, <1>7

\* The invariant has every view follow the rows.
LEMMA ViewsInv == MoneyInv => ViewsFollowRows
<1> SUFFICES ASSUME MoneyInv PROVE ViewsFollowRows
    OBVIOUS
<1>1. review \in [Reviews -> ReviewRows] /\ line \in [Lines -> LineRows]
  BY DEF MoneyInv
<1>2. AvailableAmount = SumFunction([k \in Lines |-> FeedSum(line[k])])
  <2>1. [k \in Lines |-> Available(line[k])] = [k \in Lines |-> FeedSum(line[k])]
    BY <1>1, LineViews
  <2> QED
    BY <2>1 DEF AvailableAmount
<1>3. DecreasesQuery = CommittedRefunds(Decreases)
  <2>1. PICK f : f = [d \in Decreases |-> QueryAmount(review[d])]
    OBVIOUS
  <2>2. DecreasesQuery = SumFunctionOnSet(f, Decreases)
    <3>1. DecreasesQuery = SumFunction([d \in Decreases |-> QueryAmount(review[d])])
      BY DEF DecreasesQuery, QueryAmount, WithAmount
    <3>2. DOMAIN f = Decreases
      BY <2>1
    <3> QED
      BY <2>1, <3>1, <3>2 DEF SumFunction
  <2>3. PICK h : h = CommittedBy(review)
    OBVIOUS
  <2>4. \A d \in Decreases : d \in Reviews /\ f[d] = h[d] /\ h[d] \in Int
    <3>1. ASSUME NEW d \in Decreases PROVE d \in Reviews /\ f[d] = h[d] /\ h[d] \in Int
      <4>1. d \in Reviews /\ review[d] \in ReviewRows
        BY <1>1, CancellationReview
      <4>2. QueryAmount(review[d]) = CommittedAmount(review[d]) /\ CommittedAmount(review[d]) \in Int
        BY <4>1, ReviewViews, RowAmounts
      <4> QED
        BY <2>1, <2>3, <4>1, <4>2 DEF CommittedBy
    <3> QED
      BY <3>1
  <2>5. f \in [Decreases -> Int]
    BY <2>1, <2>4
  <2>6. h \in [Reviews -> Int]
    BY <1>1, <2>3, ReviewSums
  <2>7. SumFunctionOnSet(f, Decreases) = SumFunctionOnSet(h, Decreases)
    <3>1. IsFiniteSet(Decreases) /\ IsFiniteSet(Reviews) /\ Decreases \subseteq Reviews
      BY ExposureAssumption, PartsOfTheTaskFinite
    <3> QED
      BY <2>4, <2>5, <2>6, <3>1, SumCompare
  <2> QED
    BY <2>2, <2>3, <2>7, RefundSums
<1> QED
  BY <1>1, <1>2, <1>3, LineViews, ReviewViews DEF ViewsFollowRows

\* Whatever the corrections, the runner's feed sums to the available amount, and
\* the queries that look at the latest corrections only agree with the fold of all
\* of them (payoutFeedOf, linePositionOf, pendingConfirmation, the statusFilters).
THEOREM ViewsFollowRowsThm == Spec => []ViewsFollowRows
BY MoneyInvThm, ViewsInv, PTL

-----------------------------------------------------------------------------
(* The cap of the task. *)

\* A check that lifts nothing leaves the amount within the cap.
LEMMA WithinExposureFits ==
    ASSUME NEW scope, NEW n \in Nat, NEW basis \in Nat, NEW refunds \in Nat, NEW reimbursed \in Nat,
           scope \notin WithinExposure(scope, n, basis, refunds, reimbursed), n > 0
    PROVE  n + refunds + reimbursed <= basis
BY DEF WithinExposure, Minus

\* A step on a review that sends no more, or fits beside what the others
\* commit, keeps the cap.
LEMMA CapAfterReview ==
    ASSUME MoneyInv, NEW scope, NEW S \in SUBSET Reviews, NEW limit \in Nat,
           NEW v \in Reviews, NEW row \in ReviewRows, review' = WithRow(review, v, row),
           line' = line, scope \notin overrides',
           SentRefunds(S) + Reimbursed <= limit,
           v \in S => \/ Sent(row) <= Sent(review[v])
                      \/ Sent(row) + CommittedRefunds(S \ {v}) + Reimbursed <= limit
    PROVE  SentRefunds(S)' + Reimbursed' <= limit
<1>1. review \in [Reviews -> ReviewRows] /\ review' \in [Reviews -> ReviewRows]
      /\ review'[v] = row /\ \A x \in Reviews \ {v} : review'[x] = review[x]
  <2>1. review \in [Reviews -> ReviewRows]
    BY DEF MoneyInv
  <2> QED
    BY <2>1 DEF WithRow
<1>2. PICK m \in Nat : m = Reimbursed /\ m = Reimbursed'
  BY MoneyTypes DEF Reimbursed
<1>3. SentRefunds(S) = SumFunctionOnSet(SentBy(review), S)
      /\ SentRefunds(S)' = SumFunctionOnSet(SentBy(review'), S)
      /\ CommittedRefunds(S \ {v}) = SumFunctionOnSet(CommittedBy(review), S \ {v})
  BY DEF SentRefunds, CommittedRefunds, SentBy, CommittedBy
<1>4. CASE v \in S
  <2>1. \A x \in S \ {v} : review'[x] = review[x]
    BY <1>1
  <2>2. \/ /\ Sent(review'[v]) <= Sent(review[v])
           /\ SumFunctionOnSet(SentBy(review), S) + m <= limit
        \/ Sent(review'[v]) + SumFunctionOnSet(CommittedBy(review), S \ {v}) + m <= limit
    BY <1>1, <1>2, <1>3, <1>4
  <2>3. PICK rv, nv : rv = review /\ nv = review'
    OBVIOUS
  <2>4. SumFunctionOnSet(SentBy(nv), S) + m <= limit
    <3>1. rv \in [Reviews -> ReviewRows] /\ nv \in [Reviews -> ReviewRows]
          /\ \A x \in S \ {v} : nv[x] = rv[x]
      BY <1>1, <2>1, <2>3
    <3>2. \/ /\ Sent(nv[v]) <= Sent(rv[v])
             /\ SumFunctionOnSet(SentBy(rv), S) + m <= limit
          \/ Sent(nv[v]) + SumFunctionOnSet(CommittedBy(rv), S \ {v}) + m <= limit
      BY <2>2, <2>3
    <3> QED
      BY <1>4, <3>1, <3>2, OneReviewReplaced
  <2> QED
    BY <1>2, <1>3, <2>3, <2>4
<1>5. CASE v \notin S
  <2>1. PICK rv, nv : rv = review /\ nv = review'
    OBVIOUS
  <2>2. \A x \in S : Sent(nv[x]) = Sent(rv[x])
    BY <1>1, <1>5, <2>1
  <2>3. SumFunctionOnSet(SentBy(nv), S) = SumFunctionOnSet(SentBy(rv), S)
    BY <1>1, <2>1, <2>2, SameSent
  <2> QED
    BY <1>2, <1>3, <2>1, <2>3
<1> QED
  BY <1>4, <1>5

\* A step that keeps what every review sends and what is reimbursed, while no
\* less is paid.
LEMMA CapKept ==
    ASSUME MoneyInv, NEW scope, NEW S \in SUBSET Reviews, NEW limit \in Nat, NEW more \in Nat,
           limit <= more, review' \in [Reviews -> ReviewRows],
           \A v \in Reviews : Sent(review'[v]) = Sent(review[v]),
           Reimbursed' \in Nat, Reimbursed' <= Reimbursed,
           SentRefunds(S) + Reimbursed <= limit
    PROVE  SentRefunds(S)' + Reimbursed' <= more
<1>1. PICK rv, nv : rv = review /\ nv = review'
  OBVIOUS
<1>2. rv \in [Reviews -> ReviewRows] /\ nv \in [Reviews -> ReviewRows]
      /\ \A x \in S : Sent(nv[x]) = Sent(rv[x])
  BY <1>1 DEF MoneyInv
<1>3. SumFunctionOnSet(SentBy(nv), S) = SumFunctionOnSet(SentBy(rv), S)
  BY <1>2, SameSent
<1>4. SentRefunds(S) = SumFunctionOnSet(SentBy(review), S)
      /\ SentRefunds(S)' = SumFunctionOnSet(SentBy(review'), S)
  BY DEF SentRefunds, SentBy
<1>5. SentRefunds(S) \in Nat /\ Reimbursed \in Nat
  BY MoneyTypes
<1> QED
  BY <1>1, <1>3, <1>4, <1>5

\* Both caps of the task.
Caps == SentWithinPaid /\ ItemMoneySpentOnce

\* A step that sends no more while no less is paid.
LEMMA CapsKept ==
    ASSUME MoneyInv, Caps, review' \in [Reviews -> ReviewRows],
           \A v \in Reviews : Sent(review'[v]) = Sent(review[v]),
           Reimbursed' \in Nat, Reimbursed' <= Reimbursed,
           paid' = paid \/ \E p \in Payments : paid' = paid \union {p},
           overrides \subseteq overrides'
    PROVE  Caps'
<1>1. /\ TotalPaid' \in Nat /\ ItemPaidGross' \in Nat
      /\ TotalPaid <= TotalPaid' /\ ItemPaidGross <= ItemPaidGross'
  <2>1. paid \in SUBSET Payments
    BY DEF MoneyInv
  <2>2. CASE paid' = paid
    BY <2>2, MoneyTypes DEF TotalPaid, ItemPaidGross
  <2>3. CASE \E p \in Payments : paid' = paid \union {p}
    <3>1. PICK p \in Payments : paid' = paid \union {p}
      BY <2>3
    <3>2. PICK A, B : A = paid /\ B = paid \union {p}
      OBVIOUS
    <3>3. A \in SUBSET Payments /\ B \in SUBSET Payments /\ B = A \union {p}
      BY <2>1, <3>2
    <3>4. /\ PaidBy(B) \in Nat /\ PaidBy(A) <= PaidBy(B)
          /\ SumFunctionOnSet([x \in Payments |-> ItemOf(x)], B) \in Nat
          /\ SumFunctionOnSet([x \in Payments |-> ItemOf(x)], A)
             <= SumFunctionOnSet([x \in Payments |-> ItemOf(x)], B)
      BY <3>3, PaidGrows
    <3> QED
      BY <3>1, <3>2, <3>4 DEF TotalPaid, ItemPaidGross
  <2> QED
    BY <2>2, <2>3
<1>2. TotalPaid \in Nat /\ ItemPaidGross \in Nat
  BY MoneyTypes
<1>3. Reviews \in SUBSET Reviews /\ Decreases \in SUBSET Reviews
  BY PartsOfTheTaskFinite
<1>4. PICK t \in Nat, u \in Nat, i \in Nat, j \in Nat :
          t = TotalPaid /\ u = TotalPaid' /\ i = ItemPaidGross /\ j = ItemPaidGross'
  BY <1>1, <1>2
<1>5. SentWithinPaid'
  <2>1. SUFFICES ASSUME "task" \notin overrides' PROVE SentRefunds(Reviews)' + Reimbursed' <= u
    BY <1>4 DEF SentWithinPaid
  <2>2. SentRefunds(Reviews) + Reimbursed <= t
    BY <1>4, <2>1 DEF Caps, SentWithinPaid
  <2> QED
    BY <1>1, <1>3, <1>4, <2>2, CapKept
<1>6. ItemMoneySpentOnce'
  <2>1. SUFFICES ASSUME "item" \notin overrides' PROVE SentRefunds(Decreases)' + Reimbursed' <= j
    BY <1>4 DEF ItemMoneySpentOnce
  <2>2. SentRefunds(Decreases) + Reimbursed <= i
    BY <1>4, <2>1 DEF Caps, ItemMoneySpentOnce
  <2> QED
    BY <1>1, <1>3, <1>4, <2>2, CapKept
<1> QED
  BY <1>5, <1>6 DEF Caps

\* A review replaced by one that sends no more, or that sends an amount the
\* caps were asked for.
LEMMA CapsAfterReview ==
    ASSUME MoneyInv, Caps, NEW v \in Reviews, NEW row \in ReviewRows,
           review' = WithRow(review, v, row), line' = line, paid' = paid,
           overrides \subseteq overrides',
           \/ Sent(row) <= Sent(review[v])
           \/ Sent(row) > 0 /\ Lifted(v, Sent(row)) \subseteq overrides'
    PROVE  Caps'
<1>1. /\ TotalPaid \in Nat /\ ItemPaidGross \in Nat /\ Reimbursed \in Nat
      /\ TotalPaid' = TotalPaid /\ ItemPaidGross' = ItemPaidGross
  BY MoneyTypes DEF TotalPaid, ItemPaidGross
<1>2. /\ Reviews \in SUBSET Reviews /\ Decreases \in SUBSET Reviews
      /\ Reviews \ {v} \in SUBSET Reviews /\ Decreases \ {v} \in SUBSET Reviews
  BY PartsOfTheTaskFinite
<1>3. /\ CommittedRefunds(Reviews \ {v}) \in Nat /\ CommittedRefunds(Decreases \ {v}) \in Nat
      /\ Sent(row) \in Nat
  BY <1>2, MoneyTypes, RowAmounts
<1>4. SentWithinPaid'
  <2>1. SUFFICES ASSUME "task" \notin overrides'
                 PROVE  SentRefunds(Reviews)' + Reimbursed' <= TotalPaid
    BY <1>1 DEF SentWithinPaid
  <2>2. SentRefunds(Reviews) + Reimbursed <= TotalPaid
    BY <2>1 DEF Caps, SentWithinPaid
  <2>3. \/ Sent(row) <= Sent(review[v])
        \/ Sent(row) + CommittedRefunds(Reviews \ {v}) + Reimbursed <= TotalPaid
    <3>1. SUFFICES ASSUME Sent(row) > 0, Lifted(v, Sent(row)) \subseteq overrides'
                   PROVE  Sent(row) + CommittedRefunds(Reviews \ {v}) + Reimbursed <= TotalPaid
      OBVIOUS
    <3>2. "task" \notin WithinExposure("task", Sent(row), TotalPaid,
                                       CommittedRefunds(Reviews \ {v}), Reimbursed)
      BY <2>1, <3>1 DEF Lifted, Others
    <3> QED
      BY <1>1, <1>3, <3>1, <3>2, WithinExposureFits
  <2>4. PICK t \in Nat : t = TotalPaid
    BY <1>1
  <2> QED
    BY <1>2, <2>1, <2>2, <2>3, <2>4, CapAfterReview
<1>5. ItemMoneySpentOnce'
  <2>1. SUFFICES ASSUME "item" \notin overrides'
                 PROVE  SentRefunds(Decreases)' + Reimbursed' <= ItemPaidGross
    BY <1>1 DEF ItemMoneySpentOnce
  <2>2. SentRefunds(Decreases) + Reimbursed <= ItemPaidGross
    BY <2>1 DEF Caps, ItemMoneySpentOnce
  <2>3. v \in Decreases =>
            \/ Sent(row) <= Sent(review[v])
            \/ Sent(row) + CommittedRefunds(Decreases \ {v}) + Reimbursed <= ItemPaidGross
    <3>1. SUFFICES ASSUME v \in Decreases, Sent(row) > 0, Lifted(v, Sent(row)) \subseteq overrides'
                   PROVE  Sent(row) + CommittedRefunds(Decreases \ {v}) + Reimbursed <= ItemPaidGross
      OBVIOUS
    <3>2. "item" \notin WithinExposure("item", Sent(row), ItemPaidGross,
                                       CommittedRefunds(Decreases \ {v}), Reimbursed)
      BY <2>1, <3>1 DEF Lifted, ItemExposure
    <3> QED
      BY <1>1, <1>3, <3>1, <3>2, WithinExposureFits
  <2>4. PICK t \in Nat : t = ItemPaidGross
    BY <1>1
  <2> QED
    BY <1>2, <2>1, <2>2, <2>3, <2>4, CapAfterReview
<1> QED
  BY <1>4, <1>5 DEF Caps

\* A reimbursement that is no more than before, or fits beside the refunds.
LEMMA CapsAfterLine ==
    ASSUME MoneyInv, Caps, review' = review, paid' = paid, overrides \subseteq overrides',
           NEW m \in Nat, m = Reimbursed',
           \/ m <= Reimbursed
           \/ /\ "task" \notin overrides' => SentRefunds(Reviews) + m <= TotalPaid
              /\ SentRefunds(Decreases) + m <= ItemPaidGross
    PROVE  Caps'
<1>1. /\ TotalPaid' = TotalPaid /\ ItemPaidGross' = ItemPaidGross
      /\ SentRefunds(Reviews)' = SentRefunds(Reviews)
      /\ SentRefunds(Decreases)' = SentRefunds(Decreases)
  BY DEF TotalPaid, ItemPaidGross, SentRefunds
<1>2. /\ TotalPaid \in Nat /\ ItemPaidGross \in Nat /\ Reimbursed \in Nat
      /\ SentRefunds(Reviews) \in Nat /\ SentRefunds(Decreases) \in Nat
  BY MoneyTypes, PartsOfTheTaskFinite
<1>3. SentWithinPaid'
  <2>1. SUFFICES ASSUME "task" \notin overrides' PROVE SentRefunds(Reviews) + m <= TotalPaid
    BY <1>1 DEF SentWithinPaid
  <2>2. SentRefunds(Reviews) + Reimbursed <= TotalPaid
    BY <2>1 DEF Caps, SentWithinPaid
  <2> QED
    BY <1>2, <2>1, <2>2
<1>4. ItemMoneySpentOnce'
  <2>1. SUFFICES ASSUME "item" \notin overrides' PROVE SentRefunds(Decreases) + m <= ItemPaidGross
    BY <1>1 DEF ItemMoneySpentOnce
  <2>2. SentRefunds(Decreases) + Reimbursed <= ItemPaidGross
    BY <2>1 DEF Caps, ItemMoneySpentOnce
  <2> QED
    BY <1>2, <2>1, <2>2
<1> QED
  BY <1>3, <1>4 DEF Caps

\* The upsert of the cancellation review.
OpensWithin(sum) == review' = [review EXCEPT ![Cancellation] = OpenWithin(@, sum)]

\* It sends nothing, records no receipt and changes no decided review.
LEMMA OpensWithinKeeps ==
    ASSUME MoneyInv, NEW sum \in Nat, OpensWithin(sum), NEW v \in Reviews
    PROVE  /\ Sent(review'[v]) = Sent(review[v])
           /\ review'[v].receipt = review[v].receipt
           /\ review'[v].corrections = review[v].corrections
           /\ review[v].status \notin {"none", "pending_review"} => review'[v] = review[v]
<1>1. review \in [Reviews -> ReviewRows] /\ Cancellation \in Reviews
  BY CancellationReview DEF MoneyInv
<1>2. PICK row : row = OpenWithin(review[Cancellation], sum)
  OBVIOUS
<1>3. /\ Sent(row) = Sent(review[Cancellation])
      /\ row.receipt = review[Cancellation].receipt
      /\ row.corrections = review[Cancellation].corrections
      /\ review[Cancellation].status \notin {"none", "pending_review"} => row = review[Cancellation]
  BY <1>1, <1>2, OpenWithinRow
<1>4. review' = [review EXCEPT ![Cancellation] = row]
  BY <1>2 DEF OpensWithin
<1> QED
  BY <1>1, <1>3, <1>4

\* What the steps of payments and of the task's end leave as it was.
LEMMA PaymentStepsKeep ==
    ASSUME MoneyInv,
           \/ \E p \in Payments : ReadTask(p) \/ RecordResult(p) \/ SumLegs(p) \/ RecordLateResult(p)
           \/ End \/ SumAgain \/ Refresh
    PROVE  /\ line' = line /\ overrides' = overrides
           /\ paid' = paid \/ \E p \in Payments : paid' = paid \union {p}
           /\ \A v \in Reviews :
                  /\ Sent(review'[v]) = Sent(review[v])
                  /\ review'[v].receipt = review[v].receipt
                  /\ review'[v].corrections = review[v].corrections
                  /\ review[v].status \notin {"none", "pending_review"} => review'[v] = review[v]
<1>1. TotalPaid \in Nat /\ result \in [Payments -> ResultSteps] /\ refresh \in RefreshSteps
  BY MoneyTypes DEF MoneyInv
<1>2. ASSUME NEW p \in Payments, RecordLateResult(p)
      PROVE  \E sum \in Nat : OpensWithin(sum)
  <2>1. result[p].sum \in Nat
    BY <1>1 DEF ResultSteps
  <2> QED
    BY <1>2, <2>1 DEF RecordLateResult, OpensWithin
<1>3. ASSUME Refresh
      PROVE  \E sum \in Nat : OpensWithin(sum)
  <2>1. refresh.sum \in Nat
    BY <1>1 DEF RefreshSteps
  <2> QED
    BY <1>3, <2>1 DEF Refresh, OpensWithin
<1>4. ASSUME End
      PROVE  \E sum \in Nat : OpensWithin(sum)
  BY <1>1, <1>4 DEF End, OpensWithin
<1>5. line' = line /\ overrides' = overrides
      /\ (paid' = paid \/ \E p \in Payments : paid' = paid \union {p})
  BY DEF ReadTask, RecordResult, SumLegs, RecordLateResult, End, SumAgain, Refresh
<1>6. review' = review \/ End \/ Refresh \/ \E p \in Payments : RecordLateResult(p)
  BY DEF ReadTask, RecordResult, SumLegs, SumAgain
<1>7. CASE review' = review
  BY <1>5, <1>7
<1>8. CASE \E sum \in Nat : OpensWithin(sum)
  BY <1>5, <1>8, OpensWithinKeeps
<1> QED
  BY <1>2, <1>3, <1>4, <1>6, <1>7, <1>8

\* Payments and the end of the task keep the caps.
LEMMA CapsPaymentSteps ==
    ASSUME MoneyInv, MoneyInv', Caps,
           \/ \E p \in Payments : ReadTask(p) \/ RecordResult(p) \/ SumLegs(p) \/ RecordLateResult(p)
           \/ End \/ SumAgain \/ Refresh
    PROVE  Caps'
<1>1. Reimbursed \in Nat
  BY MoneyTypes
<1>2. /\ line' = line /\ overrides' = overrides
      /\ paid' = paid \/ \E p \in Payments : paid' = paid \union {p}
      /\ \A v \in Reviews : Sent(review'[v]) = Sent(review[v])
  BY PaymentStepsKeep
<1>3. Reimbursed' \in Nat /\ Reimbursed' <= Reimbursed
  <2>1. Reimbursed' = Reimbursed
    BY <1>2 DEF Reimbursed
  <2> QED
    BY <1>1, <2>1
<1>4. review' \in [Reviews -> ReviewRows] /\ overrides \subseteq overrides'
  BY <1>2 DEF MoneyInv
<1> QED
  BY <1>2, <1>3, <1>4, CapsKept

\* A refund is decided, sent or corrected within the caps.
LEMMA CapsRefundSteps ==
    ASSUME MoneyInv, MoneyInv', Caps,
           \/ \E d \in Decreases, n \in DecreasesBy : OpenForDecrease(d, n)
           \/ \E v \in Reviews, n \in Amounts, note \in BOOLEAN : Decide(v, n, note)
           \/ \E v \in Reviews, c \in Receipts : MarkRefunded(v, c)
           \/ \E v \in Reviews, kind \in Kinds, n \in MaybeAmount, c \in MaybeReceipt, note \in BOOLEAN :
                  CorrectRefund(v, kind, n, c, note)
    PROVE  Caps'
<1>0. review \in [Reviews -> ReviewRows]
  BY DEF MoneyInv
<1>1. CASE \E d \in Decreases, n \in DecreasesBy : OpenForDecrease(d, n)
  <2>1. PICK d \in Decreases, n \in DecreasesBy : OpenForDecrease(d, n)
    BY <1>1
  <2>2. PICK row : /\ row = ReviewRow("pending_review", n, review[d].amount, NoReceipt, <<>>)
                   /\ d \in Reviews /\ row \in ReviewRows /\ review' = WithRow(review, d, row)
    BY <2>1, OpenForDecreaseRow
  <2>3. row.status = "pending_review"
    BY <2>2 DEF ReviewRow
  <2>4. Sent(row) = 0 /\ Sent(review[d]) \in Nat
    BY <1>0, <2>2, <2>3, RowAmounts DEF Sent, CommittedAmount
  <2>5. line' = line /\ paid' = paid /\ overrides' = overrides
    BY <2>1 DEF OpenForDecrease
  <2> QED
    BY <2>2, <2>4, <2>5, CapsAfterReview
<1>2. CASE \E v \in Reviews, n \in Amounts, note \in BOOLEAN : Decide(v, n, note)
  <2>1. PICK v \in Reviews, n \in Amounts, note \in BOOLEAN : Decide(v, n, note)
    BY <1>2
  <2>2. PICK row : /\ row = ReviewRow(IF n > 0 THEN "approved" ELSE "no_refund",
                                      review[v].paid, n, NoReceipt, <<>>)
                   /\ row \in ReviewRows /\ review' = WithRow(review, v, row)
    BY <2>1, DecideRow
  <2>3. row.status = (IF n > 0 THEN "approved" ELSE "no_refund") /\ row.amount = n /\ n \in Nat
    BY <2>2, AmountsAreNat DEF ReviewRow
  <2>4. Sent(row) = n /\ Sent(review[v]) \in Nat
    BY <1>0, <2>3, RowAmounts DEF Sent, CommittedAmount
  <2>5. line' = line /\ paid' = paid
        /\ overrides' = overrides \union (IF n > 0 THEN Lifted(v, n) ELSE {})
    BY <2>1 DEF Decide
  <2>6. overrides \subseteq overrides' /\ (n > 0 => Lifted(v, Sent(row)) \subseteq overrides')
    BY <2>4, <2>5
  <2> QED
    BY <2>2, <2>3, <2>4, <2>5, <2>6, CapsAfterReview
<1>3. CASE \E v \in Reviews, c \in Receipts : MarkRefunded(v, c)
  <2>1. PICK v \in Reviews, c \in Receipts : MarkRefunded(v, c)
    BY <1>3
  <2>2. PICK row : /\ row = ReviewRow("refunded", review[v].paid, review[v].amount, c, <<>>)
                   /\ review[v].status = "approved"
                   /\ row \in ReviewRows /\ review' = WithRow(review, v, row)
    BY <2>1, MarkRefundedRow
  <2>3. /\ row.status = "refunded" /\ row.amount = review[v].amount /\ row.receipt = c
        /\ row.corrections = <<>> /\ review[v].amount \in Nat /\ c \in MaybeReceipt
    BY <1>0, <2>2, ReviewRowFields DEF ReviewRow, MaybeReceipt
  <2>4. Payout(row) = FirstPayout(row.amount, row.receipt)
    BY <2>3, FirstTraced DEF Payout
  <2>5. Sent(row) = review[v].amount /\ Sent(review[v]) = review[v].amount
    BY <2>2, <2>3, <2>4 DEF Sent, CommittedAmount, FirstPayout
  <2>6. line' = line /\ paid' = paid /\ overrides' = overrides
    BY <2>1 DEF MarkRefunded
  <2> QED
    BY <2>2, <2>3, <2>5, <2>6, CapsAfterReview
<1>4. CASE \E v \in Reviews, kind \in Kinds, n \in MaybeAmount, c \in MaybeReceipt, note \in BOOLEAN :
               CorrectRefund(v, kind, n, c, note)
  <2>1. PICK v \in Reviews, kind \in Kinds, n \in MaybeAmount, c \in MaybeReceipt, note \in BOOLEAN :
            CorrectRefund(v, kind, n, c, note)
    BY <1>4
  <2>2. PICK r, p, x, row :
            /\ r = review[v] /\ p = Payout(r) /\ x = Correction(kind, p.amount, n, c)
            /\ row = ReviewRow("refunded", r.paid, r.amount, r.receipt, Append(r.corrections, x))
    OBVIOUS
  <2>3. /\ r.status = "refunded" /\ p \in Payouts
        /\ x \in CorrectionRows /\ x.kind = kind /\ x.amount = n /\ x.receipt = c
        /\ Valid(kind, p, n, c)
        /\ row \in ReviewRows /\ review' = WithRow(review, v, row)
        /\ Payout(row) = Apply(r.amount, p, x)
    BY <2>1, <2>2, CorrectRefundRow
  <2>4. row.status = "refunded" /\ r.amount \in Nat
    BY <1>0, <2>2, ReviewRowFields DEF ReviewRow
  <2>5. Sent(row) = Apply(r.amount, p, x).amount /\ Sent(review[v]) = p.amount /\ p.amount \in Nat
    BY <2>2, <2>3, <2>4 DEF Sent, Payouts
  <2>6. /\ line' = line /\ paid' = paid
        /\ overrides' = overrides \union (IF n = NoAmount THEN {} ELSE Lifted(v, n))
        /\ n # NoAmount => n > 0
    BY <2>1 DEF CorrectRefund
  <2>7. overrides \subseteq overrides' /\ (n # NoAmount => Lifted(v, n) \subseteq overrides')
    BY <2>6
  <2>8. Valid(x.kind, p, x.amount, x.receipt)
    BY <2>3
  <2>9. CASE n = NoAmount
    <3>1. Sent(row) <= Sent(review[v])
      <4>1. Sent(row) \in {0, p.amount}
        BY <2>3, <2>4, <2>5, <2>9, <2>8, AmountApplied
      <4> QED
        BY <2>5, <4>1
    <3> QED
      BY <2>3, <2>6, <2>7, <3>1, CapsAfterReview
  <2>10. CASE n # NoAmount
    <3>1. Sent(row) = n /\ n > 0
      <4>1. Apply(r.amount, p, x).amount = x.amount
        BY <2>3, <2>4, <2>10, <2>8, AmountApplied
      <4> QED
        BY <2>3, <2>5, <2>6, <2>10, <4>1
    <3>2. Lifted(v, Sent(row)) \subseteq overrides'
      BY <2>10, <2>7, <3>1
    <3>3. Sent(row) > 0
      BY <3>1
    <3> QED
      BY <2>3, <2>6, <2>7, <3>2, <3>3, CapsAfterReview
  <2> QED
    BY <2>9, <2>10
<1> QED
  BY <1>1, <1>2, <1>3, <1>4

\* A reimbursement is recorded and approved within the caps.
LEMMA CapsPayoutSteps ==
    ASSUME MoneyInv, MoneyInv', Caps, PayoutNext
    PROVE  Caps'
<1>0. /\ line \in [Lines -> LineRows] /\ line' \in [Lines -> LineRows] /\ ItemLine \in Lines
      /\ ItemLine = "item_reimbursement"
      /\ Reimbursed = CommittedReimbursements(line[ItemLine])
      /\ Reimbursed' = CommittedReimbursements(line'[ItemLine])
  BY DEF MoneyInv, Lines, ItemLine, Reimbursed
<1>1. Reimbursed \in Nat /\ Reimbursed' \in Nat
  BY <1>0, ReimbursedType
<1>2. PICK m \in Nat : m = Reimbursed'
  BY <1>1
\* A line replaced that is no longer committed, or commits what it did.
<1>3. ASSUME review' = review, paid' = paid, overrides' = overrides, Reimbursed' \in {0, Reimbursed}
      PROVE  Caps'
  <2>1. m <= Reimbursed
    BY <1>1, <1>2, <1>3
  <2> QED
    BY <1>2, <1>3, <2>1, CapsAfterLine
<1>4. CASE \E evidence \in BOOLEAN, limit \in Limits : RecordConfirmed(evidence, limit)
  <2>1. PICK evidence \in BOOLEAN, limit \in Limits : RecordConfirmed(evidence, limit)
    BY <1>4
  <2>2. review' = review /\ paid' = paid /\ overrides' = overrides /\ status = "under way"
    BY <2>1 DEF RecordConfirmed
  <2>3. \/ line'[ItemLine] = line[ItemLine]
        \/ line'[ItemLine].status \notin {"payable", "paid"}
        \/ ItemPaidToNitume > 0 /\ line'[ItemLine].amount = ItemPaidToNitume
    BY <2>1, RecordConfirmedRows
  <2>4. CASE line'[ItemLine] = line[ItemLine]
    BY <1>0, <1>3, <2>2, <2>4
  <2>5. CASE line'[ItemLine].status \notin {"payable", "paid"}
    <3>1. Reimbursed' = 0
      BY <1>0, <2>5, ReimbursedType
    <3> QED
      BY <1>3, <2>2, <3>1
  <2>6. CASE /\ line'[ItemLine].status \in {"payable", "paid"}
             /\ ItemPaidToNitume > 0 /\ line'[ItemLine].amount = ItemPaidToNitume
    <3>1. m = ItemPaidToNitume /\ m > 0
      BY <1>0, <1>2, <2>6, ReimbursedType
    <3>2. m + CommittedRefunds(Decreases) <= ItemPaidGross
      BY <3>1, ItemPaidToNitumeType
    <3>3. /\ SentRefunds(Decreases) \in Nat /\ CommittedRefunds(Decreases) \in Nat
          /\ SentRefunds(Decreases) <= CommittedRefunds(Decreases)
          /\ ItemPaidGross \in Nat /\ TotalPaid \in Nat /\ ItemPaidGross <= TotalPaid
      BY MoneyTypes, PartsOfTheTaskFinite
    <3>4. SentRefunds(Reviews) = SentRefunds(Decreases)
      <4>1. PICK f : f = SentBy(review)
        OBVIOUS
      <4>2. /\ f \in [Reviews -> Int] /\ IsFiniteSet(Reviews) /\ Cancellation \in Reviews
            /\ Reviews \ {Cancellation} = Decreases /\ review \in [Reviews -> ReviewRows]
        BY <4>1, ReviewSums, PartsOfTheTaskFinite, CancellationReview DEF MoneyInv
      <4>3. f[Cancellation] = 0
        <5>1. review[Cancellation].status = "none"
          BY <2>2 DEF MoneyInv, NotEndedYet
        <5> QED
          BY <4>1, <4>2, <5>1 DEF SentBy, Sent, CommittedAmount
      <4>4. /\ SumFunctionOnSet(f, Reviews) = f[Cancellation] + SumFunctionOnSet(f, Reviews \ {Cancellation})
            /\ SumFunctionOnSet(f, Reviews \ {Cancellation}) \in Int
        <5>1. Reviews \in SUBSET Reviews
          OBVIOUS
        <5> QED
          BY <4>2, <5>1, SumSplit
      <4> QED
        <5>1. PICK y \in Int : y = SumFunctionOnSet(f, Reviews \ {Cancellation})
          BY <4>4
        <5>2. SumFunctionOnSet(f, Reviews) = y
          BY <4>3, <4>4, <5>1
        <5>3. SumFunctionOnSet(f, Decreases) = y
          BY <4>2, <5>1
        <5> QED
          BY <4>1, <5>2, <5>3, RefundSums
    <3>5. SentRefunds(Reviews) + m <= TotalPaid /\ SentRefunds(Decreases) + m <= ItemPaidGross
      BY <3>2, <3>3, <3>4
    <3> QED
      BY <1>2, <2>2, <3>5, CapsAfterLine
  <2> QED
    BY <2>3, <2>4, <2>5, <2>6
<1>5. CASE \E n \in Amounts, limit \in Limits : Claim(n, limit)
  <2>1. PICK n \in Amounts, limit \in Limits : Claim(n, limit)
    BY <1>5
  <2>2. PICK row \in LineRows : row.status = "on_hold" /\ line' = WithRow(line, ItemLine, row)
    BY <2>1, ClaimRow
  <2>3. Reimbursed' = 0
    BY <1>0, <2>2, ReimbursedType DEF WithRow
  <2> QED
    BY <1>3, <2>1, <2>3 DEF Claim
<1>6. CASE Reject
  <2>1. PICK row \in LineRows : row.status = "rejected" /\ line' = WithRow(line, ItemLine, row)
    BY <1>6, RejectRow
  <2>2. Reimbursed' = 0
    BY <1>0, <2>1, ReimbursedType DEF WithRow
  <2> QED
    BY <1>3, <1>6, <2>2 DEF Reject
<1>7. CASE Hold
  <2>1. line' = StatusAndAmount(line, ItemLine, "on_hold", NoAmount) /\ line[ItemLine].status = "payable"
    BY <1>7 DEF Hold, StatusAndAmount
  <2>2. PICK row \in LineRows : row.status = "on_hold" /\ line' = WithRow(line, ItemLine, row)
    BY <2>1, ReviewedRow
  <2>3. Reimbursed' = 0
    BY <1>0, <2>2, ReimbursedType DEF WithRow
  <2> QED
    BY <1>3, <1>7, <2>3 DEF Hold
<1>8. CASE \E n \in Amounts, exception, note \in BOOLEAN : Approve(n, exception, note)
  <2>1. PICK n \in Amounts, exception \in BOOLEAN, note \in BOOLEAN : Approve(n, exception, note)
    BY <1>8
  <2>2. /\ line' = StatusAndAmount(line, ItemLine, "payable", n)
        /\ line[ItemLine].status = "on_hold" /\ n > 0 /\ n <= OverLimitCeiling(line[ItemLine])
        /\ review' = review /\ paid' = paid /\ overrides \subseteq overrides'
        /\ WithinExposure("task", n, TotalPaid, CommittedRefunds(Reviews), 0) \subseteq overrides'
    BY <2>1 DEF Approve, StatusAndAmount
  <2>3. n \in Nat
    BY AmountsAreNat
  <2>4. PICK row \in LineRows :
            row.status = "payable" /\ row.amount = n /\ line' = WithRow(line, ItemLine, row)
    BY <2>2, <2>3, ReviewedRow
  <2>5. m = n
    BY <1>0, <1>2, <2>4, ReimbursedType DEF WithRow
  <2>6. /\ SentRefunds(Decreases) \in Nat /\ CommittedRefunds(Decreases) \in Nat
        /\ SentRefunds(Decreases) <= CommittedRefunds(Decreases)
        /\ SentRefunds(Reviews) \in Nat /\ CommittedRefunds(Reviews) \in Nat
        /\ SentRefunds(Reviews) <= CommittedRefunds(Reviews)
        /\ ItemPaidGross \in Nat /\ TotalPaid \in Nat /\ ItemPaidToNitume \in Nat
    BY MoneyTypes, ItemPaidToNitumeType, PartsOfTheTaskFinite
  <2>7. n <= ItemPaidToNitume
    <3>1. line[ItemLine].requested \in Nat /\ line[ItemLine].cap \in Nat
      BY <1>0, LineRowFields
    <3> QED
      BY <2>2, <2>3, <2>6, <3>1 DEF OverLimitCeiling, Lesser
  <2>8. n + CommittedRefunds(Decreases) <= ItemPaidGross
    BY <2>2, <2>3, <2>6, <2>7, ItemPaidToNitumeType
  <2>9. "task" \notin overrides' => n + CommittedRefunds(Reviews) + 0 <= TotalPaid
    <3>1. 0 \in Nat
      OBVIOUS
    <3> QED
      BY <2>2, <2>3, <2>6, <3>1, WithinExposureFits
  <2>10. ("task" \notin overrides' => SentRefunds(Reviews) + m <= TotalPaid)
         /\ SentRefunds(Decreases) + m <= ItemPaidGross
    BY <2>3, <2>5, <2>6, <2>8, <2>9
  <2> QED
    BY <1>2, <2>2, <2>10, CapsAfterLine
<1>9. CASE \E S \in SUBSET Lines, c \in Receipts : MarkLinesPaid(S, c)
  <2>1. PICK S \in SUBSET Lines, c \in Receipts : MarkLinesPaid(S, c)
    BY <1>9
  <2>2. Reimbursed' = Reimbursed
    BY <1>0, <2>1, MarkLinesPaidRows DEF CommittedReimbursements
  <2> QED
    BY <1>3, <2>1, <2>2 DEF MarkLinesPaid
<1>10. CASE \E k \in Lines, kind \in Kinds, n \in MaybeAmount, c \in MaybeReceipt : CorrectLine(k, kind, n, c)
  <2>1. PICK k \in Lines, kind \in Kinds, n \in MaybeAmount, c \in MaybeReceipt : CorrectLine(k, kind, n, c)
    BY <1>10
  <2>2. PICK l, x, row :
            /\ l = line[k] /\ x = Correction(kind, Payout(l).amount, n, c)
            /\ row = LineRow("paid", l.requested, l.amount, l.cap, l.limit, l.receipt,
                             Append(l.corrections, x))
    OBVIOUS
  <2>3. l.status = "paid" /\ line' = WithRow(line, k, row)
    BY <2>1, <2>2, CorrectLineRow
  <2>4. /\ l = line[k] /\ l.status = "paid" /\ line' = WithRow(line, k, row)
        /\ row.status = "paid" /\ row.amount = l.amount
    BY <2>2, <2>3 DEF LineRow
  <2>5. Reimbursed' = Reimbursed
    BY <1>0, <2>4 DEF CommittedReimbursements, WithRow
  <2> QED
    BY <1>3, <2>1, <2>5 DEF CorrectLine
<1> QED
  BY <1>4, <1>5, <1>6, <1>7, <1>8, <1>9, <1>10 DEF PayoutNext

\* Every step keeps the caps.
LEMMA CapsNext == MoneyInv /\ Caps /\ [Next]_vars => Caps'
<1> SUFFICES ASSUME MoneyInv, Caps, [Next]_vars PROVE Caps'
    OBVIOUS
<1>0. MoneyInv'
  BY MoneyNext
<1>1. CASE UNCHANGED vars
  BY <1>1 DEF vars, Caps, SentWithinPaid, ItemMoneySpentOnce, SentRefunds, Reimbursed, TotalPaid,
              ItemPaidGross
<1>2. CASE PayoutNext
  BY <1>0, <1>2, CapsPayoutSteps
<1>3. CASE RefundNext
  <2>1. CASE \/ \E p \in Payments : ReadTask(p) \/ RecordResult(p) \/ SumLegs(p) \/ RecordLateResult(p)
             \/ End \/ SumAgain \/ Refresh
    BY <1>0, <2>1, CapsPaymentSteps
  <2>2. CASE \/ \E d \in Decreases, n \in DecreasesBy : OpenForDecrease(d, n)
             \/ \E v \in Reviews, n \in Amounts, note \in BOOLEAN : Decide(v, n, note)
             \/ \E v \in Reviews, c \in Receipts : MarkRefunded(v, c)
             \/ \E v \in Reviews, kind \in Kinds, n \in MaybeAmount, c \in MaybeReceipt, note \in BOOLEAN :
                    CorrectRefund(v, kind, n, c, note)
    BY <1>0, <2>2, CapsRefundSteps
  <2> QED
    BY <1>3, <2>1, <2>2 DEF RefundNext
<1> QED
  BY <1>1, <1>2, <1>3 DEF Next

\* Before the first payment nothing is sent.
LEMMA InitCaps == Init => Caps
<1> SUFFICES ASSUME Init PROVE Caps
    OBVIOUS
<1>1. MoneyInv
  BY InitMoney
<1>2. PICK f : f = SentBy(review)
  OBVIOUS
<1>3. /\ f \in [Reviews -> Int] /\ IsFiniteSet(Reviews) /\ Decreases \in SUBSET Reviews
      /\ Reviews \in SUBSET Reviews
  BY <1>1, <1>2, ReviewSums, PartsOfTheTaskFinite DEF MoneyInv
<1>4. \A v \in Reviews : f[v] = 0
  BY <1>2 DEF Init, SentBy, NoReview, Sent, CommittedAmount
<1>5. SumFunctionOnSet(f, Reviews) = 0
  BY <1>3, <1>4, ZeroSum
<1>6. SumFunctionOnSet(f, Decreases) = 0
  BY <1>3, <1>4, ZeroSum
<1>7. SentRefunds(Reviews) = 0 /\ SentRefunds(Decreases) = 0
  BY <1>2, <1>5, <1>6, RefundSums
<1>8. Reimbursed = 0
  BY DEF Init, Reimbursed, CommittedReimbursements, NoLine, Lines
<1> QED
  BY <1>1, <1>7, <1>8, MoneyTypes DEF Caps, SentWithinPaid, ItemMoneySpentOnce

\* Without a recorded override, refunds sent and the reimbursement never exceed
\* what the customer paid, whatever the order of decisions, payouts, reversals and
\* corrections (task-exposure.ts, decide, addCorrection, review).
THEOREM SentWithinPaidThm == Spec => []SentWithinPaid
<1>1. Init => MoneyInv /\ Caps
  BY InitMoney, InitCaps
<1>2. MoneyInv /\ Caps /\ [Next]_vars => MoneyInv' /\ Caps'
  BY MoneyNext, CapsNext
<1>3. Caps => SentWithinPaid
  BY DEF Caps
<1> QED
  BY <1>1, <1>2, <1>3, PTL DEF Spec

\* The refunds of price decreases and the runner's reimbursement stay within what
\* was paid for the item (assertItemExposure, approvalCeilingOf).
THEOREM ItemMoneySpentOnceThm == Spec => []ItemMoneySpentOnce
<1>1. Init => MoneyInv /\ Caps
  BY InitMoney, InitCaps
<1>2. MoneyInv /\ Caps /\ [Next]_vars => MoneyInv' /\ Caps'
  BY MoneyNext, CapsNext
<1>3. Caps => ItemMoneySpentOnce
  BY DEF Caps
<1> QED
  BY <1>1, <1>2, <1>3, PTL DEF Spec

-----------------------------------------------------------------------------
(* Receipts. *)

\* u is a use of receipt c on the row r of o.
UsedIn(u, o, r, c) ==
    \/ r.receipt = c /\ u = <<o, 0, "payout">>
    \/ \E i \in DOMAIN r.corrections :
           r.corrections[i].receipt = c /\ u = <<o, i, r.corrections[i].kind>>

\* The same of all rows.
UsedAt(u, rv, lv, c) == \/ \E v \in Reviews : UsedIn(u, v, rv[v], c)
                        \/ \E k \in Lines : UsedIn(u, k, lv[k], c)

\* The uses on one row, and on all, as sets.
UsesOn(o, r, c) == (IF r.receipt = c THEN {<<o, 0, "payout">>} ELSE {})
                   \union {<<o, i, r.corrections[i].kind>> :
                              i \in {j \in DOMAIN r.corrections : r.corrections[j].receipt = c}}

\* The uses on the reviews rv and the lines lv.
UsesIn(rv, lv, c) == (UNION {UsesOn(v, rv[v], c) : v \in Reviews})
                     \union (UNION {UsesOn(k, lv[k], c) : k \in Lines})

\* Both say the same.
LEMMA UsesInAre == \A rv, lv, c, u : u \in UsesIn(rv, lv, c) <=> UsedAt(u, rv, lv, c)
<1> SUFFICES ASSUME NEW rv, NEW lv, NEW c, NEW u
             PROVE  u \in UsesIn(rv, lv, c) <=> UsedAt(u, rv, lv, c)
    OBVIOUS
<1>1. ASSUME NEW o, NEW r PROVE u \in UsesOn(o, r, c) <=> UsedIn(u, o, r, c)
  BY DEF UsedIn, UsesOn
<1>2. ASSUME NEW O, NEW f PROVE u \in UNION {UsesOn(o, f[o], c) : o \in O}
                                <=> \E o \in O : u \in UsesOn(o, f[o], c)
  OBVIOUS
<1>3. u \in UNION {UsesOn(v, rv[v], c) : v \in Reviews}
      <=> \E v \in Reviews : u \in UsesOn(v, rv[v], c)
  BY <1>2
<1>4. u \in UNION {UsesOn(k, lv[k], c) : k \in Lines}
      <=> \E k \in Lines : u \in UsesOn(k, lv[k], c)
  BY <1>2
<1>5. u \in UsesIn(rv, lv, c) <=> \/ u \in UNION {UsesOn(v, rv[v], c) : v \in Reviews}
                                  \/ u \in UNION {UsesOn(k, lv[k], c) : k \in Lines}
  <2>1. PICK A, B : /\ A = UNION {UsesOn(v, rv[v], c) : v \in Reviews}
                    /\ B = UNION {UsesOn(k, lv[k], c) : k \in Lines}
    OBVIOUS
  <2>2. UsesIn(rv, lv, c) = A \union B
    BY <2>1 DEF UsesIn
  <2> QED
    BY <2>1, <2>2
<1> QED
  BY <1>1, <1>3, <1>4, <1>5 DEF UsedAt

\* The uses of a receipt before and after a step.
LEMMA UsesAre ==
    /\ \A c, u : u \in Uses(c) <=> UsedAt(u, review, line, c)
    /\ \A c, u : u \in Uses(c)' <=> UsedAt(u, review', line', c)
<1>1. \A c : Uses(c) = UsesIn(review, line, c)
  BY DEF Uses, UsesIn, UsesOn
<1>2. \A c : Uses(c)' = UsesIn(review', line', c)
  BY DEF Uses, UsesIn, UsesOn
<1> QED
  BY <1>1, <1>2, UsesInAre

\* The uses of a row are those of its receipt and of its corrections.
LEMMA UsesOfSameRow ==
    ASSUME NEW r, NEW n, n.receipt = r.receipt, n.corrections = r.corrections
    PROVE  \A u, o, c : UsedIn(u, o, n, c) <=> UsedIn(u, o, r, c)
BY DEF UsedIn

\* The row n of o has the uses of r and t, of receipt c.
AddsUse(o, n, r, c, t) == \A u, d : UsedIn(u, o, n, d) => UsedIn(u, o, r, d) \/ (d = c /\ u = t)

\* A payout adds its use to those of the row.
LEMMA UsesOfPaidRow ==
    ASSUME NEW r, NEW n, n.corrections = r.corrections, NEW o
    PROVE  AddsUse(o, n, r, n.receipt, <<o, 0, "payout">>)
BY DEF AddsUse, UsedIn

\* A correction adds its use to those of the row.
LEMMA UsesOfCorrectedRow ==
    ASSUME NEW r, NEW n, NEW x, n.receipt = r.receipt, r.corrections \in Seq(CorrectionRows),
           x \in CorrectionRows, n.corrections = Append(r.corrections, x), NEW o
    PROVE  AddsUse(o, n, r, x.receipt, <<o, Len(r.corrections) + 1, x.kind>>)
<1>1. PICK q : q = r.corrections
  OBVIOUS
<1>2. PICK p : p = n.corrections
  OBVIOUS
<1>3. /\ Len(q) \in Nat /\ DOMAIN q = 1..Len(q) /\ DOMAIN p = 1..(Len(q) + 1)
      /\ p[Len(q) + 1] = x /\ \A i \in 1..Len(q) : p[i] = q[i]
  BY <1>1, <1>2, AppendProperties, LenProperties
<1>4. \A i \in DOMAIN p : i \in DOMAIN q \/ i = Len(q) + 1
  BY <1>3
<1> QED
  BY <1>1, <1>2, <1>3, <1>4 DEF AddsUse, UsedIn

\* The uses N may be added to those of c: it is no receipt, it was free, or they
\* are of lines that did not use it, none of them or of the others a reversal.
MayBeAdded(N, c) ==
    \/ c \notin Receipts
    \/ Uses(c) = {} /\ \E t : N \subseteq {t}
    \/ /\ \A u \in N : u[1] \in Lines /\ u[3] # "reversed"
       /\ \A u, w \in N : u # w => u[1] # w[1]
       /\ \A u \in Uses(c) : /\ u[1] \in Lines /\ u[3] # "reversed"
                             /\ \A w \in N : w[1] # u[1]

\* A step that only adds uses that may be added.
LEMMA ReceiptsAdded ==
    ASSUME ReceiptsNotShared, NEW c, NEW N,
           \A d \in Receipts : \A u \in Uses(d)' : u \in Uses(d) \/ (d = c /\ u \in N),
           MayBeAdded(N, c)
    PROVE  ReceiptsNotShared'
<1> SUFFICES ASSUME NEW d \in Receipts, NEW u \in Uses(d)', NEW w \in Uses(d)', u # w
             PROVE  /\ u[1] \in Lines /\ w[1] \in Lines /\ u[1] # w[1]
                    /\ u[3] # "reversed" /\ w[3] # "reversed"
    BY DEF ReceiptsNotShared
<1>1. /\ u \in Uses(d) \/ (d = c /\ u \in N)
      /\ w \in Uses(d) \/ (d = c /\ w \in N)
  OBVIOUS
<1>2. CASE u \in Uses(d) /\ w \in Uses(d)
  BY <1>2 DEF ReceiptsNotShared
<1>3. CASE d = c /\ (u \in N \/ w \in N)
  BY <1>1, <1>3 DEF ReceiptsNotShared, MayBeAdded
<1> QED
  BY <1>1, <1>2, <1>3

\* A receipt that is free has no uses; one that is free for the runner's lines
\* S has none but payouts of other lines.
LEMMA FreeReceipt ==
    ASSUME NEW c, ReferenceFree(c)
    PROVE  Uses(c) = {}
<1>1. ASSUME NEW u \in Uses(c) PROVE FALSE
  <2>1. (\E v \in Reviews : UsedIn(u, v, review[v], c)) \/ (\E k \in Lines : UsedIn(u, k, line[k], c))
    BY UsesAre DEF UsedAt
  <2> QED
    BY <2>1 DEF ReferenceFree, RefundUses, LineUses, UsedIn
<1> QED
  BY <1>1

\* A receipt that is free for the runner's lines S has no uses but payouts of
\* other lines.
LEMMA RunnerFreeReceipt ==
    ASSUME NEW c, NEW S, RunnerReferenceFree(S, c), NEW u \in Uses(c)
    PROVE  u[1] \in Lines \ S /\ u[3] # "reversed"
<1>1. \A v \in Reviews : ~UsedIn(u, v, review[v], c)
  BY DEF RunnerReferenceFree, RefundUses, UsedIn
<1>2. PICK k \in Lines : UsedIn(u, k, line[k], c)
  BY <1>1, UsesAre DEF UsedAt
<1>3. u[1] = k
  BY <1>2 DEF UsedIn
<1>4. k \notin S
  BY <1>2 DEF RunnerReferenceFree, LineUses, UsedIn
<1>5. u[3] # "reversed"
  <2>1. c \notin Reversals(k)
    BY DEF RunnerReferenceFree
  <2>2. CASE u = <<k, 0, "payout">>
    BY <2>2
  <2>3. CASE \E i \in DOMAIN line[k].corrections :
                 line[k].corrections[i].receipt = c /\ u = <<k, i, line[k].corrections[i].kind>>
    BY <2>1, <2>3 DEF Reversals
  <2> QED
    BY <1>2, <2>2, <2>3 DEF UsedIn
<1> QED
  BY <1>3, <1>4, <1>5

\* A step that changes no receipt and no correction.
LEMMA ReceiptsKept ==
    ASSUME ReceiptsNotShared,
           \A v \in Reviews : /\ review'[v].receipt = review[v].receipt
                              /\ review'[v].corrections = review[v].corrections,
           \A k \in Lines : /\ line'[k].receipt = line[k].receipt
                            /\ line'[k].corrections = line[k].corrections
    PROVE  ReceiptsNotShared'
<1>1. \A v \in Reviews : \A u, c : UsedIn(u, v, review'[v], c) <=> UsedIn(u, v, review[v], c)
  BY UsesOfSameRow
<1>2. \A k \in Lines : \A u, c : UsedIn(u, k, line'[k], c) <=> UsedIn(u, k, line[k], c)
  BY UsesOfSameRow
<1>3. \A c, u : UsedAt(u, review', line', c) <=> UsedAt(u, review, line, c)
  BY <1>1, <1>2 DEF UsedAt
<1>4. \A c, u : u \in Uses(c)' <=> u \in Uses(c)
  BY <1>3, UsesAre
<1> QED
  BY <1>4 DEF ReceiptsNotShared

\* A step on one review that records receipt c on it once.
LEMMA ReviewReceipt ==
    ASSUME ReceiptsNotShared, review \in [Reviews -> ReviewRows], NEW v \in Reviews, NEW row,
           review' = WithRow(review, v, row), line' = line, NEW c, NEW t,
           AddsUse(v, row, review[v], c, t),
           c \notin Receipts \/ Uses(c) = {}
    PROVE  ReceiptsNotShared'
<1>1. review'[v] = row /\ \A x \in Reviews : x # v => review'[x] = review[x]
  BY DEF WithRow
<1>2. PICK N : N = {t}
  OBVIOUS
<1>3. \A d, u : UsedAt(u, review', line', d) => UsedAt(u, review, line, d) \/ (d = c /\ u \in N)
  <2> SUFFICES ASSUME NEW d, NEW u, UsedAt(u, review', line', d)
               PROVE  UsedAt(u, review, line, d) \/ (d = c /\ u \in N)
      OBVIOUS
  <2>1. CASE \E k \in Lines : UsedIn(u, k, line'[k], d)
    BY <2>1 DEF UsedAt
  <2>2. CASE \E x \in Reviews : UsedIn(u, x, review'[x], d)
    <3>1. PICK x \in Reviews : UsedIn(u, x, review'[x], d)
      BY <2>2
    <3>2. UsedIn(u, x, review[x], d) \/ (d = c /\ u = t)
      BY <1>1, <3>1 DEF AddsUse
    <3> QED
      BY <1>2, <3>2 DEF UsedAt
  <2> QED
    BY <2>1, <2>2 DEF UsedAt
<1>4. \A d \in Receipts : \A u \in Uses(d)' : u \in Uses(d) \/ (d = c /\ u \in N)
  BY <1>3, UsesAre
<1>5. MayBeAdded(N, c)
  BY <1>2 DEF MayBeAdded
<1> QED
  BY <1>4, <1>5, ReceiptsAdded

\* The same of a step that records c once on each of the lines S.
MayBeRecorded(S, c, t) ==
    \/ c \notin Receipts
    \/ Uses(c) = {} /\ \E k : S \subseteq {k}
    \/ RunnerReferenceFree(S, c) /\ \A k \in S : t[k][1] = k /\ t[k][3] # "reversed"

\* A step that may record c on the lines S.
LEMMA LineReceipt ==
    ASSUME ReceiptsNotShared, review' = review, NEW S \in SUBSET Lines, NEW c, NEW t,
           \A k \in Lines \ S : line'[k] = line[k],
           \A k \in S : AddsUse(k, line'[k], line[k], c, t[k]),
           MayBeRecorded(S, c, t)
    PROVE  ReceiptsNotShared'
<1>2. PICK N : N = {t[k] : k \in S}
  OBVIOUS
<1>3. \A d, u : UsedAt(u, review', line', d) => UsedAt(u, review, line, d) \/ (d = c /\ u \in N)
  <2> SUFFICES ASSUME NEW d, NEW u, UsedAt(u, review', line', d)
               PROVE  UsedAt(u, review, line, d) \/ (d = c /\ u \in N)
      OBVIOUS
  <2>1. CASE \E v \in Reviews : UsedIn(u, v, review'[v], d)
    BY <2>1 DEF UsedAt
  <2>2. CASE \E k \in Lines : UsedIn(u, k, line'[k], d)
    <3>1. PICK k \in Lines : UsedIn(u, k, line'[k], d)
      BY <2>2
    <3>2. UsedIn(u, k, line[k], d) \/ (d = c /\ k \in S /\ u = t[k])
      BY <3>1 DEF AddsUse
    <3> QED
      BY <1>2, <3>2 DEF UsedAt
  <2> QED
    BY <2>1, <2>2 DEF UsedAt
<1>4. \A d \in Receipts : \A u \in Uses(d)' : u \in Uses(d) \/ (d = c /\ u \in N)
  BY <1>3, UsesAre
<1>5. MayBeAdded(N, c)
  <2>1. CASE Uses(c) = {} /\ \E k : S \subseteq {k}
    <3>1. PICK k : S \subseteq {k}
      BY <2>1
    <3>2. PICK w : w = t[k]
      OBVIOUS
    <3>3. N \subseteq {w}
      BY <1>2, <3>1, <3>2
    <3> QED
      BY <2>1, <3>3 DEF MayBeAdded
  <2>2. CASE RunnerReferenceFree(S, c) /\ \A k \in S : t[k][1] = k /\ t[k][3] # "reversed"
    <3>1. \A u \in N : u[1] \in S /\ u[1] \in Lines /\ u[3] # "reversed" /\ u = t[u[1]]
      BY <1>2, <2>2
    <3>2. \A u, w \in N : u # w => u[1] # w[1]
      BY <3>1
    <3>3. \A u \in Uses(c) : u[1] \in Lines \ S /\ u[3] # "reversed"
      BY <2>2, RunnerFreeReceipt
    <3>4. \A u \in Uses(c) : \A w \in N : w[1] # u[1]
      BY <3>1, <3>3
    <3>5. \A u \in Uses(c) : u[1] \in Lines /\ u[3] # "reversed"
      BY <3>3
    <3> QED
      BY <3>1, <3>2, <3>4, <3>5 DEF MayBeAdded
  <2>3. CASE c \notin Receipts
    BY <2>3 DEF MayBeAdded
  <2> QED
    BY <2>1, <2>2, <2>3 DEF MayBeRecorded
<1> QED
  BY <1>4, <1>5, ReceiptsAdded

\* Payments and the end of the task record no receipt.
LEMMA ReceiptsPaymentSteps ==
    ASSUME MoneyInv, ReceiptsNotShared,
           \/ \E p \in Payments : ReadTask(p) \/ RecordResult(p) \/ SumLegs(p) \/ RecordLateResult(p)
           \/ End \/ SumAgain \/ Refresh
    PROVE  ReceiptsNotShared'
<1>1. /\ line' = line
      /\ \A v \in Reviews : /\ review'[v].receipt = review[v].receipt
                            /\ review'[v].corrections = review[v].corrections
  BY PaymentStepsKeep
<1> QED
  BY <1>1, ReceiptsKept

\* A refund is recorded with a receipt that is free.
LEMMA ReceiptsRefundSteps ==
    ASSUME MoneyInv, ReceiptsNotShared,
           \/ \E d \in Decreases, n \in DecreasesBy : OpenForDecrease(d, n)
           \/ \E v \in Reviews, n \in Amounts, note \in BOOLEAN : Decide(v, n, note)
           \/ \E v \in Reviews, c \in Receipts : MarkRefunded(v, c)
           \/ \E v \in Reviews, kind \in Kinds, n \in MaybeAmount, c \in MaybeReceipt, note \in BOOLEAN :
                  CorrectRefund(v, kind, n, c, note)
    PROVE  ReceiptsNotShared'
<1>0. review \in [Reviews -> ReviewRows]
  BY DEF MoneyInv
\* A row that is not refunded has no receipt and no correction.
<1>1. ASSUME NEW v \in Reviews, NEW row, review' = WithRow(review, v, row), line' = line,
             row.receipt = NoReceipt, row.corrections = <<>>, review[v].status # "refunded"
      PROVE  ReceiptsNotShared'
  <2>1. \A x \in Reviews : /\ review'[x].receipt = review[x].receipt
                           /\ review'[x].corrections = review[x].corrections
    BY <1>0, <1>1, ReviewRowFields DEF WithRow
  <2> QED
    BY <1>1, <2>1, ReceiptsKept
<1>2. CASE \E d \in Decreases, n \in DecreasesBy : OpenForDecrease(d, n)
  <2>1. PICK d \in Decreases, n \in DecreasesBy : OpenForDecrease(d, n)
    BY <1>2
  <2>2. PICK row : /\ row = ReviewRow("pending_review", n, review[d].amount, NoReceipt, <<>>)
                   /\ d \in Reviews /\ review[d].status = "none" /\ review' = WithRow(review, d, row)
    BY <2>1, OpenForDecreaseRow
  <2>3. row.receipt = NoReceipt /\ row.corrections = <<>>
    BY <2>2 DEF ReviewRow
  <2>4. line' = line
    BY <2>1 DEF OpenForDecrease
  <2> QED
    BY <1>1, <2>2, <2>3, <2>4
<1>3. CASE \E v \in Reviews, n \in Amounts, note \in BOOLEAN : Decide(v, n, note)
  <2>1. PICK v \in Reviews, n \in Amounts, note \in BOOLEAN : Decide(v, n, note)
    BY <1>3
  <2>2. PICK row : /\ row = ReviewRow(IF n > 0 THEN "approved" ELSE "no_refund",
                                      review[v].paid, n, NoReceipt, <<>>)
                   /\ review' = WithRow(review, v, row)
    BY <2>1, DecideRow
  <2>3. row.receipt = NoReceipt /\ row.corrections = <<>>
    BY <2>2 DEF ReviewRow
  <2>4. line' = line /\ review[v].status = "pending_review"
    BY <2>1 DEF Decide
  <2> QED
    BY <1>1, <2>2, <2>3, <2>4
<1>4. CASE \E v \in Reviews, c \in Receipts : MarkRefunded(v, c)
  <2>1. PICK v \in Reviews, c \in Receipts : MarkRefunded(v, c)
    BY <1>4
  <2>2. PICK row : /\ row = ReviewRow("refunded", review[v].paid, review[v].amount, c, <<>>)
                   /\ review[v].status = "approved" /\ review' = WithRow(review, v, row)
    BY <2>1, MarkRefundedRow
  <2>3. row.receipt = c /\ row.corrections = <<>> /\ review[v].corrections = <<>>
    BY <1>0, <2>2, ReviewRowFields DEF ReviewRow
  <2>4. line' = line /\ Uses(c) = {}
    BY <2>1, FreeReceipt DEF MarkRefunded
  <2>5. PICK t : t = <<v, 0, "payout">>
    OBVIOUS
  <2>6. AddsUse(v, row, review[v], c, t)
    <3>1. row.corrections = review[v].corrections
      BY <2>3
    <3> QED
      BY <2>3, <2>5, <3>1, UsesOfPaidRow
  <2> QED
    BY <1>0, <2>2, <2>4, <2>6, ReviewReceipt
<1>5. CASE \E v \in Reviews, kind \in Kinds, n \in MaybeAmount, c \in MaybeReceipt, note \in BOOLEAN :
               CorrectRefund(v, kind, n, c, note)
  <2>1. PICK v \in Reviews, kind \in Kinds, n \in MaybeAmount, c \in MaybeReceipt, note \in BOOLEAN :
            CorrectRefund(v, kind, n, c, note)
    BY <1>5
  <2>2. PICK r, x, row :
            /\ r = review[v] /\ x = Correction(kind, Payout(r).amount, n, c)
            /\ row = ReviewRow("refunded", r.paid, r.amount, r.receipt, Append(r.corrections, x))
    OBVIOUS
  <2>3. x \in CorrectionRows /\ x.receipt = c /\ review' = WithRow(review, v, row)
    BY <2>1, <2>2, CorrectRefundRow
  <2>4. /\ row.receipt = r.receipt /\ row.corrections = Append(r.corrections, x)
        /\ r.corrections \in Seq(CorrectionRows)
    BY <1>0, <2>2, ReviewRowFields DEF ReviewRow
  <2>5. line' = line /\ (c # NoReceipt => ReferenceFree(c))
    BY <2>1 DEF CorrectRefund
  <2>6. c \notin Receipts \/ Uses(c) = {}
    BY <2>5, FreeReceipt, ReceiptAssumption DEF MaybeReceipt
  <2>7. PICK t : t = <<v, Len(r.corrections) + 1, x.kind>>
    OBVIOUS
  <2>8. AddsUse(v, row, review[v], c, t)
    BY <2>2, <2>3, <2>4, <2>7, UsesOfCorrectedRow
  <2> QED
    BY <1>0, <2>2, <2>3, <2>5, <2>6, <2>8, ReviewReceipt
<1> QED
  BY <1>2, <1>3, <1>4, <1>5

\* A payout is recorded with a receipt that is free for its lines.
LEMMA ReceiptsPayoutSteps ==
    ASSUME MoneyInv, ReceiptsNotShared, PayoutNext
    PROVE  ReceiptsNotShared'
<1>0. line \in [Lines -> LineRows]
  BY DEF MoneyInv
\* A line that is not paid has no receipt and no correction.
<1>1. ASSUME NEW row, line' = WithRow(line, ItemLine, row), review' = review,
             row.receipt = NoReceipt, row.corrections = <<>>, line[ItemLine].status # "paid",
             ItemLine \in Lines
      PROVE  ReceiptsNotShared'
  <2>1. \A k \in Lines : /\ line'[k].receipt = line[k].receipt
                         /\ line'[k].corrections = line[k].corrections
    BY <1>0, <1>1, LineRowFields DEF WithRow
  <2> QED
    BY <1>1, <2>1, ReceiptsKept
<1>2. CASE \E evidence \in BOOLEAN, limit \in Limits : RecordConfirmed(evidence, limit)
  <2>1. PICK evidence \in BOOLEAN, limit \in Limits : RecordConfirmed(evidence, limit)
    BY <1>2
  <2>2. review' = review
    BY <2>1 DEF RecordConfirmed
  <2>3. \A k \in Lines : /\ line[k].status # "none" => line'[k] = line[k]
                         /\ line[k].status = "none" =>
                                line'[k].receipt = NoReceipt /\ line'[k].corrections = <<>>
    BY <2>1, RecordConfirmedRows
  <2>4. \A k \in Lines : /\ line'[k].receipt = line[k].receipt
                         /\ line'[k].corrections = line[k].corrections
    BY <1>0, <2>3, LineRowFields
  <2> QED
    BY <2>2, <2>4, ReceiptsKept
<1>3. CASE \E n \in Amounts, limit \in Limits : Claim(n, limit)
  <2>1. PICK n \in Amounts, limit \in Limits : Claim(n, limit)
    BY <1>3
  <2>2. review' = review
    BY <2>1 DEF Claim
  <2>3. PICK row \in LineRows : /\ row.receipt = NoReceipt /\ row.corrections = <<>>
                                /\ line[ItemLine].status = "none" /\ ItemLine \in Lines
                                /\ line' = WithRow(line, ItemLine, row)
    BY <2>1, ClaimRow
  <2> QED
    BY <1>1, <2>2, <2>3
<1>4. CASE Reject
  <2>1. review' = review
    BY <1>4 DEF Reject
  <2>2. PICK row \in LineRows : /\ row.receipt = NoReceipt /\ row.corrections = <<>>
                                /\ line[ItemLine].status = "on_hold" /\ ItemLine \in Lines
                                /\ line' = WithRow(line, ItemLine, row)
    BY <1>4, RejectRow
  <2> QED
    BY <1>1, <2>1, <2>2
<1>5. CASE Hold
  <2>1. /\ line' = StatusAndAmount(line, ItemLine, "on_hold", NoAmount)
        /\ line[ItemLine].status = "payable" /\ review' = review
    BY <1>5 DEF Hold, StatusAndAmount
  <2>2. PICK row \in LineRows : /\ row.receipt = NoReceipt /\ row.corrections = <<>>
                                /\ ItemLine \in Lines /\ line' = WithRow(line, ItemLine, row)
    BY <2>1, ReviewedRow
  <2> QED
    BY <1>1, <2>1, <2>2
<1>6. CASE \E n \in Amounts, exception, note \in BOOLEAN : Approve(n, exception, note)
  <2>1. PICK n \in Amounts, exception \in BOOLEAN, note \in BOOLEAN : Approve(n, exception, note)
    BY <1>6
  <2>2. /\ line' = StatusAndAmount(line, ItemLine, "payable", n)
        /\ line[ItemLine].status = "on_hold" /\ review' = review
    BY <2>1 DEF Approve, StatusAndAmount
  <2>3. n \in Nat
    BY AmountsAreNat
  <2>4. PICK row \in LineRows : /\ row.receipt = NoReceipt /\ row.corrections = <<>>
                                /\ ItemLine \in Lines /\ line' = WithRow(line, ItemLine, row)
    BY <2>2, <2>3, ReviewedRow
  <2> QED
    BY <1>1, <2>2, <2>4
<1>7. CASE \E S \in SUBSET Lines, c \in Receipts : MarkLinesPaid(S, c)
  <2>1. PICK S \in SUBSET Lines, c \in Receipts : MarkLinesPaid(S, c)
    BY <1>7
  <2>2. review' = review /\ RunnerReferenceFree(S, c)
    BY <2>1 DEF MarkLinesPaid
  <2>3. /\ \A k \in Lines \ S : line'[k] = line[k]
        /\ \A k \in S : line'[k].receipt = c /\ line'[k].corrections = line[k].corrections
    BY <2>1, MarkLinesPaidRows
  <2>4. PICK t : t = [k \in S |-> <<k, 0, "payout">>]
    OBVIOUS
  <2>5. ASSUME NEW k \in S PROVE AddsUse(k, line'[k], line[k], c, t[k])
    <3>1. PICK n : n = line'[k]
      OBVIOUS
    <3>2. n.receipt = c /\ n.corrections = line[k].corrections
      BY <2>3, <3>1
    <3>3. AddsUse(k, n, line[k], c, <<k, 0, "payout">>)
      BY <3>2, UsesOfPaidRow
    <3> QED
      BY <2>4, <3>1, <3>3
  <2>6. MayBeRecorded(S, c, t)
    BY <2>2, <2>4 DEF MayBeRecorded
  <2> QED
    BY <2>2, <2>3, <2>5, <2>6, LineReceipt
<1>8. CASE \E k \in Lines, kind \in Kinds, n \in MaybeAmount, c \in MaybeReceipt : CorrectLine(k, kind, n, c)
  <2>1. PICK k \in Lines, kind \in Kinds, n \in MaybeAmount, c \in MaybeReceipt : CorrectLine(k, kind, n, c)
    BY <1>8
  <2>2. PICK l, x, row :
            /\ l = line[k] /\ x = Correction(kind, Payout(l).amount, n, c)
            /\ row = LineRow("paid", l.requested, l.amount, l.cap, l.limit, l.receipt,
                             Append(l.corrections, x))
    OBVIOUS
  <2>3. /\ x \in CorrectionRows /\ x.kind = kind /\ x.receipt = c
        /\ line' = WithRow(line, k, row)
    BY <2>1, <2>2, CorrectLineRow
  <2>4. /\ row.receipt = l.receipt /\ row.corrections = Append(l.corrections, x)
        /\ l.corrections \in Seq(CorrectionRows)
    BY <1>0, <2>2, LineRowFields DEF LineRow
  <2>5. /\ review' = review
        /\ c # NoReceipt => IF kind = "reversed" THEN ReferenceFree(c) ELSE RunnerReferenceFree({k}, c)
    BY <2>1 DEF CorrectLine
  <2>6. PICK S, t : S = {k} /\ t = [j \in S |-> <<k, Len(l.corrections) + 1, kind>>]
    OBVIOUS
  <2>7. S \in SUBSET Lines /\ \A j \in Lines \ S : line'[j] = line[j]
    BY <1>0, <2>3, <2>6 DEF WithRow
  <2>8. ASSUME NEW j \in S PROVE AddsUse(j, line'[j], line[j], c, t[j])
    <3>1. j = k /\ line'[k] = row /\ t[j] = <<k, Len(l.corrections) + 1, x.kind>>
      BY <1>0, <2>3, <2>6 DEF WithRow
    <3>2. AddsUse(k, row, l, c, <<k, Len(l.corrections) + 1, x.kind>>)
      BY <2>3, <2>4, UsesOfCorrectedRow
    <3> QED
      BY <2>2, <3>1, <3>2
  <2>9. MayBeRecorded(S, c, t)
    <3>1. CASE c = NoReceipt
      BY <3>1, ReceiptAssumption DEF MayBeRecorded
    <3>2. CASE c # NoReceipt /\ kind = "reversed"
      BY <2>5, <2>6, <3>2, FreeReceipt DEF MayBeRecorded
    <3>3. CASE c # NoReceipt /\ kind # "reversed"
      BY <2>5, <2>6, <3>3 DEF MayBeRecorded
    <3> QED
      BY <3>1, <3>2, <3>3
  <2> QED
    BY <2>5, <2>7, <2>8, <2>9, LineReceipt
<1> QED
  BY <1>2, <1>3, <1>4, <1>5, <1>6, <1>7, <1>8 DEF PayoutNext

\* Every step keeps receipts apart.
LEMMA ReceiptsNext == MoneyInv /\ ReceiptsNotShared /\ [Next]_vars => ReceiptsNotShared'
<1> SUFFICES ASSUME MoneyInv, ReceiptsNotShared, [Next]_vars PROVE ReceiptsNotShared'
    OBVIOUS
<1>1. CASE UNCHANGED vars
  BY <1>1 DEF vars, ReceiptsNotShared, Uses
<1>2. CASE PayoutNext
  BY <1>2, ReceiptsPayoutSteps
<1>3. CASE RefundNext
  <2>1. CASE \/ \E p \in Payments : ReadTask(p) \/ RecordResult(p) \/ SumLegs(p) \/ RecordLateResult(p)
             \/ End \/ SumAgain \/ Refresh
    BY <2>1, ReceiptsPaymentSteps
  <2>2. CASE \/ \E d \in Decreases, n \in DecreasesBy : OpenForDecrease(d, n)
             \/ \E v \in Reviews, n \in Amounts, note \in BOOLEAN : Decide(v, n, note)
             \/ \E v \in Reviews, c \in Receipts : MarkRefunded(v, c)
             \/ \E v \in Reviews, kind \in Kinds, n \in MaybeAmount, c \in MaybeReceipt, note \in BOOLEAN :
                    CorrectRefund(v, kind, n, c, note)
    BY <2>2, ReceiptsRefundSteps
  <2> QED
    BY <1>3, <2>1, <2>2 DEF RefundNext
<1> QED
  BY <1>1, <1>2, <1>3 DEF Next

\* Before the first payment no receipt is recorded.
LEMMA InitReceipts == Init => ReceiptsNotShared
<1> SUFFICES ASSUME Init, NEW c \in Receipts, NEW u \in Uses(c) PROVE FALSE
    BY DEF ReceiptsNotShared
<1>1. UsedAt(u, review, line, c)
  BY UsesAre
<1>2. NoReview.receipt # c /\ NoLine.receipt # c
      /\ NoReview.corrections = <<>> /\ NoLine.corrections = <<>>
  BY ReceiptAssumption DEF NoReview, NoLine
<1> QED
  <2>1. review = [v \in Reviews |-> NoReview] /\ line = [k \in Lines |-> NoLine]
    BY DEF Init
  <2>2. \A o : ~UsedIn(u, o, NoReview, c) /\ ~UsedIn(u, o, NoLine, c)
    BY <1>2 DEF UsedIn
  <2> QED
    BY <1>1, <2>1, <2>2 DEF UsedAt

\* A receipt is recorded twice only for payouts of the runner's different lines,
\* never when it is on a refund or stands for a reversal (payout-references.ts).
THEOREM ReceiptsNotSharedThm == Spec => []ReceiptsNotShared
<1>1. Init => MoneyInv /\ ReceiptsNotShared
  BY InitMoney, InitReceipts
<1>2. MoneyInv /\ ReceiptsNotShared /\ [Next]_vars => MoneyInv' /\ ReceiptsNotShared'
  BY MoneyNext, ReceiptsNext
<1> QED
  BY <1>1, <1>2, PTL DEF Spec

-----------------------------------------------------------------------------
(* What was decided stays decided. *)

\* A sequence is a prefix of itself and of itself with an element more.
LEMMA PrefixOfLonger ==
    ASSUME NEW A, NEW q \in Seq(A), NEW x \in A
    PROVE  IsPrefix(q, q) /\ IsPrefix(q, Append(q, x))
<1>1. PICK n \in Nat : n = Len(q) /\ DOMAIN q = 1..n
  BY LenProperties
<1>2. PICK p : p = Append(q, x)
  OBVIOUS
<1>3. p \in Seq(A) /\ Len(p) = n + 1 /\ \A i \in 1..n : p[i] = q[i]
  BY <1>1, <1>2, AppendProperties
<1>4. SubSeq(q, 1, n) = q
  BY <1>1, SubSeqFull
<1>5. SubSeq(p, 1, n) = q
  <2>1. /\ SubSeq(p, 1, n) \in Seq(A) /\ Len(SubSeq(p, 1, n)) = n
        /\ \A i \in 1..n : SubSeq(p, 1, n)[i] = p[i]
    <3>1. 1 \in 1..(Len(p) + 1) /\ n \in (1 - 1)..Len(p)
      BY <1>3
    <3> QED
      BY <1>3, <3>1, SubSeqProperties
  <2> QED
    BY <1>1, <1>3, <2>1, SeqEqual
<1> QED
  BY <1>1, <1>2, <1>3, <1>4, <1>5 DEF IsPrefix

\* n keeps what was decided of the review r.
KeptReview(r, n) ==
    r.status \notin {"none", "pending_review"} =>
        /\ n.paid = r.paid /\ n.amount = r.amount
        /\ r.receipt # NoReceipt => n.receipt = r.receipt
        /\ IsPrefix(r.corrections, n.corrections)

\* n keeps what was decided of the line l.
KeptLine(l, n) ==
    l.status \in {"paid", "rejected"} =>
        /\ [n EXCEPT !.corrections = <<>>] = [l EXCEPT !.corrections = <<>>]
        /\ IsPrefix(l.corrections, n.corrections)

\* A review that is not written keeps it.
LEMMA SameReviewKept == \A r \in ReviewRows : KeptReview(r, r)
<1> SUFFICES ASSUME NEW r \in ReviewRows PROVE KeptReview(r, r)
    OBVIOUS
<1>1. IsPrefix(r.corrections, r.corrections)
  <2>1. r.corrections \in Seq(CorrectionRows)
    BY ReviewRowFields
  <2>2. PICK x \in CorrectionRows : x = Correction("reversed", 0, NoAmount, NoReceipt)
    BY DEF Correction, CorrectionRows, MaybeReceipt, Kinds
  <2> QED
    BY <2>1, <2>2, PrefixOfLonger
<1> QED
  BY <1>1 DEF KeptReview

\* A line that is not written keeps it.
LEMMA SameLineKept == \A l \in LineRows : KeptLine(l, l)
<1> SUFFICES ASSUME NEW l \in LineRows PROVE KeptLine(l, l)
    OBVIOUS
<1>1. IsPrefix(l.corrections, l.corrections)
  <2>1. l.corrections \in Seq(CorrectionRows)
    BY LineRowFields
  <2>2. PICK x \in CorrectionRows : x = Correction("reversed", 0, NoAmount, NoReceipt)
    BY DEF Correction, CorrectionRows, MaybeReceipt, Kinds
  <2> QED
    BY <2>1, <2>2, PrefixOfLonger
<1> QED
  BY <1>1 DEF KeptLine

\* A correction of a line keeps what was recorded of its payout.
LEMMA CorrectedLineKept ==
    ASSUME NEW l \in LineRows, NEW x \in CorrectionRows, l.status = "paid"
    PROVE  KeptLine(l, LineRow("paid", l.requested, l.amount, l.cap, l.limit, l.receipt,
                               Append(l.corrections, x)))
<1>1. PICK r, a, m, n, c, q : /\ l = LineRow("paid", r, a, m, n, c, q) /\ q \in Seq(CorrectionRows)
                              /\ r = l.requested /\ a = l.amount /\ m = l.cap /\ n = l.limit
                              /\ c = l.receipt /\ q = l.corrections
  BY LineRowFields
<1>2. PICK p, e : p = Append(q, x) /\ e = <<>>
  OBVIOUS
<1>3. [LineRow("paid", r, a, m, n, c, p) EXCEPT !.corrections = e] = LineRow("paid", r, a, m, n, c, e)
  BY DEF LineRow
<1>4. [LineRow("paid", r, a, m, n, c, q) EXCEPT !.corrections = e] = LineRow("paid", r, a, m, n, c, e)
  BY DEF LineRow
<1>5. LineRow("paid", r, a, m, n, c, p).corrections = p
  BY DEF LineRow
<1>6. IsPrefix(q, p)
  BY <1>1, <1>2, PrefixOfLonger
<1>7. PICK o : o = LineRow("paid", r, a, m, n, c, p)
  OBVIOUS
<1>8. [o EXCEPT !.corrections = e] = [l EXCEPT !.corrections = e] /\ o.corrections = p
  BY <1>1, <1>3, <1>4, <1>5, <1>7
<1>9. KeptLine(l, o)
  BY <1>1, <1>2, <1>6, <1>8 DEF KeptLine
<1> QED
  BY <1>1, <1>2, <1>7, <1>9

\* A step that replaces one row.
LEMMA OneReviewKept ==
    ASSUME review \in [Reviews -> ReviewRows], NEW v \in Reviews, NEW row,
           review' = WithRow(review, v, row), KeptReview(review[v], row)
    PROVE  \A x \in Reviews : KeptReview(review[x], review'[x])
<1> SUFFICES ASSUME NEW x \in Reviews PROVE KeptReview(review[x], review'[x])
    OBVIOUS
<1>1. CASE x = v
  BY <1>1 DEF WithRow
<1>2. CASE x # v
  <2>1. review'[x] = review[x] /\ review[x] \in ReviewRows
    BY <1>2 DEF WithRow
  <2> QED
    BY <2>1, SameReviewKept
<1> QED
  BY <1>1, <1>2

\* The same of a line.
LEMMA OneLineKept ==
    ASSUME line \in [Lines -> LineRows], NEW v \in Lines, NEW row,
           line' = WithRow(line, v, row), KeptLine(line[v], row)
    PROVE  \A x \in Lines : KeptLine(line[x], line'[x])
<1> SUFFICES ASSUME NEW x \in Lines PROVE KeptLine(line[x], line'[x])
    OBVIOUS
<1>1. CASE x = v
  BY <1>1 DEF WithRow
<1>2. CASE x # v
  <2>1. line'[x] = line[x] /\ line[x] \in LineRows
    BY <1>2 DEF WithRow
  <2> QED
    BY <2>1, SameLineKept
<1> QED
  BY <1>1, <1>2

\* Every step on the reviews keeps what was decided.
LEMMA ReviewsKept ==
    ASSUME MoneyInv, RefundNext
    PROVE  \A v \in Reviews : KeptReview(review[v], review'[v])
<1>0. review \in [Reviews -> ReviewRows]
  BY DEF MoneyInv
<1>1. CASE \/ \E p \in Payments : ReadTask(p) \/ RecordResult(p) \/ SumLegs(p) \/ RecordLateResult(p)
           \/ End \/ SumAgain \/ Refresh
  <2>1. \A v \in Reviews : review[v].status \notin {"none", "pending_review"} => review'[v] = review[v]
    BY <1>1, PaymentStepsKeep
  <2> SUFFICES ASSUME NEW v \in Reviews PROVE KeptReview(review[v], review'[v])
      OBVIOUS
  <2>2. CASE review[v].status \in {"none", "pending_review"}
    BY <2>2 DEF KeptReview
  <2>3. CASE review'[v] = review[v]
    BY <1>0, <2>3, SameReviewKept
  <2> QED
    BY <2>1, <2>2, <2>3
<1>2. CASE \E d \in Decreases, n \in DecreasesBy : OpenForDecrease(d, n)
  <2>1. PICK d \in Decreases, n \in DecreasesBy : OpenForDecrease(d, n)
    BY <1>2
  <2>2. PICK row \in ReviewRows :
            d \in Reviews /\ review[d].status = "none" /\ review' = WithRow(review, d, row)
    BY <2>1, OpenForDecreaseRow
  <2>3. KeptReview(review[d], row)
    BY <2>2 DEF KeptReview
  <2> QED
    BY <1>0, <2>2, <2>3, OneReviewKept
<1>3. CASE \E v \in Reviews, n \in Amounts, note \in BOOLEAN : Decide(v, n, note)
  <2>1. PICK v \in Reviews, n \in Amounts, note \in BOOLEAN : Decide(v, n, note)
    BY <1>3
  <2>2. PICK row \in ReviewRows : review' = WithRow(review, v, row)
    BY <2>1, DecideRow
  <2>3. review[v].status = "pending_review"
    BY <2>1 DEF Decide
  <2>4. KeptReview(review[v], row)
    BY <2>3 DEF KeptReview
  <2> QED
    BY <1>0, <2>2, <2>4, OneReviewKept
<1>4. CASE \E v \in Reviews, c \in Receipts : MarkRefunded(v, c)
  <2>1. PICK v \in Reviews, c \in Receipts : MarkRefunded(v, c)
    BY <1>4
  <2>2. PICK row : /\ row = ReviewRow("refunded", review[v].paid, review[v].amount, c, <<>>)
                   /\ review[v].status = "approved" /\ review' = WithRow(review, v, row)
    BY <2>1, MarkRefundedRow
  <2>3. /\ row.paid = review[v].paid /\ row.amount = review[v].amount /\ row.corrections = <<>>
        /\ review[v].receipt = NoReceipt /\ review[v].corrections = <<>>
    BY <1>0, <2>2, ReviewRowFields DEF ReviewRow
  <2>4. IsPrefix(review[v].corrections, review[v].corrections)
    BY <1>0, <2>2, SameReviewKept DEF KeptReview
  <2>5. KeptReview(review[v], row)
    BY <2>3, <2>4 DEF KeptReview
  <2> QED
    BY <1>0, <2>2, <2>5, OneReviewKept
<1>5. CASE \E v \in Reviews, kind \in Kinds, n \in MaybeAmount, c \in MaybeReceipt, note \in BOOLEAN :
               CorrectRefund(v, kind, n, c, note)
  <2>1. PICK v \in Reviews, kind \in Kinds, n \in MaybeAmount, c \in MaybeReceipt, note \in BOOLEAN :
            CorrectRefund(v, kind, n, c, note)
    BY <1>5
  <2>2. PICK r, x, row :
            /\ r = review[v] /\ x = Correction(kind, Payout(r).amount, n, c)
            /\ row = ReviewRow("refunded", r.paid, r.amount, r.receipt, Append(r.corrections, x))
    OBVIOUS
  <2>3. x \in CorrectionRows /\ review' = WithRow(review, v, row)
    BY <2>1, <2>2, CorrectRefundRow
  <2>4. /\ row.paid = r.paid /\ row.amount = r.amount /\ row.receipt = r.receipt
        /\ row.corrections = Append(r.corrections, x) /\ r.corrections \in Seq(CorrectionRows)
    BY <1>0, <2>2, ReviewRowFields DEF ReviewRow
  <2>5. IsPrefix(r.corrections, row.corrections)
    BY <2>3, <2>4, PrefixOfLonger
  <2>6. KeptReview(review[v], row)
    BY <2>2, <2>4, <2>5 DEF KeptReview
  <2> QED
    BY <1>0, <2>3, <2>6, OneReviewKept
<1> QED
  BY <1>1, <1>2, <1>3, <1>4, <1>5 DEF RefundNext

\* Every step on the lines keeps what was decided.
LEMMA LinesKept ==
    ASSUME MoneyInv, PayoutNext
    PROVE  \A k \in Lines : KeptLine(line[k], line'[k])
<1>0. line \in [Lines -> LineRows]
  BY DEF MoneyInv
\* A line under review is replaced.
<1>1. ASSUME NEW row, ItemLine \in Lines, line' = WithRow(line, ItemLine, row),
             line[ItemLine].status \notin {"paid", "rejected"}
      PROVE  \A k \in Lines : KeptLine(line[k], line'[k])
  <2>1. KeptLine(line[ItemLine], row)
    BY <1>1 DEF KeptLine
  <2> QED
    BY <1>0, <1>1, <2>1, OneLineKept
<1>2. CASE \E evidence \in BOOLEAN, limit \in Limits : RecordConfirmed(evidence, limit)
  <2>1. PICK evidence \in BOOLEAN, limit \in Limits : RecordConfirmed(evidence, limit)
    BY <1>2
  <2>2. \A k \in Lines : line[k].status # "none" => line'[k] = line[k]
    BY <2>1, RecordConfirmedRows
  <2> SUFFICES ASSUME NEW k \in Lines PROVE KeptLine(line[k], line'[k])
      OBVIOUS
  <2>3. CASE line[k].status = "none"
    BY <2>3 DEF KeptLine
  <2>4. CASE line'[k] = line[k]
    BY <1>0, <2>4, SameLineKept
  <2> QED
    BY <2>2, <2>3, <2>4
<1>3. CASE \E n \in Amounts, limit \in Limits : Claim(n, limit)
  <2>1. PICK n \in Amounts, limit \in Limits : Claim(n, limit)
    BY <1>3
  <2>2. PICK row \in LineRows : /\ line[ItemLine].status = "none" /\ ItemLine \in Lines
                                /\ line' = WithRow(line, ItemLine, row)
    BY <2>1, ClaimRow
  <2> QED
    BY <1>1, <2>2
<1>4. CASE Reject
  <2>1. PICK row \in LineRows : /\ line[ItemLine].status = "on_hold" /\ ItemLine \in Lines
                                /\ line' = WithRow(line, ItemLine, row)
    BY <1>4, RejectRow
  <2> QED
    BY <1>1, <2>1
<1>5. CASE Hold
  <2>1. /\ line' = StatusAndAmount(line, ItemLine, "on_hold", NoAmount)
        /\ line[ItemLine].status = "payable"
    BY <1>5 DEF Hold, StatusAndAmount
  <2>2. PICK row \in LineRows : ItemLine \in Lines /\ line' = WithRow(line, ItemLine, row)
    BY <2>1, ReviewedRow
  <2> QED
    BY <1>1, <2>1, <2>2
<1>6. CASE \E n \in Amounts, exception, note \in BOOLEAN : Approve(n, exception, note)
  <2>1. PICK n \in Amounts, exception \in BOOLEAN, note \in BOOLEAN : Approve(n, exception, note)
    BY <1>6
  <2>2. line' = StatusAndAmount(line, ItemLine, "payable", n) /\ line[ItemLine].status = "on_hold"
    BY <2>1 DEF Approve, StatusAndAmount
  <2>3. n \in Nat
    BY AmountsAreNat
  <2>4. PICK row \in LineRows : ItemLine \in Lines /\ line' = WithRow(line, ItemLine, row)
    BY <2>2, <2>3, ReviewedRow
  <2> QED
    BY <1>1, <2>2, <2>4
<1>7. CASE \E S \in SUBSET Lines, c \in Receipts : MarkLinesPaid(S, c)
  <2>1. PICK S \in SUBSET Lines, c \in Receipts : MarkLinesPaid(S, c)
    BY <1>7
  <2>2. /\ \A k \in Lines \ S : line'[k] = line[k]
        /\ \A k \in S : line[k].status = "payable"
    <3>1. \A k \in Lines \ S : line'[k] = line[k]
      BY <2>1, MarkLinesPaidRows
    <3>2. \A k \in S : line[k].status = "payable"
      BY <2>1 DEF MarkLinesPaid
    <3> QED
      BY <3>1, <3>2
  <2> SUFFICES ASSUME NEW k \in Lines PROVE KeptLine(line[k], line'[k])
      OBVIOUS
  <2>3. CASE k \in S
    BY <2>2, <2>3 DEF KeptLine
  <2>4. CASE line'[k] = line[k]
    BY <1>0, <2>4, SameLineKept
  <2> QED
    BY <2>2, <2>3, <2>4
<1>8. CASE \E k \in Lines, kind \in Kinds, n \in MaybeAmount, c \in MaybeReceipt : CorrectLine(k, kind, n, c)
  <2>1. PICK k \in Lines, kind \in Kinds, n \in MaybeAmount, c \in MaybeReceipt : CorrectLine(k, kind, n, c)
    BY <1>8
  <2>2. PICK l, x, row :
            /\ l = line[k] /\ x = Correction(kind, Payout(l).amount, n, c)
            /\ row = LineRow("paid", l.requested, l.amount, l.cap, l.limit, l.receipt,
                             Append(l.corrections, x))
    OBVIOUS
  <2>3. l.status = "paid" /\ x \in CorrectionRows /\ line' = WithRow(line, k, row)
    BY <2>1, <2>2, CorrectLineRow
  <2>4. KeptLine(l, row)
    BY <1>0, <2>2, <2>3, CorrectedLineKept
  <2> QED
    BY <1>0, <2>2, <2>3, <2>4, OneLineKept
<1> QED
  BY <1>2, <1>3, <1>4, <1>5, <1>6, <1>7, <1>8 DEF PayoutNext

\* What was decided stays decided: late results and refreshes change no decided
\* review, a paid or rejected line is never decided again, and corrections are only
\* added (refunds.service.ts, runner-payouts.service.ts).
THEOREM DecidedIsFinalThm == Spec => DecidedIsFinal
<1> DEFINE Kept == /\ \A v \in Reviews : KeptReview(review[v], review'[v])
                   /\ \A k \in Lines : KeptLine(line[k], line'[k])
<1>1. ASSUME MoneyInv, [Next]_vars PROVE [Kept]_vars
  <2>1. CASE RefundNext
    <3>1. line' = line
      BY <2>1 DEF RefundNext, ReadTask, RecordResult, SumLegs, RecordLateResult, End, SumAgain, Refresh,
                  OpenForDecrease, Decide, MarkRefunded, CorrectRefund
    <3>2. \A k \in Lines : KeptLine(line[k], line'[k])
      BY <1>1, <3>1, SameLineKept DEF MoneyInv
    <3> QED
      BY <1>1, <2>1, <3>2, ReviewsKept
  <2>2. CASE PayoutNext
    <3>1. review' = review
      BY <2>2 DEF PayoutNext, RecordConfirmed, Claim, Reject, Hold, Approve, MarkLinesPaid, CorrectLine
    <3>2. \A v \in Reviews : KeptReview(review[v], review'[v])
      BY <1>1, <3>1, SameReviewKept DEF MoneyInv
    <3> QED
      BY <1>1, <2>2, <3>2, LinesKept
  <2> QED
    BY <1>1, <2>1, <2>2 DEF Next
<1>2. MoneyInv /\ [Next]_vars => [Kept]_vars
  BY <1>1
<1>3. DecidedIsFinal <=> [][Kept]_vars
  BY DEF DecidedIsFinal, KeptReview, KeptLine
<1> QED
  BY <1>2, <1>3, MoneyInvThm, PTL DEF Spec

-----------------------------------------------------------------------------
(* Proofs about PriceChanges, where the price the rest starts from is agreed: *)
(* for any calls, any set of prices and any number of requests.  What has to  *)
(* hold is AgreedPrice's, extended here; the steps are an instance of their   *)
(* own (Price), for the ledger has actions of the same names.                 *)

CONSTANTS Calls, MaxRequests
VARIABLES call
Price == INSTANCE PriceChanges

\* A sequence of numbers that grows by one adds its last to the sum.
LEMMA SumGrows ==
    ASSUME NEW n \in Nat, NEW g \in [1..n -> Int], NEW f \in [1..(n + 1) -> Int],
           \A i \in 1..n : f[i] = g[i]
    PROVE  SumFunction(f) = f[n + 1] + SumFunction(g) /\ SumFunction(g) \in Int
<1>1. PICK D : D = 1..(n + 1)
  OBVIOUS
<1>2. PICK E : E = 1..n
  OBVIOUS
<1>3. /\ E \subseteq D /\ n + 1 \in D /\ D \ {n + 1} = E /\ DOMAIN f = D /\ DOMAIN g = E
      /\ f \in [D -> Int] /\ g \in [E -> Int] /\ \A i \in E : f[i] = g[i]
  BY <1>1, <1>2
<1>4. IsFiniteSet(D) /\ IsFiniteSet(E)
  BY <1>1, <1>2, FS_Interval
<1>5. SumFunctionOnSet(f, D) = f[n + 1] + SumFunctionOnSet(f, E)
  <2>1. SumFunctionOnSet(f, D) = f[n + 1] + SumFunctionOnSet(f, D \ {n + 1})
    BY <1>3, <1>4, SumSplit
  <2> QED
    BY <1>3, <2>1
<1>6. SumFunctionOnSet(f, E) = SumFunctionOnSet(g, E)
  BY <1>3, <1>4, SumCompare, SMTT(30)
<1>7. SumFunctionOnSet(g, E) \in Int
  BY <1>3, <1>4, SumStep
<1> QED
  BY <1>3, <1>5, <1>6, <1>7 DEF SumFunction

-----------------------------------------------------------------------------
\* The rows of PriceChanges.
Decisions == {"requested", "approved", "rejected", "rejected_cancelled"}
PriceRequests == [from : Prices, to : Prices, status : Decisions]
Charges == [state : {"pending", "paid"}, route : Price!Routes, amount : Prices]
Outcomes == [for : Nat, amount : Int]
CallSteps == {"idle", "charge", "look", "insert", "approve", "reject", "cancel"}
PriceCalls == [step : CallSteps, price : Prices \cup {0}, to : Prices \cup {0}, id : Nat,
               guard : {Price!NoGuard, "price_change_rejection"}, route : Price!Routes \cup {"none"}]

\* A call's record.
CallOf(s, p, t, i, g, r) == [step |-> s, price |-> p, to |-> t, id |-> i, guard |-> g, route |-> r]

\* What a call has read stands while it is in flight: prices, and a request.
CallRead(row) ==
    /\ row.step = "charge" => row.price \in Prices /\ row.route \in Price!Routes
    /\ row.step \in {"look", "insert"} => row.price \in Prices /\ row.to \in Prices
    /\ row.step \in {"approve", "reject", "cancel"} => row.id \in DOMAIN requests

PriceTypes ==
    /\ budget \in Prices
    /\ charge \in Charges \cup {Price!NoCharge}
    /\ requests \in Seq(PriceRequests)
    /\ difference \in Seq(Outcomes) /\ decrease \in Seq(Outcomes)
    /\ ended \in BOOLEAN /\ overlap \in BOOLEAN
    /\ call \in [Calls -> PriceCalls]
    /\ \A c \in Calls : CallRead(call[c])

\* No change has been paid for or given back.
NothingYet == difference = <<>> /\ decrease = <<>>

\* While no price was written from a stale read, every price on its way is the
\* budget, and a charge not yet paid has had no change after it.
Current(row) == row.step = "charge" => row.price = budget /\ NothingYet

Agreed ==
    /\ taskStatus = "ACCEPTED" => NothingYet
    /\ ~overlap =>
        /\ \A i \in Price!Open : requests[i].from = budget
        /\ \A i, j \in Price!Open : i = j
        /\ charge.state # "paid" => \A c \in Calls : Current(call[c])
        /\ charge.state = "pending" => charge.amount = budget /\ NothingYet
        /\ charge.state = "paid" /\ charge.route = "send_to_runner" =>
               charge.amount + Price!Total(difference) - Price!Total(decrease) = budget

\* An outcome is of a request approved, of its amount, and the only one; a
\* request rejected with the task cancelled it, and ended what was paid.
OncePerRequest(rows) == \A k, n \in DOMAIN rows : rows[k].for = rows[n].for => k = n
OfApproved(rows) ==
    \A k \in DOMAIN rows : rows[k].for \in DOMAIN requests /\ requests[rows[k].for].status = "approved"

Decided ==
    /\ OncePerRequest(difference) /\ OncePerRequest(decrease)
    /\ OfApproved(difference) /\ OfApproved(decrease)
    /\ \A k \in DOMAIN difference : difference[k].amount = Price!Change(difference[k].for)
    /\ \A k \in DOMAIN decrease : decrease[k].amount = -Price!Change(decrease[k].for)
    /\ (\E i \in DOMAIN requests : requests[i].status = "rejected_cancelled") =>
           /\ taskStatus = "CANCELLED"
           /\ charge.state = "paid" => ended

PriceInv == PriceTypes /\ Agreed /\ Decided

-----------------------------------------------------------------------------
(* Sums of outcomes. *)

\* Nothing sums to 0...
LEMMA NoTotal == Price!Total(<<>>) = 0
<1>1. PICK f : f = [k \in DOMAIN <<>> |-> <<>>[k].amount]
  OBVIOUS
<1>2. DOMAIN f = {} /\ f \in [{} -> Int]
  BY <1>1
<1>3. SumFunctionOnSet(f, {}) = 0
  BY <1>2, FS_EmptySet, ZeroSum
<1>4. Price!Total(<<>>) = SumFunction(f)
  BY <1>1 DEF Price!Total, Price!SumFunction, SumFunction, Price!SumFunctionOnSet, SumFunctionOnSet,
              Price!FoldFunctionOnSet, FoldFunctionOnSet, Price!MapThenFoldSet, MapThenFoldSet
<1> QED
  BY <1>2, <1>3, <1>4 DEF SumFunction

\* ...and an outcome more adds its amount.
LEMMA TotalGrows ==
    ASSUME NEW rows \in Seq(Outcomes), NEW x \in Outcomes
    PROVE  /\ Price!Total(Append(rows, x)) = Price!Total(rows) + x.amount
           /\ Price!Total(rows) \in Int
<1>1. PICK r : r = Append(rows, x)
  OBVIOUS
<1>2. PICK n \in Nat : n = Len(rows)
  OBVIOUS
<1>3. /\ DOMAIN rows = 1..n /\ DOMAIN r = 1..(n + 1) /\ r[n + 1] = x
      /\ \A k \in 1..n : r[k] = rows[k] /\ rows[k] \in Outcomes
  BY <1>1, <1>2, AppendProperties, LenProperties, ElementOfSeq
<1>4. \A k \in 1..n : rows[k].amount \in Int
  BY <1>3 DEF Outcomes
<1>5. PICK g : g = [k \in DOMAIN rows |-> rows[k].amount]
  OBVIOUS
<1>6. PICK f : f = [k \in DOMAIN r |-> r[k].amount]
  OBVIOUS
<1>7. \A k \in 1..(n + 1) : k \in 1..n \/ k = n + 1
  OBVIOUS
<1>8. g \in [1..n -> Int]
  BY <1>3, <1>4, <1>5
<1>9. f \in [1..(n + 1) -> Int] /\ f[n + 1] = x.amount
  <2>1. x.amount \in Int /\ n + 1 \in 1..(n + 1)
    BY DEF Outcomes
  <2>2. \A k \in 1..(n + 1) : r[k].amount \in Int
    BY <1>3, <1>4, <1>7, <2>1
  <2> QED
    BY <1>3, <1>6, <2>1, <2>2
<1>10. \A k \in 1..n : f[k] = g[k]
  <2>1. \A k \in 1..n : k \in 1..(n + 1)
    OBVIOUS
  <2> QED
    BY <1>3, <1>5, <1>6, <2>1
<1>11. SumFunction(f) = x.amount + SumFunction(g) /\ SumFunction(g) \in Int
  BY <1>8, <1>9, <1>10, SumGrows
<1>12. Price!Total(rows) = SumFunction(g) /\ Price!Total(r) = SumFunction(f)
  BY <1>5, <1>6 DEF Price!Total, Price!SumFunction, SumFunction, Price!SumFunctionOnSet, SumFunctionOnSet,
              Price!FoldFunctionOnSet, FoldFunctionOnSet, Price!MapThenFoldSet, MapThenFoldSet
<1>13. x.amount \in Int
  BY DEF Outcomes
<1> QED
  BY <1>1, <1>11, <1>12, <1>13

-----------------------------------------------------------------------------
(* Parts of steps. *)

\* Payment is confirmed on an accepted task, and a cancelled one is not cancelled
\* again (errand-state-machine.ts).
LEMMA PriceTransitions ==
    /\ \A s, a, g : Price!Legal(s, "PAYMENT_CONFIRMED", a, g) => s = "ACCEPTED"
    /\ \A a, g : ~Price!Legal("CANCELLED", "CANCELLED", a, g)
BY DEF Price!Legal, Price!ErrandTransitions, Price!Row, Price!GuardedRow

\* A request decided: the others are open as before, and no change is another.
LEMMA RequestDecided ==
    ASSUME requests \in Seq(PriceRequests), NEW i \in Price!Open, NEW d \in Decisions \ {"requested"},
           requests' = [requests EXCEPT ![i].status = d]
    PROVE  /\ requests' \in Seq(PriceRequests) /\ DOMAIN requests' = DOMAIN requests
           /\ \A j \in DOMAIN requests :
                  /\ requests'[j].from = requests[j].from
                  /\ Price!Change(j)' = Price!Change(j)
                  /\ requests'[j].status = IF j = i THEN d ELSE requests[j].status
           /\ Price!Open' = Price!Open \ {i}
<1>1. i \in DOMAIN requests /\ DOMAIN requests = 1..Len(requests) /\ Len(requests) \in Nat
  BY LenProperties DEF Price!Open
<1>2. \A j \in DOMAIN requests : requests[j] \in PriceRequests
  BY ElementOfSeq, <1>1
<1>3. PICK row : row = [requests[i] EXCEPT !.status = d]
  OBVIOUS
<1>4. row \in PriceRequests /\ row.from = requests[i].from /\ row.to = requests[i].to /\ row.status = d
  BY <1>1, <1>2, <1>3 DEF PriceRequests, Decisions
<1>5. requests' = [requests EXCEPT ![i] = row]
  BY <1>3
<1>6. \A j \in DOMAIN requests : requests'[j] = IF j = i THEN row ELSE requests[j]
  BY <1>5
<1>7. requests' \in Seq(PriceRequests) /\ DOMAIN requests' = DOMAIN requests
  BY <1>1, <1>4, <1>5, ExceptSeq
<1>8. \A j \in DOMAIN requests :
          /\ requests'[j].from = requests[j].from
          /\ Price!Change(j)' = Price!Change(j)
          /\ requests'[j].status = IF j = i THEN d ELSE requests[j].status
  BY <1>4, <1>6 DEF Price!Change
<1> QED
  BY <1>7, <1>8 DEF Price!Open

\* An outcome is recorded of a request that had none.
LEMMA OutcomeRecorded ==
    ASSUME NEW rows \in Seq(Outcomes), OncePerRequest(rows), OfApproved(rows),
           NEW i \in Price!Open, i \in Nat, NEW m \in Int
    PROVE  LET x == [for |-> i, amount |-> m]
               r == Append(rows, x)
           IN  /\ r \in Seq(Outcomes) /\ x \in Outcomes
               /\ OncePerRequest(r)
               /\ \A k \in DOMAIN r : r[k] = x \/ (k \in DOMAIN rows /\ r[k] = rows[k])
<1>1. PICK x : x = [for |-> i, amount |-> m]
  OBVIOUS
<1>2. PICK r : r = Append(rows, x)
  OBVIOUS
<1>3. PICK n \in Nat : n = Len(rows)
  OBVIOUS
<1>4. x \in Outcomes /\ x.for = i
  BY <1>1 DEF Outcomes
<1>5. /\ r \in Seq(Outcomes) /\ DOMAIN rows = 1..n /\ DOMAIN r = 1..(n + 1) /\ r[n + 1] = x
      /\ \A k \in 1..n : r[k] = rows[k]
  BY <1>2, <1>3, <1>4, AppendProperties, LenProperties
<1>6. \A k \in DOMAIN r : k = n + 1 \/ k \in DOMAIN rows
  BY <1>5
<1>7. \A k \in DOMAIN rows : rows[k].for # i
  BY DEF OfApproved, Price!Open
<1>8. OncePerRequest(r)
  <2> SUFFICES ASSUME NEW k \in DOMAIN r, NEW j \in DOMAIN r, r[k].for = r[j].for
               PROVE  k = j
      BY DEF OncePerRequest
  <2>1. CASE k \in DOMAIN rows /\ j \in DOMAIN rows
    BY <1>5, <2>1 DEF OncePerRequest
  <2>2. CASE k = n + 1 /\ j \in DOMAIN rows
    BY <1>4, <1>5, <1>7, <2>2
  <2>3. CASE j = n + 1 /\ k \in DOMAIN rows
    BY <1>4, <1>5, <1>7, <2>3
  <2> QED
    BY <1>6, <2>1, <2>2, <2>3
<1>9. \A k \in DOMAIN r : r[k] = x \/ (k \in DOMAIN rows /\ r[k] = rows[k])
  BY <1>5, <1>6
<1> QED
  BY <1>1, <1>2, <1>4, <1>5, <1>8, <1>9

-----------------------------------------------------------------------------
\* Records of calls, field by field.
LEMMA CallFields ==
    ASSUME NEW s, NEW p, NEW t, NEW i, NEW g, NEW r
    PROVE  /\ CallOf(s, p, t, i, g, r).step = s /\ CallOf(s, p, t, i, g, r).price = p
           /\ CallOf(s, p, t, i, g, r).to = t /\ CallOf(s, p, t, i, g, r).id = i
           /\ CallOf(s, p, t, i, g, r).route = r
BY DEF CallOf

\* What a call's record holds.
LEMMA CallRows ==
    ASSUME NEW s \in CallSteps, NEW p \in Prices \cup {0}, NEW t \in Prices \cup {0}, NEW i \in Nat,
           NEW g \in {Price!NoGuard, "price_change_rejection"}, NEW r \in Price!Routes \cup {"none"}
    PROVE  CallOf(s, p, t, i, g, r) \in PriceCalls
BY DEF CallOf, PriceCalls

\* A call that is done has the empty record.
LEMMA IdleRow == Price!Idle = CallOf("idle", 0, 0, 0, Price!NoGuard, "none")
BY DEF Price!Idle, CallOf

\* A call dropped has read nothing.
LEMMA IdleCall ==
    /\ Price!Idle \in PriceCalls /\ Price!Idle.step = "idle"
    /\ CallRead(Price!Idle)' /\ CallRead(Price!Idle) /\ Current(Price!Idle) /\ Current(Price!Idle)'
<1>1. Price!Idle \in PriceCalls
  BY IdleRow, CallRows DEF CallSteps
<1>2. Price!Idle.step = "idle"
  BY DEF Price!Idle
<1> QED
  BY <1>1, <1>2 DEF CallRead, Current

\* Nothing is asked or charged at first: the invariant holds.
LEMMA PriceInit == Price!Init => PriceInv
<1> SUFFICES ASSUME Price!Init PROVE PriceInv
    OBVIOUS
<1>1. /\ taskStatus = "ACCEPTED" /\ budget \in Prices /\ charge = Price!NoCharge /\ charge.state = "none"
      /\ requests = <<>> /\ difference = <<>> /\ decrease = <<>> /\ ended = FALSE /\ overlap = FALSE
  BY PriceAssumption DEF Price!Init, Price!NoCharge
<1>2. /\ call \in [Calls -> PriceCalls] /\ \A c \in Calls : call[c].step = "idle"
  BY IdleCall DEF Price!Init
<1>3. \A S : <<>> \in Seq(S) /\ DOMAIN <<>> = {}
  OBVIOUS
<1>4. PriceTypes
  BY <1>1, <1>2, <1>3 DEF PriceTypes, CallRead
<1>5. Agreed
  BY <1>1, <1>2, <1>3 DEF Agreed, NothingYet, Current, Price!Open
<1>6. Decided
  BY <1>1, <1>3 DEF Decided, OncePerRequest, OfApproved
<1> QED
  BY <1>4, <1>5, <1>6 DEF PriceInv

\* A call reads, looks again or is dropped: nothing else is written.
LEMMA CallMoves ==
    ASSUME PriceInv, NEW c \in Calls, NEW row \in PriceCalls, call' = [call EXCEPT ![c] = row],
           CallRead(row), ~overlap /\ charge.state # "paid" => Current(row),
           UNCHANGED <<taskStatus, budget, charge, requests, difference, decrease, ended, overlap>>
    PROVE  PriceInv'
<1>1. call' \in [Calls -> PriceCalls] /\ \A d \in Calls : call'[d] = IF d = c THEN row ELSE call[d]
  BY DEF PriceInv, PriceTypes
<1>2. PriceTypes'
  <2>1. \A d \in Calls : CallRead(call[d])'
    BY <1>1 DEF PriceInv, PriceTypes, CallRead
  <2> QED
    BY <1>1, <2>1 DEF PriceInv, PriceTypes
<1>3. Agreed'
  BY <1>1 DEF PriceInv, Agreed, Current, NothingYet, Price!Open, Price!Total
<1>4. Decided'
  BY DEF PriceInv, Decided, OncePerRequest, OfApproved, Price!Change
<1> QED
  BY <1>2, <1>3, <1>4 DEF PriceInv

\* The steps that only read (initiatePayment, request, lockPending): what a call
\* has read is what stands now.
LEMMA ReadSteps ==
    ASSUME PriceInv, NEW c \in Calls,
           \/ \E route \in Price!Routes : Price!ReadPrice(c, route)
           \/ \E who \in {"runner", "admin"}, to \in Prices : Price!ReadErrand(c, who, to)
           \/ \E i \in Price!Open, what \in {"approve", "reject", "cancel"} : Price!FindPending(c, i, what)
           \/ Price!FindNoneOpen(c)
    PROVE  PriceInv'
<1>1. CASE \E route \in Price!Routes : Price!ReadPrice(c, route)
  <2>1. PICK route \in Price!Routes : Price!ReadPrice(c, route)
    BY <1>1
  <2> DEFINE row == CallOf("charge", budget, 0, 0, Price!NoGuard, route)
  <2>2. row = [Price!Idle EXCEPT !.step = "charge", !.price = budget, !.route = route]
    <3>1. [Price!Idle EXCEPT !.step = "charge"] = CallOf("charge", 0, 0, 0, Price!NoGuard, "none")
      BY IdleRow DEF CallOf
    <3>2. [CallOf("charge", 0, 0, 0, Price!NoGuard, "none") EXCEPT !.price = budget] = CallOf("charge", budget, 0, 0, Price!NoGuard, "none")
      BY DEF CallOf
    <3>3. [CallOf("charge", budget, 0, 0, Price!NoGuard, "none") EXCEPT !.route = route] = CallOf("charge", budget, 0, 0, Price!NoGuard, route)
      BY DEF CallOf
    <3> QED
      BY <3>1, <3>2, <3>3
  <2>3. row \in PriceCalls /\ row.step = "charge" /\ row.price = budget /\ row.route = route
    <3>1. budget \in Prices \cup {0} /\ route \in Price!Routes \cup {"none"} /\ "charge" \in CallSteps
      BY DEF PriceInv, PriceTypes, CallSteps
    <3>2. row \in PriceCalls
      BY <3>1, CallRows
    <3> QED
      BY <3>2, CallFields
  <2>8. CallRead(row)
    BY <2>3 DEF CallRead, PriceInv, PriceTypes
  <2>4. NothingYet
    BY <2>1 DEF Price!ReadPrice, PriceInv, Agreed
  <2>5. Current(row)
    BY <2>3, <2>4 DEF Current
  <2>6. call' = [call EXCEPT ![c] = row]
    BY <2>1, <2>2 DEF Price!ReadPrice
  <2>7. UNCHANGED <<taskStatus, budget, charge, requests, difference, decrease, ended, overlap>>
    BY <2>1 DEF Price!ReadPrice, Price!MoneyUnchanged
  <2> HIDE DEF row
  <2> QED
    BY <2>3, <2>5, <2>6, <2>7, <2>8, CallMoves
<1>2. CASE \E who \in {"runner", "admin"}, to \in Prices : Price!ReadErrand(c, who, to)
  <2>1. PICK who \in {"runner", "admin"}, to \in Prices : Price!ReadErrand(c, who, to)
    BY <1>2
  <2> DEFINE row == CallOf("look", budget, to, 0, Price!NoGuard, "none")
  <2>2. row = [Price!Idle EXCEPT !.step = "look", !.price = budget, !.to = to]
    <3>1. [Price!Idle EXCEPT !.step = "look"] = CallOf("look", 0, 0, 0, Price!NoGuard, "none")
      BY IdleRow DEF CallOf
    <3>2. [CallOf("look", 0, 0, 0, Price!NoGuard, "none") EXCEPT !.price = budget] = CallOf("look", budget, 0, 0, Price!NoGuard, "none")
      BY DEF CallOf
    <3>3. [CallOf("look", budget, 0, 0, Price!NoGuard, "none") EXCEPT !.to = to] = CallOf("look", budget, to, 0, Price!NoGuard, "none")
      BY DEF CallOf
    <3> QED
      BY <3>1, <3>2, <3>3
  <2>6. row \in PriceCalls /\ row.step = "look" /\ row.price = budget /\ row.to = to
    <3>1. budget \in Prices \cup {0} /\ to \in Prices \cup {0} /\ "look" \in CallSteps
      BY DEF PriceInv, PriceTypes, CallSteps
    <3>2. row \in PriceCalls
      BY <3>1, CallRows
    <3> QED
      BY <3>2, CallFields
  <2>3. CallRead(row) /\ Current(row)
    BY <2>6 DEF CallRead, Current, PriceInv, PriceTypes
  <2>4. call' = [call EXCEPT ![c] = row]
    BY <2>1, <2>2 DEF Price!ReadErrand
  <2>5. UNCHANGED <<taskStatus, budget, charge, requests, difference, decrease, ended, overlap>>
    BY <2>1 DEF Price!ReadErrand, Price!MoneyUnchanged
  <2> HIDE DEF row
  <2> QED
    BY <2>3, <2>4, <2>5, <2>6, CallMoves
<1>3. CASE \E i \in Price!Open, what \in {"approve", "reject", "cancel"} : Price!FindPending(c, i, what)
  <2>1. PICK i \in Price!Open, what \in {"approve", "reject", "cancel"} : Price!FindPending(c, i, what)
    BY <1>3
  <2>2. PICK guard \in {Price!NoGuard, "price_change_rejection"} :
            guard = IF what = "cancel" /\ taskStatus = "IN_PROGRESS"
                    THEN "price_change_rejection" ELSE Price!NoGuard
    OBVIOUS
  <2> DEFINE row == CallOf(what, 0, 0, i, guard, "none")
  <2>3. row = [Price!Idle EXCEPT !.step = what, !.id = i, !.guard = guard]
    <3>1. [Price!Idle EXCEPT !.step = what] = CallOf(what, 0, 0, 0, Price!NoGuard, "none")
      BY IdleRow DEF CallOf
    <3>2. [CallOf(what, 0, 0, 0, Price!NoGuard, "none") EXCEPT !.id = i] = CallOf(what, 0, 0, i, Price!NoGuard, "none")
      BY DEF CallOf
    <3>3. [CallOf(what, 0, 0, i, Price!NoGuard, "none") EXCEPT !.guard = guard] = CallOf(what, 0, 0, i, guard, "none")
      BY DEF CallOf
    <3> QED
      BY <3>1, <3>2, <3>3
  <2>4. i \in DOMAIN requests /\ i \in Nat
    BY LenProperties DEF Price!Open, PriceInv, PriceTypes
  <2>8. row \in PriceCalls /\ row.step = what /\ row.id = i
    <3>1. row \in PriceCalls
      BY <2>4, CallRows DEF CallSteps
    <3> QED
      BY <3>1, CallFields
  <2>5. CallRead(row) /\ Current(row)
    BY <2>4, <2>8 DEF CallRead, Current
  <2>6. call' = [call EXCEPT ![c] = row]
    BY <2>1, <2>2, <2>3 DEF Price!FindPending
  <2>7. UNCHANGED <<taskStatus, budget, charge, requests, difference, decrease, ended, overlap>>
    BY <2>1 DEF Price!FindPending, Price!MoneyUnchanged
  <2> HIDE DEF row
  <2> QED
    BY <2>5, <2>6, <2>7, <2>8, CallMoves
<1>4. CASE Price!FindNoneOpen(c)
  <2>0. UNCHANGED <<taskStatus, budget, charge, requests, difference, decrease, ended, overlap>>
    BY <1>4 DEF Price!FindNoneOpen, Price!MoneyUnchanged
  <2>1. CASE Price!Open = {}
    <3> DEFINE row == [call[c] EXCEPT !.step = "insert"]
    <3>3. call[c] \in PriceCalls /\ call[c].step = "look" /\ CallRead(call[c])
      BY <1>4 DEF PriceInv, PriceTypes, Price!FindNoneOpen
    <3>4. row \in PriceCalls /\ row.step = "insert" /\ row.price = call[c].price /\ row.to = call[c].to
      BY <3>3 DEF PriceCalls, CallSteps
    <3>1. row \in PriceCalls /\ CallRead(row) /\ Current(row)
      BY <3>3, <3>4 DEF CallRead, Current
    <3>2. call' = [call EXCEPT ![c] = row]
      BY <1>4, <2>1 DEF Price!FindNoneOpen
    <3> HIDE DEF row
    <3> QED
      BY <2>0, <3>1, <3>2, CallMoves
  <2>2. CASE Price!Open # {}
    <3>1. call' = [call EXCEPT ![c] = Price!Idle]
      BY <1>4, <2>2 DEF Price!FindNoneOpen
    <3> QED
      BY <2>0, <3>1, IdleCall, CallMoves
  <2> QED
    BY <2>1, <2>2
<1> QED
  BY <1>1, <1>2, <1>3, <1>4

\* The charge and the task's own course: no price, no request is written.
LEMMA TaskMoves ==
    ASSUME PriceInv, UNCHANGED <<budget, charge, requests, difference, decrease, overlap, call>>,
           taskStatus' = "ACCEPTED" => taskStatus = "ACCEPTED",
           taskStatus = "CANCELLED" => taskStatus' = "CANCELLED" /\ ended' = ended, ended' \in BOOLEAN
    PROVE  PriceInv'
<1>1. PriceTypes'
  BY DEF PriceInv, PriceTypes, CallRead
<1>2. Agreed'
  BY DEF PriceInv, Agreed, Current, NothingYet, Price!Open, Price!Total
<1>3. Decided'
  BY DEF PriceInv, Decided, OncePerRequest, OfApproved, Price!Change
<1> QED
  BY <1>1, <1>2, <1>3 DEF PriceInv

\* The task moves: it is confirmed, by payment or by an admin, done, or cancelled.
LEMMA TaskSteps ==
    ASSUME PriceInv, Price!ConfirmPaid \/ Price!ConfirmOutside \/ Price!Work \/ Price!CancelTask
    PROVE  PriceInv'
<1>1. ended \in BOOLEAN
  BY DEF PriceInv, PriceTypes
<1>2. CASE Price!ConfirmPaid
  BY <1>1, <1>2, PriceTransitions, TaskMoves DEF Price!ConfirmPaid, Price!MoneyUnchanged
<1>3. CASE Price!ConfirmOutside
  BY <1>1, <1>3, PriceTransitions, TaskMoves DEF Price!ConfirmOutside, Price!MoneyUnchanged
<1>4. CASE Price!Work
  BY <1>1, <1>4, TaskMoves DEF Price!Work, Price!MoneyUnchanged
<1>5. CASE Price!CancelTask
  BY <1>1, <1>5, PriceTransitions, TaskMoves DEF Price!CancelTask
<1> QED
  BY <1>2, <1>3, <1>4, <1>5

\* The charge is written, fails or is paid.
LEMMA ChargeMoves ==
    ASSUME PriceInv, call' \in [Calls -> PriceCalls],
           \A d \in Calls : call'[d] = call[d] \/ call'[d] = Price!Idle,
           UNCHANGED <<taskStatus, budget, requests, difference, decrease, overlap>>,
           charge' \in Charges \cup {Price!NoCharge}, ended' \in BOOLEAN,
           charge.state = "paid" => charge' = charge /\ ended' = ended,
           charge'.state = "paid" =>
               \/ charge' = charge
               \/ /\ charge.state = "pending" /\ charge'.amount = charge.amount
                  /\ taskStatus = "CANCELLED" => ended',
           charge'.state = "pending" /\ ~overlap => charge'.amount = budget /\ NothingYet
    PROVE  PriceInv'
<1>2. PriceTypes'
  <2>1. \A d \in Calls : CallRead(call[d])'
    BY IdleCall DEF PriceInv, PriceTypes, CallRead
  <2> QED
    BY <2>1 DEF PriceInv, PriceTypes
<1>3. Agreed'
  <2>1. \A d \in Calls : Current(call[d]) => Current(call[d])'
    BY IdleCall DEF Current, NothingYet
  <2>2. NothingYet => Price!Total(difference) = 0 /\ Price!Total(decrease) = 0
    BY NoTotal DEF NothingYet
  <2>3. charge'.state # "paid" => charge.state # "paid"
    OBVIOUS
  <2>4. ~overlap /\ charge'.state = "paid" /\ charge'.route = "send_to_runner" =>
            charge'.amount + Price!Total(difference) - Price!Total(decrease) = budget
    <3>1. budget \in Int
      BY PriceAssumption DEF PriceInv, PriceTypes
    <3> QED
      BY <2>2, <3>1 DEF PriceInv, Agreed
  <2> QED
    BY <2>1, <2>3, <2>4 DEF PriceInv, Agreed, NothingYet, Price!Open, Price!Total
<1>4. Decided'
  BY DEF PriceInv, Decided, OncePerRequest, OfApproved, Price!Change
<1> QED
  BY <1>2, <1>3, <1>4 DEF PriceInv

\* A call that ends leaves the others as they were.
LEMMA DroppedCall ==
    ASSUME PriceInv, NEW c \in Calls, call' = [call EXCEPT ![c] = Price!Idle]
    PROVE  /\ call' \in [Calls -> PriceCalls]
           /\ \A d \in Calls : call'[d] = call[d] \/ call'[d] = Price!Idle
BY IdleCall DEF PriceInv, PriceTypes

\* A charge is inserted, fails or is paid: while nothing overlaps, at the price
\* that stands.
LEMMA ChargeSteps ==
    ASSUME PriceInv,
           Price!ChargeFails \/ Price!ChargePaid \/ \E c \in Calls : Price!InsertCharge(c)
    PROVE  PriceInv'
<1>0. /\ ended \in BOOLEAN /\ charge \in Charges \cup {Price!NoCharge} /\ call \in [Calls -> PriceCalls]
      /\ Price!NoCharge.state = "none"
  BY DEF PriceInv, PriceTypes, Price!NoCharge
<1>1. CASE Price!ChargeFails
  <2>1. /\ charge.state = "pending" /\ charge' = Price!NoCharge /\ charge'.state = "none"
        /\ UNCHANGED <<taskStatus, budget, requests, difference, decrease, overlap, call, ended>>
    BY <1>0, <1>1 DEF Price!ChargeFails
  <2> QED
    BY <1>0, <2>1, ChargeMoves
<1>2. CASE Price!ChargePaid
  <2>1. PICK row : row = [charge EXCEPT !.state = "paid"]
    OBVIOUS
  <2>2. /\ charge.state = "pending" /\ charge' = row
        /\ ended' = (ended \/ taskStatus = "CANCELLED")
        /\ UNCHANGED <<taskStatus, budget, requests, difference, decrease, overlap, call>>
    BY <1>2, <2>1 DEF Price!ChargePaid
  <2>3. charge \in Charges
    BY <1>0, <2>2
  <2>4. row \in Charges /\ row.state = "paid" /\ row.amount = charge.amount
    BY <2>1, <2>3 DEF Charges
  <2>5. ended' \in BOOLEAN /\ (taskStatus = "CANCELLED" => ended')
    BY <2>2, Zenon
  <2> QED
    BY <1>0, <2>2, <2>4, <2>5, ChargeMoves
<1>3. CASE \E c \in Calls : Price!InsertCharge(c)
  <2>1. PICK c \in Calls : Price!InsertCharge(c)
    BY <1>3
  <2>2. PICK row : row = [state |-> "pending", route |-> call[c].route, amount |-> call[c].price]
    OBVIOUS
  <2>3. /\ call[c].step = "charge" /\ charge' = IF charge = Price!NoCharge THEN row ELSE charge
        /\ call' = [call EXCEPT ![c] = Price!Idle]
        /\ UNCHANGED <<taskStatus, budget, requests, difference, decrease, overlap, ended>>
    BY <2>1, <2>2 DEF Price!InsertCharge
  <2>4. call[c].price \in Prices /\ call[c].route \in Price!Routes
    BY <2>3 DEF PriceInv, PriceTypes, CallRead
  <2>5. row \in Charges /\ row.state = "pending" /\ row.amount = call[c].price
    BY <2>2, <2>4 DEF Charges
  <2>6. /\ call' \in [Calls -> PriceCalls]
        /\ \A d \in Calls : call'[d] = call[d] \/ call'[d] = Price!Idle
    BY <2>3, DroppedCall
  <2>7. ~overlap /\ charge'.state = "pending" => charge'.amount = budget /\ NothingYet
    <3>1. CASE charge = Price!NoCharge
      BY <1>0, <2>3, <2>5, <3>1 DEF PriceInv, Agreed, Current
    <3>2. CASE charge # Price!NoCharge
      BY <2>3, <3>2 DEF PriceInv, Agreed
    <3> QED
      BY <3>1, <3>2
  <2>8. CASE charge = Price!NoCharge
    BY <1>0, <2>3, <2>5, <2>6, <2>7, <2>8, ChargeMoves
  <2>9. CASE charge # Price!NoCharge
    BY <1>0, <2>3, <2>6, <2>7, <2>9, ChargeMoves
  <2> QED
    BY <2>8, <2>9
<1> QED
  BY <1>1, <1>2, <1>3

-----------------------------------------------------------------------------
(* Requests and decisions. *)

\* A request is inserted: from the budget read, unless it changed in between,
\* and then the requests overlap.
LEMMA InsertStep ==
    ASSUME PriceInv, NEW c \in Calls, Price!InsertRequest(c)
    PROVE  PriceInv'
<1>1. PICK row : row = [from |-> call[c].price, to |-> call[c].to, status |-> "requested"]
  OBVIOUS
<1>2. /\ call[c].step = "insert" /\ requests' = Append(requests, row)
      /\ overlap' = (overlap \/ Price!Open # {} \/ budget # call[c].price)
      /\ call' = [call EXCEPT ![c] = Price!Idle]
      /\ UNCHANGED <<taskStatus, budget, charge, difference, decrease, ended>>
  BY <1>1 DEF Price!InsertRequest, Price!MoneyUnchanged
<1>3. row \in PriceRequests /\ row.status = "requested" /\ row.from = call[c].price
  <2>1. call[c].price \in Prices /\ call[c].to \in Prices
    BY <1>2 DEF PriceInv, PriceTypes, CallRead
  <2> QED
    BY <1>1, <2>1 DEF PriceRequests, Decisions
<1>4. PICK n \in Nat : n = Len(requests)
  BY LenProperties DEF PriceInv, PriceTypes
<1>5. /\ requests' \in Seq(PriceRequests) /\ DOMAIN requests = 1..n /\ DOMAIN requests' = 1..(n + 1)
      /\ requests'[n + 1] = row /\ \A i \in 1..n : requests'[i] = requests[i]
  BY <1>2, <1>3, <1>4, AppendProperties, LenProperties DEF PriceInv, PriceTypes
<1>6. /\ DOMAIN requests \subseteq DOMAIN requests' /\ \A i \in DOMAIN requests : requests'[i] = requests[i]
      /\ \A i \in DOMAIN requests' : i \in DOMAIN requests \/ i = n + 1
  BY <1>5
<1>7. \A i \in Price!Open' : i \in Price!Open \/ i = n + 1
  BY <1>6 DEF Price!Open
<1>8. /\ call' \in [Calls -> PriceCalls]
      /\ \A d \in Calls : call'[d] = call[d] \/ call'[d] = Price!Idle
  BY <1>2, DroppedCall
<1>9. PriceTypes'
  <2>1. \A d \in Calls : CallRead(call[d])'
    BY <1>6, <1>8, IdleCall DEF PriceInv, PriceTypes, CallRead
  <2>2. overlap' \in BOOLEAN
    BY <1>2, Zenon
  <2> QED
    BY <1>2, <1>5, <1>8, <2>1, <2>2 DEF PriceInv, PriceTypes
<1>10. Agreed'
  <2>1. \A d \in Calls : Current(call[d]) => Current(call[d])'
    BY <1>2, <1>8, IdleCall DEF Current, NothingYet
  <2>2. ASSUME ~overlap'
        PROVE  ~overlap /\ Price!Open = {} /\ budget = call[c].price
    BY <1>2, <2>2
  <2>3. ASSUME ~overlap'
        PROVE  /\ \A i \in Price!Open' : requests'[i].from = budget
               /\ \A i, j \in Price!Open' : i = j
    BY <1>3, <1>5, <1>7, <2>2, <2>3
  <2> QED
    BY <1>2, <2>1, <2>2, <2>3 DEF PriceInv, Agreed, NothingYet, Price!Total
<1>11. Decided'
  <2>1. \A rows : OfApproved(rows) => OfApproved(rows)' /\
            \A k \in DOMAIN rows : Price!Change(rows[k].for)' = Price!Change(rows[k].for)
    BY <1>6 DEF OfApproved, Price!Change
  <2>2. \A i \in DOMAIN requests' : requests'[i].status = "rejected_cancelled" =>
            i \in DOMAIN requests /\ requests[i].status = "rejected_cancelled"
    BY <1>3, <1>5, <1>6
  <2> QED
    BY <1>2, <2>1, <2>2 DEF PriceInv, Decided, OncePerRequest
<1> QED
  BY <1>9, <1>10, <1>11 DEF PriceInv

\* A decided request leaves the outcomes of the others.
LEMMA OutcomesKept ==
    ASSUME PriceInv, NEW i \in Price!Open, NEW d \in Decisions \ {"requested"},
           requests' = [requests EXCEPT ![i].status = d], NEW rows, OfApproved(rows)
    PROVE  /\ OfApproved(rows)'
           /\ \A k \in DOMAIN rows : Price!Change(rows[k].for)' = Price!Change(rows[k].for)
<1>1. requests \in Seq(PriceRequests)
  BY DEF PriceInv, PriceTypes
<1>2. /\ DOMAIN requests' = DOMAIN requests
      /\ \A j \in DOMAIN requests :
             /\ Price!Change(j)' = Price!Change(j)
             /\ requests'[j].status = IF j = i THEN d ELSE requests[j].status
  BY <1>1, RequestDecided
<1>3. requests[i].status = "requested"
  BY DEF Price!Open
<1>4. \A k \in DOMAIN rows : rows[k].for \in DOMAIN requests /\ rows[k].for # i
  BY <1>3 DEF OfApproved
<1> QED
  BY <1>2, <1>4 DEF OfApproved

\* A rejection decides the request it locked, and changes no money.
LEMMA RejectSteps ==
    ASSUME PriceInv, NEW c \in Calls, Price!Reject(c) \/ Price!RejectAndCancel(c)
    PROVE  PriceInv'
<1> DEFINE i == call[c].id
<1>1. /\ call' = [call EXCEPT ![c] = Price!Idle]
      /\ UNCHANGED <<budget, charge, difference, decrease, overlap>>
  BY DEF Price!Reject, Price!RejectAndCancel, Price!Drop, Price!MoneyUnchanged
<1>2. /\ call' \in [Calls -> PriceCalls]
      /\ \A d \in Calls : call'[d] = call[d] \/ call'[d] = Price!Idle
  BY <1>1, DroppedCall
<1>3. CASE UNCHANGED <<taskStatus, requests, ended>>
  BY <1>1, <1>3, IdleCall, CallMoves
<1>4. CASE ~UNCHANGED <<taskStatus, requests, ended>>
  <2>1. PICK d \in {"rejected", "rejected_cancelled"} :
            /\ Price!Pending(i)
            /\ requests' = [requests EXCEPT ![i].status = d]
            /\ \/ d = "rejected" /\ taskStatus' = taskStatus /\ ended' = ended
               \/ d = "rejected_cancelled" /\ taskStatus' = "CANCELLED" /\ ended' = (charge.state = "paid")
    <3>1. CASE Price!Reject(c)
      BY <1>4, <3>1 DEF Price!Reject, Price!MoneyUnchanged
    <3>2. CASE Price!RejectAndCancel(c)
      BY <1>4, <3>2 DEF Price!RejectAndCancel
    <3> QED
      BY <3>1, <3>2
  <2>2. i \in Price!Open /\ d \in Decisions \ {"requested"} /\ requests \in Seq(PriceRequests)
    BY <2>1 DEF Price!Pending, Decisions, PriceInv, PriceTypes
  <2>3. /\ requests' \in Seq(PriceRequests) /\ DOMAIN requests' = DOMAIN requests
        /\ \A j \in DOMAIN requests :
               /\ requests'[j].from = requests[j].from
               /\ requests'[j].status = IF j = i THEN d ELSE requests[j].status
        /\ Price!Open' = Price!Open \ {i}
    <3> HIDE DEF i
    <3> QED
      BY <2>1, <2>2, RequestDecided
  <2>4. \A rows : OfApproved(rows) =>
            /\ OfApproved(rows)'
            /\ \A k \in DOMAIN rows : Price!Change(rows[k].for)' = Price!Change(rows[k].for)
    <3> HIDE DEF i
    <3> QED
      BY <2>1, <2>2, OutcomesKept
  <2>5. PriceTypes'
    <3>1. \A e \in Calls : CallRead(call[e])'
      BY <1>2, <2>3, IdleCall DEF PriceInv, PriceTypes, CallRead
    <3>2. ended' \in BOOLEAN
      BY <2>1 DEF PriceInv, PriceTypes
    <3> QED
      BY <1>1, <1>2, <2>3, <3>1, <3>2 DEF PriceInv, PriceTypes
  <2>6. Agreed'
    <3>1. \A e \in Calls : Current(call[e]) => Current(call[e])'
      BY <1>1, <1>2, IdleCall DEF Current, NothingYet
    <3>2. \A j \in Price!Open' : j \in Price!Open /\ requests'[j].from = requests[j].from
      BY <2>3 DEF Price!Open
    <3>3. taskStatus' = "ACCEPTED" => taskStatus = "ACCEPTED"
      BY <2>1
    <3> QED
      BY <1>1, <3>1, <3>2, <3>3 DEF PriceInv, Agreed, NothingYet, Price!Total
  <2>7. Decided'
    <3>1. (\E j \in DOMAIN requests' : requests'[j].status = "rejected_cancelled") =>
              /\ taskStatus' = "CANCELLED"
              /\ charge'.state = "paid" => ended'
      <4>1. CASE d = "rejected_cancelled"
        BY <1>1, <2>1, <4>1
      <4>2. CASE d = "rejected"
        BY <1>1, <2>1, <2>3, <4>2 DEF PriceInv, Decided
      <4> QED
        BY <4>1, <4>2
    <3> QED
      BY <1>1, <2>4, <3>1 DEF PriceInv, Decided, OncePerRequest
  <2> QED
    BY <2>5, <2>6, <2>7 DEF PriceInv
<1> QED
  BY <1>3, <1>4

\* Approved: the outcome of the change is recorded with it, or none is due.
LEMMA ApproveStep ==
    ASSUME PriceInv, NEW c \in Calls, Price!Approve(c)
    PROVE  PriceInv'
<1>1. PICK i : i = call[c].id
  OBVIOUS
<1>2. /\ call[c].step = "approve" /\ call' = [call EXCEPT ![c] = Price!Idle]
      /\ UNCHANGED <<taskStatus, charge, ended>>
  BY DEF Price!Approve, Price!Drop
<1>3. /\ call' \in [Calls -> PriceCalls]
      /\ \A d \in Calls : call'[d] = call[d] \/ call'[d] = Price!Idle
  BY <1>2, DroppedCall
<1>4. CASE ~(Price!Pending(i) /\ taskStatus \in Price!PriceChangeable)
  <2>1. UNCHANGED <<budget, requests, difference, decrease, overlap>>
    BY <1>1, <1>4 DEF Price!Approve
  <2> QED
    BY <1>2, <2>1, IdleCall, CallMoves
<1>5. CASE Price!Pending(i) /\ taskStatus \in Price!PriceChangeable
  <2>1. /\ i \in Price!Open /\ Price!ChargeDifference(i) /\ Price!ReviewDecrease(i)
        /\ budget' = requests[i].to
        /\ requests' = [requests EXCEPT ![i].status = "approved"]
        /\ overlap' = (overlap \/ (Price!InFlight /\ ~Price!Settled))
    BY <1>1, <1>5 DEF Price!Approve, Price!Priced, Price!Pending
  <2>2. requests \in Seq(PriceRequests) /\ "approved" \in Decisions \ {"requested"}
    BY DEF Decisions, PriceInv, PriceTypes
  <2>3. i \in DOMAIN requests /\ i \in Nat /\ requests[i] \in PriceRequests /\ requests[i].status = "requested"
    BY <2>1, <2>2, LenProperties, ElementOfSeq DEF Price!Open
  <2>4. PICK from \in Nat, to \in Nat, m \in Int :
            /\ requests[i].from = from /\ requests[i].to = to /\ to \in Prices
            /\ m = to - from /\ Price!Change(i) = m
    <3>1. requests[i].from \in Nat /\ requests[i].to \in Nat /\ requests[i].to \in Prices
      BY <2>3, PriceAssumption DEF PriceRequests
    <3>2. requests[i].to - requests[i].from \in Int
      BY <3>1
    <3> QED
      BY <3>1, <3>2 DEF Price!Change
  <2>5. /\ requests' \in Seq(PriceRequests) /\ DOMAIN requests' = DOMAIN requests
        /\ \A j \in DOMAIN requests :
               /\ Price!Change(j)' = Price!Change(j)
               /\ requests'[j].status = IF j = i THEN "approved" ELSE requests[j].status
        /\ Price!Open' = Price!Open \ {i}
    BY <2>1, <2>2, RequestDecided
  <2>6. \A rows : OfApproved(rows) =>
            /\ OfApproved(rows)'
            /\ \A k \in DOMAIN rows : Price!Change(rows[k].for)' = Price!Change(rows[k].for)
    BY <2>1, <2>2, OutcomesKept
  <2> DEFINE up == m > 0 /\ taskStatus \in Price!PostPayment
             down == m < 0 /\ taskStatus \in Price!PostPayment /\ charge.route = "send_to_runner"
             more == [for |-> i, amount |-> m]
             less == [for |-> i, amount |-> -m]
  <2>7. /\ difference' = IF up THEN Append(difference, more) ELSE difference
        /\ decrease' = IF down THEN Append(decrease, less) ELSE decrease
    <3>1. \A k \in DOMAIN decrease : decrease[k].for # i
      BY <2>3 DEF PriceInv, Decided, OfApproved
    <3> QED
      BY <2>1, <2>4, <3>1 DEF Price!ChargeDifference, Price!ReviewDecrease, Price!PrimaryRoute
  <2>8. /\ difference \in Seq(Outcomes) /\ decrease \in Seq(Outcomes)
        /\ OncePerRequest(difference) /\ OncePerRequest(decrease)
        /\ OfApproved(difference) /\ OfApproved(decrease)
    BY DEF PriceInv, PriceTypes, Decided
  <2>9. /\ difference' \in Seq(Outcomes) /\ OncePerRequest(difference')
        /\ \A k \in DOMAIN difference' :
               \/ difference'[k].for = i /\ difference'[k].amount = m
               \/ k \in DOMAIN difference /\ difference'[k] = difference[k]
        /\ up => Price!Total(difference') = Price!Total(difference) + m
        /\ Price!Total(difference) \in Int
    <3>1. LET r == Append(difference, more)
          IN  /\ r \in Seq(Outcomes) /\ more \in Outcomes /\ OncePerRequest(r)
              /\ \A k \in DOMAIN r : r[k] = more \/ (k \in DOMAIN difference /\ r[k] = difference[k])
      BY <2>1, <2>3, <2>8, OutcomeRecorded
    <3>2. more.for = i /\ more.amount = m
      OBVIOUS
    <3> HIDE DEF more, up
    <3>3. /\ Price!Total(Append(difference, more)) = Price!Total(difference) + m
          /\ Price!Total(difference) \in Int
      BY <2>8, <3>1, <3>2, TotalGrows
    <3>4. CASE up
      BY <2>7, <3>1, <3>2, <3>3, <3>4
    <3>5. CASE ~up
      BY <2>7, <2>8, <3>3, <3>5
    <3> QED
      BY <3>4, <3>5
  <2>10. /\ decrease' \in Seq(Outcomes) /\ OncePerRequest(decrease')
         /\ \A k \in DOMAIN decrease' :
                \/ decrease'[k].for = i /\ decrease'[k].amount = -m
                \/ k \in DOMAIN decrease /\ decrease'[k] = decrease[k]
         /\ down => Price!Total(decrease') = Price!Total(decrease) - m
         /\ Price!Total(decrease) \in Int
    <3>1. LET r == Append(decrease, less)
          IN  /\ r \in Seq(Outcomes) /\ less \in Outcomes /\ OncePerRequest(r)
              /\ \A k \in DOMAIN r : r[k] = less \/ (k \in DOMAIN decrease /\ r[k] = decrease[k])
      BY <2>1, <2>3, <2>8, OutcomeRecorded
    <3>2. less.for = i /\ less.amount = -m
      OBVIOUS
    <3> HIDE DEF less, down
    <3>3. /\ Price!Total(Append(decrease, less)) = Price!Total(decrease) - m
          /\ Price!Total(decrease) \in Int
      BY <2>8, <3>1, <3>2, TotalGrows
    <3>4. CASE down
      BY <2>7, <3>1, <3>2, <3>3, <3>4
    <3>5. CASE ~down
      BY <2>7, <2>8, <3>3, <3>5
    <3> QED
      BY <3>4, <3>5
  <2>11. PriceTypes'
    <3>1. \A e \in Calls : CallRead(call[e])'
      BY <1>3, <2>5, IdleCall DEF PriceInv, PriceTypes, CallRead
    <3>2. overlap' \in BOOLEAN
      BY <2>1, Zenon
    <3> QED
      BY <1>2, <1>3, <2>1, <2>4, <2>5, <2>9, <2>10, <3>1, <3>2 DEF PriceInv, PriceTypes
  <2>12. Agreed'
    <3>1. taskStatus' = "ACCEPTED" => NothingYet'
      BY <1>2, <2>7 DEF PriceInv, Agreed, NothingYet, Price!PostPayment
    <3>2. ASSUME ~overlap'
          PROVE  /\ ~overlap /\ (Price!InFlight => Price!Settled)
                 /\ budget = from /\ Price!Open' = {} /\ budget' = to
      BY <2>1, <2>4, <2>5, <3>2 DEF PriceInv, Agreed
    <3>3. ASSUME ~overlap'
          PROVE  /\ charge'.state # "paid" => \A e \in Calls : Current(call[e])'
                 /\ charge'.state # "pending"
      <4>1. CASE Price!InFlight
        BY <1>2, <3>2, <3>3, <4>1 DEF Price!Settled
      <4>2. CASE ~Price!InFlight
        <5>1. charge = Price!NoCharge /\ \A e \in Calls : call[e].step # "charge"
          BY <4>2 DEF Price!InFlight
        <5>2. \A e \in Calls : call'[e].step # "charge"
          BY <1>3, <5>1, IdleCall
        <5> QED
          BY <1>2, <5>1, <5>2 DEF Current, Price!NoCharge
      <4> QED
        BY <4>1, <4>2
    <3>4. ASSUME ~overlap', charge'.state = "paid", charge'.route = "send_to_runner"
          PROVE  charge'.amount + Price!Total(difference') - Price!Total(decrease') = budget'
      <4>1. /\ taskStatus \in Price!PostPayment
            /\ charge.amount + Price!Total(difference) - Price!Total(decrease) = from
        <5>1. charge # Price!NoCharge
          BY <1>2, <3>4 DEF Price!NoCharge
        <5> QED
          BY <1>2, <3>2, <3>4, <5>1 DEF PriceInv, Agreed, Price!InFlight, Price!Settled
      <4>2. charge.amount \in Int
        <5>1. charge \in Charges
          BY <1>2, <3>4 DEF PriceInv, PriceTypes, Price!NoCharge
        <5> QED
          <6>1. charge.amount \in Prices
            BY <5>1 DEF Charges
          <6>2. \A p \in Prices : p \in Int
            BY PriceAssumption
          <6> QED
            BY <6>1, <6>2
      <4>6. PICK a \in Int, x \in Int, y \in Int :
                a = charge.amount /\ x = Price!Total(difference) /\ y = Price!Total(decrease)
        BY <2>9, <2>10, <4>2
      <4>7. a + x - y = from
        BY <4>1, <4>6
      <4>3. CASE m > 0
        <5>1. /\ Price!Total(difference') = x + m /\ Price!Total(decrease') = y
              /\ charge'.amount = a
          BY <1>2, <2>7, <2>9, <4>1, <4>3, <4>6
        <5> QED
          BY <2>4, <3>2, <3>4, <4>6, <4>7, <5>1
      <4>4. CASE m < 0
        <5>1. /\ Price!Total(difference') = x /\ Price!Total(decrease') = y - m
              /\ charge'.amount = a
          BY <1>2, <2>7, <2>10, <3>4, <4>1, <4>4, <4>6
        <5> QED
          BY <2>4, <3>2, <3>4, <4>6, <4>7, <5>1
      <4>5. CASE m = 0
        BY <1>2, <2>4, <2>7, <2>9, <2>10, <3>2, <3>4, <4>1, <4>2, <4>5
      <4> QED
        BY <4>3, <4>4, <4>5
    <3>5. Price!Total(difference)' = Price!Total(difference') /\ Price!Total(decrease)' = Price!Total(decrease')
      BY DEF Price!Total
    <3> QED
      BY <3>1, <3>2, <3>3, <3>4, <3>5 DEF Agreed
  <2>13. Decided'
    <3>1. OfApproved(difference)'
      BY <2>3, <2>5, <2>6, <2>8, <2>9 DEF OfApproved
    <3>2. OfApproved(decrease)'
      BY <2>3, <2>5, <2>6, <2>8, <2>10 DEF OfApproved
    <3>3. \A k \in DOMAIN difference' : difference'[k].amount = Price!Change(difference[k].for)'
      <4> SUFFICES ASSUME NEW k \in DOMAIN difference', NEW j, j = difference'[k].for
                   PROVE  difference'[k].amount = Price!Change(j)'
          BY DEF Price!Change
      <4>1. CASE j = i /\ difference'[k].amount = m
        BY <2>3, <2>4, <2>5, <4>1
      <4>2. CASE k \in DOMAIN difference /\ difference'[k] = difference[k]
        <5>1. j \in DOMAIN requests /\ difference[k].amount = Price!Change(j)
          BY <4>2 DEF PriceInv, Decided, OfApproved
        <5> QED
          BY <2>5, <4>2, <5>1
      <4> QED
        BY <2>9, <4>1, <4>2
    <3>4. \A k \in DOMAIN decrease' : decrease'[k].amount = -Price!Change(decrease[k].for)'
      <4> SUFFICES ASSUME NEW k \in DOMAIN decrease', NEW j, j = decrease'[k].for
                   PROVE  decrease'[k].amount = -Price!Change(j)'
          BY DEF Price!Change
      <4>1. CASE j = i /\ decrease'[k].amount = -m
        BY <2>3, <2>4, <2>5, <4>1
      <4>2. CASE k \in DOMAIN decrease /\ decrease'[k] = decrease[k]
        <5>1. j \in DOMAIN requests /\ decrease[k].amount = -Price!Change(j)
          BY <4>2 DEF PriceInv, Decided, OfApproved
        <5> QED
          BY <2>5, <4>2, <5>1
      <4> QED
        BY <2>10, <4>1, <4>2
    <3>5. OncePerRequest(difference)' /\ OncePerRequest(decrease)'
      BY <2>9, <2>10 DEF OncePerRequest
    <3>6. (\E j \in DOMAIN requests' : requests'[j].status = "rejected_cancelled") =>
              /\ taskStatus' = "CANCELLED"
              /\ charge'.state = "paid" => ended'
      BY <1>2, <2>5 DEF PriceInv, Decided
    <3> QED
      BY <3>1, <3>2, <3>3, <3>4, <3>5, <3>6 DEF Decided
  <2> QED
    BY <2>11, <2>12, <2>13 DEF PriceInv
<1> QED
  BY <1>4, <1>5

-----------------------------------------------------------------------------
\* Every step keeps the invariant.
LEMMA PriceNext == PriceInv /\ [Price!Next]_(Price!vars) => PriceInv'
<1> SUFFICES ASSUME PriceInv, [Price!Next]_(Price!vars) PROVE PriceInv'
    OBVIOUS
<1>1. CASE UNCHANGED Price!vars
  <2>1. PriceTypes'
    BY <1>1 DEF Price!vars, PriceInv, PriceTypes, CallRead
  <2>2. Agreed'
    BY <1>1 DEF Price!vars, PriceInv, Agreed, Current, NothingYet, Price!Open, Price!Total
  <2>3. Decided'
    BY <1>1 DEF Price!vars, PriceInv, Decided, OncePerRequest, OfApproved, Price!Change
  <2> QED
    BY <2>1, <2>2, <2>3 DEF PriceInv
<1>2. CASE Price!Next
  BY <1>2, ReadSteps, TaskSteps, ChargeSteps, InsertStep, RejectSteps, ApproveStep DEF Price!Next
<1> QED
  BY <1>1, <1>2

\* What AgreedPrice says of the rows is what PriceChanges says of them.
LEMMA SameRows ==
    /\ Price!AgreedPriceIsCharged => AgreedPriceIsCharged
    /\ Price!OneDecisionOneOutcome => OneDecisionOneOutcome
<1>1. \A rows : Price!Total(rows) = Total(rows)
  BY DEF Price!Total, Total, Price!SumFunction, SumFunction, Price!SumFunctionOnSet, SumFunctionOnSet,
         Price!FoldFunctionOnSet, FoldFunctionOnSet, Price!MapThenFoldSet, MapThenFoldSet
<1>2. Price!AgreedPriceIsCharged => AgreedPriceIsCharged
  BY <1>1 DEF Price!AgreedPriceIsCharged, AgreedPriceIsCharged, Price!PostPayment, PostPayment,
              Price!PriceChangeable, PriceChangeable
<1>3. Price!OneDecisionOneOutcome => OneDecisionOneOutcome
  BY DEF Price!OneDecisionOneOutcome, OneDecisionOneOutcome, Price!Change, Change
<1> QED
  BY <1>2, <1>3

\* For every number of calls, every set of prices and any number of requests: an
\* item price agreed to is the price charged, with every increase and less every
\* decrease (approve, lockPending, initiate).
THEOREM AgreedPriceThm == Price!Spec => []AgreedPriceIsCharged
<1>1. PriceInv => AgreedPriceIsCharged
  <2>1. PriceInv => Price!AgreedPriceIsCharged
    BY DEF PriceInv, Agreed, Price!AgreedPriceIsCharged
  <2> QED
    BY <2>1, SameRows
<1> QED
  BY <1>1, PriceInit, PriceNext, PTL DEF Price!Spec

\* For the same: a request is decided once and its outcome is all there or not
\* at all, however calls race to decide it (lockPending, transitionWith).
THEOREM OneDecisionThm == Price!Spec => []OneDecisionOneOutcome
<1>1. PriceInv => OneDecisionOneOutcome
  <2>1. PriceInv => Price!OneDecisionOneOutcome
    BY DEF PriceInv, Decided, OncePerRequest, OfApproved, Price!OneDecisionOneOutcome
  <2> QED
    BY <2>1, SameRows
<1> QED
  BY <1>1, PriceInit, PriceNext, PTL DEF Price!Spec
================================================================================
