--------------------------- MODULE EconomyProofs ----------------------------
(***************************************************************************)
(* Proofs about Economy for any players, items, amounts and bounds: that   *)
(* no gold and no item is made or lost, that what is in memory is saved,   *)
(* and what a player who has accepted a trade has agreed to.               *)
(*                                                                         *)
(* The invariant speaks of the tables after every operation of the queue,  *)
(* a sequence T of tables with T[0] = db (Record), since a crash may stop  *)
(* at each of them.  Each of them is well formed, with every item in at    *)
(* most one place (Fine) and the next mail and auction ids above its ids   *)
(* (Ids); from a login query on, and until the mail box is read, nothing   *)
(* that is queued concerns what is read (Chain); and the last of them is   *)
(* what the world has in memory (Current).  A handler is shown to commit a *)
(* transaction that turns the last tables into those of its new memory     *)
(* (Settles), or two of them for the sale of a split stack (Splits).       *)
(***************************************************************************)
EXTENDS Economy, FiniteSetTheorems, SequenceTheorems, WellFoundedInduction, TLAPS


\* Every set of natural numbers has a least element: proofs by induction over
\* data take the least counterexample.
LEMMA LeastNat ==
  ASSUME NEW T \in SUBSET Nat, T # {}
  PROVE  \E n \in T : \A m \in T : n <= m
<1>1. PICK R : R = OpToRel(<, Nat)
  OBVIOUS
<1>2. PICK n \in T : \A m \in T : ~ (<<m, n>> \in R)
  BY <1>1, NatLessThanWellFounded, WFMin
<1>3. \A m, k \in Nat : <<m, k>> \in R <=> m < k
  BY <1>1 DEF OpToRel
<1>4. \A m \in T : ~(m < n)
  BY <1>2, <1>3
<1> QED
  BY <1>2, <1>4

\* The set form of induction.
LEMMA Induction ==
  ASSUME NEW T \in SUBSET Nat, 0 \in T, \A n \in T : n + 1 \in T
  PROVE  T = Nat
<1> SUFFICES ASSUME T # Nat PROVE FALSE
  OBVIOUS
<1>1. PICK n \in Nat \ T : \A m \in Nat \ T : n <= m
  <2>1. Nat \ T \in SUBSET Nat /\ Nat \ T # {}
    OBVIOUS
  <2> QED
    BY <2>1, LeastNat
<1>2. n # 0 /\ n - 1 \in Nat
  BY <1>1
<1>3. n - 1 \in T
  BY <1>1, <1>2
<1>4. (n - 1) + 1 = n
  BY <1>1
<1> QED
  BY <1>1, <1>3, <1>4

-----------------------------------------------------------------------------
(* Sums.                                                                   *)

First(s) == CHOOSE x \in s : TRUE
Iterates(f, S, sum) ==
  sum = [s \in SUBSET S |-> IF s = {} THEN 0 ELSE f[First(s)] + sum[s \ {First(s)}]]

LEMMA SumDef ==
  ASSUME NEW f, NEW S
  PROVE  SumFunctionOnSet(f, S) = (CHOOSE sum : Iterates(f, S, sum))[S]
  BY DEF SumFunctionOnSet, FoldFunctionOnSet, MapThenFoldSet, Iterates, First

Small(S, n) == {s \in SUBSET S : Cardinality(s) <= n}

\* A subset, and the size of what is left when one element goes.
LEMMA SubsetSize ==
  ASSUME NEW S, IsFiniteSet(S), NEW s \in SUBSET S
  PROVE  /\ IsFiniteSet(s) /\ Cardinality(s) \in Nat /\ Cardinality(s) <= Cardinality(S)
         /\ Cardinality(s) = 0 <=> s = {}
         /\ \A x \in s : /\ Cardinality(s \ {x}) = Cardinality(s) - 1
                         /\ s \ {x} \in SUBSET S
<1>1. IsFiniteSet(s) /\ Cardinality(s) <= Cardinality(S)
  BY FS_Subset
<1>2. Cardinality(s) \in Nat /\ (Cardinality(s) = 0 <=> s = {})
  BY <1>1, FS_CardinalityType, FS_EmptySet
<1>3. \A x \in s : Cardinality(s \ {x}) = Cardinality(s) - 1
  BY <1>1, FS_RemoveElement
<1> QED
  BY <1>1, <1>2, <1>3

LEMMA SumExists ==
  ASSUME NEW f, NEW S, IsFiniteSet(S)
  PROVE  \E sum : Iterates(f, S, sum)
<1> DEFINE Upto(n, g) == g = [s \in Small(S, n) |->
                                IF s = {} THEN 0 ELSE f[First(s)] + g[s \ {First(s)}]]
           T == {n \in Nat : \E g : Upto(n, g)}
<1>1. \A s \in SUBSET S : /\ Cardinality(s) \in Nat /\ Cardinality(s) <= Cardinality(S)
                          /\ Cardinality(s) = 0 <=> s = {}
  BY SubsetSize
<1>2. \A s \in SUBSET S : s # {} =>
        /\ First(s) \in s /\ s \ {First(s)} \in SUBSET S
        /\ Cardinality(s \ {First(s)}) = Cardinality(s) - 1
  BY SubsetSize DEF First
<1>3. 0 \in T
  <2>1. PICK g : g = [s \in Small(S, 0) |-> 0]
    OBVIOUS
  <2>2. \A s \in Small(S, 0) : s = {}
    BY <1>1 DEF Small
  <2>3. g = [s \in Small(S, 0) |-> IF s = {} THEN 0 ELSE f[First(s)] + g[s \ {First(s)}]]
    BY <2>1, <2>2
  <2> QED
    BY <2>3
<1>4. ASSUME NEW n \in T
      PROVE  n + 1 \in T
  <2>1. n \in Nat /\ n + 1 \in Nat
    BY <1>4
  <2>2. PICK g : Upto(n, g)
    BY <1>4
  <2>3. PICK h : h = [s \in Small(S, n + 1) |-> IF s = {} THEN 0 ELSE f[First(s)] + g[s \ {First(s)}]]
    OBVIOUS
  <2>4. \A s \in Small(S, n + 1) : s # {} => s \ {First(s)} \in Small(S, n) /\ s \ {First(s)} \in Small(S, n + 1)
    BY <1>1, <1>2, <2>1 DEF Small
  <2>5. \A s \in Small(S, n) : g[s] = IF s = {} THEN 0 ELSE f[First(s)] + g[s \ {First(s)}]
    BY <2>2
  <2>6. \A s \in Small(S, n) : s \in Small(S, n + 1)
    BY <1>1, <2>1 DEF Small
  <2>7. \A s \in Small(S, n) : h[s] = g[s]
    BY <2>3, <2>5, <2>6
  <2>8. \A s \in Small(S, n + 1) : h[s] = IF s = {} THEN 0 ELSE f[First(s)] + h[s \ {First(s)}]
    BY <2>3, <2>4, <2>7
  <2>9. Upto(n + 1, h)
    BY <2>3, <2>8
  <2> QED
    BY <2>1, <2>9
<1>5. T = Nat
  <2>1. T \in SUBSET Nat
    OBVIOUS
  <2> HIDE DEF T
  <2> QED
    BY <1>3, <1>4, <2>1, Induction
<1>6. Cardinality(S) \in T
  BY <1>5, FS_CardinalityType
<1>7. PICK g : Upto(Cardinality(S), g)
  BY <1>6
<1>8. Small(S, Cardinality(S)) = SUBSET S
  BY <1>1 DEF Small
<1> QED
  BY <1>7, <1>8 DEF Iterates

\* What Iterates says of one set.
LEMMA IteratesOnce ==
  ASSUME NEW f, NEW S, IsFiniteSet(S), NEW sum, Iterates(f, S, sum)
  PROVE  /\ sum[{}] = 0
         /\ \A s \in SUBSET S : s # {} =>
              First(s) \in s /\ sum[s] = f[First(s)] + sum[s \ {First(s)}]
<1>1. \A s \in SUBSET S : sum[s] = IF s = {} THEN 0 ELSE f[First(s)] + sum[s \ {First(s)}]
  BY DEF Iterates
<1>2. \A s \in SUBSET S : s # {} => First(s) \in s
  BY DEF First
<1> QED
  BY <1>1, <1>2

LEMMA IteratesNat ==
  ASSUME NEW f, NEW S, IsFiniteSet(S), \A x \in S : f[x] \in Nat,
         NEW sum, Iterates(f, S, sum)
  PROVE  \A s \in SUBSET S : sum[s] \in Nat
<1> DEFINE T == {n \in Nat : \A s \in SUBSET S : Cardinality(s) = n => sum[s] \in Nat}
<1>1. 0 \in T
  <2>1. \A s \in SUBSET S : Cardinality(s) = 0 => s = {}
    BY SubsetSize
  <2>2. sum[{}] = 0
    BY IteratesOnce
  <2> QED
    BY <2>1, <2>2
<1>2. ASSUME NEW n \in T
      PROVE  n + 1 \in T
  <2> SUFFICES ASSUME NEW s \in SUBSET S, Cardinality(s) = n + 1
               PROVE  sum[s] \in Nat
    OBVIOUS
  <2>1. /\ s # {} /\ \A x \in s : Cardinality(s \ {x}) = n /\ s \ {x} \in SUBSET S
    BY SubsetSize
  <2>2. First(s) \in s /\ sum[s] = f[First(s)] + sum[s \ {First(s)}]
    BY <2>1, IteratesOnce
  <2> QED
    BY <1>2, <2>1, <2>2
<1>3. T = Nat
  <2>1. T \in SUBSET Nat
    OBVIOUS
  <2> HIDE DEF T
  <2> QED
    BY <1>1, <1>2, <2>1, Induction
<1>4. \A s \in SUBSET S : Cardinality(s) \in T
  BY <1>3, SubsetSize
<1> QED
  BY <1>4

\* The order does not matter.
LEMMA IteratesAny ==
  ASSUME NEW f, NEW S, IsFiniteSet(S), \A x \in S : f[x] \in Nat,
         NEW sum, Iterates(f, S, sum)
  PROVE  \A s \in SUBSET S : \A x \in s : sum[s] = f[x] + sum[s \ {x}]
<1> DEFINE Sums(s) == \A x \in s : sum[s] = f[x] + sum[s \ {x}]
           T == {n \in Nat : \A s \in SUBSET S : Cardinality(s) = n => Sums(s)}
<1>1. 0 \in T
  BY SubsetSize
<1>2. ASSUME NEW n \in T
      PROVE  n + 1 \in T
  <2> SUFFICES ASSUME NEW s \in SUBSET S, Cardinality(s) = n + 1, NEW x \in s
               PROVE  sum[s] = f[x] + sum[s \ {x}]
    OBVIOUS
  <2>1. PICK c : c = First(s)
    OBVIOUS
  <2>2. \A y \in s : Cardinality(s \ {y}) = n /\ s \ {y} \in SUBSET S
    BY SubsetSize
  <2>3. c \in s /\ sum[s] = f[c] + sum[s \ {c}]
    BY <2>1, IteratesOnce
  <2>4. \A y \in s : Sums(s \ {y})
    BY <1>2, <2>2
  <2>5. CASE x = c
    BY <2>3, <2>5
  <2>6. CASE x # c
    <3>1. PICK r : r = (s \ {c}) \ {x}
      OBVIOUS
    <3>2. r = (s \ {x}) \ {c} /\ x \in s \ {c} /\ c \in s \ {x} /\ r \in SUBSET S
      BY <2>3, <2>6, <3>1
    <3>a. sum[s \ {c}] = f[x] + sum[(s \ {c}) \ {x}]
      BY <2>3, <2>4, <3>2
    <3>b. sum[s \ {x}] = f[c] + sum[(s \ {x}) \ {c}]
      BY <2>4, <3>2
    <3>3. sum[s \ {c}] = f[x] + sum[r] /\ sum[s \ {x}] = f[c] + sum[r]
      BY <3>1, <3>2, <3>a, <3>b
    <3>4. sum[r] \in Nat /\ f[c] \in Nat /\ f[x] \in Nat
      BY <2>3, <3>2, IteratesNat
    <3> QED
      BY <2>3, <3>3, <3>4
  <2> QED
    BY <2>5, <2>6
<1>3. T = Nat
  <2>1. T \in SUBSET Nat
    OBVIOUS
  <2> HIDE DEF T
  <2> QED
    BY <1>1, <1>2, <2>1, Induction
<1>4. \A s \in SUBSET S : Cardinality(s) \in T
  BY <1>3, SubsetSize
<1> QED
  BY <1>4

\* ... nor what the functions are elsewhere.
LEMMA IteratesSame ==
  ASSUME NEW f, NEW S, IsFiniteSet(S), NEW sum, Iterates(f, S, sum),
         NEW g, NEW R \in SUBSET S, NEW sub, Iterates(g, R, sub),
         \A x \in R : g[x] = f[x]
  PROVE  sub[R] = sum[R]
<1> DEFINE T == {n \in Nat : \A s \in SUBSET R : Cardinality(s) = n => sub[s] = sum[s]}
<1>0. IsFiniteSet(R)
  BY FS_Subset
<1>1. 0 \in T
  <2>1. \A s \in SUBSET R : Cardinality(s) = 0 => s = {}
    BY <1>0, SubsetSize
  <2>2. sub[{}] = 0 /\ sum[{}] = 0
    BY <1>0, IteratesOnce
  <2> QED
    BY <2>1, <2>2
<1>2. ASSUME NEW n \in T
      PROVE  n + 1 \in T
  <2> SUFFICES ASSUME NEW s \in SUBSET R, Cardinality(s) = n + 1
               PROVE  sub[s] = sum[s]
    OBVIOUS
  <2>0. /\ Cardinality(s) \in Nat /\ (Cardinality(s) = 0 <=> s = {})
        /\ \A y \in s : Cardinality(s \ {y}) = Cardinality(s) - 1 /\ s \ {y} \in SUBSET R
    BY <1>0, SubsetSize
  <2>1. s # {} /\ \A y \in s : Cardinality(s \ {y}) = n /\ s \ {y} \in SUBSET R
    BY <2>0
  <2>2. First(s) \in s /\ sub[s] = g[First(s)] + sub[s \ {First(s)}]
    BY <1>0, <2>1, IteratesOnce
  <2>3. s \in SUBSET S /\ sum[s] = f[First(s)] + sum[s \ {First(s)}]
    BY <2>1, IteratesOnce
  <2>4. sub[s \ {First(s)}] = sum[s \ {First(s)}]
    BY <1>2, <2>1, <2>2
  <2> QED
    BY <2>2, <2>3, <2>4
<1>3. T = Nat
  <2>1. T \in SUBSET Nat
    OBVIOUS
  <2> HIDE DEF T
  <2> QED
    BY <1>1, <1>2, <2>1, Induction
<1>4. Cardinality(R) \in T
  BY <1>0, <1>3, FS_CardinalityType
<1> QED
  BY <1>4

\* What SumFunctionOnSet of amounts is, element by element.
LEMMA SumFacts ==
  ASSUME NEW S, IsFiniteSet(S), NEW f, \A x \in S : f[x] \in Nat
  PROVE  /\ SumFunctionOnSet(f, S) \in Nat
         /\ S = {} => SumFunctionOnSet(f, S) = 0
         /\ \A x \in S : SumFunctionOnSet(f, S) = f[x] + SumFunctionOnSet(f, S \ {x})
         /\ \A g : (\A x \in S : g[x] = f[x]) => SumFunctionOnSet(g, S) = SumFunctionOnSet(f, S)
<1>1. PICK sum : sum = CHOOSE s : Iterates(f, S, s)
  OBVIOUS
<1>2. Iterates(f, S, sum) /\ SumFunctionOnSet(f, S) = sum[S]
  BY <1>1, SumDef, SumExists
<1>3. ASSUME NEW g, NEW R \in SUBSET S, \A x \in R : g[x] = f[x]
      PROVE  SumFunctionOnSet(g, R) = sum[R]
  <2>1. PICK sub : sub = CHOOSE s : Iterates(g, R, s)
    OBVIOUS
  <2>2. IsFiniteSet(R)
    BY FS_Subset
  <2>3. Iterates(g, R, sub) /\ SumFunctionOnSet(g, R) = sub[R]
    BY <2>1, <2>2, SumDef, SumExists
  <2> QED
    BY <1>2, <1>3, <2>3, IteratesSame
<1>4. \A x \in S : sum[S] = f[x] + sum[S \ {x}]
  BY <1>2, IteratesAny
<1>5. sum[S] \in Nat
  BY <1>2, IteratesNat
<1>6. S = {} => sum[S] = 0
  BY <1>2, IteratesOnce
<1>7. \A x \in S : SumFunctionOnSet(f, S \ {x}) = sum[S \ {x}]
  BY <1>3
<1>8. \A g : (\A x \in S : g[x] = f[x]) => SumFunctionOnSet(g, S) = sum[S]
  BY <1>3
<1> QED
  BY <1>2, <1>4, <1>5, <1>6, <1>7, <1>8

-----------------------------------------------------------------------------
(* Sums of tables.                                                         *)

\* Adding what is not there.
LEMMA SumUnion ==
  ASSUME NEW S, NEW R, IsFiniteSet(S), IsFiniteSet(R), S \cap R = {},
         NEW f, \A x \in S \cup R : f[x] \in Nat
  PROVE  SumFunctionOnSet(f, S \cup R) = SumFunctionOnSet(f, S) + SumFunctionOnSet(f, R)
<1> DEFINE T == {n \in Nat : \A Q \in SUBSET R : Cardinality(Q) = n =>
                   SumFunctionOnSet(f, S \cup Q) = SumFunctionOnSet(f, S) + SumFunctionOnSet(f, Q)}
<1>1. \A Q \in SUBSET R : /\ Cardinality(Q) \in Nat /\ (Cardinality(Q) = 0 <=> Q = {})
                          /\ \A x \in Q : Cardinality(Q \ {x}) = Cardinality(Q) - 1
  BY SubsetSize
<1>2. \A Q \in SUBSET R : IsFiniteSet(Q) /\ IsFiniteSet(S \cup Q)
  BY FS_Subset, FS_Union
<1>3. SumFunctionOnSet(f, S) \in Nat
  BY SumFacts
<1>4. 0 \in T
  <2>1. SumFunctionOnSet(f, {}) = 0
    BY FS_EmptySet, SumFacts
  <2>2. S \cup {} = S
    OBVIOUS
  <2> QED
    BY <1>1, <1>3, <2>1, <2>2
<1>5. ASSUME NEW n \in T
      PROVE  n + 1 \in T
  <2> SUFFICES ASSUME NEW Q \in SUBSET R, Cardinality(Q) = n + 1
               PROVE  SumFunctionOnSet(f, S \cup Q) = SumFunctionOnSet(f, S) + SumFunctionOnSet(f, Q)
    OBVIOUS
  <2>1. Q # {} /\ \A x \in Q : Cardinality(Q \ {x}) = n
    BY <1>1
  <2>2. PICK x \in Q : TRUE
    BY <2>1
  <2>3. PICK P : P = Q \ {x}
    OBVIOUS
  <2>4. P \in SUBSET R /\ Cardinality(P) = n /\ (S \cup Q) \ {x} = S \cup P
    BY <2>1, <2>3
  <2>5. SumFunctionOnSet(f, S \cup P) = SumFunctionOnSet(f, S) + SumFunctionOnSet(f, P)
    BY <1>5, <2>4
  <2>6. SumFunctionOnSet(f, Q) = f[x] + SumFunctionOnSet(f, P)
    BY <1>2, <2>3, SumFacts
  <2>7. SumFunctionOnSet(f, S \cup Q) = f[x] + SumFunctionOnSet(f, (S \cup Q) \ {x})
    <3>1. \A y \in S \cup Q : f[y] \in Nat
      OBVIOUS
    <3> QED
      BY <1>2, <3>1, SumFacts
  <2>8. SumFunctionOnSet(f, P) \in Nat /\ f[x] \in Nat
    BY <1>2, <2>4, SumFacts
  <2> QED
    BY <1>3, <2>4, <2>5, <2>6, <2>7, <2>8
<1>6. T = Nat
  <2>1. T \in SUBSET Nat
    OBVIOUS
  <2> HIDE DEF T
  <2> QED
    BY <1>4, <1>5, <2>1, Induction
<1>7. Cardinality(R) \in T
  BY <1>6, FS_CardinalityType
<1> QED
  BY <1>7

\* A table of amounts.
Amounted(f) == IsFiniteSet(DOMAIN f) /\ \A x \in DOMAIN f : f[x] \in Nat

LEMMA SumNat ==
  ASSUME NEW f, Amounted(f)
  PROVE  SumFunction(f) \in Nat
  BY SumFacts DEF Amounted, SumFunction

\* One amount changes.
LEMMA SumChange ==
  ASSUME NEW f, Amounted(f), NEW g, Amounted(g), DOMAIN g = DOMAIN f, NEW x \in DOMAIN f,
         \A y \in DOMAIN f \ {x} : g[y] = f[y]
  PROVE  SumFunction(g) = SumFunction(f) - f[x] + g[x]
<1>1. PICK S : S = DOMAIN f \ {x}
  OBVIOUS
<1>2. IsFiniteSet(S)
  BY <1>1, FS_Subset DEF Amounted
<1>3. SumFunction(f) = f[x] + SumFunctionOnSet(f, S) /\ SumFunction(g) = g[x] + SumFunctionOnSet(g, S)
  BY <1>1, SumFacts DEF Amounted, SumFunction
<1>4. SumFunctionOnSet(f, S) \in Nat /\ SumFunctionOnSet(g, S) = SumFunctionOnSet(f, S)
  BY <1>1, <1>2, SumFacts DEF Amounted
<1> QED
  BY <1>3, <1>4 DEF Amounted

\* Rows are added.
LEMMA SumInsert ==
  ASSUME NEW f, Amounted(f), NEW g, Amounted(g), NEW h, Amounted(h), DOMAIN f \cap DOMAIN h = {},
         DOMAIN g = DOMAIN f \cup DOMAIN h,
         \A y \in DOMAIN f : g[y] = f[y], \A y \in DOMAIN h : g[y] = h[y]
  PROVE  SumFunction(g) = SumFunction(f) + SumFunction(h)
<1>1. SumFunction(g) = SumFunctionOnSet(g, DOMAIN f) + SumFunctionOnSet(g, DOMAIN h)
  BY SumUnion DEF Amounted, SumFunction
<1>2. SumFunctionOnSet(g, DOMAIN f) = SumFunctionOnSet(f, DOMAIN f)
  BY SumFacts DEF Amounted
<1>3. SumFunctionOnSet(g, DOMAIN h) = SumFunctionOnSet(h, DOMAIN h)
  BY SumFacts DEF Amounted
<1> QED
  BY <1>1, <1>2, <1>3 DEF SumFunction

\* A row is deleted.
LEMMA SumDelete ==
  ASSUME NEW f, Amounted(f), NEW g, NEW x \in DOMAIN f, DOMAIN g = DOMAIN f \ {x},
         \A y \in DOMAIN g : g[y] = f[y]
  PROVE  SumFunction(g) = SumFunction(f) - f[x]
<1>1. IsFiniteSet(DOMAIN g)
  BY FS_Subset DEF Amounted
<1>2. SumFunction(f) = f[x] + SumFunctionOnSet(f, DOMAIN g)
  BY SumFacts DEF Amounted, SumFunction
<1>3. SumFunctionOnSet(f, DOMAIN g) \in Nat /\ SumFunctionOnSet(g, DOMAIN g) = SumFunctionOnSet(f, DOMAIN g)
  BY <1>1, SumFacts DEF Amounted
<1> QED
  BY <1>2, <1>3 DEF Amounted, SumFunction

LEMMA SumSame ==
  ASSUME NEW f, Amounted(f), NEW g, DOMAIN g = DOMAIN f, \A y \in DOMAIN f : g[y] = f[y]
  PROVE  SumFunction(g) = SumFunction(f)
  BY SumFacts DEF Amounted, SumFunction

LEMMA SumEmpty ==
  ASSUME NEW f, DOMAIN f = {}
  PROVE  SumFunction(f) = 0
  BY FS_EmptySet, SumFacts DEF SumFunction

\* No part is larger than the whole.
LEMMA SumTwo ==
  ASSUME NEW f, Amounted(f), NEW x \in DOMAIN f
  PROVE  /\ f[x] <= SumFunction(f)
         /\ \A y \in DOMAIN f \ {x} : f[x] + f[y] <= SumFunction(f)
<1>1. PICK S : S = DOMAIN f \ {x}
  OBVIOUS
<1>2. IsFiniteSet(S)
  BY <1>1, FS_Subset DEF Amounted
<1>3. SumFunction(f) = f[x] + SumFunctionOnSet(f, S)
  BY <1>1, SumFacts DEF Amounted, SumFunction
<1>4. SumFunctionOnSet(f, S) \in Nat
      /\ \A y \in S : SumFunctionOnSet(f, S) = f[y] + SumFunctionOnSet(f, S \ {y})
  BY <1>1, <1>2, SumFacts DEF Amounted
<1>5. \A y \in S : SumFunctionOnSet(f, S \ {y}) \in Nat
  <2> TAKE y \in S
  <2>1. IsFiniteSet(S \ {y}) /\ \A z \in S \ {y} : f[z] \in Nat
    BY <1>1, <1>2, FS_Subset DEF Amounted
  <2> QED
    BY <2>1, SumFacts
<1>6. f[x] \in Nat /\ \A y \in S : f[y] \in Nat
  BY <1>1 DEF Amounted
<1>7. f[x] <= SumFunction(f)
  BY <1>3, <1>4, <1>6
<1>8. ASSUME NEW y \in S
      PROVE  f[x] + f[y] <= SumFunction(f)
  <2>1. PICK rest : rest = SumFunctionOnSet(f, S \ {y})
    OBVIOUS
  <2>2. rest \in Nat /\ SumFunctionOnSet(f, S) = f[y] + rest
    BY <1>4, <1>5, <1>8, <2>1
  <2> QED
    BY <1>3, <1>6, <1>8, <2>2
<1> QED
  BY <1>1, <1>7, <1>8

-----------------------------------------------------------------------------
(* The tables after each operation of a queue.                             *)

Sequence(q) == Len(q) \in Nat /\ q = [n \in 1..Len(q) |-> q[n]]

Follow(d, q, T) == T = [n \in 0..Len(q) |-> IF n = 0 THEN d ELSE Apply(T[n - 1], q[n])]

LEMMA FollowExists ==
  ASSUME NEW d, NEW q, Len(q) \in Nat
  PROVE  \E T : Follow(d, q, T)
<1> DEFINE Upto(k, T) == T = [n \in 0..k |-> IF n = 0 THEN d ELSE Apply(T[n - 1], q[n])]
           K == {k \in Nat : \E T : Upto(k, T)}
<1>1. 0 \in K
  <2>1. PICK T : T = [n \in 0..0 |-> d]
    OBVIOUS
  <2>2. \A n \in 0..0 : n = 0
    OBVIOUS
  <2>3. Upto(0, T)
    BY <2>1, <2>2
  <2> QED
    BY <2>3
<1>2. ASSUME NEW k \in K
      PROVE  k + 1 \in K
  <2>1. k \in Nat /\ k + 1 \in Nat
    BY <1>2
  <2>2. PICK T : Upto(k, T)
    BY <1>2
  <2>3. PICK U : U = [n \in 0..(k + 1) |-> IF n = k + 1 THEN Apply(T[k], q[k + 1]) ELSE T[n]]
    OBVIOUS
  <2>4. \A n \in 0..k : /\ n \in 0..(k + 1) /\ n # k + 1
                        /\ T[n] = IF n = 0 THEN d ELSE Apply(T[n - 1], q[n])
    BY <2>1, <2>2
  <2>5. \A n \in 0..k : U[n] = T[n]
    BY <2>3, <2>4
  <2>6. \A n \in 0..(k + 1) : n # 0 => n - 1 \in 0..k
    BY <2>1
  <2>7. ASSUME NEW n \in 0..(k + 1)
        PROVE  U[n] = IF n = 0 THEN d ELSE Apply(U[n - 1], q[n])
    <3>1. CASE n \in 0..k
      <4>1. U[n] = IF n = 0 THEN d ELSE Apply(T[n - 1], q[n])
        BY <2>4, <2>5, <3>1
      <4> QED
        BY <2>5, <2>6, <4>1
    <3>2. CASE n \notin 0..k
      <4>1. n = k + 1 /\ n # 0 /\ n - 1 = k /\ k \in 0..k /\ n \in 0..(k + 1)
        BY <2>1, <3>2
      <4>2. U[n] = Apply(T[k], q[n])
        BY <2>3, <4>1
      <4> QED
        BY <2>5, <4>1, <4>2
    <3> QED
      BY <3>1, <3>2
  <2>8. Upto(k + 1, U)
    BY <2>3, <2>7
  <2> QED
    BY <2>1, <2>8
<1>3. K = Nat
  <2>1. K \in SUBSET Nat
    OBVIOUS
  <2> HIDE DEF K
  <2> QED
    BY <1>1, <1>2, <2>1, Induction
<1>4. \E T : Upto(Len(q), T)
  BY <1>3
<1> QED
  BY <1>4 DEF Follow

\* T[n] is the tables d after n operations of q.
Record(d, q, T) ==
  /\ DOMAIN T = 0..Len(q) /\ T[0] = d
  /\ \A n \in 1..Len(q) : T[n] = Apply(T[n - 1], q[n])

\* Tables is what its recursive definition says.
LEMMA TablesRecord ==
  ASSUME NEW d, NEW q, Len(q) \in Nat
  PROVE  Record(d, q, Tables(d, q))
<1>1. PICK T : T = Tables(d, q)
  OBVIOUS
<1>2. T = CHOOSE U : Follow(d, q, U)
  BY <1>1 DEF Tables, Follow
<1>3. Follow(d, q, T)
  BY <1>2, FollowExists
<1>4. /\ DOMAIN T = 0..Len(q)
      /\ \A n \in 0..Len(q) : T[n] = IF n = 0 THEN d ELSE Apply(T[n - 1], q[n])
  BY <1>3 DEF Follow
<1>5. Record(d, q, T)
  BY <1>4 DEF Record
<1> QED
  BY <1>1, <1>5

\* The same operations lead to the same tables.
Part(r, q, k) ==
  /\ Len(q) \in Nat /\ Len(r) \in Nat /\ k \in Nat /\ k + Len(r) <= Len(q)
  /\ \A n \in 1..Len(r) : r[n] = q[k + n]

\* A part of a queue leads where the queue does.
LEMMA RecordPart ==
  ASSUME NEW d, NEW q, NEW T, Record(d, q, T), NEW r, NEW k, Part(r, q, k),
         NEW U, Record(T[k], r, U)
  PROVE  \A n \in 0..Len(r) : U[n] = T[k + n]
<1> DEFINE N == {n \in Nat : n <= Len(r) => U[n] = T[k + n]}
<1>1. /\ Len(q) \in Nat /\ Len(r) \in Nat /\ k \in Nat /\ k + Len(r) <= Len(q)
      /\ \A n \in 1..Len(r) : r[n] = q[k + n]
  BY DEF Part
<1>2. /\ U[0] = T[k] /\ \A n \in 1..Len(r) : U[n] = Apply(U[n - 1], r[n])
      /\ \A n \in 1..Len(q) : T[n] = Apply(T[n - 1], q[n])
  BY DEF Record
<1>3. 0 \in N
  BY <1>1, <1>2
<1>4. ASSUME NEW n \in N
      PROVE  n + 1 \in N
  <2>1. n \in Nat
    BY <1>4
  <2>2. ASSUME n + 1 <= Len(r)
        PROVE  U[n + 1] = T[k + (n + 1)]
    <3>1. PICK m, l : m = n + 1 /\ l = k + m
      OBVIOUS
    <3>2. m \in 1..Len(r) /\ l \in 1..Len(q) /\ m - 1 = n /\ l - 1 = k + n
      BY <1>1, <2>1, <2>2, <3>1
    <3>3. U[m] = Apply(U[n], r[m]) /\ T[l] = Apply(T[k + n], q[l])
      BY <1>2, <3>2
    <3>4. U[n] = T[k + n] /\ r[m] = q[l]
      BY <1>1, <1>4, <2>1, <2>2, <3>1, <3>2
    <3> QED
      BY <3>1, <3>3, <3>4
  <2> QED
    BY <2>1, <2>2
<1>5. N = Nat
  <2>1. N \in SUBSET Nat
    OBVIOUS
  <2> HIDE DEF N
  <2> QED
    BY <1>3, <1>4, <2>1, Induction
<1>6. \A n \in 0..Len(r) : n \in N /\ n <= Len(r)
  BY <1>1, <1>5
<1> QED
  BY <1>6

\* One more operation is queued.
Queues(q, t, r) ==
  /\ Len(q) \in Nat /\ Sequence(r) /\ Len(r) = Len(q) + 1
  /\ r[Len(q) + 1] = t /\ \A n \in 1..Len(q) : r[n] = q[n]

LEMMA QueuesOne ==
  ASSUME NEW q, Sequence(q), NEW t
  PROVE  Queues(q, t, q \o <<t>>)
<1>1. PICK S : S = {q[n] : n \in 1..Len(q)} \cup {t}
  OBVIOUS
<1>2. q \in Seq(S) /\ <<t>> \in Seq(S)
  BY <1>1 DEF Sequence
<1>3. PICK r : r = q \o <<t>>
  OBVIOUS
<1>4. /\ r \in Seq(S) /\ Len(r) = Len(q) + 1 /\ r[Len(q) + 1] = t
      /\ \A n \in 1..Len(q) : r[n] = q[n]
  BY <1>2, <1>3
<1>5. Sequence(r) /\ Len(q) \in Nat
  BY <1>2, <1>4 DEF Sequence
<1>6. Queues(q, t, r)
  BY <1>4, <1>5 DEF Queues
<1> QED
  BY <1>3, <1>6

LEMMA RecordQueues ==
  ASSUME NEW d, NEW q, NEW T, Record(d, q, T), NEW t, NEW r, Queues(q, t, r),
         NEW U, Record(d, r, U)
  PROVE  /\ \A n \in 0..Len(q) : U[n] = T[n]
         /\ U[Len(q) + 1] = Apply(T[Len(q)], t)
<1>1. Part(q, r, 0) /\ Len(q) \in Nat
  BY DEF Part, Queues, Sequence
<1>2. Record(U[0], q, T)
  BY DEF Record
<1>3. \A n \in 0..Len(q) : T[n] = U[0 + n]
  BY <1>1, <1>2, RecordPart
<1>4. \A n \in 0..Len(q) : T[n] = U[n]
  BY <1>1, <1>3
<1>5. Len(q) + 1 \in 1..Len(r) /\ (Len(q) + 1) - 1 = Len(q) /\ Len(q) \in 0..Len(q)
  BY <1>1 DEF Queues
<1>6. U[Len(q) + 1] = Apply(U[Len(q)], r[Len(q) + 1])
  BY <1>5 DEF Record
<1> QED
  BY <1>4, <1>5, <1>6 DEF Queues

\* The first operation is executed.
Executes(q, r) ==
  /\ Len(q) \in Nat \ {0} /\ Sequence(r) /\ Len(r) = Len(q) - 1
  /\ \A n \in 1..Len(r) : r[n] = q[n + 1]

\* What a worker leaves of the queue.
LEMMA ExecutesFirst ==
  ASSUME NEW q, Sequence(q), Len(q) > 0
  PROVE  Executes(q, RemoveAt(q, 1))
<1>1. PICK S : S = {q[n] : n \in 1..Len(q)}
  OBVIOUS
<1>2. q \in Seq(S) /\ Len(q) \in Nat
  BY <1>1 DEF Sequence
<1>3. PICK s, N : s = SubSeq(q, 2, Len(q)) /\ N = Len(q)
  OBVIOUS
<1>4. \A i \in 2..N : q[i] \in S
  BY <1>2, <1>3
<1>5. /\ s \in Seq(S) /\ Len(s) = IF 2 <= N THEN N - 2 + 1 ELSE 0
      /\ \A i \in 1..(N - 2 + 1) : s[i] = q[2 + i - 1]
  <2>1. N \in Int /\ 2 \in Int
    BY <1>2, <1>3
  <2> QED
    BY <1>3, <1>4, <2>1, SubSeqProperties
<1>6. Len(s) = N - 1 /\ N - 2 + 1 = N - 1 /\ \A i \in 1..(N - 1) : 2 + i - 1 = i + 1
  BY <1>2, <1>3, <1>5
<1>7. RemoveAt(q, 1) = s
  <2>1. SubSeq(q, 1, 1 - 1) = <<>>
    BY SubSeqEmpty
  <2>2. RemoveAt(q, 1) = <<>> \o s
    BY <1>3, <2>1 DEF RemoveAt
  <2> QED
    BY <1>5, <2>2
<1>8. Sequence(s)
  BY <1>5 DEF Sequence
<1>9. \A n \in 1..(N - 1) : s[n] = q[n + 1]
  BY <1>5, <1>6
<1>10. Executes(q, s)
  BY <1>2, <1>3, <1>6, <1>8, <1>9 DEF Executes
<1> QED
  BY <1>7, <1>10

LEMMA RecordExecutes ==
  ASSUME NEW d, NEW q, NEW T, Record(d, q, T), NEW r, Executes(q, r),
         NEW U, Record(Apply(d, q[1]), r, U)
  PROVE  \A n \in 0..Len(r) : U[n] = T[n + 1]
<1>1. Len(q) \in Nat \ {0} /\ Len(r) = Len(q) - 1
  BY DEF Executes
<1>2. 1 \in 1..Len(q) /\ 1 - 1 = 0
  BY <1>1
<1>3. T[1] = Apply(d, q[1])
  BY <1>2 DEF Record
<1>4. \A n \in 0..Len(r) : 1 + n = n + 1
  BY <1>1
<1>5. Part(r, q, 1)
  BY <1>1, <1>4 DEF Part, Executes
<1>6. \A n \in 0..Len(r) : U[n] = T[1 + n]
  BY <1>3, <1>5, RecordPart
<1> QED
  BY <1>4, <1>6

-----------------------------------------------------------------------------
(* The tables of the store.                                                *)

IsLetter(l) ==
  /\ l \in [from : Players \cup {Nobody}, to : Players, money : Nat, cod : Nat,
            item : Items \cup {Nothing}]
  /\ l.cod > 0 => l.from \in Players
  /\ l.money < Word /\ 2 * l.cod < Word
IsAuction(a) ==
  /\ a \in [item : Items, owner : Players, startbid : Nat, buyout : Nat, bid : Nat,
            bidder : Players \cup {Nobody}, deposit : Nat]
  /\ a.bidder = Nobody => a.bid = 0
  /\ a.buyout > 0 => a.bid < a.buyout
  /\ a.deposit = Deposit /\ a.bid + Deposit < Word /\ a.buyout + Deposit < Word
IsMap(f) == f = [k \in DOMAIN f |-> f[k]]
IsTable(f) == IsMap(f) /\ DOMAIN f \subseteq Nat /\ IsFiniteSet(DOMAIN f)
IsMails(f) == IsTable(f) /\ \A m \in DOMAIN f : IsLetter(f[m])
IsAuctions(f) == IsTable(f) /\ \A id \in DOMAIN f : IsAuction(f[id])
IsStore(d) ==
  /\ d.money \in [Players -> Nat] /\ d.inv \in [Items -> Players \cup {Nobody}]
  /\ \A p \in Players : d.money[p] <= MaxMoney
  /\ IsMails(d.mail) /\ IsAuctions(d.auc) /\ d.spent \in Int

Inserted(f, g, h) ==
  /\ IsMap(h) /\ DOMAIN h = DOMAIN f \cup DOMAIN g
  /\ \A k \in DOMAIN h : h[k] = IF k \in DOMAIN g THEN g[k] ELSE f[k]
Deleted(f, K, h) ==
  /\ IsMap(h) /\ DOMAIN h = DOMAIN f \ K
  /\ \A k \in DOMAIN h : h[k] = f[k]

LEMMA InsertFacts ==
  ASSUME NEW f, NEW g
  PROVE  Inserted(f, g, Insert(f, g))
<1>1. PICK h : h = Insert(f, g)
  OBVIOUS
<1>2. Inserted(f, g, h)
  BY <1>1 DEF Insert, Inserted, IsMap
<1> QED
  BY <1>1, <1>2

LEMMA DeleteFacts ==
  ASSUME NEW f, NEW K
  PROVE  Deleted(f, K, Delete(f, K))
<1>1. PICK h : h = Delete(f, K)
  OBVIOUS
<1>2. Deleted(f, K, h)
  BY <1>1 DEF Delete, Restrict, Deleted, IsMap
<1> QED
  BY <1>1, <1>2

LEMMA NothingWritten ==
  ASSUME NEW f, IsMap(f)
  PROVE  /\ Insert(f, NoRows) = f /\ Update(f, NoRows) = f /\ Delete(f, {}) = f
         /\ SaveMails(f, NoRows) = f /\ Unlist(f, {}) = f
<1>1. Insert(f, NoRows) = f /\ Update(f, NoRows) = f /\ Delete(f, {}) = f
  BY DEF IsMap, Insert, Update, Delete, Restrict, NoRows
<1>2. SaveMails(f, NoRows) = f
  BY DEF IsMap, SaveMails, NoRows
<1>3. Unlist(f, {}) = f
  BY DEF IsMap, Unlist
<1> QED
  BY <1>1, <1>2, <1>3

LEMMA OneWritten ==
  ASSUME NEW f, IsMap(f), NEW x \in DOMAIN f, NEW v
  PROVE  Update(f, OneRow(x, v)) = [f EXCEPT ![x] = v]
  BY DEF IsMap, Update, OneRow

LEMMA MailsInsert ==
  ASSUME NEW f, IsMails(f), NEW g, IsMails(g)
  PROVE  IsMails(Insert(f, g))
<1>1. IsFiniteSet(DOMAIN f \cup DOMAIN g)
  BY FS_Union DEF IsMails, IsTable
<1>2. PICK h : h = Insert(f, g)
  OBVIOUS
<1>3. Inserted(f, g, h)
  BY <1>2, InsertFacts
<1>4. IsMails(h)
  BY <1>1, <1>3 DEF Inserted, IsMails, IsTable
<1> QED
  BY <1>2, <1>4

LEMMA MailsSet ==
  ASSUME NEW f, IsMails(f), NEW m \in DOMAIN f, NEW row, IsLetter(row)
  PROVE  IsMails([f EXCEPT ![m] = row])
  BY DEF IsMails, IsTable, IsMap

LEMMA MailsDelete ==
  ASSUME NEW f, IsMails(f), NEW K
  PROVE  IsMails(Delete(f, K))
<1>1. IsFiniteSet(DOMAIN f \ K)
  BY FS_Subset DEF IsMails, IsTable
<1>2. PICK h : h = Delete(f, K)
  OBVIOUS
<1>3. Deleted(f, K, h)
  BY <1>2, DeleteFacts
<1>4. IsMails(h)
  BY <1>1, <1>3 DEF Deleted, IsMails, IsTable
<1> QED
  BY <1>2, <1>4

LEMMA AuctionsInsert ==
  ASSUME NEW f, IsAuctions(f), NEW id \in Nat, NEW a, IsAuction(a)
  PROVE  IsAuctions(Insert(f, OneRow(id, a)))
<1>1. DOMAIN OneRow(id, a) = {id} /\ OneRow(id, a)[id] = a
  BY DEF OneRow
<1>2. IsFiniteSet(DOMAIN f \cup {id})
  BY FS_AddElement DEF IsAuctions, IsTable
<1>3. PICK g, h : g = OneRow(id, a) /\ h = Insert(f, g)
  OBVIOUS
<1>4. Inserted(f, g, h)
  BY <1>3, InsertFacts
<1>5. DOMAIN g = {id} /\ g[id] = a
  BY <1>1, <1>3
<1>6. IsAuctions(h)
  BY <1>2, <1>4, <1>5 DEF Inserted, IsAuctions, IsTable
<1> QED
  BY <1>3, <1>6

LEMMA AuctionsSet ==
  ASSUME NEW f, IsAuctions(f), NEW m \in DOMAIN f, NEW row, IsAuction(row)
  PROVE  IsAuctions([f EXCEPT ![m] = row])
  BY DEF IsAuctions, IsTable, IsMap

LEMMA AuctionsDelete ==
  ASSUME NEW f, IsAuctions(f), NEW K
  PROVE  IsAuctions(Delete(f, K))
<1>1. IsFiniteSet(DOMAIN f \ K)
  BY FS_Subset DEF IsAuctions, IsTable
<1>2. PICK h : h = Delete(f, K)
  OBVIOUS
<1>3. Deleted(f, K, h)
  BY <1>2, DeleteFacts
<1>4. IsAuctions(h)
  BY <1>1, <1>3 DEF Deleted, IsAuctions, IsTable
<1> QED
  BY <1>2, <1>4

-----------------------------------------------------------------------------
(* Where an item is.                                                       *)

With(f, i) == {k \in DOMAIN f : f[k].item = i}
Absent(d, i) == d.inv[i] = Nobody /\ With(d.mail, i) = {} /\ With(d.auc, i) = {}
Bagged(d, i) == d.inv[i] # Nobody /\ With(d.mail, i) = {} /\ With(d.auc, i) = {}
Mailed(d, i) == d.inv[i] = Nobody /\ (\E m : With(d.mail, i) = {m}) /\ With(d.auc, i) = {}
Offered(d, i) == d.inv[i] = Nobody /\ With(d.mail, i) = {} /\ \E id : With(d.auc, i) = {id}
Placed(d, i) == Bagged(d, i) \/ Mailed(d, i) \/ Offered(d, i)
Fine(d) == IsStore(d) /\ \A i \in Items : Absent(d, i) \/ Placed(d, i)

LEMMA WithInsert ==
  ASSUME NEW f, NEW g, DOMAIN f \cap DOMAIN g = {}, NEW i
  PROVE  With(Insert(f, g), i) = With(f, i) \cup With(g, i)
<1>1. PICK h : h = Insert(f, g)
  OBVIOUS
<1>2. Inserted(f, g, h)
  BY <1>1, InsertFacts
<1>3. With(h, i) = With(f, i) \cup With(g, i)
  BY <1>2 DEF Inserted, With
<1> QED
  BY <1>1, <1>3

LEMMA WithDelete ==
  ASSUME NEW f, NEW K, NEW i
  PROVE  With(Delete(f, K), i) = With(f, i) \ K
<1>1. PICK h : h = Delete(f, K)
  OBVIOUS
<1>2. Deleted(f, K, h)
  BY <1>1, DeleteFacts
<1>3. With(h, i) = With(f, i) \ K
  BY <1>2 DEF Deleted, With
<1> QED
  BY <1>1, <1>3

LEMMA WithSet ==
  ASSUME NEW f, NEW m \in DOMAIN f, NEW row, NEW i
  PROVE  With([f EXCEPT ![m] = row], i) = (With(f, i) \ {m}) \cup (IF row.item = i THEN {m} ELSE {})
  BY DEF With

LEMMA PlacesOne ==
  ASSUME NEW d, NEW i, Placed(d, i)
  PROVE  PlacesOf(d, i) = 1
<1>1. MailsWith(d, i) = With(d.mail, i) /\ AuctionsWith(d, i) = With(d.auc, i)
  BY DEF MailsWith, AuctionsWith, With
<1>2. Cardinality({}) = 0 /\ \A x : Cardinality({x}) = 1
  BY FS_EmptySet, FS_Singleton
<1>3. PICK M, A, b : M = Cardinality(With(d.mail, i)) /\ A = Cardinality(With(d.auc, i))
                     /\ b = IF d.inv[i] = Nobody THEN 0 ELSE 1
  OBVIOUS
<1>4. PlacesOf(d, i) = b + M + A
  BY <1>1, <1>3 DEF PlacesOf
<1>5. CASE Bagged(d, i)
  BY <1>2, <1>3, <1>4, <1>5 DEF Bagged
<1>6. CASE Mailed(d, i)
  <2>1. PICK m : With(d.mail, i) = {m}
    BY <1>6 DEF Mailed
  <2>2. M = 1
    BY <1>2, <1>3, <2>1
  <2>3. A = 0 /\ b = 0
    BY <1>2, <1>3, <1>6 DEF Mailed
  <2> QED
    BY <1>4, <2>2, <2>3
<1>7. CASE Offered(d, i)
  <2>1. PICK m : With(d.auc, i) = {m}
    BY <1>7 DEF Offered
  <2>2. A = 1
    BY <1>2, <1>3, <2>1
  <2>3. M = 0 /\ b = 0
    BY <1>2, <1>3, <1>7 DEF Offered
  <2> QED
    BY <1>4, <2>2, <2>3
<1> QED
  BY <1>5, <1>6, <1>7 DEF Placed

LEMMA PlacesNone ==
  ASSUME NEW d, NEW i, Absent(d, i)
  PROVE  PlacesOf(d, i) = 0
<1>1. MailsWith(d, i) = With(d.mail, i) /\ AuctionsWith(d, i) = With(d.auc, i)
  BY DEF MailsWith, AuctionsWith, With
<1>2. Cardinality({}) = 0
  BY FS_EmptySet
<1> QED
  BY <1>1, <1>2 DEF Absent, PlacesOf

\* What does not concern an item leaves it where it is.
Concerns(d, e, i) ==
  \A j \in Items \ {i} : /\ e.inv[j] = Nobody <=> d.inv[j] = Nobody
                         /\ With(e.mail, j) = With(d.mail, j)
                         /\ With(e.auc, j) = With(d.auc, j)

LEMMA ElsewhereKept ==
  ASSUME NEW d, NEW e, NEW i, Concerns(d, e, i), NEW j \in Items \ {i}
  PROVE  (Absent(d, j) => Absent(e, j)) /\ (Placed(d, j) => Placed(e, j))
  BY DEF Concerns, Absent, Placed, Bagged, Mailed, Offered

-----------------------------------------------------------------------------
(* The gold in mails and in auctions.                                      *)

Enclosed(f) == [m \in DOMAIN f |-> f[m].money]
Pledged(f) == [id \in DOMAIN f |-> f[id].bid + f[id].deposit]
Posted(f) == SumFunction(Enclosed(f))
Staked(f) == SumFunction(Pledged(f))

LEMMA GoldParts ==
  ASSUME NEW d
  PROVE  GoldIn(d) = SumFunction(d.money) + Posted(d.mail) + Staked(d.auc) + d.spent
  BY DEF GoldIn, Posted, Staked, Enclosed, Pledged

LEMMA EnclosedNat ==
  ASSUME NEW f, IsMails(f)
  PROVE  /\ Amounted(Enclosed(f)) /\ DOMAIN Enclosed(f) = DOMAIN f
         /\ \A m \in DOMAIN f : Enclosed(f)[m] = f[m].money
<1>1. PICK g : g = Enclosed(f)
  OBVIOUS
<1>2. DOMAIN g = DOMAIN f /\ \A m \in DOMAIN f : g[m] = f[m].money /\ f[m].money \in Nat
  BY <1>1 DEF Enclosed, IsMails, IsLetter
<1>3. Amounted(g)
  BY <1>2 DEF Amounted, IsMails, IsTable
<1> QED
  BY <1>1, <1>2, <1>3

LEMMA PledgedNat ==
  ASSUME NEW f, IsAuctions(f)
  PROVE  /\ Amounted(Pledged(f)) /\ DOMAIN Pledged(f) = DOMAIN f
         /\ \A id \in DOMAIN f : Pledged(f)[id] = f[id].bid + f[id].deposit
<1>1. PICK g : g = Pledged(f)
  OBVIOUS
<1>2. DOMAIN g = DOMAIN f /\ \A m \in DOMAIN f : g[m] = f[m].bid + f[m].deposit
  BY <1>1 DEF Pledged
<1>3. \A m \in DOMAIN f : f[m].bid \in Nat /\ f[m].deposit \in Nat
  BY DEF IsAuctions, IsAuction
<1>4. \A m \in DOMAIN f : g[m] \in Nat
  BY <1>2, <1>3
<1>5. Amounted(g)
  BY <1>2, <1>4 DEF Amounted, IsAuctions, IsTable
<1> QED
  BY <1>1, <1>2, <1>5

LEMMA PostedNat ==
  ASSUME NEW f, IsMails(f)
  PROVE  Posted(f) \in Nat
  BY EnclosedNat, SumNat DEF Posted

LEMMA StakedNat ==
  ASSUME NEW f, IsAuctions(f)
  PROVE  Staked(f) \in Nat
  BY PledgedNat, SumNat DEF Staked

LEMMA PostedInsert ==
  ASSUME NEW f, IsMails(f), NEW g, IsMails(g), DOMAIN f \cap DOMAIN g = {}
  PROVE  Posted(Insert(f, g)) = Posted(f) + Posted(g)
<1>1. PICK h : h = Insert(f, g)
  OBVIOUS
<1>2. Inserted(f, g, h) /\ IsMails(h)
  BY <1>1, InsertFacts, MailsInsert
<1>3. PICK a, b, c : a = Enclosed(f) /\ b = Enclosed(g) /\ c = Enclosed(h)
  OBVIOUS
<1>4. /\ Amounted(a) /\ DOMAIN a = DOMAIN f /\ \A m \in DOMAIN f : a[m] = f[m].money
      /\ Amounted(b) /\ DOMAIN b = DOMAIN g /\ \A m \in DOMAIN g : b[m] = g[m].money
      /\ Amounted(c) /\ DOMAIN c = DOMAIN h /\ \A m \in DOMAIN h : c[m] = h[m].money
  BY <1>2, <1>3, EnclosedNat
<1>5. /\ DOMAIN a \cap DOMAIN b = {} /\ DOMAIN c = DOMAIN a \cup DOMAIN b
      /\ \A y \in DOMAIN a : c[y] = a[y]
      /\ \A y \in DOMAIN b : c[y] = b[y]
  BY <1>2, <1>4 DEF Inserted
<1>6. SumFunction(c) = SumFunction(a) + SumFunction(b)
  BY <1>4, <1>5, SumInsert
<1> QED
  BY <1>1, <1>3, <1>6 DEF Posted

LEMMA PostedSet ==
  ASSUME NEW f, IsMails(f), NEW m \in DOMAIN f, NEW row, IsLetter(row)
  PROVE  Posted([f EXCEPT ![m] = row]) = Posted(f) - f[m].money + row.money
<1>1. PICK h : h = [f EXCEPT ![m] = row]
  OBVIOUS
<1>2. IsMails(h)
  BY <1>1, MailsSet
<1>3. PICK a, c : a = Enclosed(f) /\ c = Enclosed(h)
  OBVIOUS
<1>4. /\ Amounted(a) /\ DOMAIN a = DOMAIN f /\ \A k \in DOMAIN f : a[k] = f[k].money
      /\ Amounted(c) /\ DOMAIN c = DOMAIN h /\ \A k \in DOMAIN h : c[k] = h[k].money
  BY <1>2, <1>3, EnclosedNat
<1>5. DOMAIN h = DOMAIN f /\ h[m] = row /\ \A k \in DOMAIN f \ {m} : h[k] = f[k]
  BY <1>1 DEF IsMails, IsTable, IsMap
<1>6. SumFunction(c) = SumFunction(a) - a[m] + c[m]
  BY <1>4, <1>5, SumChange
<1> QED
  BY <1>1, <1>3, <1>4, <1>5, <1>6 DEF Posted

LEMMA PostedDelete ==
  ASSUME NEW f, IsMails(f), NEW m \in DOMAIN f
  PROVE  Posted(Delete(f, {m})) = Posted(f) - f[m].money
<1>1. PICK h : h = Delete(f, {m})
  OBVIOUS
<1>2. IsMails(h) /\ Deleted(f, {m}, h)
  BY <1>1, MailsDelete, DeleteFacts
<1>3. PICK a, c : a = Enclosed(f) /\ c = Enclosed(h)
  OBVIOUS
<1>4. /\ Amounted(a) /\ DOMAIN a = DOMAIN f /\ \A k \in DOMAIN f : a[k] = f[k].money
      /\ DOMAIN c = DOMAIN h /\ \A k \in DOMAIN h : c[k] = h[k].money
  BY <1>2, <1>3, EnclosedNat
<1>5. SumFunction(c) = SumFunction(a) - a[m]
  BY <1>2, <1>4, SumDelete DEF Deleted
<1> QED
  BY <1>1, <1>3, <1>4, <1>5 DEF Posted

LEMMA StakedInsert ==
  ASSUME NEW f, IsAuctions(f), NEW id \in Nat \ DOMAIN f, NEW a, IsAuction(a)
  PROVE  Staked(Insert(f, OneRow(id, a))) = Staked(f) + a.bid + a.deposit
<1>1. PICK g, h : g = OneRow(id, a) /\ h = Insert(f, g)
  OBVIOUS
<1>2. Inserted(f, g, h) /\ IsAuctions(h) /\ DOMAIN g = {id} /\ g[id] = a
  BY <1>1, InsertFacts, AuctionsInsert DEF OneRow
<1>3. PICK b, c : b = Pledged(f) /\ c = Pledged(h)
  OBVIOUS
<1>4. /\ Amounted(b) /\ DOMAIN b = DOMAIN f /\ \A k \in DOMAIN f : b[k] = f[k].bid + f[k].deposit
      /\ Amounted(c) /\ DOMAIN c = DOMAIN h /\ \A k \in DOMAIN h : c[k] = h[k].bid + h[k].deposit
  BY <1>2, <1>3, PledgedNat
<1>5. id \in DOMAIN c /\ DOMAIN b = DOMAIN c \ {id} /\ \A k \in DOMAIN b : b[k] = c[k]
  BY <1>2, <1>4 DEF Inserted
<1>6. c[id] = a.bid + a.deposit
  BY <1>2, <1>4 DEF Inserted
<1>7. SumFunction(b) = SumFunction(c) - c[id]
  BY <1>4, <1>5, SumDelete
<1>8. SumFunction(b) \in Nat /\ SumFunction(c) \in Nat /\ a.bid \in Nat /\ a.deposit \in Nat
  BY <1>4, SumNat DEF IsAuction
<1>9. SumFunction(c) = SumFunction(b) + a.bid + a.deposit
  BY <1>6, <1>7, <1>8
<1> QED
  BY <1>1, <1>3, <1>9 DEF Staked

LEMMA StakedSet ==
  ASSUME NEW f, IsAuctions(f), NEW m \in DOMAIN f, NEW row, IsAuction(row)
  PROVE  Staked([f EXCEPT ![m] = row]) =
           Staked(f) - (f[m].bid + f[m].deposit) + (row.bid + row.deposit)
<1>1. PICK h : h = [f EXCEPT ![m] = row]
  OBVIOUS
<1>2. IsAuctions(h)
  BY <1>1, AuctionsSet
<1>3. PICK a, c : a = Pledged(f) /\ c = Pledged(h)
  OBVIOUS
<1>4. /\ Amounted(a) /\ DOMAIN a = DOMAIN f /\ \A k \in DOMAIN f : a[k] = f[k].bid + f[k].deposit
      /\ Amounted(c) /\ DOMAIN c = DOMAIN h /\ \A k \in DOMAIN h : c[k] = h[k].bid + h[k].deposit
  BY <1>2, <1>3, PledgedNat
<1>5. DOMAIN h = DOMAIN f /\ h[m] = row /\ \A k \in DOMAIN f \ {m} : h[k] = f[k]
  BY <1>1 DEF IsAuctions, IsTable, IsMap
<1>6. SumFunction(c) = SumFunction(a) - a[m] + c[m]
  BY <1>4, <1>5, SumChange
<1> QED
  BY <1>1, <1>3, <1>4, <1>5, <1>6 DEF Staked

LEMMA StakedDelete ==
  ASSUME NEW f, IsAuctions(f), NEW m \in DOMAIN f
  PROVE  Staked(Delete(f, {m})) = Staked(f) - (f[m].bid + f[m].deposit)
<1>1. PICK h : h = Delete(f, {m})
  OBVIOUS
<1>2. IsAuctions(h) /\ Deleted(f, {m}, h)
  BY <1>1, AuctionsDelete, DeleteFacts
<1>3. PICK a, c : a = Pledged(f) /\ c = Pledged(h)
  OBVIOUS
<1>4. /\ Amounted(a) /\ DOMAIN a = DOMAIN f /\ \A k \in DOMAIN f : a[k] = f[k].bid + f[k].deposit
      /\ DOMAIN c = DOMAIN h /\ \A k \in DOMAIN h : c[k] = h[k].bid + h[k].deposit
  BY <1>2, <1>3, PledgedNat
<1>5. SumFunction(c) = SumFunction(a) - a[m]
  BY <1>2, <1>4, SumDelete DEF Deleted
<1> QED
  BY <1>1, <1>3, <1>4, <1>5 DEF Staked

\* The gold of the players, in the tables of a finite number of players.
LEMMA PurseSet ==
  ASSUME IsFiniteSet(Players), NEW f \in [Players -> Nat], NEW p \in Players, NEW v \in Nat
  PROVE  SumFunction([f EXCEPT ![p] = v]) = SumFunction(f) - f[p] + v
<1>1. PICK h : h = [f EXCEPT ![p] = v]
  OBVIOUS
<1>2. DOMAIN h = DOMAIN f /\ DOMAIN f = Players /\ h[p] = v /\ \A k \in DOMAIN f \ {p} : h[k] = f[k]
  BY <1>1
<1>3. Amounted(f) /\ Amounted(h)
  BY <1>1, <1>2 DEF Amounted
<1>4. SumFunction(h) = SumFunction(f) - f[p] + h[p]
  BY <1>2, <1>3, SumChange
<1> QED
  BY <1>1, <1>2, <1>4

-----------------------------------------------------------------------------
(* The mails of a transaction.                                             *)

IsLetters(s, k) == Len(s) = k /\ \A n \in 1..k : IsLetter(s[n])

Worth(s, k) ==
  IF k = 0 THEN 0 ELSE IF k = 1 THEN s[1].money
  ELSE IF k = 2 THEN s[1].money + s[2].money ELSE s[1].money + s[2].money + s[3].money

\* rows are new mails, k of them with the ids from mid on.
NewMails(rows, mid, k) ==
  /\ IsMails(rows) /\ Cardinality(DOMAIN rows) = k
  /\ \A m \in DOMAIN rows : mid <= m /\ m < mid + k

LEMMA RowsFacts ==
  ASSUME mailId \in Nat, NEW k \in Nat, NEW s, IsLetters(s, k)
  PROVE  /\ DOMAIN Rows(s) = mailId..(mailId + k - 1) /\ NewMails(Rows(s), mailId, k)
         /\ \A m \in DOMAIN Rows(s) : Rows(s)[m] = s[m - mailId + 1]
<1>1. PICK r : r = Rows(s)
  OBVIOUS
<1>2. /\ IsMap(r) /\ DOMAIN r = mailId..(mailId + k - 1)
      /\ \A m \in DOMAIN r : r[m] = s[m - mailId + 1]
  BY <1>1 DEF Rows, IsLetters, IsMap
<1>3. \A m \in DOMAIN r : mailId <= m /\ m < mailId + k /\ m - mailId + 1 \in 1..k /\ m \in Nat
  BY <1>2
<1>4. IsFiniteSet(DOMAIN r) /\ Cardinality(DOMAIN r) = k
  <2>1. PICK a, b : a = mailId /\ b = mailId + k - 1
    OBVIOUS
  <2>2. a \in Int /\ b \in Int
    BY <2>1
  <2>3. IsFiniteSet(a..b) /\ Cardinality(a..b) = IF a > b THEN 0 ELSE b - a + 1
    BY <2>2, FS_Interval
  <2>4. DOMAIN r = a..b /\ (a > b => k = 0) /\ (a <= b => b - a + 1 = k)
    BY <1>2, <2>1
  <2> QED
    BY <2>2, <2>3, <2>4
<1>5. IsMails(r)
  BY <1>2, <1>3, <1>4 DEF IsMails, IsTable, IsLetters
<1>6. NewMails(r, mailId, k)
  BY <1>3, <1>4, <1>5 DEF NewMails
<1> QED
  BY <1>1, <1>2, <1>6

\* At most the last letter carries an item.
LEMMA RowsWith ==
  ASSUME mailId \in Nat, NEW k \in Nat, NEW s, IsLetters(s, k), NEW i,
         \A n \in 1..(k - 1) : s[n].item # i
  PROVE  With(Rows(s), i) = IF k > 0 /\ s[k].item = i THEN {mailId + k - 1} ELSE {}
<1>1. PICK r : r = Rows(s)
  OBVIOUS
<1>2. DOMAIN r = mailId..(mailId + k - 1) /\ \A m \in DOMAIN r : r[m] = s[m - mailId + 1]
  BY <1>1, RowsFacts
<1>3. ASSUME NEW m \in DOMAIN r, m # mailId + k - 1
      PROVE  m - mailId + 1 \in 1..(k - 1)
  <2>1. m \in Int /\ mailId <= m /\ m <= mailId + k - 1
    BY <1>2
  <2>2. m - mailId + 1 \in Int /\ 1 <= m - mailId + 1 /\ m - mailId + 1 <= k - 1
    BY <1>3, <2>1
  <2> QED
    BY <2>2
<1>4. \A m \in DOMAIN r : m # mailId + k - 1 => r[m].item # i
  BY <1>2, <1>3
<1>5. CASE k = 0
  <2>1. DOMAIN r = {}
    BY <1>2, <1>5
  <2> QED
    BY <1>1, <1>5, <2>1 DEF With
<1>6. CASE k > 0
  <2>1. PICK last : last = mailId + k - 1
    OBVIOUS
  <2>2. last \in DOMAIN r /\ last - mailId + 1 = k
    BY <1>2, <1>6, <2>1
  <2>3. r[last] = s[k]
    BY <1>2, <2>2
  <2>4. With(r, i) = IF s[k].item = i THEN {last} ELSE {}
    BY <1>4, <2>1, <2>2, <2>3 DEF With
  <2> QED
    BY <1>1, <1>6, <2>1, <2>4
<1> QED
  BY <1>5, <1>6

LEMMA PostedEmpty ==
  ASSUME NEW f, DOMAIN f = {}
  PROVE  Posted(f) = 0
<1>1. DOMAIN Enclosed(f) = {}
  BY DEF Enclosed
<1> QED
  BY <1>1, SumEmpty DEF Posted

\* The gold in the mails that up to three letters become.
LEMMA RowsWorth ==
  ASSUME mailId \in Nat, NEW k \in 0..3, NEW s, IsLetters(s, k)
  PROVE  Posted(Rows(s)) = Worth(s, k)
<1>1. PICK r, a : r = Rows(s) /\ a = mailId
  OBVIOUS
<1>2. /\ IsMails(r) /\ a \in Nat /\ k \in Nat
      /\ DOMAIN r = a..(a + k - 1) /\ \A m \in DOMAIN r : r[m] = s[m - a + 1]
  BY <1>1, RowsFacts DEF NewMails
<1>3. PICK r1 : r1 = Delete(r, {a + k - 1})
  OBVIOUS
<1>4. PICK r2 : r2 = Delete(r1, {a + k - 2})
  OBVIOUS
<1>5. PICK r3 : r3 = Delete(r2, {a + k - 3})
  OBVIOUS
<1>6. Deleted(r, {a + k - 1}, r1) /\ Deleted(r1, {a + k - 2}, r2) /\ Deleted(r2, {a + k - 3}, r3)
  BY <1>3, <1>4, <1>5, DeleteFacts
<1>7. IsMails(r1) /\ IsMails(r2) /\ IsMails(r3)
  BY <1>2, <1>3, <1>4, <1>5, MailsDelete
<1>8. \A n \in 1..k : s[n].money \in Nat
  BY DEF IsLetters, IsLetter
<1>9. /\ Posted(r) \in Nat /\ Posted(r1) \in Nat /\ Posted(r2) \in Nat /\ Posted(r3) \in Nat
  BY <1>2, <1>7, PostedNat
<1>10. CASE k = 0
  <2>1. DOMAIN r = {}
    BY <1>2, <1>10
  <2> QED
    BY <1>1, <1>10, <2>1, PostedEmpty DEF Worth
<1>11. CASE k > 0
  <2>1. a + k - 1 \in DOMAIN r /\ (a + k - 1) - a + 1 = k
    BY <1>2, <1>11
  <2>2. r[a + k - 1] = s[k]
    BY <1>2, <2>1
  <2>3. Posted(r1) = Posted(r) - s[k].money
    BY <1>2, <1>3, <2>1, <2>2, PostedDelete
  <2>4. DOMAIN r1 = a..(a + k - 2) /\ \A m \in DOMAIN r1 : r1[m] = s[m - a + 1]
    BY <1>2, <1>6 DEF Deleted
  <2>5. CASE k = 1
    <3>1. DOMAIN r1 = {}
      BY <1>2, <2>4, <2>5
    <3>2. Posted(r1) = 0 /\ s[1].money \in Nat
      BY <1>8, <2>5, <3>1, PostedEmpty
    <3> QED
      BY <1>1, <1>9, <2>3, <2>5, <3>2 DEF Worth
  <2>6. CASE k > 1
    <3>1. a + k - 2 \in DOMAIN r1 /\ (a + k - 2) - a + 1 = k - 1
      BY <1>2, <2>4, <2>6
    <3>2. r1[a + k - 2] = s[k - 1]
      BY <2>4, <3>1
    <3>3. Posted(r2) = Posted(r1) - s[k - 1].money
      BY <1>4, <1>7, <3>1, <3>2, PostedDelete
    <3>4. DOMAIN r2 = a..(a + k - 3) /\ \A m \in DOMAIN r2 : r2[m] = s[m - a + 1]
      BY <1>2, <1>6, <2>4 DEF Deleted
    <3>5. CASE k = 2
      <4>1. DOMAIN r2 = {}
        BY <1>2, <3>4, <3>5
      <4>2. Posted(r2) = 0 /\ s[1].money \in Nat /\ s[2].money \in Nat
        BY <1>8, <3>5, <4>1, PostedEmpty
      <4> QED
        BY <1>1, <1>9, <2>3, <3>3, <3>5, <4>2 DEF Worth
    <3>6. CASE k = 3
      <4>1. a + k - 3 \in DOMAIN r2 /\ (a + k - 3) - a + 1 = 1
        BY <1>2, <3>4, <3>6
      <4>2. r2[a + k - 3] = s[1]
        BY <3>4, <4>1
      <4>3. Posted(r3) = Posted(r2) - s[1].money
        BY <1>5, <1>7, <4>1, <4>2, PostedDelete
      <4>4. DOMAIN r3 = {}
        BY <1>2, <1>6, <3>4, <3>6 DEF Deleted
      <4>5. Posted(r3) = 0 /\ s[1].money \in Nat /\ s[2].money \in Nat /\ s[3].money \in Nat
        BY <1>8, <3>6, <4>4, PostedEmpty
      <4> QED
        BY <1>1, <1>9, <2>3, <3>3, <3>6, <4>3, <4>5 DEF Worth
    <3> QED
      BY <2>6, <3>5, <3>6
  <2> QED
    BY <1>11, <2>5, <2>6
<1> QED
  BY <1>10, <1>11

-----------------------------------------------------------------------------
(* The tables as they are now and after each operation that is queued.     *)

\* What a login query reads for player p.
Purse(d, p) == [money |-> d.money[p], bags |-> {i \in Items : d.inv[i] = p}]
RowsKept(p, f, g) == \A m \in DOMAIN f : f[m].to = p => m \in DOMAIN g /\ g[m] = f[m]
MailKept(p, d, e) == RowsKept(p, d.mail, e.mail)
Still(p, d, e) == Purse(d, p) = Purse(e, p) /\ MailKept(p, d, e)

\* From a login query on, nothing that is queued concerns the player.
Loads(T, q, on, fe) ==
  \A k \in 1..Len(q) : \A p \in q[k].load :
    /\ p \in Players /\ on[p] = "loading" /\ fe[p] = Nothing
    /\ \A l \in 1..Len(q) : p \in q[l].load => l = k
    /\ \A m \in (k - 1)..Len(q) : Still(p, T[m], T[Len(q)])
Reads(T, q, on, fe) ==
  \A p \in Players : fe[p] # Nothing =>
    /\ on[p] = "loading" /\ fe[p] = Purse(T[Len(q)], p)
    /\ \A m \in 0..Len(q) : MailKept(p, T[m], T[Len(q)])
\* Until he opens his mail box, nothing that is queued concerns what is in it.
Unread(T, q, on, lo) ==
  \A p \in Players : on[p] = "in" /\ p \notin lo =>
    \A m \in 0..Len(q) : MailKept(p, T[m], T[Len(q)])
Chain(T, q, on, fe, lo) ==
  /\ \A n \in 0..Len(q) : Fine(T[n])
  /\ Loads(T, q, on, fe) /\ Reads(T, q, on, fe) /\ Unread(T, q, on, lo)
  /\ \A p \in lo : on[p] = "in"

LEMMA StillTwice ==
  ASSUME NEW p, NEW d, NEW e, NEW f
  PROVE  /\ MailKept(p, d, e) /\ MailKept(p, e, f) => MailKept(p, d, f)
         /\ Still(p, d, e) /\ Still(p, e, f) => Still(p, d, f)
<1>1. MailKept(p, d, e) /\ MailKept(p, e, f) => MailKept(p, d, f)
  BY DEF MailKept, RowsKept
<1> QED
  BY <1>1 DEF Still

LEMMA StillSame ==
  ASSUME NEW p, NEW d
  PROVE  Still(p, d, d) /\ MailKept(p, d, d)
  BY DEF Still, MailKept, RowsKept

\* Players come and go while the queue stays as it is.
LEMMA ChainPlayers ==
  ASSUME NEW T, NEW q, NEW on, NEW fe, NEW lo, Chain(T, q, on, fe, lo), NEW on2, NEW fe2, NEW lo2,
         \A p \in Players :
           /\ on[p] = "loading" /\ fe[p] = Nothing => on2[p] = "loading" /\ fe2[p] = Nothing
           /\ fe2[p] # Nothing => fe2[p] = fe[p] /\ on2[p] = "loading"
           /\ on2[p] = "in" /\ p \notin lo2 => (on[p] = "in" /\ p \notin lo) \/ fe[p] # Nothing,
         \A p \in lo2 : on2[p] = "in"
  PROVE  Chain(T, q, on2, fe2, lo2)
<1>1. Loads(T, q, on2, fe2)
  BY DEF Chain, Loads
<1>2. Reads(T, q, on2, fe2)
  BY DEF Chain, Reads
<1>3. Unread(T, q, on2, lo2)
  BY DEF Chain, Reads, Unread
<1> QED
  BY <1>1, <1>2, <1>3 DEF Chain

\* What a transaction that turns F into G leaves alone.
Quiet(F, G, on, lo) ==
  /\ \A p \in Players : on[p] # "in" => Purse(F, p) = Purse(G, p)
  /\ \A p \in Players \ lo : MailKept(p, F, G)
NewLoads(t, q, on, fe) ==
  \A p \in t.load : /\ p \in Players /\ on[p] = "loading" /\ fe[p] = Nothing
                    /\ \A k \in 1..Len(q) : p \notin q[k].load

\* A transaction that leaves alone what is still to be read.
LEMMA ChainQueues ==
  ASSUME NEW d, NEW q, NEW T, Record(d, q, T), NEW t, NEW r, Queues(q, t, r), NEW U, Record(d, r, U),
         NEW on, NEW fe, NEW lo, Chain(T, q, on, fe, lo), NewLoads(t, q, on, fe),
         NEW G, G = Apply(T[Len(q)], t), Fine(G), Quiet(T[Len(q)], G, on, lo)
  PROVE  Chain(U, r, on, fe, lo) /\ U[Len(r)] = G
<1>1. PICK N, F : N = Len(q) /\ F = T[Len(q)]
  OBVIOUS
<1>2. /\ N \in Nat /\ Len(r) = N + 1 /\ Len(q) = N /\ r[N + 1] = t
      /\ \A n \in 1..N : r[n] = q[n]
  BY <1>1 DEF Queues
<1>3. (\A n \in 0..N : U[n] = T[n]) /\ U[N + 1] = G
  BY <1>1, RecordQueues
<1>4. T[N] = F /\ U[Len(r)] = G /\ U[N] = F
  BY <1>1, <1>2, <1>3
<1>5. \A n \in 0..(N + 1) : n \in 0..N \/ n = N + 1
  BY <1>2
<1>6. Quiet(F, G, on, lo)
  BY <1>1
<1>7. \A n \in 0..Len(r) : Fine(U[n])
  BY <1>2, <1>3, <1>5 DEF Chain
<1>8. \A p \in Players : on[p] # "in" => Still(p, F, G) /\ MailKept(p, F, G)
  <2>1. \A p \in Players : on[p] # "in" => p \notin lo
    BY DEF Chain
  <2> QED
    BY <1>6, <2>1 DEF Quiet, Still
<1>9. Loads(U, r, on, fe)
  <2> SUFFICES ASSUME NEW k \in 1..(N + 1), NEW p \in r[k].load
               PROVE  /\ p \in Players /\ on[p] = "loading" /\ fe[p] = Nothing
                      /\ \A l \in 1..(N + 1) : p \in r[l].load => l = k
                      /\ \A m \in (k - 1)..(N + 1) : Still(p, U[m], G)
    BY <1>2, <1>4 DEF Loads
  <2>0. \A l \in 1..(N + 1) : l \in 1..N \/ l = N + 1
    BY <1>2
  <2>1. CASE k = N + 1
    <3>1. p \in Players /\ on[p] = "loading" /\ fe[p] = Nothing /\ \A l \in 1..N : p \notin q[l].load
      BY <1>2, <2>1 DEF NewLoads
    <3>2. \A l \in 1..(N + 1) : p \in r[l].load => l = k
      BY <1>2, <2>0, <2>1, <3>1
    <3>3. \A m \in (k - 1)..(N + 1) : m = N \/ m = N + 1
      BY <1>2, <2>1
    <3>4. Still(p, F, G) /\ Still(p, G, G)
      BY <1>8, <3>1, StillSame
    <3> QED
      BY <1>3, <1>4, <3>1, <3>2, <3>3, <3>4
  <2>2. CASE k \in 1..N
    <3>1. p \in q[k].load
      BY <1>2, <2>2
    <3>2. /\ p \in Players /\ on[p] = "loading" /\ fe[p] = Nothing
          /\ \A l \in 1..N : p \in q[l].load => l = k
          /\ \A m \in (k - 1)..N : Still(p, T[m], F)
      BY <1>2, <1>4, <2>2, <3>1 DEF Chain, Loads
    <3>3. p \notin t.load
      BY <1>2, <2>2, <3>1 DEF NewLoads
    <3>4. \A l \in 1..(N + 1) : p \in r[l].load => l = k
      BY <1>2, <2>0, <3>2, <3>3
    <3>5. Still(p, F, G) /\ Still(p, G, G)
      BY <1>8, <3>2, StillSame
    <3>6. \A m \in (k - 1)..(N + 1) : m = N + 1 \/ (m \in (k - 1)..N /\ m \in 0..N)
      BY <1>2, <2>2
    <3>7. \A m \in (k - 1)..(N + 1) : Still(p, U[m], G)
      BY <1>3, <3>2, <3>5, <3>6, StillTwice
    <3> QED
      BY <3>2, <3>4, <3>7
  <2> QED
    BY <2>0, <2>1, <2>2
<1>10. Reads(U, r, on, fe)
  <2> SUFFICES ASSUME NEW p \in Players, fe[p] # Nothing
               PROVE  /\ on[p] = "loading" /\ fe[p] = Purse(G, p)
                      /\ \A m \in 0..(N + 1) : MailKept(p, U[m], G)
    BY <1>2, <1>4 DEF Reads
  <2>1. on[p] = "loading" /\ fe[p] = Purse(F, p) /\ \A m \in 0..N : MailKept(p, T[m], F)
    BY <1>2, <1>4 DEF Chain, Reads
  <2>2. Purse(F, p) = Purse(G, p) /\ MailKept(p, F, G) /\ MailKept(p, G, G)
    BY <1>8, <2>1, StillSame DEF Still
  <2>3. \A m \in 0..(N + 1) : MailKept(p, U[m], G)
    BY <1>3, <1>5, <2>1, <2>2, StillTwice
  <2> QED
    BY <2>1, <2>2, <2>3
<1>11. Unread(U, r, on, lo)
  <2> SUFFICES ASSUME NEW p \in Players, on[p] = "in", p \notin lo, NEW m \in 0..(N + 1)
               PROVE  MailKept(p, U[m], G)
    BY <1>2, <1>4 DEF Unread
  <2>1. \A n \in 0..N : MailKept(p, T[n], F)
    BY <1>2, <1>4 DEF Chain, Unread
  <2>2. MailKept(p, F, G) /\ MailKept(p, G, G)
    BY <1>6, StillSame DEF Quiet
  <2> QED
    BY <1>3, <1>5, <2>1, <2>2, StillTwice
<1> QED
  BY <1>4, <1>7, <1>9, <1>10, <1>11 DEF Chain

\* A worker executes the first operation: a login query reads its player.
LEMMA ChainExecutes ==
  ASSUME NEW d, NEW q, NEW T, Record(d, q, T), NEW r, Executes(q, r),
         NEW U, Record(Apply(d, q[1]), r, U),
         NEW on, NEW fe, NEW lo, Chain(T, q, on, fe, lo),
         NEW fe2, \A p \in Players : fe2[p] = IF p \in q[1].load THEN Purse(d, p) ELSE fe[p]
  PROVE  Chain(U, r, on, fe2, lo) /\ U[Len(r)] = T[Len(q)]
<1>1. PICK N, F : N = Len(r) /\ F = T[Len(q)]
  OBVIOUS
<1>2. N \in Nat /\ Len(q) = N + 1 /\ Len(r) = N /\ \A n \in 1..N : r[n] = q[n + 1] /\ n + 1 \in 1..(N + 1)
  BY <1>1 DEF Executes, Sequence
<1>3. \A n \in 0..N : U[n] = T[n + 1] /\ n + 1 \in 0..(N + 1)
  BY <1>1, <1>2, RecordExecutes
<1>4. U[N] = F /\ T[N + 1] = F /\ 1 \in 1..(N + 1) /\ T[0] = d
  BY <1>1, <1>2, <1>3 DEF Record
<1>5. \A n \in 0..N : Fine(U[n])
  BY <1>2, <1>3 DEF Chain
<1>6. Loads(U, r, on, fe2)
  <2> SUFFICES ASSUME NEW k \in 1..N, NEW p \in r[k].load
               PROVE  /\ p \in Players /\ on[p] = "loading" /\ fe2[p] = Nothing
                      /\ \A l \in 1..N : p \in r[l].load => l = k
                      /\ \A m \in (k - 1)..N : Still(p, U[m], F)
    BY <1>2, <1>4 DEF Loads
  <2>1. PICK j : j = k + 1
    OBVIOUS
  <2>2. j \in 1..(N + 1) /\ p \in q[j].load /\ j # 1 /\ j - 1 = k
    BY <1>2, <2>1
  <2>3. /\ p \in Players /\ on[p] = "loading" /\ fe[p] = Nothing
        /\ \A l \in 1..(N + 1) : p \in q[l].load => l = j
        /\ \A m \in (j - 1)..(N + 1) : Still(p, T[m], F)
    BY <1>2, <1>4, <2>2 DEF Chain, Loads
  <2>4. p \notin q[1].load
    BY <1>4, <2>2, <2>3
  <2>5. ASSUME NEW l \in 1..N, p \in r[l].load
        PROVE  l = k
    <3>1. l + 1 = k + 1
      BY <1>2, <2>1, <2>3, <2>5
    <3> QED
      BY <1>2, <3>1
  <2>6. \A m \in (k - 1)..N : m \in 0..N /\ m + 1 \in (j - 1)..(N + 1)
    BY <1>2, <2>1
  <2>7. \A m \in (k - 1)..N : Still(p, U[m], F)
    BY <1>3, <2>3, <2>6
  <2> QED
    BY <2>3, <2>4, <2>5, <2>7
<1>7. Reads(U, r, on, fe2)
  <2> SUFFICES ASSUME NEW p \in Players, fe2[p] # Nothing
               PROVE  /\ on[p] = "loading" /\ fe2[p] = Purse(F, p)
                      /\ \A m \in 0..N : MailKept(p, U[m], F)
    BY <1>2, <1>4 DEF Reads
  <2>1. \A m \in 0..N : MailKept(p, T[m + 1], F) => MailKept(p, U[m], F)
    BY <1>3
  <2>2. CASE p \in q[1].load
    <3>1. on[p] = "loading" /\ \A m \in (1 - 1)..(N + 1) : Still(p, T[m], F)
      BY <1>2, <1>4, <2>2 DEF Chain, Loads
    <3>2. \A m \in 0..(N + 1) : m \in (1 - 1)..(N + 1)
      OBVIOUS
    <3>3. 0 \in 0..(N + 1)
      BY <1>2
    <3>4. Purse(d, p) = Purse(F, p) /\ \A m \in 0..(N + 1) : MailKept(p, T[m], F)
      BY <1>4, <3>1, <3>2, <3>3 DEF Still
    <3> QED
      BY <1>3, <2>1, <2>2, <3>1, <3>4
  <2>3. CASE p \notin q[1].load
    <3>1. on[p] = "loading" /\ fe2[p] = Purse(F, p) /\ \A m \in 0..(N + 1) : MailKept(p, T[m], F)
      BY <1>2, <1>4, <2>3 DEF Chain, Reads
    <3> QED
      BY <1>3, <2>1, <3>1
  <2> QED
    BY <2>2, <2>3
<1>8. Unread(U, r, on, lo)
  <2> SUFFICES ASSUME NEW p \in Players, on[p] = "in", p \notin lo, NEW m \in 0..N
               PROVE  MailKept(p, U[m], F)
    BY <1>2, <1>4 DEF Unread
  <2>1. \A n \in 0..(N + 1) : MailKept(p, T[n], F)
    BY <1>2, <1>4 DEF Chain, Unread
  <2> QED
    BY <1>3, <2>1
<1> QED
  BY <1>1, <1>2, <1>4, <1>5, <1>6, <1>7, <1>8 DEF Chain

\* Ids that have not been given out are free, also for what is queued.
Below(d, mid, aid) == (\A m \in DOMAIN d.mail : m < mid) /\ \A id \in DOMAIN d.auc : id < aid
Ids(T, q, mid, aid) == \A n \in 0..Len(q) : Below(T[n], mid, aid)

\* New rows have new ids, below the next ones.
LEMMA IdsQueues ==
  ASSUME NEW d, NEW q, NEW T, Record(d, q, T), NEW t, NEW r, Queues(q, t, r), NEW U, Record(d, r, U),
         NEW mid \in Nat, NEW aid \in Nat, Ids(T, q, mid, aid), NEW mid2 \in Nat, NEW aid2 \in Nat,
         mid <= mid2, aid <= aid2, Below(Apply(T[Len(q)], t), mid2, aid2),
         \A n \in 0..Len(q) : Fine(T[n])
  PROVE  Ids(U, r, mid2, aid2)
<1>1. PICK N : N = Len(q)
  OBVIOUS
<1>2. N \in Nat /\ Len(r) = N + 1 /\ Len(q) = N
  BY <1>1 DEF Queues
<1>3. (\A n \in 0..N : U[n] = T[n]) /\ U[N + 1] = Apply(T[Len(q)], t)
  BY <1>1, RecordQueues
<1>4. \A n \in 0..(N + 1) : n \in 0..N \/ n = N + 1
  BY <1>2
<1>5. ASSUME NEW n \in 0..N
      PROVE  Below(T[n], mid2, aid2)
  <2>1. DOMAIN T[n].mail \subseteq Nat /\ DOMAIN T[n].auc \subseteq Nat /\ Below(T[n], mid, aid)
    BY <1>2, <1>5 DEF Ids, Fine, IsStore, IsMails, IsAuctions, IsTable
  <2> QED
    BY <2>1 DEF Below
<1> QED
  BY <1>2, <1>3, <1>4, <1>5 DEF Ids

LEMMA IdsExecutes ==
  ASSUME NEW d, NEW q, NEW T, Record(d, q, T), NEW r, Executes(q, r),
         NEW U, Record(Apply(d, q[1]), r, U), NEW mid, NEW aid, Ids(T, q, mid, aid)
  PROVE  Ids(U, r, mid, aid)
<1>1. Len(r) \in Nat /\ Len(q) = Len(r) + 1
  BY DEF Executes, Sequence
<1>2. \A n \in 0..Len(r) : U[n] = T[n + 1] /\ n + 1 \in 0..Len(q)
  BY <1>1, RecordExecutes
<1> QED
  BY <1>2 DEF Ids

-----------------------------------------------------------------------------
(* Memory and tables.                                                      *)

PurseMemory(F, on, mo, ba) ==
  \A p \in Players : on[p] = "in" => F.money[p] = mo[p] /\ {i \in Items : F.inv[i] = p} = ba[p]
MailMemory(f, lo, box) ==
  \A p \in Players : \A m \in DOMAIN box[p] :
    p \in lo /\ m \in DOMAIN f /\ f[m] = box[p][m] /\ f[m].to = p
\* The items that the mails in memory list are held, each as an item.
Held(box, hold) ==
  \A p \in Players : /\ Nothing \notin hold[p]
                     /\ \A m \in DOMAIN box[p] : box[p][m].item \in hold[p] \cup {Nothing}
HouseMemory(f, map, held) == f = map /\ held = {map[id].item : id \in DOMAIN map}

StoreTypes ==
  /\ DOMAIN online = Players /\ DOMAIN fetched = Players /\ DOMAIN money = Players
  /\ DOMAIN bags = Players /\ DOMAIN mails = Players /\ DOMAIN mMitems = Players
  /\ mailsLoaded \subseteq Players
  /\ mailId \in Nat \ {0} /\ auctionId \in Nat \ {0}
  /\ up \in {"up", "starting", "down"} /\ Sequence(queue)

\* The tables F that the queue leads to are what the world has in memory.
Current(F) ==
  /\ Fine(F) /\ Below(F, mailId, auctionId)
  /\ PurseMemory(F, online, money, bags)
  /\ MailMemory(F.mail, mailsLoaded, mails) /\ Held(mails, mMitems)
  /\ HouseMemory(F.auc, AuctionsMap, mAitems)

\* The world is not open: nothing is queued and nobody is there.
Idle ==
  /\ Len(queue) = 0 /\ mailsLoaded = {}
  /\ \A p \in Players : online[p] = "out" /\ fetched[p] = Nothing /\ DOMAIN mails[p] = {}
                       /\ mMitems[p] = {}
  /\ Fine(db)

Lines(T) ==
  /\ Chain(T, queue, online, fetched, mailsLoaded)
  /\ Ids(T, queue, mailId, auctionId)
  /\ Current(T[Len(queue)])

StoreInv ==
  /\ StoreTypes
  /\ up = "up" => \A T : Record(db, queue, T) => Lines(T)
  /\ up # "up" => Idle
  /\ up = "starting" => Below(db, mailId, auctionId)

\* A transaction that turns the tables F into G, and its handler.
Done(F, G) ==
  /\ Quiet(F, G, online, mailsLoaded)
  /\ mailId <= mailId' /\ auctionId <= auctionId'
  /\ Current(G)' /\ StoreTypes'
  /\ UNCHANGED <<online, fetched, mailsLoaded>>

\* While the world is open there are the tables that the queue leads to.
LEMMA CurrentTables ==
  ASSUME StoreInv, up = "up"
  PROVE  \E T : Record(db, queue, T) /\ Lines(T)
<1>1. Record(db, queue, Tables(db, queue))
  BY TablesRecord DEF StoreInv, StoreTypes, Sequence
<1> QED
  BY <1>1 DEF StoreInv

LEMMA CommitOne ==
  ASSUME StoreTypes, NEW t, Commit(<<t>>)
  PROVE  Queues(queue, t, queue') /\ UNCHANGED <<db, up, crashes>>
  BY QueuesOne DEF StoreTypes, Commit

\* A handler whose transaction leads to its memory keeps the invariant.
LEMMA CommitStep ==
  ASSUME StoreInv, up = "up", NEW t, Commit(<<t>>), t.load = {},
         NEW T, Record(db, queue, T), Lines(T),
         NEW G, G = Apply(T[Len(queue)], t), Done(T[Len(queue)], G)
  PROVE  StoreInv'
<1>1. Queues(queue, t, queue') /\ UNCHANGED <<db, up, crashes>>
  BY CommitOne DEF StoreInv
<1>2. PICK F : F = T[Len(queue)]
  OBVIOUS
<1>3. Done(F, G) /\ G = Apply(F, t) /\ Current(F)
  BY <1>2 DEF Lines
<1>4. /\ Fine(G) /\ Quiet(F, G, online, mailsLoaded) /\ Below(G, mailId', auctionId')
      /\ mailId <= mailId' /\ auctionId <= auctionId' /\ mailId' \in Nat /\ auctionId' \in Nat
      /\ mailId \in Nat /\ auctionId \in Nat
      /\ online' = online /\ fetched' = fetched /\ mailsLoaded' = mailsLoaded
      /\ Current(G)' /\ StoreTypes'
  BY <1>3 DEF Done, Current, StoreTypes, StoreInv
<1>5. NewLoads(t, queue, online, fetched)
  BY DEF NewLoads
<1>6. ASSUME NEW U, Record(db', queue', U)
      PROVE  Lines(U)'
  <2>1. Record(db, queue', U)
    BY <1>1, <1>6
  <2>2. PICK r : r = queue'
    OBVIOUS
  <2>3. Queues(queue, t, r) /\ Record(db, r, U)
    BY <1>1, <2>1, <2>2
  <2>4. Chain(T, queue, online, fetched, mailsLoaded) /\ Ids(T, queue, mailId, auctionId)
    BY DEF Lines
  <2>5. Chain(U, r, online, fetched, mailsLoaded) /\ U[Len(r)] = G
    BY <1>2, <1>3, <1>4, <1>5, <2>3, <2>4, ChainQueues
  <2>6. Ids(U, r, mailId', auctionId')
    <3>1. Below(Apply(T[Len(queue)], t), mailId', auctionId')
      BY <1>4
    <3>2. \A n \in 0..Len(queue) : Fine(T[n])
      BY <2>4 DEF Chain
    <3> QED
      BY <1>4, <2>3, <2>4, <3>1, <3>2, IdsQueues
  <2> QED
    BY <1>4, <2>2, <2>5, <2>6 DEF Lines
<1>7. up' = "up"
  BY <1>1
<1> QED
  BY <1>4, <1>6, <1>7 DEF StoreInv

-----------------------------------------------------------------------------
(* The parts of a transaction.                                             *)

LEMMA ApplyParts ==
  ASSUME NEW d, NEW t, NEW e, e = Apply(d, t)
  PROVE  /\ e.money = Update(d.money, t.money) /\ e.inv = Update(d.inv, t.inv)
         /\ e.mail = Delete(Unlist(SaveMails(Insert(d.mail, t.mail), t.mailSet), t.unitem), t.unmail)
         /\ e.auc = Delete(Update(Insert(d.auc, t.auc), t.aucSet), t.unauc)
         /\ e.spent = d.spent + t.spent /\ e.thrown = d.thrown \cup t.thrown
  BY DEF Apply

\* The new mails of a handler.
LEMMA Delivered ==
  ASSUME StoreTypes, NEW k \in Nat, NEW rows, NewMails(rows, mailId, k),
         NEW f, IsMails(f), \A m \in DOMAIN f : m < mailId,
         NEW box, DOMAIN box = Players, MailMemory(f, mailsLoaded, box),
         NEW hold, Held(box, hold), SendMailTo(box, hold, rows),
         NEW g, g = Insert(f, rows)
  PROVE  /\ IsMails(g) /\ DOMAIN f \cap DOMAIN rows = {}
         /\ mailId' \in Nat \ {0} /\ mailId <= mailId' /\ \A m \in DOMAIN g : m < mailId'
         /\ mailsLoaded' = mailsLoaded /\ DOMAIN mails' = Players
         /\ MailMemory(g, mailsLoaded, mails')
         /\ Held(mails', mMitems') /\ DOMAIN mMitems' = Players
         /\ \A p : RowsKept(p, f, g)
<1>1. /\ IsMails(rows) /\ mailId' = mailId + k /\ mailId \in Nat \ {0}
      /\ \A m \in DOMAIN rows : mailId <= m /\ m < mailId + k
  BY DEF NewMails, SendMailTo, StoreTypes
<1>2. DOMAIN f \subseteq Nat /\ DOMAIN rows \subseteq Nat
  BY <1>1 DEF IsMails, IsTable
<1>3. Inserted(f, rows, g) /\ IsMails(g)
  BY <1>1, InsertFacts, MailsInsert
<1>4. DOMAIN f \cap DOMAIN rows = {}
  BY <1>1, <1>2
<1>5. mailId' \in Nat \ {0} /\ mailId <= mailId' /\ \A m \in DOMAIN g : m < mailId'
  <2>1. \A m \in DOMAIN f : m < mailId + k
    BY <1>1, <1>2
  <2> QED
    BY <1>1, <1>3, <2>1 DEF Inserted
<1>6. /\ mailsLoaded' = mailsLoaded
      /\ mails' = [p \in Players |-> IF p \in mailsLoaded THEN Insert(box[p], MailOf(rows, p)) ELSE box[p]]
      /\ mMitems' = [p \in Players |-> IF p \in mailsLoaded THEN hold[p] \cup ItemsOf(MailOf(rows, p)) ELSE hold[p]]
  BY DEF SendMailTo
<1>7. \A m \in DOMAIN f : m \in DOMAIN g /\ g[m] = f[m]
  BY <1>3, <1>4 DEF Inserted
<1>8. \A m \in DOMAIN rows : m \in DOMAIN g /\ g[m] = rows[m]
  BY <1>3 DEF Inserted
<1>9. MailMemory(g, mailsLoaded, mails')
  <2> SUFFICES ASSUME NEW p \in Players, NEW m \in DOMAIN mails'[p]
               PROVE  p \in mailsLoaded /\ m \in DOMAIN g /\ g[m] = mails'[p][m] /\ g[m].to = p
    BY DEF MailMemory
  <2>1. \A n \in DOMAIN box[p] : p \in mailsLoaded /\ n \in DOMAIN f /\ f[n] = box[p][n] /\ f[n].to = p
    BY DEF MailMemory
  <2>2. CASE p \notin mailsLoaded
    BY <1>6, <2>1, <2>2
  <2>3. CASE p \in mailsLoaded
    <3>1. PICK mine, h : mine = MailOf(rows, p) /\ h = Insert(box[p], mine)
      OBVIOUS
    <3>2. mails'[p] = h /\ Inserted(box[p], mine, h)
      BY <1>6, <2>3, <3>1, InsertFacts
    <3>3. \A n \in DOMAIN mine : n \in DOMAIN rows /\ mine[n] = rows[n] /\ rows[n].to = p
      BY <3>1 DEF MailOf, Restrict
    <3>4. CASE m \in DOMAIN mine
      BY <1>8, <2>3, <3>2, <3>3, <3>4 DEF Inserted
    <3>5. CASE m \notin DOMAIN mine
      BY <1>7, <2>1, <2>3, <3>2, <3>5 DEF Inserted
    <3> QED
      BY <3>4, <3>5
  <2> QED
    BY <2>2, <2>3
<1>10. \A p : RowsKept(p, f, g)
  BY <1>7 DEF RowsKept
<1>11. Held(mails', mMitems')
  <2> SUFFICES ASSUME NEW p \in Players
               PROVE  /\ Nothing \notin mMitems'[p]
                      /\ \A m \in DOMAIN mails'[p] : mails'[p][m].item \in mMitems'[p] \cup {Nothing}
    BY DEF Held
  <2>1. Nothing \notin hold[p] /\ \A m \in DOMAIN box[p] : box[p][m].item \in hold[p] \cup {Nothing}
    BY DEF Held
  <2>2. CASE p \notin mailsLoaded
    BY <1>6, <2>1, <2>2
  <2>3. CASE p \in mailsLoaded
    <3>1. PICK mine, h : mine = MailOf(rows, p) /\ h = Insert(box[p], mine)
      OBVIOUS
    <3>2. mails'[p] = h /\ mMitems'[p] = hold[p] \cup ItemsOf(mine) /\ Inserted(box[p], mine, h)
      BY <1>6, <2>3, <3>1, InsertFacts
    <3>3. Nothing \notin ItemsOf(mine) /\ \A n \in DOMAIN mine : mine[n].item \in ItemsOf(mine) \cup {Nothing}
      BY DEF ItemsOf
    <3>4. \A m \in DOMAIN h : h[m].item \in hold[p] \cup ItemsOf(mine) \cup {Nothing}
      BY <2>1, <3>2, <3>3 DEF Inserted
    <3> QED
      BY <2>1, <3>2, <3>3, <3>4
  <2> QED
    BY <2>2, <2>3
<1> QED
  BY <1>3, <1>4, <1>5, <1>6, <1>9, <1>10, <1>11

\* A player changes a mail of his box, or throws it away.
LEMMA BoxSet ==
  ASSUME NEW f, IsMails(f), NEW box, DOMAIN box = Players, NEW lo, MailMemory(f, lo, box),
         NEW p \in Players, NEW m \in DOMAIN box[p], NEW row, row.to = p,
         NEW g, g = [f EXCEPT ![m] = row]
  PROVE  /\ MailMemory(g, lo, [box EXCEPT ![p][m] = row])
         /\ \A x \in Players \ lo : RowsKept(x, f, g)
<1>1. p \in lo /\ m \in DOMAIN f /\ f[m].to = p
  BY DEF MailMemory
<1>2. DOMAIN g = DOMAIN f /\ g[m] = row /\ \A n \in DOMAIN f \ {m} : g[n] = f[n]
  BY <1>1
<1>3. PICK b : b = [box EXCEPT ![p][m] = row]
  OBVIOUS
<1>4. /\ \A x \in Players \ {p} : b[x] = box[x]
      /\ DOMAIN b[p] = DOMAIN box[p] /\ b[p][m] = row /\ \A n \in DOMAIN box[p] \ {m} : b[p][n] = box[p][n]
  BY <1>3
<1>5. MailMemory(g, lo, b)
  <2> SUFFICES ASSUME NEW x \in Players, NEW n \in DOMAIN b[x]
               PROVE  x \in lo /\ n \in DOMAIN g /\ g[n] = b[x][n] /\ g[n].to = x
    BY DEF MailMemory
  <2>1. x \in lo /\ n \in DOMAIN f /\ f[n] = box[x][n] /\ f[n].to = x
    BY <1>4 DEF MailMemory
  <2>2. CASE x = p /\ n = m
    BY <1>1, <1>2, <1>4, <2>2
  <2>3. CASE ~(x = p /\ n = m)
    <3>1. n # m
      BY <1>1, <2>1, <2>3
    <3>2. b[x][n] = box[x][n]
      BY <1>4, <3>1
    <3> QED
      BY <1>2, <2>1, <3>1, <3>2
  <2> QED
    BY <2>2, <2>3
<1>6. \A x \in Players \ lo : RowsKept(x, f, g)
  BY <1>1, <1>2 DEF RowsKept
<1> QED
  BY <1>3, <1>5, <1>6

LEMMA BoxDelete ==
  ASSUME NEW f, IsMails(f), NEW box, DOMAIN box = Players, NEW lo, MailMemory(f, lo, box),
         NEW p \in Players, NEW m \in DOMAIN box[p],
         NEW g, g = Delete(f, {m})
  PROVE  /\ MailMemory(g, lo, [box EXCEPT ![p] = Delete(@, {m})])
         /\ \A x \in Players \ lo : RowsKept(x, f, g)
<1>1. p \in lo /\ m \in DOMAIN f /\ f[m].to = p
  BY DEF MailMemory
<1>2. Deleted(f, {m}, g)
  BY DeleteFacts
<1>3. PICK c, b : c = Delete(box[p], {m}) /\ b = [box EXCEPT ![p] = c]
  OBVIOUS
<1>4. Deleted(box[p], {m}, c) /\ b[p] = c /\ \A x \in Players \ {p} : b[x] = box[x]
  BY <1>3, DeleteFacts
<1>5. MailMemory(g, lo, b)
  <2> SUFFICES ASSUME NEW x \in Players, NEW n \in DOMAIN b[x]
               PROVE  x \in lo /\ n \in DOMAIN g /\ g[n] = b[x][n] /\ g[n].to = x
    BY DEF MailMemory
  <2>1. n \in DOMAIN box[x] /\ b[x][n] = box[x][n] /\ (x = p => n # m)
    BY <1>4 DEF Deleted
  <2>2. x \in lo /\ n \in DOMAIN f /\ f[n] = box[x][n] /\ f[n].to = x
    BY <2>1 DEF MailMemory
  <2>3. n # m
    BY <1>1, <2>1, <2>2
  <2> QED
    BY <1>2, <2>1, <2>2, <2>3 DEF Deleted
<1>6. \A x \in Players \ lo : RowsKept(x, f, g)
  BY <1>1, <1>2 DEF RowsKept, Deleted
<1> QED
  BY <1>3, <1>5, <1>6

\* The purse of one player changes; items come to him or leave him.
Pays(p, v, bag) ==
  /\ DOMAIN money' = Players /\ DOMAIN bags' = Players
  /\ \A x \in Players : /\ money'[x] = IF x = p THEN v ELSE money[x]
                        /\ bags'[x] = IF x = p THEN bag ELSE bags[x]

\* A handler that changes the gold and the bags of one player.
LEMMA PurseStep ==
  ASSUME StoreTypes, NEW F, IsStore(F), PurseMemory(F, online, money, bags),
         NEW p \in Players, online[p] = "in", UNCHANGED online,
         NEW v, NEW bag, NEW G, G.money = [F.money EXCEPT ![p] = v],
         \A j \in Items : G.inv[j] = F.inv[j] \/ (F.inv[j] \in {p, Nobody} /\ G.inv[j] \in {p, Nobody}),
         {j \in Items : G.inv[j] = p} = bag,
         Pays(p, v, bag)
  PROVE  /\ PurseMemory(G, online', money', bags')
         /\ \A x \in Players : online[x] # "in" => Purse(F, x) = Purse(G, x)
         /\ DOMAIN money' = Players /\ DOMAIN bags' = Players
<1>1. /\ money'[p] = v /\ bags'[p] = bag /\ DOMAIN money' = Players /\ DOMAIN bags' = Players
      /\ \A x \in Players \ {p} : money'[x] = money[x] /\ bags'[x] = bags[x]
  BY DEF Pays
<1>2. G.money[p] = v /\ \A x \in Players \ {p} : G.money[x] = F.money[x]
  BY DEF IsStore
<1>3. ASSUME NEW x \in Players \ {p}
      PROVE  {j \in Items : G.inv[j] = x} = {j \in Items : F.inv[j] = x}
  <2>1. x # Nobody
    BY StoreAssumption
  <2> QED
    BY <2>1
<1>4. PurseMemory(G, online', money', bags')
  <2> SUFFICES ASSUME NEW x \in Players, online[x] = "in"
               PROVE  G.money[x] = money'[x] /\ {j \in Items : G.inv[j] = x} = bags'[x]
    BY DEF PurseMemory
  <2>1. CASE x = p
    BY <1>1, <1>2, <2>1
  <2>2. CASE x # p
    BY <1>1, <1>2, <1>3, <2>2 DEF PurseMemory
  <2> QED
    BY <2>1, <2>2
<1>5. \A x \in Players : online[x] # "in" => Purse(F, x) = Purse(G, x)
  BY <1>2, <1>3 DEF Purse
<1> QED
  BY <1>1, <1>4, <1>5

\* An auction ends.
LEMMA ForgetStep ==
  ASSUME NEW F, Fine(F), HouseMemory(F.auc, AuctionsMap, mAitems), NEW id \in DOMAIN AuctionsMap, Forget(id),
         NEW g, g = Delete(F.auc, {id})
  PROVE  HouseMemory(g, AuctionsMap', mAitems') /\ auctionId' = auctionId
<1>1. PICK a : a = F.auc[id]
  OBVIOUS
<1>2. /\ F.auc = AuctionsMap /\ mAitems = {AuctionsMap[k].item : k \in DOMAIN AuctionsMap}
      /\ AuctionsMap' = g /\ mAitems' = mAitems \ {a.item} /\ auctionId' = auctionId
  BY <1>1 DEF HouseMemory, Forget
<1>3. Deleted(F.auc, {id}, g) /\ id \in DOMAIN F.auc
  BY <1>2, DeleteFacts
<1>4. IsAuction(a)
  BY <1>1, <1>3 DEF Fine, IsStore, IsAuctions
<1>5. \A k \in DOMAIN F.auc : F.auc[k].item = a.item => k = id
  <2>1. a.item \in Items
    BY <1>4 DEF IsAuction
  <2>2. id \in With(F.auc, a.item)
    BY <1>1, <1>3 DEF With
  <2>3. \E k : With(F.auc, a.item) = {k}
    BY <2>1, <2>2 DEF Fine, Absent, Placed, Bagged, Mailed, Offered
  <2>4. With(F.auc, a.item) = {id}
    BY <2>2, <2>3
  <2> QED
    BY <2>4 DEF With
<1>6. mAitems' = {g[k].item : k \in DOMAIN g}
  <2>1. mAitems = {F.auc[k].item : k \in DOMAIN F.auc}
    BY <1>2
  <2>2. ASSUME NEW i \in mAitems'
        PROVE  \E k \in DOMAIN g : g[k].item = i
    <3>1. PICK k \in DOMAIN F.auc : F.auc[k].item = i /\ i # a.item
      BY <1>2, <2>1, <2>2
    <3>2. k \in DOMAIN g /\ g[k] = F.auc[k]
      BY <1>1, <1>3, <3>1 DEF Deleted
    <3> QED
      BY <3>1, <3>2
  <2>3. ASSUME NEW k \in DOMAIN g
        PROVE  g[k].item \in mAitems'
    <3>1. k \in DOMAIN F.auc \ {id} /\ g[k] = F.auc[k]
      BY <1>3 DEF Deleted
    <3>2. g[k].item \in mAitems /\ g[k].item # a.item
      BY <1>5, <2>1, <3>1
    <3> QED
      BY <1>2, <3>2
  <2> QED
    BY <2>2, <2>3
<1> QED
  BY <1>2, <1>6 DEF HouseMemory

-----------------------------------------------------------------------------
(* What a handler has to see to.                                           *)

PursePart(F, G) ==
  /\ PurseMemory(G, online', money', bags') /\ DOMAIN money' = Players /\ DOMAIN bags' = Players
  /\ \A x \in Players : online[x] # "in" => Purse(F, x) = Purse(G, x)
MailPart(F, G) ==
  /\ MailMemory(G.mail, mailsLoaded, mails') /\ DOMAIN mails' = Players /\ mailsLoaded' = mailsLoaded
  /\ Held(mails', mMitems') /\ DOMAIN mMitems' = Players
  /\ mailId' \in Nat \ {0} /\ mailId <= mailId' /\ \A m \in DOMAIN G.mail : m < mailId'
  /\ \A x \in Players \ mailsLoaded : RowsKept(x, F.mail, G.mail)
HousePart(G) ==
  /\ HouseMemory(G.auc, AuctionsMap', mAitems')
  /\ auctionId' \in Nat \ {0} /\ auctionId <= auctionId' /\ \A id \in DOMAIN G.auc : id < auctionId'

LEMMA AllParts ==
  ASSUME StoreTypes, NEW t, Commit(<<t>>), UNCHANGED <<online, fetched>>,
         NEW F, NEW G, Fine(G), PursePart(F, G), MailPart(F, G), HousePart(G)
  PROVE  Done(F, G)
<1>1. Queues(queue, t, queue') /\ UNCHANGED <<db, up, crashes>>
  BY CommitOne
<1>2. StoreTypes'
  BY <1>1 DEF StoreTypes, Queues, PursePart, MailPart, HousePart
<1>3. Current(G)'
  BY DEF Current, Below, PursePart, MailPart, HousePart
<1>4. Quiet(F, G, online, mailsLoaded)
  BY DEF Quiet, MailKept, PursePart, MailPart
<1> QED
  BY <1>2, <1>3, <1>4 DEF Done, MailPart, HousePart

LEMMA HouseSame ==
  ASSUME StoreTypes, NEW F, Current(F), UNCHANGED auctionVars, NEW G, G.auc = F.auc
  PROVE  HousePart(G)
  BY DEF StoreTypes, Current, Below, HousePart, auctionVars

LEMMA MailsSame ==
  ASSUME StoreTypes, NEW F, Current(F), UNCHANGED mailVars, NEW G, G.mail = F.mail
  PROVE  MailPart(F, G)
<1>1. \A x : RowsKept(x, F.mail, G.mail)
  BY DEF RowsKept
<1> QED
  BY <1>1 DEF StoreTypes, Current, Below, MailPart, mailVars

LEMMA PurseSame ==
  ASSUME StoreTypes, NEW F, Current(F), UNCHANGED playerVars, NEW G, G.money = F.money, G.inv = F.inv
  PROVE  PursePart(F, G)
  BY DEF StoreTypes, Current, PurseMemory, PursePart, Purse, playerVars

Applied(F, t, G) == G = Apply(F, t)
ItemsKept(F, G) == LogTrade => \A i \in Items : Placed(F, i) => Placed(G, i) \/ i \in G.thrown
GoldKept(F, G) == IsFiniteSet(Players) => GoldIn(G) = GoldIn(F)

\* A handler that commits one transaction.
Settles(F) ==
  \E t : \E G : /\ Commit(<<t>>) /\ t.load = {} /\ Applied(F, t, G)
                /\ Done(F, G) /\ ItemsKept(F, G) /\ GoldKept(F, G)

LEMMA ModifyNat ==
  ASSUME NEW amount \in Nat, amount <= MaxMoney, NEW d \in Int, d <= MaxMoney
  PROVE  ModifyMoney(amount, d) \in Nat /\ ModifyMoney(amount, d) <= MaxMoney
  BY StoreAssumption DEF ModifyMoney, Above, RoomFor

LEMMA ModifySum ==
  ASSUME NEW amount \in Nat, NEW d \in Int, amount + d >= 0, amount + d <= MaxMoney
  PROVE  ModifyMoney(amount, d) = amount + d
  BY StoreAssumption DEF ModifyMoney, Above, RoomFor

LEMMA ModSmall ==
  ASSUME NEW n \in Nat, NEW w \in Nat, n < w
  PROVE  n % w = n
  OBVIOUS

LEMMA SignedSmall ==
  ASSUME NEW n \in Nat, NEW w \in Nat, 2 * n < w
  PROVE  Signed(n, w) = n /\ Minus(n, w) = {-n}
  BY DEF Signed, Minus

LEMMA GoldNat ==
  ASSUME IsFiniteSet(Players), NEW F, IsStore(F)
  PROVE  /\ SumFunction(F.money) \in Nat /\ Posted(F.mail) \in Nat /\ Staked(F.auc) \in Nat
         /\ F.spent \in Int
         /\ \A p \in Players : F.money[p] \in Nat /\ F.money[p] <= SumFunction(F.money)
         /\ \A p, q \in Players : p # q => F.money[p] + F.money[q] <= SumFunction(F.money)
<1>1. Amounted(F.money) /\ DOMAIN F.money = Players
  BY DEF IsStore, Amounted
<1>2. PICK a, b, c, d : a = SumFunction(F.money) /\ b = Posted(F.mail) /\ c = Staked(F.auc) /\ d = F.spent
  OBVIOUS
<1>3. a \in Nat /\ b \in Nat /\ c \in Nat /\ d \in Int
  BY <1>1, <1>2, SumNat, PostedNat, StakedNat DEF IsStore
<1>6. \A p \in Players : F.money[p] \in Nat /\ F.money[p] <= SumFunction(F.money)
  BY <1>1, SumTwo DEF IsStore
<1>7. \A p, q \in Players : p # q => F.money[p] + F.money[q] <= SumFunction(F.money)
  BY <1>1, SumTwo
<1> QED
  BY <1>2, <1>3, <1>6, <1>7

\* What one player pays or gets, mails, auctions and fees balance.
LEMMA Balance ==
  ASSUME IsFiniteSet(Players), NEW F, IsStore(F), NEW G, IsStore(G), NEW p \in Players, NEW v \in Nat,
         G.money = [F.money EXCEPT ![p] = v],
         v - F.money[p] + (Posted(G.mail) - Posted(F.mail)) + (Staked(G.auc) - Staked(F.auc))
           + (G.spent - F.spent) = 0
  PROVE  GoldIn(G) = GoldIn(F)
<1>1. SumFunction(G.money) = SumFunction(F.money) - F.money[p] + v
  BY PurseSet DEF IsStore
<1>2. PICK a, b, c, d, x : a = SumFunction(F.money) /\ b = Posted(F.mail) /\ c = Staked(F.auc) /\ d = F.spent
                           /\ x = F.money[p]
  OBVIOUS
<1>3. PICK e, g, h : e = Posted(G.mail) /\ g = Staked(G.auc) /\ h = G.spent
  OBVIOUS
<1>4. /\ a \in Nat /\ b \in Nat /\ c \in Nat /\ d \in Int /\ x \in Nat
      /\ e \in Nat /\ g \in Nat /\ h \in Int
  BY <1>2, <1>3, GoldNat DEF IsStore
<1>5. GoldIn(F) = a + b + c + d /\ GoldIn(G) = (a - x + v) + e + g + h
  BY <1>1, <1>2, <1>3, GoldParts
<1>6. v - x + (e - b) + (g - c) + (h - d) = 0
  BY <1>2, <1>3
<1> QED
  BY <1>4, <1>5, <1>6

-----------------------------------------------------------------------------
(* The parts of a transaction t that turns the tables F into G.            *)

LEMMA MoneyOne ==
  ASSUME NEW F, IsStore(F), NEW t, NEW G, Applied(F, t, G), NEW p \in Players, NEW v, t.money = OneRow(p, v)
  PROVE  G.money = [F.money EXCEPT ![p] = v]
<1>1. G.money = Update(F.money, t.money)
  BY DEF Applied, Apply
<1>2. IsMap(F.money) /\ p \in DOMAIN F.money
  BY DEF IsStore, IsMap
<1> QED
  BY <1>1, <1>2, OneWritten

LEMMA MoneyNone ==
  ASSUME NEW F, IsStore(F), NEW t, NEW G, Applied(F, t, G), t.money = NoRows
  PROVE  G.money = F.money
<1>1. G.money = Update(F.money, t.money)
  BY DEF Applied, Apply
<1>2. IsMap(F.money)
  BY DEF IsStore, IsMap
<1> QED
  BY <1>1, <1>2, NothingWritten

LEMMA InvOne ==
  ASSUME NEW F, IsStore(F), NEW t, NEW G, Applied(F, t, G), NEW i \in Items, NEW v, t.inv = OneRow(i, v)
  PROVE  G.inv = [F.inv EXCEPT ![i] = v]
<1>1. G.inv = Update(F.inv, t.inv)
  BY DEF Applied, Apply
<1>2. IsMap(F.inv) /\ i \in DOMAIN F.inv
  BY DEF IsStore, IsMap
<1> QED
  BY <1>1, <1>2, OneWritten

LEMMA InvNone ==
  ASSUME NEW F, IsStore(F), NEW t, NEW G, Applied(F, t, G), t.inv = NoRows
  PROVE  G.inv = F.inv
<1>1. G.inv = Update(F.inv, t.inv)
  BY DEF Applied, Apply
<1>2. IsMap(F.inv)
  BY DEF IsStore, IsMap
<1> QED
  BY <1>1, <1>2, NothingWritten

LEMMA MailNone ==
  ASSUME NEW F, IsStore(F), NEW t, NEW G, Applied(F, t, G),
         t.mail = NoRows, t.mailSet = NoRows /\ t.unitem = {}, t.unmail = {}
  PROVE  G.mail = F.mail
<1>1. G.mail = Delete(Unlist(SaveMails(Insert(F.mail, t.mail), t.mailSet), t.unitem), t.unmail)
  BY DEF Applied, Apply
<1>2. IsMap(F.mail)
  BY DEF IsStore, IsMails, IsTable
<1> QED
  BY <1>1, <1>2, NothingWritten

LEMMA MailInsert ==
  ASSUME NEW F, IsStore(F), NEW t, NEW G, Applied(F, t, G),
         NEW rows, t.mail = rows, t.mailSet = NoRows /\ t.unitem = {}, t.unmail = {}
  PROVE  G.mail = Insert(F.mail, rows)
<1>1. G.mail = Delete(Unlist(SaveMails(Insert(F.mail, rows), t.mailSet), t.unitem), t.unmail)
  BY DEF Applied, Apply
<1>2. PICK h : h = Insert(F.mail, rows)
  OBVIOUS
<1>3. IsMap(h)
  BY <1>2, InsertFacts DEF Inserted
<1> QED
  BY <1>1, <1>2, <1>3, NothingWritten

\* row is what the mail o becomes when the items of K leave it.
Rewrites(o, K, row) ==
  row = [from |-> o.from, to |-> o.to, money |-> row.money, cod |-> row.cod,
         item |-> IF o.item \in K THEN Nothing ELSE o.item]

\* A mail fits into the 32 bits of CHAR_UPD_MAIL.
LEMMA SavedRow ==
  ASSUME NEW m, NEW row, IsLetter(row)
  PROVE  SavedMail(m, row) = OneRow(m, [money |-> row.money, cod |-> row.cod])
<1>1. row.money \in Nat /\ row.cod \in Nat /\ row.money < Word /\ row.cod < Word /\ Word \in Nat
  BY MailAssumption DEF IsLetter
<1>2. row.money % Word = row.money /\ row.cod % Word = row.cod
  BY <1>1, ModSmall
<1> QED
  BY <1>2 DEF SavedMail

LEMMA SavedWritten ==
  ASSUME NEW h, IsMails(h), NEW m \in DOMAIN h, NEW row, IsLetter(row), NEW K, Rewrites(h[m], K, row),
         \A k \in DOMAIN h \ {m} : h[k].item \notin K
  PROVE  Unlist(SaveMails(h, SavedMail(m, row)), K) = [h EXCEPT ![m] = row]
<1>1. PICK s : s = SavedMail(m, row)
  OBVIOUS
<1>2. DOMAIN s = {m} /\ s[m] = [money |-> row.money, cod |-> row.cod]
  BY <1>1, SavedRow DEF OneRow
<1>3. s[m].money = row.money /\ s[m].cod = row.cod
  BY <1>2
<1>4. PICK e : e = SaveMails(h, s)
  OBVIOUS
<1>5. /\ DOMAIN e = DOMAIN h /\ \A k \in DOMAIN h \ {m} : e[k] = h[k]
      /\ e[m] = [h[m] EXCEPT !.money = s[m].money, !.cod = s[m].cod]
  BY <1>2, <1>4 DEF SaveMails
<1>6. e[m] = [from |-> h[m].from, to |-> h[m].to, money |-> row.money, cod |-> row.cod, item |-> h[m].item]
  <2>1. h[m] \in [from : Players \cup {Nobody}, to : Players, money : Nat, cod : Nat,
                  item : Items \cup {Nothing}]
    BY DEF IsMails, IsLetter
  <2> QED
    BY <1>3, <1>5, <2>1
<1>7. PICK u, g : u = Unlist(e, K) /\ g = [h EXCEPT ![m] = row]
  OBVIOUS
<1>8. DOMAIN u = DOMAIN h /\ DOMAIN g = DOMAIN h /\ IsMap(u) /\ IsMap(g)
  BY <1>5, <1>7 DEF Unlist, IsMap
<1>9. ASSUME NEW k \in DOMAIN h \ {m} PROVE u[k] = g[k]
  BY <1>5, <1>7, <1>9 DEF Unlist
<1>10. u[m] = g[m]
  <2>1. g[m] = row
    BY <1>7
  <2>2. e[m].item = h[m].item
    BY <1>6
  <2>3. u[m] = IF e[m].item \in K THEN [e[m] EXCEPT !.item = Nothing] ELSE e[m]
    BY <1>5, <1>7 DEF Unlist
  <2>4. row = [from |-> h[m].from, to |-> h[m].to, money |-> row.money, cod |-> row.cod,
               item |-> IF h[m].item \in K THEN Nothing ELSE h[m].item]
    BY DEF Rewrites
  <2>5. CASE h[m].item \in K
    BY <1>6, <2>1, <2>2, <2>3, <2>4, <2>5
  <2>6. CASE h[m].item \notin K
    BY <1>6, <2>1, <2>2, <2>3, <2>4, <2>6
  <2> QED
    BY <2>5, <2>6
<1>11. u = g
  BY <1>8, <1>9, <1>10 DEF IsMap
<1> QED
  BY <1>1, <1>4, <1>7, <1>11

\* One mail is changed, and others are sent.
LEMMA MailSet ==
  ASSUME NEW F, IsStore(F), NEW t, NEW G, Applied(F, t, G), NEW m \in DOMAIN F.mail, NEW row, IsLetter(row),
         NEW rows, IsMails(rows), t.mail = rows, DOMAIN F.mail \cap DOMAIN rows = {},
         t.mailSet = SavedMail(m, row), NEW K, t.unitem = K, t.unmail = {}, Rewrites(F.mail[m], K, row),
         \A k \in DOMAIN F.mail \ {m} : F.mail[k].item \notin K,
         \A k \in DOMAIN rows : rows[k].item \notin K
  PROVE  G.mail = Insert([F.mail EXCEPT ![m] = row], rows)
<1>1. G.mail = Delete(Unlist(SaveMails(Insert(F.mail, rows), t.mailSet), t.unitem), t.unmail)
  BY DEF Applied, Apply
<1>2. PICK h, g, f : h = Insert(F.mail, rows) /\ g = [h EXCEPT ![m] = row] /\ f = [F.mail EXCEPT ![m] = row]
  OBVIOUS
<1>3. Inserted(F.mail, rows, h)
  BY <1>2, InsertFacts
<1>4. IsMap(h) /\ m \in DOMAIN h /\ h[m] = F.mail[m] /\ \A k \in DOMAIN h \ {m} : h[k].item \notin K
  BY <1>3 DEF Inserted
<1>5. Unlist(SaveMails(h, SavedMail(m, row)), K) = g /\ IsMap(g)
  <2>1. IsMails(h)
    BY <1>2, MailsInsert DEF IsStore
  <2>2. Rewrites(h[m], K, row)
    BY <1>4
  <2>3. IsMap(g)
    BY <1>2, <1>4 DEF IsMap
  <2>4. Unlist(SaveMails(h, SavedMail(m, row)), K) = [h EXCEPT ![m] = row]
    BY <1>4, <2>1, <2>2, SavedWritten
  <2> QED
    BY <1>2, <2>3, <2>4
<1>6. G.mail = g
  BY <1>1, <1>2, <1>5, NothingWritten
<1>7. g = Insert(f, rows)
  <2>1. PICK e : e = Insert(f, rows)
    OBVIOUS
  <2>2. Inserted(f, rows, e) /\ DOMAIN f = DOMAIN F.mail
    BY <1>2, <2>1, InsertFacts
  <2>3. DOMAIN e = DOMAIN g
    BY <1>2, <1>3, <2>2 DEF Inserted
  <2>4. ASSUME NEW k \in DOMAIN g
        PROVE  g[k] = e[k]
    <3>1. g[k] = (IF k = m THEN row ELSE h[k]) /\ k \in DOMAIN h
      BY <1>2, <2>4
    <3>2. h[k] = (IF k \in DOMAIN rows THEN rows[k] ELSE F.mail[k]) /\ k \in DOMAIN F.mail \cup DOMAIN rows
      BY <1>3, <3>1 DEF Inserted
    <3>3. e[k] = IF k \in DOMAIN rows THEN rows[k] ELSE f[k]
      BY <2>2, <2>3 DEF Inserted
    <3>4. m \notin DOMAIN rows
      OBVIOUS
    <3>5. k \in DOMAIN F.mail => f[k] = IF k = m THEN row ELSE F.mail[k]
      BY <1>2
    <3> QED
      BY <3>1, <3>2, <3>3, <3>4, <3>5
  <2> QED
    BY <1>5, <2>1, <2>2, <2>3, <2>4 DEF IsMap, Inserted
<1> QED
  BY <1>2, <1>6, <1>7

\* One mail is deleted, and others are sent.
LEMMA MailDelete ==
  ASSUME NEW F, IsStore(F), NEW t, NEW G, Applied(F, t, G), NEW m \in DOMAIN F.mail,
         NEW rows, t.mail = rows, DOMAIN F.mail \cap DOMAIN rows = {}, t.mailSet = NoRows /\ t.unitem = {}, t.unmail = {m}
  PROVE  G.mail = Insert(Delete(F.mail, {m}), rows)
<1>1. G.mail = Delete(Unlist(SaveMails(Insert(F.mail, rows), t.mailSet), t.unitem), t.unmail)
  BY DEF Applied, Apply
<1>2. PICK h, g, f, e : /\ h = Insert(F.mail, rows) /\ g = Delete(h, {m})
                        /\ f = Delete(F.mail, {m}) /\ e = Insert(f, rows)
  OBVIOUS
<1>3. /\ Inserted(F.mail, rows, h) /\ Deleted(h, {m}, g)
      /\ Deleted(F.mail, {m}, f) /\ Inserted(f, rows, e)
  BY <1>2, InsertFacts, DeleteFacts
<1>4. G.mail = g
  BY <1>1, <1>2, <1>3, NothingWritten DEF Inserted
<1>5. DOMAIN g = DOMAIN e /\ \A k \in DOMAIN g : g[k] = e[k]
  BY <1>3 DEF Inserted, Deleted
<1>6. g = e
  BY <1>3, <1>5 DEF IsMap, Inserted, Deleted
<1> QED
  BY <1>2, <1>4, <1>6

LEMMA AucNone ==
  ASSUME NEW F, IsStore(F), NEW t, NEW G, Applied(F, t, G),
         t.auc = NoRows, t.aucSet = NoRows, t.unauc = {}
  PROVE  G.auc = F.auc
<1>1. G.auc = Delete(Update(Insert(F.auc, t.auc), t.aucSet), t.unauc)
  BY DEF Applied, Apply
<1>2. IsMap(F.auc)
  BY DEF IsStore, IsAuctions, IsTable
<1> QED
  BY <1>1, <1>2, NothingWritten

LEMMA AucInsert ==
  ASSUME NEW F, IsStore(F), NEW t, NEW G, Applied(F, t, G),
         NEW rows, t.auc = rows, t.aucSet = NoRows, t.unauc = {}
  PROVE  G.auc = Insert(F.auc, rows)
<1>1. G.auc = Delete(Update(Insert(F.auc, rows), t.aucSet), t.unauc)
  BY DEF Applied, Apply
<1>2. PICK h : h = Insert(F.auc, rows)
  OBVIOUS
<1>3. IsMap(h)
  BY <1>2, InsertFacts DEF Inserted
<1> QED
  BY <1>1, <1>2, <1>3, NothingWritten

LEMMA AucSet ==
  ASSUME NEW F, IsStore(F), NEW t, NEW G, Applied(F, t, G), NEW id \in DOMAIN F.auc, NEW row,
         t.auc = NoRows, t.aucSet = OneRow(id, row), t.unauc = {}
  PROVE  G.auc = [F.auc EXCEPT ![id] = row]
<1>1. G.auc = Delete(Update(Insert(F.auc, t.auc), t.aucSet), t.unauc)
  BY DEF Applied, Apply
<1>2. IsMap(F.auc)
  BY DEF IsStore, IsAuctions, IsTable
<1>3. PICK h : h = [F.auc EXCEPT ![id] = row]
  OBVIOUS
<1>4. Update(F.auc, OneRow(id, row)) = h /\ IsMap(h)
  BY <1>2, <1>3, OneWritten DEF IsMap
<1> QED
  BY <1>1, <1>2, <1>3, <1>4, NothingWritten

LEMMA AucDelete ==
  ASSUME NEW F, IsStore(F), NEW t, NEW G, Applied(F, t, G), NEW K,
         t.auc = NoRows, t.aucSet = NoRows, t.unauc = K
  PROVE  G.auc = Delete(F.auc, K)
<1>1. G.auc = Delete(Update(Insert(F.auc, t.auc), t.aucSet), K)
  BY DEF Applied, Apply
<1>2. IsMap(F.auc)
  BY DEF IsStore, IsAuctions, IsTable
<1> QED
  BY <1>1, <1>2, NothingWritten

LEMMA SpentSum ==
  ASSUME NEW F, NEW t, NEW G, Applied(F, t, G)
  PROVE  G.spent = F.spent + t.spent
  BY DEF Applied, Apply

Put(f, k, row, g) == g = [f EXCEPT ![k] = row]
Add(f, rows, g) == g = Insert(f, rows)
Del(f, k, g) == g = Delete(f, {k})

LEMMA PutMail ==
  ASSUME NEW f, IsMails(f), NEW m \in DOMAIN f, NEW row, IsLetter(row), NEW g, Put(f, m, row, g)
  PROVE  /\ IsMails(g) /\ DOMAIN g = DOMAIN f /\ Posted(g) = Posted(f) - f[m].money + row.money
         /\ \A i : With(g, i) = (With(f, i) \ {m}) \cup (IF row.item = i THEN {m} ELSE {})
<1>1. IsMails(g)
  BY MailsSet DEF Put
<1>2. DOMAIN g = DOMAIN f
  BY DEF Put
<1>3. Posted(g) = Posted(f) - f[m].money + row.money
  BY PostedSet DEF Put
<1>4. \A i : With(g, i) = (With(f, i) \ {m}) \cup (IF row.item = i THEN {m} ELSE {})
  BY <1>2 DEF Put, With
<1> QED
  BY <1>1, <1>2, <1>3, <1>4

Apart(f, g) == DOMAIN f \cap DOMAIN g = {}
Added(f, rows, g) ==
  /\ IsMails(g) /\ DOMAIN g = DOMAIN f \cup DOMAIN rows /\ Posted(g) = Posted(f) + Posted(rows)
  /\ \A i : With(g, i) = With(f, i) \cup With(rows, i)
Removed(f, m, g) ==
  /\ IsMails(g) /\ DOMAIN g = DOMAIN f \ {m} /\ Posted(g) = Posted(f) - f[m].money
  /\ \A i : With(g, i) = With(f, i) \ {m}

LEMMA AddMail ==
  ASSUME NEW f, IsMails(f), NEW rows, IsMails(rows), Apart(f, rows), NEW g, Add(f, rows, g)
  PROVE  Added(f, rows, g)
<1>1. IsMails(g)
  BY MailsInsert DEF Add
<1>2. Inserted(f, rows, g)
  BY InsertFacts DEF Add
<1>3. Posted(g) = Posted(f) + Posted(rows)
  BY PostedInsert DEF Add, Apart
<1>4. \A i : With(g, i) = With(f, i) \cup With(rows, i)
  BY WithInsert DEF Add, Apart
<1> QED
  BY <1>1, <1>2, <1>3, <1>4 DEF Inserted, Added

LEMMA DelMail ==
  ASSUME NEW f, IsMails(f), NEW m \in DOMAIN f, NEW g, Del(f, m, g)
  PROVE  Removed(f, m, g)
<1>1. IsMails(g)
  BY MailsDelete DEF Del
<1>2. Deleted(f, {m}, g)
  BY DeleteFacts DEF Del
<1>3. Posted(g) = Posted(f) - f[m].money
  BY PostedDelete DEF Del
<1>4. \A i : With(g, i) = With(f, i) \ {m}
  BY WithDelete DEF Del
<1> QED
  BY <1>1, <1>2, <1>3, <1>4 DEF Deleted, Removed

LEMMA PutAuction ==
  ASSUME NEW f, IsAuctions(f), NEW m \in DOMAIN f, NEW row, IsAuction(row), NEW g, Put(f, m, row, g)
  PROVE  /\ IsAuctions(g) /\ DOMAIN g = DOMAIN f
         /\ Staked(g) = Staked(f) - (f[m].bid + f[m].deposit) + (row.bid + row.deposit)
         /\ \A i : With(g, i) = (With(f, i) \ {m}) \cup (IF row.item = i THEN {m} ELSE {})
<1>1. IsAuctions(g)
  BY AuctionsSet DEF Put
<1>2. DOMAIN g = DOMAIN f
  BY DEF Put
<1>3. Staked(g) = Staked(f) - (f[m].bid + f[m].deposit) + (row.bid + row.deposit)
  BY StakedSet DEF Put
<1>4. \A i : With(g, i) = (With(f, i) \ {m}) \cup (IF row.item = i THEN {m} ELSE {})
  BY <1>2 DEF Put, With
<1> QED
  BY <1>1, <1>2, <1>3, <1>4

AddedAuction(f, id, a, g) ==
  /\ IsAuctions(g) /\ DOMAIN g = DOMAIN f \cup {id} /\ Staked(g) = Staked(f) + a.bid + a.deposit
  /\ \A k \in DOMAIN g : g[k] = IF k = id THEN a ELSE f[k]
  /\ \A i : With(g, i) = With(f, i) \cup (IF a.item = i THEN {id} ELSE {})

LEMMA AddAuction ==
  ASSUME NEW f, IsAuctions(f), NEW id \in Nat \ DOMAIN f, NEW a, IsAuction(a), NEW g, Add(f, OneRow(id, a), g)
  PROVE  AddedAuction(f, id, a, g)
<1>1. IsAuctions(g)
  BY AuctionsInsert DEF Add
<1>2. PICK r : r = OneRow(id, a)
  OBVIOUS
<1>3. DOMAIN r = {id} /\ r[id] = a
  BY <1>2 DEF OneRow
<1>4. Inserted(f, r, g)
  BY <1>2, InsertFacts DEF Add
<1>5. Staked(g) = Staked(f) + a.bid + a.deposit
  BY StakedInsert DEF Add
<1>6. DOMAIN g = DOMAIN f \cup {id} /\ \A k \in DOMAIN g : g[k] = IF k = id THEN a ELSE f[k]
  BY <1>3, <1>4 DEF Inserted
<1>7. \A i : With(g, i) = With(f, i) \cup (IF a.item = i THEN {id} ELSE {})
  BY <1>6 DEF With
<1> QED
  BY <1>1, <1>5, <1>6, <1>7 DEF AddedAuction

LEMMA DelAuction ==
  ASSUME NEW f, IsAuctions(f), NEW m \in DOMAIN f, NEW g, Del(f, m, g)
  PROVE  /\ IsAuctions(g) /\ DOMAIN g = DOMAIN f \ {m}
         /\ Staked(g) = Staked(f) - (f[m].bid + f[m].deposit)
         /\ \A i : With(g, i) = With(f, i) \ {m}
<1>1. IsAuctions(g)
  BY AuctionsDelete DEF Del
<1>2. Deleted(f, {m}, g)
  BY DeleteFacts DEF Del
<1>3. Staked(g) = Staked(f) - (f[m].bid + f[m].deposit)
  BY StakedDelete DEF Del
<1>4. \A i : With(g, i) = With(f, i) \ {m}
  BY WithDelete DEF Del
<1> QED
  BY <1>1, <1>2, <1>3, <1>4 DEF Deleted

LEMMA PutBox ==
  ASSUME NEW f, IsMails(f), NEW box, DOMAIN box = Players, NEW lo, MailMemory(f, lo, box),
         NEW p \in Players, NEW m \in DOMAIN box[p], NEW row, row.to = p, NEW g, Put(f, m, row, g),
         NEW b, b = [box EXCEPT ![p][m] = row]
  PROVE  MailMemory(g, lo, b) /\ DOMAIN b = Players /\ \A x \in Players \ lo : RowsKept(x, f, g)
<1>1. /\ MailMemory(g, lo, [box EXCEPT ![p][m] = row])
      /\ \A x \in Players \ lo : RowsKept(x, f, g)
  BY BoxSet DEF Put
<1>2. DOMAIN b = Players
  OBVIOUS
<1> QED
  BY <1>1, <1>2

LEMMA DelBox ==
  ASSUME NEW f, IsMails(f), NEW box, DOMAIN box = Players, NEW lo, MailMemory(f, lo, box),
         NEW p \in Players, NEW m \in DOMAIN box[p], NEW g, Del(f, m, g),
         NEW b, b = [box EXCEPT ![p] = Delete(@, {m})]
  PROVE  MailMemory(g, lo, b) /\ DOMAIN b = Players /\ \A x \in Players \ lo : RowsKept(x, f, g)
<1>1. /\ MailMemory(g, lo, [box EXCEPT ![p] = Delete(@, {m})])
      /\ \A x \in Players \ lo : RowsKept(x, f, g)
  BY BoxDelete DEF Del
<1>2. DOMAIN b = Players
  OBVIOUS
<1> QED
  BY <1>1, <1>2

LEMMA CurrentFacts ==
  ASSUME StoreTypes, NEW F, Current(F)
  PROVE  /\ Fine(F) /\ IsStore(F) /\ IsMails(F.mail) /\ IsAuctions(F.auc) /\ F.spent \in Int
         /\ (\A m \in DOMAIN F.mail : m < mailId) /\ (\A id \in DOMAIN F.auc : id < auctionId)
         /\ PurseMemory(F, online, money, bags) /\ MailMemory(F.mail, mailsLoaded, mails)
         /\ Held(mails, mMitems) /\ HouseMemory(F.auc, AuctionsMap, mAitems)
         /\ F.money \in [Players -> Nat] /\ F.inv \in [Items -> Players \cup {Nobody}]
         /\ \A p \in Players : F.money[p] <= MaxMoney
  BY DEF Current, Fine, IsStore, Below

LEMMA InFacts ==
  ASSUME StoreTypes, NEW F, Current(F), NEW p \in Players, online[p] = "in"
  PROVE  /\ F.money[p] = money[p] /\ money[p] \in Nat /\ money[p] <= MaxMoney
         /\ \A i \in Items : F.inv[i] = p <=> i \in bags[p]
         /\ bags[p] \subseteq Items
<1>1. F.money[p] = money[p] /\ {i \in Items : F.inv[i] = p} = bags[p] /\ F.money \in [Players -> Nat] /\ F.money[p] <= MaxMoney
  BY CurrentFacts DEF PurseMemory
<1> QED
  BY <1>1

LEMMA BoxFacts ==
  ASSUME StoreTypes, NEW F, Current(F), NEW p \in Players, NEW m \in DOMAIN mails[p]
  PROVE  /\ m \in DOMAIN F.mail /\ F.mail[m] = mails[p][m] /\ mails[p][m].to = p /\ IsLetter(mails[p][m])
         /\ p \in mailsLoaded
<1>1. m \in DOMAIN F.mail /\ F.mail[m] = mails[p][m] /\ F.mail[m].to = p /\ p \in mailsLoaded
  BY CurrentFacts DEF MailMemory
<1>2. IsLetter(F.mail[m])
  BY <1>1, CurrentFacts DEF IsMails
<1> QED
  BY <1>1, <1>2

PaysFor(F, G, p, v) ==
  /\ online[p] = "in" /\ UNCHANGED online /\ G.money = [F.money EXCEPT ![p] = v]
  /\ \A j \in Items : G.inv[j] = F.inv[j] \/ (F.inv[j] \in {p, Nobody} /\ G.inv[j] \in {p, Nobody})
  /\ Pays(p, v, {j \in Items : G.inv[j] = p})

LEMMA PurseDone ==
  ASSUME StoreTypes, NEW F, Current(F), NEW p \in Players, NEW v, NEW G, PaysFor(F, G, p, v)
  PROVE  PursePart(F, G)
<1>1. IsStore(F) /\ PurseMemory(F, online, money, bags)
  BY CurrentFacts
<1>2. PICK bag : bag = {j \in Items : G.inv[j] = p}
  OBVIOUS
<1>3. /\ online[p] = "in" /\ UNCHANGED online /\ G.money = [F.money EXCEPT ![p] = v]
      /\ \A j \in Items : G.inv[j] = F.inv[j] \/ (F.inv[j] \in {p, Nobody} /\ G.inv[j] \in {p, Nobody})
      /\ Pays(p, v, bag) /\ {j \in Items : G.inv[j] = p} = bag
  BY <1>2 DEF PaysFor
<1>4. /\ PurseMemory(G, online', money', bags')
      /\ \A x \in Players : online[x] # "in" => Purse(F, x) = Purse(G, x)
      /\ DOMAIN money' = Players /\ DOMAIN bags' = Players
  BY <1>1, <1>3, PurseStep
<1> QED
  BY <1>4 DEF PursePart

-----------------------------------------------------------------------------
(* The mail box.                                                           *)

LEMMA OneLetter ==
  ASSUME mailId \in Nat, NEW l, IsLetter(l), NEW rows, rows = Rows(<<l>>)
  PROVE  /\ NewMails(rows, mailId, 1) /\ Posted(rows) = l.money
         /\ \A i : With(rows, i) = IF l.item = i THEN {mailId} ELSE {}
<1>1. PICK s : s = <<l>>
  OBVIOUS
<1>2. IsLetters(s, 1) /\ s[1] = l
  BY <1>1 DEF IsLetters
<1>3. NewMails(rows, mailId, 1)
  BY <1>1, <1>2, RowsFacts
<1>4. Posted(rows) = l.money
  <2>1. 1 \in 0..3 /\ Worth(s, 1) = s[1].money
    BY DEF Worth
  <2> QED
    BY <1>1, <1>2, <2>1, RowsWorth
<1>5. ASSUME NEW i
      PROVE  With(rows, i) = IF l.item = i THEN {mailId} ELSE {}
  <2>1. \A n \in 1..(1 - 1) : s[n].item # i
    OBVIOUS
  <2>2. With(rows, i) = IF 1 > 0 /\ s[1].item = i THEN {mailId + 1 - 1} ELSE {}
    BY <1>1, <1>2, <2>1, RowsWith
  <2>3. mailId + 1 - 1 = mailId
    OBVIOUS
  <2> QED
    BY <1>2, <2>2, <2>3
<1> QED
  BY <1>3, <1>4, <1>5

LEMMA NoLetter ==
  ASSUME mailId \in Nat, NEW rows, rows = NoRows
  PROVE  /\ NewMails(rows, mailId, 0) /\ Posted(rows) = 0
         /\ \A i : With(rows, i) = {}
<1>1. DOMAIN rows = {} /\ IsMap(rows)
  BY DEF NoRows, IsMap
<1>2. Cardinality({}) = 0 /\ IsFiniteSet({})
  BY FS_EmptySet
<1>3. NewMails(rows, mailId, 0)
  BY <1>1, <1>2 DEF NewMails, IsMails, IsTable
<1>4. Posted(rows) = 0
  BY <1>1, PostedEmpty
<1> QED
  BY <1>1, <1>3, <1>4 DEF With

\* HandleMailTakeMoney: the gold leaves the mail and enters the purse, or is
\* given up.
LEMMA TakeMoneyDone ==
  ASSUME StoreTypes, NEW F, Current(F), NEW p \in Players, NEW m, NEW asked,
         m \in DOMAIN mails[p] => asked \in {0, mails[p][m].money},
         HandleMailTakeMoney(p, m, asked), UNCHANGED auctionVars
  PROVE  Settles(F)
<1>1. PICK old, gold, sum, row :
        /\ old = mails[p][m] /\ gold = old.money /\ sum = ModifyMoney(money[p], Signed(asked, LongWord))
        /\ row = [old EXCEPT !.money = 0]
  OBVIOUS
<1>2. PICK t : t = [NoWrites EXCEPT !.money = GoldRow(p, sum), !.mailSet = SavedMail(m, row),
                                    !.spent = gold - asked]
  OBVIOUS
<1>3. /\ online[p] = "in" /\ m \in DOMAIN mails[p] /\ (money[p] + asked) % LongWord <= MaxMoney
      /\ money' = [money EXCEPT ![p] = sum] /\ mails' = [mails EXCEPT ![p][m] = row]
      /\ Commit(<<t>>) /\ UNCHANGED <<online, fetched, bags, mailsLoaded, mMitems, mailId>>
  BY <1>1, <1>2 DEF HandleMailTakeMoney, In
<1>4. m \in DOMAIN F.mail /\ F.mail[m] = old /\ old.to = p /\ IsLetter(old)
  BY <1>1, <1>3, BoxFacts
<1>5. /\ IsLetter(row) /\ row.to = p /\ row.item = old.item /\ row.money = 0 /\ gold \in Nat /\ gold < Word
      /\ Rewrites(old, {}, row)
  <2>1. /\ old \in [from : Players \cup {Nobody}, to : Players, money : Nat, cod : Nat, item : Items \cup {Nothing}]
        /\ old.cod > 0 => old.from \in Players
        /\ old.money < Word /\ 2 * old.cod < Word /\ 0 < Word
    BY <1>4, MailAssumption DEF IsLetter
  <2>2. row = [from |-> old.from, to |-> old.to, money |-> 0, cod |-> old.cod, item |-> old.item]
    BY <1>1, <2>1
  <2>3. Rewrites(old, {}, row)
    BY <2>2 DEF Rewrites
  <2> QED
    BY <1>1, <1>4, <2>1, <2>2, <2>3 DEF IsLetter
<1>6. /\ F.money[p] = money[p] /\ money[p] \in Nat /\ money[p] <= MaxMoney
      /\ {i \in Items : F.inv[i] = p} = bags[p]
  BY <1>3, InFacts, CurrentFacts DEF PurseMemory
<1>7. sum \in Nat /\ sum <= MaxMoney /\ sum = money[p] + asked /\ asked \in Nat
  <2>1. asked \in Nat /\ asked < Word
    BY <1>1, <1>3, <1>5, MailAssumption
  <2>2. LongWord \in Nat /\ 4 * MaxMoney < LongWord /\ 2 * Word <= LongWord /\ Word \in Nat /\ MaxMoney \in Nat
    BY StoreAssumption, MailAssumption
  <2>3. 2 * asked < LongWord /\ money[p] + asked < LongWord /\ money[p] + asked \in Nat
    BY <1>6, <2>1, <2>2
  <2>4. Signed(asked, LongWord) = asked
    BY <2>1, <2>2, <2>3, SignedSmall
  <2>5. money[p] + asked <= MaxMoney
    <3>1. (money[p] + asked) % LongWord = money[p] + asked
      BY <2>2, <2>3, ModSmall
    <3> QED
      BY <1>3, <3>1
  <2>6. sum = money[p] + asked
    BY <1>1, <1>6, <2>1, <2>2, <2>4, <2>5, ModifySum
  <2> QED
    BY <2>1, <2>3, <2>5, <2>6
<1>8. PICK G : Applied(F, t, G)
  BY DEF Applied
<1>9. /\ t.money = OneRow(p, sum) /\ t.inv = NoRows /\ t.mail = NoRows /\ t.mailSet = SavedMail(m, row)
      /\ t.unitem = {} /\ t.unmail = {} /\ t.auc = NoRows /\ t.aucSet = NoRows /\ t.unauc = {} /\ t.spent = gold - asked /\ t.load = {}
  BY <1>2 DEF NoWrites, GoldRow
<1>10. IsStore(F) /\ IsMails(F.mail) /\ F.spent \in Int
  BY CurrentFacts
<1>11. G.money = [F.money EXCEPT ![p] = sum] /\ G.inv = F.inv /\ G.auc = F.auc /\ G.spent = F.spent + (gold - asked)
  BY <1>8, <1>9, <1>10, MoneyOne, InvNone, AucNone, SpentSum
<1>12. Put(F.mail, m, row, G.mail)
  <2>1. PICK h : h = [F.mail EXCEPT ![m] = row]
    OBVIOUS
  <2>2. IsMap(h) /\ DOMAIN F.mail \cap DOMAIN NoRows = {} /\ DOMAIN NoRows = {}
    BY <2>1 DEF IsMap, NoRows
  <2>3. G.mail = Insert([F.mail EXCEPT ![m] = row], NoRows)
    <3>1. IsMails(NoRows)
      BY NoLetter DEF NewMails, StoreTypes
    <3>2. Rewrites(F.mail[m], {}, row)
      BY <1>4, <1>5
    <3>3. PICK K, none : K = {} /\ none = NoRows
      OBVIOUS
    <3>4. /\ \A k \in DOMAIN F.mail \ {m} : F.mail[k].item \notin K
          /\ \A k \in DOMAIN none : none[k].item \notin K
      BY <3>3
    <3>5. /\ IsMails(none) /\ Rewrites(F.mail[m], K, row) /\ DOMAIN F.mail \cap DOMAIN none = {}
          /\ t.mail = none /\ t.unitem = K
      BY <1>9, <2>2, <3>1, <3>2, <3>3
    <3>6. G.mail = Insert([F.mail EXCEPT ![m] = row], none)
      BY <1>4, <1>5, <1>8, <1>9, <1>10, <3>4, <3>5, MailSet
    <3> QED
      BY <3>3, <3>6
  <2>4. G.mail = h
    BY <2>1, <2>2, <2>3, NothingWritten
  <2> QED
    BY <2>1, <2>4 DEF Put
<1>13. /\ IsMails(G.mail) /\ DOMAIN G.mail = DOMAIN F.mail /\ Posted(G.mail) = Posted(F.mail) - old.money + row.money
       /\ \A i : With(G.mail, i) = (With(F.mail, i) \ {m}) \cup (IF row.item = i THEN {m} ELSE {})
  BY <1>4, <1>5, <1>10, <1>12, PutMail
<1>14. IsStore(G)
  <2>1. G.money \in [Players -> Nat] /\ \A x \in Players : G.money[x] <= MaxMoney
    BY <1>7, <1>10, <1>11 DEF IsStore
  <2>2. G.spent \in Int
    BY <1>5, <1>7, <1>10, <1>11
  <2> QED
    BY <1>10, <1>11, <1>13, <2>1, <2>2 DEF IsStore
<1>15. \A i : With(G.mail, i) = With(F.mail, i)
  BY <1>4, <1>5, <1>13 DEF With
<1>16. \A i \in Items : (Absent(F, i) => Absent(G, i)) /\ (Placed(F, i) => Placed(G, i))
  BY <1>11, <1>15 DEF Absent, Placed, Bagged, Mailed, Offered
<1>17. Fine(G) /\ ItemsKept(F, G)
  BY <1>14, <1>16, CurrentFacts DEF Fine, ItemsKept
<1>18. HousePart(G)
  BY <1>11, HouseSame
<1>19. MailPart(F, G)
  <2>1. /\ MailMemory(G.mail, mailsLoaded, mails') /\ DOMAIN mails' = Players
        /\ \A x \in Players \ mailsLoaded : RowsKept(x, F.mail, G.mail)
    BY <1>3, <1>5, <1>10, <1>12, CurrentFacts, PutBox DEF StoreTypes
  <2>2. Held(mails', mMitems')
    <3>1. Held(mails, mMitems)
      BY CurrentFacts
    <3> QED
      BY <1>1, <1>3, <1>5, <3>1 DEF Held, StoreTypes
  <2> QED
    BY <1>3, <1>13, <2>1, <2>2, CurrentFacts DEF MailPart, StoreTypes
<1>20. PursePart(F, G)
  <2>1. Pays(p, sum, {i \in Items : G.inv[i] = p})
    BY <1>3, <1>6, <1>11 DEF Pays, StoreTypes
  <2>2. PaysFor(F, G, p, sum)
    BY <1>3, <1>11, <2>1 DEF PaysFor
  <2> QED
    BY <2>2, PurseDone
<1>21. ASSUME IsFiniteSet(Players) PROVE GoldIn(G) = GoldIn(F)
  <2>1. PICK a, b, x, c : a = Posted(F.mail) /\ b = Staked(F.auc) /\ x = F.spent /\ c = Posted(G.mail)
    OBVIOUS
  <2>2. a \in Nat /\ b \in Nat /\ x \in Int /\ c = a - gold + 0
    BY <1>1, <1>5, <1>10, <1>13, <1>21, <2>1, GoldNat
  <2>3. sum - F.money[p] + (c - a) + (b - b) + (G.spent - x) = 0
    BY <1>5, <1>6, <1>7, <1>11, <2>1, <2>2
  <2> QED
    BY <1>7, <1>10, <1>11, <1>14, <1>21, <2>1, <2>3, Balance
<1>22. Done(F, G)
  BY <1>3, <1>17, <1>18, <1>19, <1>20, AllParts
<1> QED
  BY <1>3, <1>8, <1>9, <1>17, <1>21, <1>22 DEF Settles, GoldKept

\* The mail box of a handler whose own change of it leads to the table H, and
\* which then sends rows.
Posts(F, H, box, hold, rows, G) ==
  /\ SendMailTo(box, hold, rows) /\ Held(box, hold) /\ Add(H, rows, G.mail) /\ IsMails(H) /\ DOMAIN H \subseteq DOMAIN F.mail
  /\ DOMAIN box = Players /\ MailMemory(H, mailsLoaded, box)
  /\ \A x \in Players \ mailsLoaded : RowsKept(x, F.mail, H)

\* The boxes in memory after SendMailTo are those of the tables.
LEMMA PostsDone ==
  ASSUME StoreTypes, NEW F, Current(F), NEW H, NEW box, NEW hold, NEW rows, NEW k \in Nat,
         NewMails(rows, mailId, k), NEW G, Posts(F, H, box, hold, rows, G)
  PROVE  /\ MailPart(F, G) /\ IsMails(G.mail) /\ Posted(G.mail) = Posted(H) + Posted(rows)
         /\ \A i : With(G.mail, i) = With(H, i) \cup With(rows, i)
<1>1. PICK g : g = G.mail
  OBVIOUS
<1>2. /\ SendMailTo(box, hold, rows) /\ Held(box, hold) /\ Add(H, rows, g) /\ IsMails(H)
      /\ DOMAIN box = Players /\ MailMemory(H, mailsLoaded, box)
      /\ \A x \in Players \ mailsLoaded : RowsKept(x, F.mail, H)
  BY <1>1 DEF Posts
<1>3. \A m \in DOMAIN H : m < mailId
  BY CurrentFacts DEF Posts
<1>4. g = Insert(H, rows)
  BY <1>2 DEF Add
<1>5. /\ IsMails(g) /\ DOMAIN H \cap DOMAIN rows = {}
      /\ mailId' \in Nat \ {0} /\ mailId <= mailId' /\ \A m \in DOMAIN g : m < mailId'
      /\ mailsLoaded' = mailsLoaded /\ DOMAIN mails' = Players
      /\ MailMemory(g, mailsLoaded, mails')
      /\ Held(mails', mMitems') /\ DOMAIN mMitems' = Players
      /\ \A p : RowsKept(p, H, g)
  BY <1>2, <1>3, <1>4, Delivered
<1>6. IsMails(rows)
  BY DEF NewMails
<1>7. Posted(g) = Posted(H) + Posted(rows) /\ \A i : With(g, i) = With(H, i) \cup With(rows, i)
  <2>1. Add(H, rows, g) /\ IsMails(H) /\ IsMails(rows) /\ Apart(H, rows)
    BY <1>2, <1>5, <1>6 DEF Apart
  <2>2. Added(H, rows, g)
    BY <2>1, AddMail
  <2> QED
    BY <2>2 DEF Added
<1>8. \A x \in Players \ mailsLoaded : RowsKept(x, F.mail, g)
  BY <1>2, <1>5 DEF RowsKept
<1>9. MailPart(F, G)
  BY <1>1, <1>5, <1>8 DEF MailPart
<1> QED
  BY <1>1, <1>5, <1>7, <1>9

LEMMA FreshMails ==
  ASSUME StoreTypes, NEW F, Current(F), NEW rows, NEW k \in Nat, NewMails(rows, mailId, k)
  PROVE  DOMAIN F.mail \cap DOMAIN rows = {}
<1>1. \A m \in DOMAIN F.mail : m < mailId /\ m \in Nat
  BY CurrentFacts DEF IsMails, IsTable
<1>2. \A m \in DOMAIN rows : mailId <= m /\ m \in Nat
  BY DEF NewMails, IsMails, IsTable
<1>3. mailId \in Nat
  BY DEF StoreTypes
<1> QED
  BY <1>1, <1>2, <1>3

\* Only mails are sent.
LEMMA PostsOnly ==
  ASSUME StoreTypes, NEW F, Current(F), NEW rows, NEW G, SendMailTo(mails, mMitems, rows), Add(F.mail, rows, G.mail)
  PROVE  Posts(F, F.mail, mails, mMitems, rows, G)
<1>1. \A x : RowsKept(x, F.mail, F.mail)
  BY DEF RowsKept
<1> QED
  BY <1>1, CurrentFacts DEF Posts, StoreTypes

\* Where the items of the world are.
LEMMA BagItem ==
  ASSUME StoreTypes, NEW F, Current(F), NEW i \in Items, F.inv[i] # Nobody
  PROVE  With(F.mail, i) = {} /\ With(F.auc, i) = {}
  BY CurrentFacts DEF Fine, Absent, Placed, Bagged, Mailed, Offered

LEMMA MailItem ==
  ASSUME StoreTypes, NEW F, Current(F), NEW i \in Items, NEW m \in DOMAIN F.mail, F.mail[m].item = i
  PROVE  F.inv[i] = Nobody /\ With(F.mail, i) = {m} /\ With(F.auc, i) = {}
<1>1. m \in With(F.mail, i)
  BY DEF With
<1>2. Mailed(F, i)
  BY <1>1, CurrentFacts DEF Fine, Absent, Placed, Bagged, Offered
<1> QED
  BY <1>1, <1>2 DEF Mailed

LEMMA AuctionItem ==
  ASSUME StoreTypes, NEW F, Current(F), NEW i \in Items, NEW id \in DOMAIN F.auc, F.auc[id].item = i
  PROVE  F.inv[i] = Nobody /\ With(F.mail, i) = {} /\ With(F.auc, i) = {id}
<1>1. id \in With(F.auc, i)
  BY DEF With
<1>2. Offered(F, i)
  BY <1>1, CurrentFacts DEF Fine, Absent, Placed, Bagged, Mailed
<1> QED
  BY <1>1, <1>2 DEF Offered

\* One item moves, the others stay.
LEMMA FineMove ==
  ASSUME StoreTypes, NEW F, Current(F), NEW G, IsStore(G), NEW i, Concerns(F, G, i),
         i \in Items => (Absent(G, i) \/ Placed(G, i))
  PROVE  /\ Fine(G)
         /\ (i \in Items => (LogTrade => Placed(G, i) \/ i \in G.thrown)) => ItemsKept(F, G)
<1>1. Fine(F)
  BY CurrentFacts
<1>2. \A j \in Items \ {i} : (Absent(F, j) => Absent(G, j)) /\ (Placed(F, j) => Placed(G, j))
  BY ElsewhereKept
<1>3. Fine(G)
  BY <1>1, <1>2 DEF Fine
<1> QED
  BY <1>2, <1>3 DEF ItemsKept

\* A player who can pay pays.
LEMMA Affords ==
  ASSUME StoreTypes, NEW F, Current(F), NEW p \in Players, online[p] = "in",
         NEW cost \in Nat, money[p] >= cost
  PROVE  ModifyMoney(money[p], -cost) = money[p] - cost
<1>1. money[p] \in Nat /\ money[p] <= MaxMoney
  BY InFacts
<1>2. money[p] + (-cost) >= 0 /\ money[p] + (-cost) <= MaxMoney /\ -cost \in Int
  BY <1>1, StoreAssumption
<1>3. ModifyMoney(money[p], -cost) = money[p] + (-cost)
  BY <1>1, <1>2, ModifySum
<1> QED
  BY <1>1, <1>3

\* HandleSendMail: what leaves the purse and the bags is in the mail; what a
\* game master sends without having it has come into the game.
LEMMA SendMailDone ==
  ASSUME Narrow, StoreTypes, NEW F, Current(F), NEW p \in Players, NEW q \in Players,
         NEW gold \in Amounts, NEW cod \in Amounts, NEW i \in Items \cup {Nothing},
         HandleSendMail(p, q, gold, cod, i), UNCHANGED auctionVars
  PROVE  Settles(F)
<1>1. PICK l, cost, rest, short :
        /\ l = Letter(p, q, gold, cod % Word, i) /\ cost = Postage + gold /\ rest = ModifyMoney(money[p], -cost)
        /\ short = Above(cost, money[p])
  OBVIOUS
<1>2. PICK rows : rows = Rows(<<l>>)
  OBVIOUS
<1>3. PICK t : t = [NoWrites EXCEPT
                      !.money = GoldRow(p, rest), !.mail = rows,
                      !.inv = IF i = Nothing THEN NoRows ELSE OneRow(i, Nobody),
                      !.spent = Postage - short]
  OBVIOUS
<1>5. /\ gold \in Nat /\ cod \in Nat /\ Postage \in Nat /\ cost \in Nat /\ -cost \in Int /\ -cost <= MaxMoney
      /\ 2 * gold < Word /\ 2 * cod < Word /\ cod % Word = cod
      /\ cost % LongWord = cost /\ Minus(cost, LongWord) = {-cost}
  <2>1. /\ Postage \in Nat /\ Word \in Nat /\ LongWord \in Nat /\ 2 * Postage <= Word /\ 2 * Word <= LongWord
        /\ gold \in Nat /\ cod \in Nat /\ MaxMoney \in Nat
    BY StoreAssumption, MailAssumption
  <2>2. 2 * gold < Word /\ 2 * cod < Word
    BY DEF Narrow
  <2>3. cost \in Nat /\ 2 * cost < LongWord /\ cost < LongWord /\ cod < Word /\ -cost \in Int /\ -cost <= MaxMoney
    BY <1>1, <2>1, <2>2
  <2>4. cod % Word = cod /\ cost % LongWord = cost
    BY <2>1, <2>3, ModSmall
  <2>5. Minus(cost, LongWord) = {-cost}
    BY <2>1, <2>3, SignedSmall
  <2> QED
    BY <2>1, <2>2, <2>3, <2>4, <2>5
<1>4. /\ online[p] = "in" /\ i \in bags[p] \cup {Nothing}
      /\ SendMailTo(mails, mMitems, rows) /\ money' = [money EXCEPT ![p] = rest]
      /\ bags' = [bags EXCEPT ![p] = @ \ {i}] /\ Commit(<<t>>) /\ UNCHANGED <<online, fetched>>
  <2>1. PICK req : req = (Postage + gold) % LongWord
    OBVIOUS
  <2>2. req = cost
    BY <1>1, <1>5, <2>1
  <2>3. /\ In(p) /\ i \in bags[p] \cup {Nothing} /\ SendMailTo(mails, mMitems, rows)
        /\ \E d \in Minus(req, LongWord) :
             /\ money' = [money EXCEPT ![p] = ModifyMoney(money[p], d)]
             /\ Commit(<<[NoWrites EXCEPT
                      !.money = GoldRow(p, ModifyMoney(money[p], d)), !.mail = rows,
                      !.inv = IF i = Nothing THEN NoRows ELSE OneRow(i, Nobody),
                      !.spent = Postage - short]>>)
        /\ bags' = [bags EXCEPT ![p] = @ \ {i}] /\ UNCHANGED <<online, fetched>>
    BY <1>1, <1>2, <2>1 DEF HandleSendMail
  <2>4. PICK d : /\ d = -cost /\ money' = [money EXCEPT ![p] = ModifyMoney(money[p], d)]
                 /\ Commit(<<[NoWrites EXCEPT
                      !.money = GoldRow(p, ModifyMoney(money[p], d)), !.mail = rows,
                      !.inv = IF i = Nothing THEN NoRows ELSE OneRow(i, Nobody),
                      !.spent = Postage - short]>>)
    BY <1>5, <2>2, <2>3
  <2>5. rest = ModifyMoney(money[p], d)
    BY <1>1, <2>4
  <2> QED
    BY <1>3, <2>3, <2>4, <2>5 DEF In
<1>6. IsLetter(l) /\ l.money = gold /\ l.item = i
  <2>1. l = [from |-> p, to |-> q, money |-> gold, cod |-> cod, item |-> i]
    BY <1>1, <1>5 DEF Letter
  <2>2. gold < Word
    BY <1>5, MailAssumption
  <2> QED
    BY <1>5, <2>1, <2>2 DEF IsLetter
<1>7. /\ F.money[p] = money[p] /\ money[p] \in Nat /\ money[p] <= MaxMoney /\ bags[p] \subseteq Items
      /\ \A j \in Items : F.inv[j] = p <=> j \in bags[p]
  BY <1>4, InFacts
<1>8. rest \in Nat /\ rest <= MaxMoney /\ short \in Nat
  <2>1. rest \in Nat /\ rest <= MaxMoney
    BY <1>1, <1>5, <1>7, ModifyNat
  <2>2. short \in Nat
    BY <1>1, <1>5, <1>7 DEF Above
  <2> QED
    BY <2>1, <2>2
<1>9. mailId \in Nat
  BY DEF StoreTypes
<1>10. /\ NewMails(rows, mailId, 1) /\ Posted(rows) = gold
       /\ \A j : With(rows, j) = IF i = j THEN {mailId} ELSE {}
  BY <1>2, <1>6, <1>9, OneLetter
<1>11. PICK G : Applied(F, t, G)
  BY DEF Applied
<1>12. /\ t.money = OneRow(p, rest) /\ t.inv = (IF i = Nothing THEN NoRows ELSE OneRow(i, Nobody))
       /\ t.mail = rows /\ t.mailSet = NoRows /\ t.unitem = {} /\ t.unmail = {}
       /\ t.auc = NoRows /\ t.aucSet = NoRows /\ t.unauc = {} /\ t.spent = Postage - short /\ t.load = {}
  BY <1>3 DEF NoWrites, GoldRow
<1>13. IsStore(F) /\ IsMails(F.mail) /\ F.spent \in Int /\ F.inv \in [Items -> Players \cup {Nobody}]
  BY CurrentFacts
<1>14. G.money = [F.money EXCEPT ![p] = rest] /\ G.auc = F.auc /\ G.spent = F.spent + (Postage - short)
  BY <1>11, <1>12, <1>13, MoneyOne, AucNone, SpentSum
<1>15. G.inv = IF i = Nothing THEN F.inv ELSE [F.inv EXCEPT ![i] = Nobody]
  <2>1. CASE i = Nothing
    BY <1>11, <1>12, <1>13, <2>1, InvNone
  <2>2. CASE i # Nothing
    BY <1>11, <1>12, <1>13, <2>2, InvOne
  <2> QED
    BY <2>1, <2>2
<1>16. Add(F.mail, rows, G.mail)
  BY <1>11, <1>12, <1>13, MailInsert DEF Add
<1>17. Posts(F, F.mail, mails, mMitems, rows, G)
  BY <1>4, <1>16, PostsOnly
<1>18. /\ MailPart(F, G) /\ IsMails(G.mail) /\ Posted(G.mail) = Posted(F.mail) + Posted(rows)
       /\ \A j : With(G.mail, j) = With(F.mail, j) \cup With(rows, j)
  <2>1. 1 \in Nat
    OBVIOUS
  <2> QED
    BY <1>10, <1>17, <2>1, PostsDone
<1>19. IsStore(G)
  <2>1. G.inv \in [Items -> Players \cup {Nobody}]
    BY <1>13, <1>15
  <2>2. G.money \in [Players -> Nat] /\ \A x \in Players : G.money[x] <= MaxMoney
    BY <1>8, <1>13, <1>14 DEF IsStore
  <2>3. G.spent \in Int
    BY <1>5, <1>8, <1>13, <1>14
  <2> QED
    BY <1>13, <1>14, <1>18, <2>1, <2>2, <2>3 DEF IsStore
<1>20. Concerns(F, G, i)
  BY <1>10, <1>13, <1>14, <1>15, <1>18 DEF Concerns
<1>21. i \in Items => Placed(G, i)
  <2> SUFFICES ASSUME i \in Items PROVE Mailed(G, i)
    BY DEF Placed
  <2>1. i # Nothing /\ F.inv[i] = p /\ p # Nobody
    BY <1>4, <1>7, StoreAssumption
  <2>2. With(F.mail, i) = {} /\ With(F.auc, i) = {}
    BY <2>1, BagItem
  <2>3. With(G.mail, i) = {mailId} /\ With(G.auc, i) = {} /\ G.inv[i] = Nobody
    BY <1>10, <1>13, <1>14, <1>15, <1>18, <2>1, <2>2
  <2> QED
    BY <2>3 DEF Mailed
<1>22. Fine(G) /\ ItemsKept(F, G)
  BY <1>19, <1>20, <1>21, FineMove
<1>23. HousePart(G)
  BY <1>14, HouseSame
<1>24. PursePart(F, G)
  <2>1. \A j \in Items : G.inv[j] = IF j = i THEN Nobody ELSE F.inv[j]
    BY <1>13, <1>15, StoreAssumption
  <2>2. i \in Items => F.inv[i] = p
    BY <1>4, <1>7, StoreAssumption
  <2>3. {j \in Items : G.inv[j] = p} = bags[p] \ {i}
    BY <1>7, <2>1, StoreAssumption
  <2>4. Pays(p, rest, {j \in Items : G.inv[j] = p})
    BY <1>4, <2>3 DEF Pays, StoreTypes
  <2>5. PaysFor(F, G, p, rest)
    BY <1>4, <1>14, <2>1, <2>2, <2>4 DEF PaysFor
  <2> QED
    BY <2>5, PurseDone
<1>25. ASSUME IsFiniteSet(Players)
       PROVE  GoldIn(G) = GoldIn(F)
  <2>1. PICK a, b, x, c : a = Posted(F.mail) /\ b = Staked(F.auc) /\ x = F.spent /\ c = Posted(G.mail)
    OBVIOUS
  <2>2. /\ a \in Nat /\ b \in Nat /\ x \in Int /\ c = a + gold
    BY <1>10, <1>13, <1>14, <1>18, <1>25, <2>1, GoldNat
  <2>3. G.spent = x + (Postage - short)
    BY <1>14, <2>1
  <2>4. rest - money[p] + cost - short = 0
    <3>1. CASE money[p] >= cost
      <4>1. rest = money[p] - cost
        BY <1>1, <1>4, <1>5, <3>1, Affords
      <4>2. short = 0
        BY <1>1, <1>5, <1>7, <3>1 DEF Above
      <4> QED
        BY <1>5, <1>7, <4>1, <4>2
    <3>2. CASE money[p] < cost
      <4>1. rest = 0 /\ short = cost - money[p]
        BY <1>1, <1>5, <1>7, <3>2 DEF Above, ModifyMoney
      <4> QED
        BY <1>5, <1>7, <4>1
    <3> QED
      BY <1>5, <1>7, <3>1, <3>2
  <2>5. rest - F.money[p] + (c - a) + (b - b) + (G.spent - x) = 0
    BY <1>1, <1>5, <1>7, <1>8, <2>2, <2>3, <2>4
  <2> QED
    BY <1>8, <1>13, <1>14, <1>19, <1>25, <2>1, <2>5, Balance
<1>26. Done(F, G)
  BY <1>4, <1>18, <1>22, <1>23, <1>24, AllParts
<1> QED
  BY <1>4, <1>11, <1>12, <1>22, <1>25, <1>26 DEF Settles, GoldKept

LEMMA BalanceSame ==
  ASSUME IsFiniteSet(Players), NEW F, IsStore(F), NEW G, IsStore(G), G.money = F.money,
         (Posted(G.mail) - Posted(F.mail)) + (Staked(G.auc) - Staked(F.auc)) + (G.spent - F.spent) = 0
  PROVE  GoldIn(G) = GoldIn(F)
<1>1. PICK a, b, c, d : a = SumFunction(F.money) /\ b = Posted(F.mail) /\ c = Staked(F.auc) /\ d = F.spent
  OBVIOUS
<1>2. PICK e, g, h : e = Posted(G.mail) /\ g = Staked(G.auc) /\ h = G.spent
  OBVIOUS
<1>3. /\ a \in Nat /\ b \in Nat /\ c \in Nat /\ d \in Int
      /\ e \in Nat /\ g \in Nat /\ h \in Int
  BY <1>1, <1>2, GoldNat
<1>4. GoldIn(F) = a + b + c + d /\ GoldIn(G) = a + e + g + h
  BY <1>1, <1>2, GoldParts
<1>5. (e - b) + (g - c) + (h - d) = 0
  BY <1>1, <1>2
<1> QED
  BY <1>3, <1>4, <1>5

\* Two mails of a box do not list the same item, and a mail that lists none
\* or is gone asks for none to be held.
LEMMA ListedOnce ==
  ASSUME StoreTypes, NEW F, Current(F), NEW p \in Players, NEW m \in DOMAIN mails[p],
         NEW k \in DOMAIN mails[p], k # m, mails[p][k].item = mails[p][m].item
  PROVE  mails[p][k].item = Nothing
<1>1. PICK i : i = mails[p][m].item
  OBVIOUS
<1>2. /\ m \in DOMAIN F.mail /\ F.mail[m].item = i /\ k \in DOMAIN F.mail /\ F.mail[k].item = i
      /\ IsLetter(F.mail[m])
  BY <1>1, BoxFacts
<1>3. i \in Items \cup {Nothing}
  BY <1>2 DEF IsLetter
<1>4. ASSUME i \in Items PROVE FALSE
  <2>1. With(F.mail, i) = {m}
    BY <1>2, <1>4, MailItem
  <2>2. k \in With(F.mail, i)
    BY <1>2 DEF With
  <2> QED
    BY <2>1, <2>2
<1> QED
  BY <1>1, <1>3, <1>4

LEMMA HeldPut ==
  ASSUME StoreTypes, NEW F, Current(F), NEW p \in Players, NEW m \in DOMAIN mails[p],
         NEW row, row.item = Nothing, NEW i, mails[p][m].item = i,
         NEW box, box = [mails EXCEPT ![p][m] = row],
         NEW hold, hold = [mMitems EXCEPT ![p] = @ \ {i}]
  PROVE  Held(box, hold)
<1>1. Held(mails, mMitems) /\ DOMAIN mails = Players /\ DOMAIN mMitems = Players
  BY CurrentFacts DEF StoreTypes
<1>2. ASSUME NEW x \in Players PROVE Nothing \notin hold[x]
  BY <1>1 DEF Held
<1>3. ASSUME NEW x \in Players, NEW k \in DOMAIN box[x]
      PROVE  box[x][k].item \in hold[x] \cup {Nothing}
  <2>1. CASE x # p
    BY <1>1, <1>3, <2>1 DEF Held
  <2>2. CASE x = p /\ k = m
    BY <1>1, <2>2
  <2>3. CASE x = p /\ k # m
    <3>1. k \in DOMAIN mails[p] /\ box[x][k] = mails[p][k] /\ hold[x] = mMitems[p] \ {i}
      BY <1>1, <1>3, <2>3
    <3>2. mails[p][k].item \in mMitems[p] \cup {Nothing}
      BY <1>1, <3>1 DEF Held
    <3>3. mails[p][k].item = i => mails[p][k].item = Nothing
      BY <2>3, <3>1, ListedOnce
    <3> QED
      BY <3>1, <3>2, <3>3
  <2> QED
    BY <2>1, <2>2, <2>3
<1> QED
  BY <1>2, <1>3 DEF Held

LEMMA HeldDel ==
  ASSUME StoreTypes, NEW F, Current(F), NEW p \in Players, NEW m \in DOMAIN mails[p],
         NEW box, box = [mails EXCEPT ![p] = Delete(@, {m})]
  PROVE  Held(box, mMitems) /\ Held(box, [mMitems EXCEPT ![p] = @ \ {mails[p][m].item}])
<1>1. Held(mails, mMitems) /\ DOMAIN mails = Players /\ DOMAIN mMitems = Players
  BY CurrentFacts DEF StoreTypes
<1>2. PICK b, i, hold : b = Delete(mails[p], {m}) /\ i = mails[p][m].item /\ hold = [mMitems EXCEPT ![p] = @ \ {i}]
  OBVIOUS
<1>3. Deleted(mails[p], {m}, b)
  BY <1>2, DeleteFacts
<1>4. \A x \in Players : box[x] = IF x = p THEN b ELSE mails[x]
  BY <1>1, <1>2
<1>5. Held(box, mMitems)
  BY <1>1, <1>3, <1>4 DEF Held, Deleted
<1>6. ASSUME NEW x \in Players, NEW k \in DOMAIN box[x]
      PROVE  box[x][k].item \in hold[x] \cup {Nothing}
  <2>1. CASE x # p
    BY <1>1, <1>2, <1>4, <1>6, <2>1 DEF Held
  <2>2. CASE x = p
    <3>1. k \in DOMAIN mails[p] /\ k # m /\ box[x][k] = mails[p][k] /\ hold[x] = mMitems[p] \ {i}
      BY <1>1, <1>2, <1>3, <1>4, <1>6, <2>2 DEF Deleted
    <3>2. mails[p][k].item \in mMitems[p] \cup {Nothing}
      BY <1>1, <3>1 DEF Held
    <3>3. mails[p][k].item = i => mails[p][k].item = Nothing
      BY <1>2, <3>1, ListedOnce
    <3> QED
      BY <3>1, <3>2, <3>3
  <2> QED
    BY <2>1, <2>2
<1>7. \A x \in Players : Nothing \notin hold[x]
  BY <1>1, <1>2 DEF Held
<1>8. Held(box, hold)
  BY <1>6, <1>7 DEF Held
<1> QED
  BY <1>2, <1>5, <1>8

\* HandleMailTakeItem under the mail that lists the item: the item enters
\* the bags, the price goes by mail.
LEMMA TakeItemDone ==
  ASSUME StoreTypes, NEW F, Current(F), NEW p \in Players, NEW m, NEW item,
         m \in DOMAIN mails[p] => mails[p][m].item = item, HandleMailTakeItem(p, m, item),
         UNCHANGED auctionVars
  PROVE  Settles(F)
<1>1. PICK old, row, rest, cod :
        /\ old = mails[p][m] /\ row = [old EXCEPT !.cod = 0, !.item = IF @ = item THEN Nothing ELSE @]
        /\ cod = old.cod /\ rest = ModifyMoney(money[p], -cod)
  OBVIOUS
<1>2. PICK l, rows : /\ l = Letter(p, old.from, cod, 0, Nothing)
                     /\ rows = IF cod > 0 THEN Rows(<<l>>) ELSE NoRows
  OBVIOUS
<1>3. PICK box, hold : box = [mails EXCEPT ![p][m] = row] /\ hold = [mMitems EXCEPT ![p] = @ \ {item}]
  OBVIOUS
<1>4. PICK t : t = [NoWrites EXCEPT
                      !.money = GoldRow(p, rest), !.inv = OneRow(item, p),
                      !.mail = rows, !.mailSet = SavedMail(m, row), !.unitem = {item}]
  OBVIOUS
<1>a. /\ online[p] = "in" /\ m \in DOMAIN mails[p] /\ item \in mMitems[p] /\ money[p] >= cod
      /\ SendMailTo(box, hold, rows)
      /\ \E d \in Minus(cod, Word) :
           /\ money' = [money EXCEPT ![p] = ModifyMoney(money[p], d)]
           /\ Commit(<<[NoWrites EXCEPT
                      !.money = GoldRow(p, ModifyMoney(money[p], d)), !.inv = OneRow(item, p),
                      !.mail = rows, !.mailSet = SavedMail(m, row), !.unitem = {item}]>>)
      /\ bags' = [bags EXCEPT ![p] = @ \cup {item}] /\ UNCHANGED <<online, fetched>>
  BY <1>1, <1>2, <1>3 DEF HandleMailTakeItem, In, HasEnoughMoney
<1>6. m \in DOMAIN F.mail /\ F.mail[m] = old /\ old.to = p /\ IsLetter(old) /\ old.item = item
  BY <1>1, <1>a, BoxFacts
<1>b. cod \in Nat /\ Minus(cod, Word) = {-cod} /\ item # Nothing
  <2>1. cod \in Nat /\ Word \in Nat /\ 2 * cod < Word
    BY <1>1, <1>6, MailAssumption DEF IsLetter
  <2>2. Nothing \notin mMitems[p]
    BY CurrentFacts DEF Held
  <2> QED
    BY <1>a, <2>1, <2>2, SignedSmall
<1>5. /\ online[p] = "in" /\ m \in DOMAIN mails[p] /\ item # Nothing /\ money[p] >= cod
      /\ SendMailTo(box, hold, rows) /\ money' = [money EXCEPT ![p] = rest]
      /\ bags' = [bags EXCEPT ![p] = @ \cup {item}] /\ Commit(<<t>>) /\ UNCHANGED <<online, fetched>>
  <2>1. PICK d : /\ d = -cod /\ money' = [money EXCEPT ![p] = ModifyMoney(money[p], d)]
                 /\ Commit(<<[NoWrites EXCEPT
                      !.money = GoldRow(p, ModifyMoney(money[p], d)), !.inv = OneRow(item, p),
                      !.mail = rows, !.mailSet = SavedMail(m, row), !.unitem = {item}]>>)
    BY <1>a, <1>b
  <2>2. rest = ModifyMoney(money[p], d)
    BY <1>1, <2>1
  <2> QED
    BY <1>4, <1>a, <1>b, <2>1, <2>2
<1>7. /\ IsLetter(row) /\ row.to = p /\ row.item = Nothing /\ row.money = old.money /\ old.money \in Nat
      /\ item \in Items /\ cod \in Nat /\ -cod \in Int /\ (cod > 0 => IsLetter(l)) /\ l.money = cod /\ l.item = Nothing
      /\ Rewrites(old, {item}, row)
  <2>1. /\ old \in [from : Players \cup {Nobody}, to : Players, money : Nat, cod : Nat, item : Items \cup {Nothing}]
        /\ old.cod > 0 => old.from \in Players
        /\ old.money < Word /\ 2 * old.cod < Word /\ 0 < Word /\ Word \in Nat
    BY <1>6, MailAssumption DEF IsLetter
  <2>2. old.money \in Nat /\ item \in Items /\ cod \in Nat /\ -cod \in Int
    BY <1>1, <1>5, <1>6, <2>1
  <2>3. /\ IsLetter(row) /\ row.to = p /\ row.item = Nothing /\ row.money = old.money
        /\ Rewrites(old, {item}, row)
    <3>1. row = [from |-> old.from, to |-> old.to, money |-> old.money, cod |-> 0, item |-> Nothing]
      BY <1>1, <1>6, <2>1
    <3>2. Rewrites(old, {item}, row)
      BY <1>6, <3>1 DEF Rewrites
    <3> QED
      BY <1>6, <2>1, <3>1, <3>2 DEF IsLetter
  <2>4. l.money = cod /\ l.item = Nothing /\ (cod > 0 => IsLetter(l))
    BY <1>1, <1>2, <2>1, <2>2 DEF IsLetter, Letter
  <2> QED
    BY <2>2, <2>3, <2>4
<1>8. /\ F.money[p] = money[p] /\ money[p] \in Nat /\ money[p] <= MaxMoney /\ bags[p] \subseteq Items
      /\ \A j \in Items : F.inv[j] = p <=> j \in bags[p]
  BY <1>5, InFacts
<1>9. rest \in Nat /\ rest <= MaxMoney
  BY <1>1, <1>7, <1>8, StoreAssumption, ModifyNat
<1>10. mailId \in Nat
  BY DEF StoreTypes
<1>11. \E k \in Nat : NewMails(rows, mailId, k) /\ Posted(rows) = cod /\ \A j \in Items : With(rows, j) = {}
  <2>1. CASE cod > 0
    <3>1. rows = Rows(<<l>>) /\ IsLetter(l)
      BY <1>2, <1>7, <2>1
    <3>2. NewMails(rows, mailId, 1) /\ Posted(rows) = l.money /\ \A j : With(rows, j) = IF l.item = j THEN {mailId} ELSE {}
      BY <1>10, <3>1, OneLetter
    <3>3. \A j \in Items : l.item # j
      BY <1>7, StoreAssumption
    <3> QED
      BY <1>7, <3>2, <3>3
  <2>2. CASE ~(cod > 0)
    <3>1. rows = NoRows /\ cod = 0
      BY <1>2, <1>7, <2>2
    <3> QED
      BY <1>10, <3>1, NoLetter
  <2> QED
    BY <2>1, <2>2
<1>12. PICK k \in Nat : NewMails(rows, mailId, k) /\ Posted(rows) = cod /\ \A j \in Items : With(rows, j) = {}
  BY <1>11
<1>13. PICK G : Applied(F, t, G)
  BY DEF Applied
<1>14. /\ t.money = OneRow(p, rest) /\ t.inv = OneRow(item, p)
       /\ t.mail = rows /\ t.mailSet = SavedMail(m, row) /\ t.unitem = {item} /\ t.unmail = {}
       /\ t.auc = NoRows /\ t.aucSet = NoRows /\ t.unauc = {} /\ t.spent = 0 /\ t.load = {}
  BY <1>4 DEF NoWrites, GoldRow
<1>15. IsStore(F) /\ IsMails(F.mail) /\ F.spent \in Int /\ F.inv \in [Items -> Players \cup {Nobody}]
  BY CurrentFacts
<1>16. G.money = [F.money EXCEPT ![p] = rest] /\ G.auc = F.auc /\ G.spent = F.spent
  BY <1>13, <1>14, <1>15, MoneyOne, AucNone, SpentSum
<1>17. G.inv = [F.inv EXCEPT ![item] = p]
  BY <1>7, <1>13, <1>14, <1>15, InvOne
<1>18. PICK H : H = [F.mail EXCEPT ![m] = row]
  OBVIOUS
<1>19. Put(F.mail, m, row, H) /\ Add(H, rows, G.mail)
  <2>1. DOMAIN F.mail \cap DOMAIN rows = {}
    BY <1>12, FreshMails
  <2>2. /\ \A j \in DOMAIN F.mail \ {m} : F.mail[j].item \notin {item}
        /\ \A j \in DOMAIN rows : rows[j].item \notin {item}
    <3>1. With(F.mail, item) = {m} /\ With(rows, item) = {}
      BY <1>6, <1>7, <1>12, MailItem
    <3> QED
      BY <3>1 DEF With
  <2>3. IsMails(rows) /\ Rewrites(F.mail[m], {item}, row)
    BY <1>6, <1>7, <1>12 DEF NewMails
  <2>4. PICK K : K = {item}
    OBVIOUS
  <2>5. G.mail = Insert([F.mail EXCEPT ![m] = row], rows)
    <3>1. /\ \A j \in DOMAIN F.mail \ {m} : F.mail[j].item \notin K
          /\ \A j \in DOMAIN rows : rows[j].item \notin K
          /\ Rewrites(F.mail[m], K, row) /\ t.unitem = K
      BY <1>14, <2>2, <2>3, <2>4
    <3> QED
      BY <1>6, <1>7, <1>13, <1>14, <1>15, <2>1, <2>3, <3>1, MailSet
  <2> QED
    BY <1>18, <2>5 DEF Put, Add
<1>20. /\ IsMails(H) /\ DOMAIN H = DOMAIN F.mail /\ Posted(H) = Posted(F.mail) - old.money + row.money
       /\ \A j : With(H, j) = (With(F.mail, j) \ {m}) \cup (IF row.item = j THEN {m} ELSE {})
  BY <1>6, <1>7, <1>15, <1>19, PutMail
<1>21. MailMemory(H, mailsLoaded, box) /\ DOMAIN box = Players /\ \A x \in Players \ mailsLoaded : RowsKept(x, F.mail, H)
  <2>1. MailMemory(F.mail, mailsLoaded, mails) /\ DOMAIN mails = Players
    BY CurrentFacts DEF StoreTypes
  <2> QED
    <3>1. /\ MailMemory(H, mailsLoaded, [mails EXCEPT ![p][m] = row])
          /\ \A x \in Players \ mailsLoaded : RowsKept(x, F.mail, H)
      BY <1>5, <1>7, <1>15, <1>18, <2>1, BoxSet
    <3> QED
      BY <1>3, <2>1, <3>1
<1>22. Posts(F, H, box, hold, rows, G)
  <2>1. Held(box, hold)
    BY <1>1, <1>3, <1>5, <1>6, <1>7, HeldPut
  <2> QED
    BY <1>5, <1>19, <1>20, <1>21, <2>1 DEF Posts
<1>23. /\ MailPart(F, G) /\ IsMails(G.mail) /\ Posted(G.mail) = Posted(H) + Posted(rows)
       /\ \A j : With(G.mail, j) = With(H, j) \cup With(rows, j)
  BY <1>12, <1>22, PostsDone
<1>24. IsStore(G)
  <2>1. G.money \in [Players -> Nat] /\ \A x \in Players : G.money[x] <= MaxMoney
    BY <1>9, <1>15, <1>16 DEF IsStore
  <2> QED
    BY <1>7, <1>15, <1>16, <1>17, <1>23, <2>1 DEF IsStore
<1>25. F.inv[item] = Nobody /\ With(F.mail, item) = {m} /\ With(F.auc, item) = {}
  BY <1>1, <1>6, <1>7, MailItem
<1>26. \A j \in Items : With(G.mail, j) = With(F.mail, j) \ {m}
  <2>1. \A j \in Items : row.item # j
    BY <1>7, StoreAssumption
  <2> QED
    BY <1>12, <1>20, <1>23, <2>1
<1>27. Concerns(F, G, item)
  <2>1. \A j \in Items \ {item} : m \notin With(F.mail, j)
    BY <1>1, <1>6 DEF With
  <2> QED
    BY <1>15, <1>16, <1>17, <1>26, <2>1 DEF Concerns
<1>28. Placed(G, item)
  BY <1>7, <1>15, <1>16, <1>17, <1>25, <1>26, StoreAssumption DEF Placed, Bagged
<1>29. Fine(G) /\ ItemsKept(F, G)
  BY <1>24, <1>27, <1>28, FineMove
<1>30. HousePart(G)
  BY <1>16, HouseSame
<1>31. PursePart(F, G)
  <2>1. \A j \in Items : G.inv[j] = IF j = item THEN p ELSE F.inv[j]
    BY <1>15, <1>17
  <2>2. {j \in Items : G.inv[j] = p} = bags[p] \cup {item}
    BY <1>7, <1>8, <2>1
  <2>3. Pays(p, rest, {j \in Items : G.inv[j] = p})
    BY <1>5, <2>2 DEF Pays, StoreTypes
  <2>4. PaysFor(F, G, p, rest)
    BY <1>5, <1>16, <1>25, <2>1, <2>3 DEF PaysFor
  <2> QED
    BY <2>4, PurseDone
<1>32. ASSUME IsFiniteSet(Players)
       PROVE  GoldIn(G) = GoldIn(F)
  <2>1. PICK a, b, x, c : a = Posted(F.mail) /\ b = Staked(F.auc) /\ x = F.spent /\ c = Posted(G.mail)
    OBVIOUS
  <2>2. /\ a \in Nat /\ b \in Nat /\ x \in Int /\ c = (a - old.money + old.money) + cod
    BY <1>7, <1>12, <1>15, <1>20, <1>23, <1>32, <2>1, GoldNat
  <2>3. rest = money[p] - cod
    BY <1>1, <1>5, <1>7, Affords
  <2>4. rest - F.money[p] + (c - a) + (b - b) + (x - x) = 0
    BY <1>7, <1>8, <2>2, <2>3
  <2> QED
    BY <1>9, <1>15, <1>16, <1>24, <1>32, <2>1, <2>4, Balance
<1>33. Done(F, G)
  BY <1>5, <1>23, <1>29, <1>30, <1>31, AllParts
<1> QED
  BY <1>5, <1>13, <1>14, <1>29, <1>32, <1>33 DEF Settles, GoldKept

\* The mail m leaves the box of p, and rows are sent.
Posting(p, m, hold, rows) ==
  LET box == [mails EXCEPT ![p] = Delete(@, {m})] IN SendMailTo(box, hold, rows) /\ Held(box, hold)
Unmails(t, m, rows) ==
  /\ t.money = NoRows /\ t.inv = NoRows /\ t.mail = rows /\ t.mailSet = NoRows /\ t.unitem = {}
  /\ t.unmail = {m} /\ t.auc = NoRows /\ t.aucSet = NoRows /\ t.unauc = {} /\ t.load = {}
\* The item is in the new mails, or is thrown away.
Rehouses(item, rows, thrown) ==
  /\ \A j : j # item => With(rows, j) = {}
  /\ item \in Items => (\E n : With(rows, item) = {n}) \/ (With(rows, item) = {} /\ item \in thrown)

\* HandleMailReturnToSender: the new mail holds what the old one did; a mail
\* without a sender is thrown away with what it holds.
LEMMA ReturnLetter ==
  ASSUME StoreTypes, NEW F, Current(F), NEW p \in Players, NEW m, HandleMailReturnToSender(p, m)
  PROVE  \E t, rows, hold : \E k \in Nat :
           /\ Posting(p, m, hold, rows) /\ NewMails(rows, mailId, k) /\ Commit(<<t>>)
           /\ Unmails(t, m, rows) /\ t.spent \in Nat /\ Posted(rows) + t.spent = mails[p][m].money
           /\ Rehouses(mails[p][m].item, rows, t.thrown)
<1>1. PICK old, item, box : /\ old = mails[p][m] /\ item = old.item
                            /\ box = [mails EXCEPT ![p] = Delete(@, {m})]
  OBVIOUS
<1>2. m \in DOMAIN mails[p]
  BY DEF HandleMailReturnToSender
<1>3. m \in DOMAIN F.mail /\ F.mail[m] = old /\ old.to = p /\ IsLetter(old)
  BY <1>1, <1>2, BoxFacts
<1>4. item \in mMitems[p] \cup {Nothing} /\ item \in Items \cup {Nothing} /\ old.money \in Nat
  <2>1. Held(mails, mMitems)
    BY CurrentFacts
  <2> QED
    BY <1>1, <1>2, <1>3, <2>1 DEF Held, IsLetter
<1>5. mailId \in Nat
  BY DEF StoreTypes
<1>6. CASE old.from # Nobody
  <2>1. PICK l, hold : /\ l = Letter(p, old.from, old.money, 0, item)
                       /\ hold = [mMitems EXCEPT ![p] = @ \ {item}]
    OBVIOUS
  <2>2. PICK rows : rows = Rows(<<l>>)
    OBVIOUS
  <2>3. PICK t : t = [NoWrites EXCEPT !.unmail = {m}, !.mail = rows]
    OBVIOUS
  <2>4. item = IF old.item \in mMitems[p] THEN old.item ELSE Nothing
    BY <1>1, <1>4
  <2>5. SendMailTo(box, hold, rows) /\ Commit(<<t>>)
    BY <1>1, <1>6, <2>1, <2>2, <2>3, <2>4 DEF HandleMailReturnToSender
  <2>6. IsLetter(l) /\ l.money = old.money /\ l.item = item
    <3>1. l = [from |-> p, to |-> old.from, money |-> old.money, cod |-> 0, item |-> item]
      BY <2>1 DEF Letter
    <3>2. old.from \in Players /\ old.money < Word /\ 0 < Word
      BY <1>3, <1>6, MailAssumption DEF IsLetter
    <3> QED
      BY <1>4, <3>1, <3>2 DEF IsLetter
  <2>7. /\ NewMails(rows, mailId, 1) /\ Posted(rows) = old.money
        /\ \A j : With(rows, j) = IF item = j THEN {mailId} ELSE {}
    BY <1>5, <2>2, <2>6, OneLetter
  <2>8. Unmails(t, m, rows) /\ t.spent = 0 /\ t.thrown = {}
    BY <2>3 DEF Unmails, NoWrites
  <2>9. Rehouses(item, rows, t.thrown)
    BY <2>7 DEF Rehouses
  <2>10. Held(box, hold)
    BY <1>1, <1>2, <2>1, HeldDel
  <2>11. Posting(p, m, hold, rows)
    BY <1>1, <2>5, <2>10 DEF Posting
  <2>12. t.spent \in Nat /\ Posted(rows) + t.spent = old.money /\ 1 \in Nat
    BY <1>4, <2>7, <2>8
  <2> QED
    BY <1>1, <2>5, <2>7, <2>8, <2>9, <2>11, <2>12
<1>7. CASE old.from = Nobody
  <2>1. PICK rows, hold : rows = NoRows /\ hold = mMitems
    OBVIOUS
  <2>2. PICK t : t = [NoWrites EXCEPT !.unmail = {m}, !.spent = old.money, !.thrown = {item} \ {Nothing}]
    OBVIOUS
  <2>3. SendMailTo(box, hold, rows) /\ Commit(<<t>>)
    BY <1>1, <1>7, <2>1, <2>2 DEF HandleMailReturnToSender
  <2>4. /\ NewMails(rows, mailId, 0) /\ Posted(rows) = 0 /\ \A j : With(rows, j) = {}
    BY <1>5, <2>1, NoLetter
  <2>5. Unmails(t, m, rows) /\ t.spent = old.money /\ t.thrown = {item} \ {Nothing}
    BY <2>1, <2>2 DEF Unmails, NoWrites
  <2>6. Rehouses(item, rows, t.thrown)
    BY <2>4, <2>5, StoreAssumption DEF Rehouses
  <2>7. Held(box, hold)
    BY <1>1, <1>2, <2>1, HeldDel
  <2>8. Posting(p, m, hold, rows)
    BY <1>1, <2>3, <2>7 DEF Posting
  <2>9. t.spent \in Nat /\ Posted(rows) + t.spent = old.money /\ 0 \in Nat
    BY <1>4, <2>4, <2>5
  <2> QED
    BY <1>1, <2>3, <2>4, <2>5, <2>6, <2>8, <2>9
<1> QED
  BY <1>6, <1>7

LEMMA ReturnDone ==
  ASSUME StoreTypes, NEW F, Current(F), NEW p \in Players, NEW m, HandleMailReturnToSender(p, m),
         UNCHANGED auctionVars
  PROVE  Settles(F)
<1>1. PICK old, item, box : /\ old = mails[p][m] /\ item = old.item
                            /\ box = [mails EXCEPT ![p] = Delete(@, {m})]
  OBVIOUS
<1>2. PICK t, rows, hold : \E k \in Nat :
        /\ Posting(p, m, hold, rows) /\ NewMails(rows, mailId, k) /\ Commit(<<t>>)
        /\ Unmails(t, m, rows) /\ t.spent \in Nat /\ Posted(rows) + t.spent = old.money
        /\ Rehouses(item, rows, t.thrown)
  BY <1>1, ReturnLetter
<1>3. PICK k \in Nat : NewMails(rows, mailId, k)
  BY <1>2
<1>4. /\ Posting(p, m, hold, rows) /\ Commit(<<t>>) /\ Unmails(t, m, rows)
      /\ t.spent \in Nat /\ Posted(rows) + t.spent = old.money /\ Rehouses(item, rows, t.thrown)
  BY <1>2
<1>5. /\ m \in DOMAIN mails[p] /\ UNCHANGED playerVars
      /\ SendMailTo(box, hold, rows) /\ Held(box, hold)
  BY <1>1, <1>4 DEF HandleMailReturnToSender, Posting
<1>6. m \in DOMAIN F.mail /\ F.mail[m] = old /\ old.to = p /\ IsLetter(old)
  BY <1>1, <1>5, BoxFacts
<1>7. old.money \in Nat /\ item \in Items \cup {Nothing}
  BY <1>1, <1>6 DEF IsLetter
<1>8. /\ \A j : j # item => With(rows, j) = {}
      /\ item \in Items => (\E n : With(rows, item) = {n}) \/ (With(rows, item) = {} /\ item \in t.thrown)
  BY <1>4 DEF Rehouses
<1>10. PICK G : Applied(F, t, G)
  BY DEF Applied
<1>11. /\ t.money = NoRows /\ t.inv = NoRows
       /\ t.mail = rows /\ t.mailSet = NoRows /\ t.unitem = {} /\ t.unmail = {m}
       /\ t.auc = NoRows /\ t.aucSet = NoRows /\ t.unauc = {} /\ t.load = {}
  BY <1>4 DEF Unmails
<1>12. IsStore(F) /\ IsMails(F.mail) /\ F.spent \in Int
  BY CurrentFacts
<1>13. G.money = F.money /\ G.inv = F.inv /\ G.auc = F.auc /\ G.spent = F.spent + t.spent
  BY <1>10, <1>11, <1>12, MoneyNone, InvNone, AucNone, SpentSum
<1>a. G.thrown = F.thrown \cup t.thrown
  BY <1>10 DEF Applied, Apply
<1>14. PICK H : Del(F.mail, m, H)
  BY DEF Del
<1>15. Add(H, rows, G.mail)
  <2>2. DOMAIN F.mail \cap DOMAIN rows = {}
    BY <1>3, FreshMails
  <2>3. G.mail = Insert(Delete(F.mail, {m}), rows)
    BY <1>6, <1>10, <1>11, <1>12, <2>2, MailDelete
  <2> QED
    BY <1>14, <2>3 DEF Add, Del
<1>16. /\ IsMails(H) /\ DOMAIN H = DOMAIN F.mail \ {m} /\ Posted(H) = Posted(F.mail) - old.money
       /\ \A j : With(H, j) = With(F.mail, j) \ {m}
  <2>1. Removed(F.mail, m, H)
    BY <1>6, <1>12, <1>14, DelMail
  <2> QED
    BY <1>6, <2>1 DEF Removed
<1>17. MailMemory(H, mailsLoaded, box) /\ DOMAIN box = Players /\ \A x \in Players \ mailsLoaded : RowsKept(x, F.mail, H)
  <2>1. MailMemory(F.mail, mailsLoaded, mails) /\ DOMAIN mails = Players
    BY CurrentFacts DEF StoreTypes
  <2> QED
    BY <1>1, <1>5, <1>12, <1>14, <2>1, DelBox
<1>18. Posts(F, H, box, hold, rows, G)
  BY <1>5, <1>15, <1>16, <1>17 DEF Posts
<1>19. /\ MailPart(F, G) /\ IsMails(G.mail) /\ Posted(G.mail) = Posted(H) + Posted(rows)
       /\ \A j : With(G.mail, j) = With(H, j) \cup With(rows, j)
  BY <1>3, <1>18, PostsDone
<1>20. IsStore(G)
  BY <1>4, <1>12, <1>13, <1>19 DEF IsStore
<1>21. Concerns(F, G, item)
  <2>1. \A j \in Items \ {item} : m \notin With(F.mail, j)
    BY <1>1, <1>6 DEF With
  <2>2. \A j \in Items \ {item} : With(rows, j) = {}
    BY <1>8
  <2>3. \A j \in Items \ {item} : With(G.mail, j) = With(F.mail, j)
    BY <1>16, <1>19, <2>1, <2>2
  <2> QED
    BY <1>13, <2>3 DEF Concerns
<1>22. item \in Items => (Absent(G, item) \/ Placed(G, item)) /\ (Placed(G, item) \/ item \in G.thrown)
  <2> SUFFICES ASSUME item \in Items
               PROVE  Mailed(G, item) \/ (Absent(G, item) /\ item \in G.thrown)
    BY DEF Placed
  <2>1. F.inv[item] = Nobody /\ With(F.mail, item) = {m} /\ With(F.auc, item) = {}
    BY <1>1, <1>6, MailItem
  <2>2. With(G.mail, item) = With(rows, item)
    BY <1>16, <1>19, <2>1
  <2>3. CASE \E n : With(rows, item) = {n}
    BY <1>13, <2>1, <2>2, <2>3 DEF Mailed
  <2>4. CASE With(rows, item) = {} /\ item \in t.thrown
    BY <1>13, <1>a, <2>1, <2>2, <2>4 DEF Absent
  <2> QED
    BY <1>8, <2>3, <2>4
<1>23. Fine(G) /\ ItemsKept(F, G)
  BY <1>20, <1>21, <1>22, FineMove
<1>24. HousePart(G) /\ PursePart(F, G)
  BY <1>5, <1>13, HouseSame, PurseSame
<1>25. ASSUME IsFiniteSet(Players)
       PROVE  GoldIn(G) = GoldIn(F)
  <2>1. PICK a, b, x, c, e : /\ a = Posted(F.mail) /\ b = Staked(F.auc) /\ x = F.spent /\ c = Posted(G.mail)
                             /\ e = Posted(rows)
    OBVIOUS
  <2>2. /\ a \in Nat /\ b \in Nat /\ x \in Int /\ c = (a - old.money) + e /\ e + t.spent = old.money
    BY <1>4, <1>12, <1>16, <1>19, <1>25, <2>1, GoldNat
  <2>3. e \in Nat
    BY <1>3, <2>1, PostedNat DEF NewMails
  <2>4. (c - a) + (b - b) + (G.spent - x) = 0
    BY <1>4, <1>7, <1>13, <2>1, <2>2, <2>3
  <2> QED
    BY <1>12, <1>13, <1>20, <1>25, <2>1, <2>4, BalanceSame
<1>26. UNCHANGED <<online, fetched>>
  BY <1>5 DEF playerVars
<1>27. Done(F, G)
  BY <1>4, <1>19, <1>23, <1>24, <1>26, AllParts
<1> QED
  BY <1>4, <1>10, <1>11, <1>23, <1>25, <1>27 DEF Settles, GoldKept

-----------------------------------------------------------------------------
(* The letters of the auction house.                                       *)

LetterType == [from : Players \cup {Nobody}, to : Players, money : Nat, cod : Nat,
               item : Items \cup {Nothing}]

\* The letters s, k of them, with gold in all; only the last carries an item,
\* which is i.
Writes(s, k, gold, i) ==
  /\ k \in 0..3 /\ s \in Seq(LetterType) /\ IsLetters(s, k) /\ Worth(s, k) = gold
  /\ \A n \in 1..k : n < k => s[n].item = Nothing
  /\ k > 0 => s[k].item = i
  /\ k = 0 => i = Nothing

LEMMA WritesNone == Writes(<<>>, 0, 0, Nothing)
  BY DEF Writes, IsLetters, Worth

LEMMA WritesOne ==
  ASSUME NEW l, IsLetter(l)
  PROVE  Writes(<<l>>, 1, l.money, l.item)
<1>1. PICK s : s = <<l>>
  OBVIOUS
<1>2. Len(s) = 1 /\ s[1] = l /\ l \in LetterType
  BY <1>1 DEF IsLetter, LetterType
<1>3. s \in Seq(LetterType)
  BY <1>1, <1>2
<1>4. IsLetters(s, 1)
  BY <1>2 DEF IsLetters
<1>5. Worth(s, 1) = l.money
  BY <1>2 DEF Worth
<1>6. Writes(s, 1, l.money, l.item)
  BY <1>2, <1>3, <1>4, <1>5 DEF Writes
<1> QED
  BY <1>1, <1>6

LEMMA WritesBoth ==
  ASSUME NEW s, NEW k, NEW gold, Writes(s, k, gold, Nothing), NEW u, NEW l, NEW more, NEW i, Writes(u, l, more, i),
         k + l <= 3
  PROVE  Writes(s \o u, k + l, gold + more, i)
<1>1. PICK w, h : w = s \o u /\ h = k + l
  OBVIOUS
<1>2. /\ k \in 0..3 /\ l \in 0..3 /\ h \in 0..3 /\ h = k + l /\ Len(s) = k /\ Len(u) = l
      /\ s \in Seq(LetterType) /\ u \in Seq(LetterType)
  BY <1>1 DEF Writes, IsLetters
<1>3. /\ w \in Seq(LetterType) /\ Len(w) = h
      /\ \A n \in 1..h : w[n] = IF n <= k THEN s[n] ELSE u[n - k]
  BY <1>1, <1>2
<1>4. \A n \in 1..h : (n <= k /\ n \in 1..k) \/ (n > k /\ n - k \in 1..l)
  BY <1>2
<1>5. IsLetters(w, h)
  BY <1>2, <1>3, <1>4 DEF Writes, IsLetters
<1>6. \A n \in 1..h : n < h => w[n].item = Nothing
  <2> SUFFICES ASSUME NEW n \in 1..h, n < h PROVE w[n].item = Nothing
    OBVIOUS
  <2>1. CASE n <= k
    <3>1. n \in 1..k /\ w[n] = s[n] /\ (n < k \/ (n = k /\ k > 0))
      BY <1>2, <1>3, <2>1
    <3> QED
      BY <3>1 DEF Writes
  <2>2. CASE n > k
    <3>1. n - k \in 1..l /\ n - k < l /\ w[n] = u[n - k]
      BY <1>2, <1>3, <1>4, <2>2
    <3> QED
      BY <3>1 DEF Writes
  <2> QED
    BY <1>2, <2>1, <2>2
<1>7. h > 0 => w[h].item = i
  <2>1. CASE l = 0
    BY <1>2, <1>3, <2>1 DEF Writes
  <2>2. CASE l > 0
    BY <1>2, <1>3, <2>2 DEF Writes
  <2> QED
    BY <1>2, <2>1, <2>2
<1>8. h = 0 => i = Nothing
  BY <1>2 DEF Writes
<1>9. Worth(w, h) = gold + more
  <2>1. \A n \in 1..k : s[n].money \in Nat
    BY DEF Writes, IsLetters, IsLetter
  <2>2. \A n \in 1..l : u[n].money \in Nat
    BY DEF Writes, IsLetters, IsLetter
  <2>3. gold = Worth(s, k) /\ more = Worth(u, l)
    BY DEF Writes
  <2>4. CASE k = 0
    <3>1. h = l /\ \A n \in 1..l : w[n] = u[n]
      BY <1>2, <1>3, <2>4
    <3> QED
      BY <1>2, <2>2, <2>3, <2>4, <3>1 DEF Worth
  <2>5. CASE l = 0
    <3>1. h = k /\ \A n \in 1..k : w[n] = s[n]
      BY <1>2, <1>3, <2>5
    <3> QED
      BY <1>2, <2>1, <2>3, <2>5, <3>1 DEF Worth
  <2>6. CASE k = 1 /\ l = 1
    <3>1. h = 2 /\ w[1] = s[1] /\ w[2] = u[1]
      BY <1>2, <1>3, <2>6
    <3> QED
      BY <2>1, <2>2, <2>3, <2>6, <3>1 DEF Worth
  <2>7. CASE k = 1 /\ l = 2
    <3>1. h = 3 /\ w[1] = s[1] /\ w[2] = u[1] /\ w[3] = u[2]
      BY <1>2, <1>3, <2>7
    <3> QED
      BY <2>1, <2>2, <2>3, <2>7, <3>1 DEF Worth
  <2>8. CASE k = 2 /\ l = 1
    <3>1. h = 3 /\ w[1] = s[1] /\ w[2] = s[2] /\ w[3] = u[1]
      BY <1>2, <1>3, <2>8
    <3> QED
      BY <2>1, <2>2, <2>3, <2>8, <3>1 DEF Worth
  <2> QED
    BY <1>2, <2>4, <2>5, <2>6, <2>7, <2>8
<1>10. Writes(w, h, gold + more, i)
  BY <1>2, <1>3, <1>5, <1>6, <1>7, <1>8, <1>9 DEF Writes
<1> QED
  BY <1>1, <1>10

\* New mails with gold in all, and one item at most.
Carries(rows, gold, i) ==
  /\ \E k \in Nat : NewMails(rows, mailId, k)
  /\ Posted(rows) = gold
  /\ \A j \in Items : (j # i => With(rows, j) = {}) /\ (j = i => \E m : With(rows, j) = {m})

LEMMA WritesRows ==
  ASSUME mailId \in Nat, NEW s, NEW k, NEW gold, NEW i, Writes(s, k, gold, i)
  PROVE  Carries(Rows(s), gold, i)
<1>1. PICK rows : rows = Rows(s)
  OBVIOUS
<1>2. k \in 0..3 /\ k \in Nat /\ IsLetters(s, k) /\ Worth(s, k) = gold
  BY DEF Writes
<1>3. NewMails(rows, mailId, k)
  BY <1>1, <1>2, RowsFacts
<1>4. Posted(rows) = gold
  BY <1>1, <1>2, RowsWorth
<1>5. ASSUME NEW j \in Items
      PROVE  (j # i => With(rows, j) = {}) /\ (j = i => \E m : With(rows, j) = {m})
  <2>1. j # Nothing
    BY StoreAssumption
  <2>2. \A n \in 1..(k - 1) : n \in 1..k /\ n < k
    BY <1>2
  <2>3. \A n \in 1..(k - 1) : s[n].item # j
    BY <2>1, <2>2 DEF Writes
  <2>4. With(rows, j) = IF k > 0 /\ s[k].item = j THEN {mailId + k - 1} ELSE {}
    BY <1>1, <1>2, <2>3, RowsWith
  <2>5. (k > 0 => s[k].item = i) /\ (k = 0 => i = Nothing)
    BY DEF Writes
  <2> QED
    BY <1>2, <2>1, <2>4, <2>5
<1>6. Carries(rows, gold, i)
  BY <1>2, <1>3, <1>4, <1>5 DEF Carries
<1> QED
  BY <1>1, <1>6

LEMMA CarriesNothing ==
  ASSUME mailId \in Nat
  PROVE  Carries(NoRows, 0, Nothing)
<1>1. PICK rows : rows = NoRows
  OBVIOUS
<1>2. NewMails(rows, mailId, 0) /\ Posted(rows) = 0 /\ \A i : With(rows, i) = {}
  BY <1>1, NoLetter
<1>3. Carries(rows, 0, Nothing)
  BY <1>2, StoreAssumption DEF Carries
<1> QED
  BY <1>1, <1>3

LEMMA CutFacts ==
  ASSUME NEW a, a.bid \in Nat
  PROVE  GetAuctionCut(a) \in Nat /\ GetAuctionCut(a) <= a.bid
<1>1. PICK b, c, x : b = a.bid /\ c = CutPercent /\ x = b * c
  OBVIOUS
<1>2. b \in Nat /\ c \in Nat /\ c <= 100
  BY <1>1, AuctionAssumption
<1>3. x \in Nat /\ x <= 100 * b
  BY <1>1, <1>2
<1>4. x \div 100 \in Nat /\ x \div 100 <= b
  BY <1>2, <1>3
<1> QED
  BY <1>1, <1>4 DEF GetAuctionCut

LEMMA RefundWrites ==
  ASSUME NEW a, IsAuction(a)
  PROVE  \E k \in 0..1 : Writes(RefundMail(a), k, a.bid, Nothing)
<1>1. /\ a.bidder \in Players \cup {Nobody} /\ a.bid \in Nat /\ (a.bidder = Nobody => a.bid = 0)
      /\ a.bid < Word /\ 0 < Word
  BY MailAssumption, AuctionAssumption DEF IsAuction
<1>2. CASE a.bidder = Nobody
  <2>1. RefundMail(a) = <<>> /\ a.bid = 0
    BY <1>1, <1>2 DEF RefundMail
  <2> QED
    BY <2>1, WritesNone
<1>3. CASE a.bidder # Nobody
  <2>1. PICK l : l = Letter(Nobody, a.bidder, a.bid, 0, Nothing)
    OBVIOUS
  <2>2. IsLetter(l) /\ l.money = a.bid /\ l.item = Nothing
    <3>1. l = [from |-> Nobody, to |-> a.bidder, money |-> a.bid, cod |-> 0, item |-> Nothing]
      BY <2>1 DEF Letter
    <3> QED
      BY <1>1, <1>3, <3>1 DEF IsLetter
  <2>3. RefundMail(a) = <<l>>
    BY <1>3, <2>1 DEF RefundMail
  <2>4. Writes(<<l>>, 1, a.bid, Nothing)
    BY <2>2, WritesOne
  <2> QED
    BY <2>3, <2>4
<1> QED
  BY <1>2, <1>3

LEMMA ItemWrites ==
  ASSUME NEW x \in Players, NEW i \in Items
  PROVE  Writes(<<Letter(Nobody, x, 0, 0, i)>>, 1, 0, i)
<1>1. PICK l : l = Letter(Nobody, x, 0, 0, i)
  OBVIOUS
<1>2. IsLetter(l) /\ l.money = 0 /\ l.item = i
  <2>1. l = [from |-> Nobody, to |-> x, money |-> 0, cod |-> 0, item |-> i] /\ 0 < Word
    BY <1>1, MailAssumption DEF Letter
  <2> QED
    BY <2>1 DEF IsLetter
<1> QED
  BY <1>1, <1>2, WritesOne

\* A sale: the gold of the owner, and the item of the winner if he is found.
LEMMA SaleWrites ==
  ASSUME NEW a, a.bid \in Nat, a.deposit \in Nat, a.owner \in Players, a.bidder \in Players, a.item \in Items,
         a.bid + a.deposit < Word, NEW held, a.item \in held
  PROVE  /\ Writes(SuccessfulMail(a), 1, a.bid + a.deposit - GetAuctionCut(a), Nothing)
         /\ \E k \in 0..1 : \E i \in {a.item, Nothing} :
              Writes(WonMail(a, held), k, 0, i) /\ (LogTrade => i = a.item)
<1>1. PICK gold, l : /\ gold = a.bid + a.deposit - GetAuctionCut(a)
                     /\ l = Letter(Nobody, a.owner, gold, 0, Nothing)
  OBVIOUS
<1>2. gold \in Nat /\ gold < Word
  <2>1. GetAuctionCut(a) \in Nat /\ GetAuctionCut(a) <= a.bid /\ Word \in Nat
    BY CutFacts, MailAssumption
  <2> QED
    BY <1>1, <2>1
<1>3. IsLetter(l) /\ l.money = gold /\ l.item = Nothing
  <2>1. l = [from |-> Nobody, to |-> a.owner, money |-> gold, cod |-> 0, item |-> Nothing] /\ 0 < Word
    BY <1>1, MailAssumption DEF Letter
  <2> QED
    BY <1>2, <2>1 DEF IsLetter
<1>4. SuccessfulMail(a) = <<l>>
  BY <1>1 DEF SuccessfulMail
<1>5. Writes(SuccessfulMail(a), 1, gold, Nothing)
  BY <1>3, <1>4, WritesOne
<1>6. CASE online[a.bidder] = "in" \/ LogTrade
  <2>1. WonMail(a, held) = <<Letter(Nobody, a.bidder, 0, 0, a.item)>>
    BY <1>6 DEF WonMail
  <2>2. Writes(WonMail(a, held), 1, 0, a.item)
    BY <2>1, ItemWrites
  <2> QED
    BY <1>1, <1>5, <2>2
<1>7. CASE ~(online[a.bidder] = "in" \/ LogTrade)
  <2>1. WonMail(a, held) = <<>>
    BY <1>7 DEF WonMail
  <2>2. Writes(WonMail(a, held), 0, 0, Nothing)
    BY <2>1, WritesNone
  <2> QED
    BY <1>1, <1>5, <1>7, <2>2
<1> QED
  BY <1>6, <1>7

-----------------------------------------------------------------------------
(* The auction house.                                                      *)

LEMMA HouseFacts ==
  ASSUME StoreTypes, NEW F, Current(F), NEW id \in DOMAIN AuctionsMap
  PROVE  /\ id \in DOMAIN F.auc /\ F.auc[id] = AuctionsMap[id] /\ IsAuction(AuctionsMap[id])
         /\ AuctionsMap[id].item \in mAitems
<1>1. F.auc = AuctionsMap /\ mAitems = {AuctionsMap[k].item : k \in DOMAIN AuctionsMap}
  BY CurrentFacts DEF HouseMemory
<1>2. IsAuction(F.auc[id])
  BY <1>1, CurrentFacts DEF IsAuctions
<1> QED
  BY <1>1, <1>2

Carried(F, G, gold, i) ==
  /\ MailPart(F, G) /\ IsMails(G.mail) /\ Posted(G.mail) = Posted(F.mail) + gold
  /\ \A j \in Items : (j # i => With(G.mail, j) = With(F.mail, j))
                      /\ (j = i => \E m : With(G.mail, j) = With(F.mail, j) \cup {m})

LEMMA CarriesPosts ==
  ASSUME StoreTypes, NEW F, Current(F), NEW rows, NEW gold, NEW i, Carries(rows, gold, i),
         SendMailTo(mails, mMitems, rows), NEW G, Add(F.mail, rows, G.mail)
  PROVE  Carried(F, G, gold, i)
<1>1. PICK k \in Nat : NewMails(rows, mailId, k)
  BY DEF Carries
<1>2. Posts(F, F.mail, mails, mMitems, rows, G)
  BY PostsOnly
<1>3. /\ MailPart(F, G) /\ IsMails(G.mail) /\ Posted(G.mail) = Posted(F.mail) + Posted(rows)
      /\ \A j : With(G.mail, j) = With(F.mail, j) \cup With(rows, j)
  BY <1>1, <1>2, PostsDone
<1>4. Posted(rows) = gold /\ \A j \in Items : (j # i => With(rows, j) = {}) /\ (j = i => \E m : With(rows, j) = {m})
  BY DEF Carries
<1>5. \A j \in Items : j # i => With(G.mail, j) = With(F.mail, j)
  BY <1>3, <1>4
<1>6. \A j \in Items : j = i => \E m : With(G.mail, j) = With(F.mail, j) \cup {m}
  BY <1>3, <1>4
<1> QED
  BY <1>3, <1>4, <1>5, <1>6 DEF Carried

\* Purses are within the limit.
Purses(f) == f \in [Players -> Nat] /\ \A x \in Players : f[x] <= MaxMoney

\* Auction id ends, and its item goes with one of the mails or is lost.
Closes(F, G, id, rows) ==
  /\ Forget(id) /\ SendMailTo(mails, mMitems, rows)
  /\ Purses(G.money) /\ G.inv = F.inv /\ G.spent \in Int
  /\ Add(F.mail, rows, G.mail) /\ Del(F.auc, id, G.auc)

\* An auction leaves memory and tables, and its item is in a mail.
LEMMA ClosesDone ==
  ASSUME StoreTypes, NEW F, Current(F), NEW id \in DOMAIN AuctionsMap, NEW rows, NEW G, Closes(F, G, id, rows),
         NEW gold, NEW i \in {AuctionsMap[id].item, Nothing}, Carries(rows, gold, i),
         LogTrade => i = AuctionsMap[id].item
  PROVE  /\ IsStore(G) /\ Fine(G) /\ ItemsKept(F, G) /\ MailPart(F, G) /\ HousePart(G)
         /\ Posted(G.mail) = Posted(F.mail) + gold
         /\ Staked(G.auc) = Staked(F.auc) - (AuctionsMap[id].bid + AuctionsMap[id].deposit)
<1>1. PICK a, item : a = AuctionsMap[id] /\ item = a.item
  OBVIOUS
<1>2. id \in DOMAIN F.auc /\ F.auc[id] = a /\ IsAuction(a) /\ item \in Items
  BY <1>1, HouseFacts DEF IsAuction
<1>3. /\ Forget(id) /\ SendMailTo(mails, mMitems, rows)
      /\ Purses(G.money) /\ G.inv = F.inv /\ G.spent \in Int
      /\ Add(F.mail, rows, G.mail) /\ Del(F.auc, id, G.auc)
  BY DEF Closes
<1>4. /\ MailPart(F, G) /\ IsMails(G.mail) /\ Posted(G.mail) = Posted(F.mail) + gold
      /\ \A j \in Items : (j # i => With(G.mail, j) = With(F.mail, j))
                          /\ (j = i => \E m : With(G.mail, j) = With(F.mail, j) \cup {m})
  <2>1. Carried(F, G, gold, i)
    BY <1>3, CarriesPosts
  <2> QED
    BY <2>1 DEF Carried
<1>5. IsStore(F) /\ IsAuctions(F.auc) /\ F.inv \in [Items -> Players \cup {Nobody}]
  BY CurrentFacts
<1>6. /\ IsAuctions(G.auc) /\ DOMAIN G.auc = DOMAIN F.auc \ {id}
      /\ Staked(G.auc) = Staked(F.auc) - (F.auc[id].bid + F.auc[id].deposit)
      /\ \A j : With(G.auc, j) = With(F.auc, j) \ {id}
  <2>1. PICK g : g = G.auc
    OBVIOUS
  <2>2. Del(F.auc, id, g)
    BY <1>3, <2>1
  <2>3. /\ IsAuctions(g) /\ Staked(g) = Staked(F.auc) - (F.auc[id].bid + F.auc[id].deposit)
    BY <1>2, <1>5, <2>2, AuctionsDelete, StakedDelete DEF Del
  <2>4. Deleted(F.auc, {id}, g)
    BY <2>2, DeleteFacts DEF Del
  <2>5. \A j : With(g, j) = With(F.auc, j) \ {id}
    BY <2>4 DEF Deleted, With
  <2> QED
    BY <2>1, <2>3, <2>4, <2>5 DEF Deleted
<1>7. IsStore(G)
  BY <1>3, <1>4, <1>5, <1>6 DEF IsStore, Purses
<1>8. F.inv[item] = Nobody /\ With(F.mail, item) = {} /\ With(F.auc, item) = {id}
  BY <1>1, <1>2, AuctionItem
<1>9. Concerns(F, G, item)
  <2>1. \A j \in Items \ {item} : id \notin With(F.auc, j) /\ j # i
    BY <1>1, <1>2, StoreAssumption DEF With
  <2>2. \A j \in Items \ {item} : With(G.mail, j) = With(F.mail, j)
    BY <1>4, <2>1
  <2>3. \A j \in Items \ {item} : With(G.auc, j) = With(F.auc, j)
    BY <1>6, <2>1
  <2> QED
    BY <1>3, <2>2, <2>3 DEF Concerns
<1>10. With(G.auc, item) = {} /\ G.inv[item] = Nobody
  BY <1>3, <1>6, <1>8
<1>13. HousePart(G)
  <2>1. PICK g : g = G.auc
    OBVIOUS
  <2>2. Fine(F) /\ HouseMemory(F.auc, AuctionsMap, mAitems) /\ g = Delete(F.auc, {id})
    BY <1>3, <2>1, CurrentFacts DEF Del
  <2>3. HouseMemory(g, AuctionsMap', mAitems') /\ auctionId' = auctionId
    BY <1>3, <2>2, ForgetStep
  <2>4. \A k \in DOMAIN g : k < auctionId
    BY <1>6, <2>1, CurrentFacts
  <2>5. auctionId \in Nat \ {0}
    BY DEF StoreTypes
  <2> QED
    BY <2>1, <2>3, <2>4, <2>5 DEF HousePart
<1>11. CASE i = item
  <2>1. Placed(G, item)
    <3>1. PICK m : With(G.mail, item) = With(F.mail, item) \cup {m}
      BY <1>2, <1>4, <1>11
    <3>2. With(G.mail, item) = {m}
      BY <1>8, <3>1
    <3> QED
      BY <1>10, <3>2 DEF Placed, Mailed
  <2>2. Fine(G) /\ ItemsKept(F, G)
    BY <1>7, <1>9, <2>1, FineMove
  <2> QED
    BY <1>1, <1>2, <1>4, <1>6, <1>7, <1>13, <2>2
<1>12. CASE i # item
  <2>1. Absent(G, item) /\ ~LogTrade
    BY <1>1, <1>2, <1>4, <1>8, <1>10, <1>12 DEF Absent
  <2>2. Fine(G) /\ ItemsKept(F, G)
    BY <1>7, <1>9, <2>1, FineMove
  <2> QED
    BY <1>1, <1>2, <1>4, <1>6, <1>7, <1>13, <2>2
<1> QED
  BY <1>11, <1>12

\* A transaction that ends auction id with the mails rows and a fee.
Ends(t, rows, id, fee) ==
  /\ t.inv = NoRows /\ t.mail = rows /\ t.mailSet = NoRows /\ t.unitem = {} /\ t.unmail = {}
  /\ t.auc = NoRows /\ t.aucSet = NoRows /\ t.unauc = {id} /\ t.spent = fee /\ t.load = {}
Ended(F, G, id, gold, fee) ==
  /\ IsStore(G) /\ Fine(G) /\ ItemsKept(F, G) /\ MailPart(F, G) /\ HousePart(G)
  /\ G.inv = F.inv /\ G.spent = F.spent + fee
  /\ Posted(G.mail) = Posted(F.mail) + gold
  /\ Staked(G.auc) = Staked(F.auc) - (AuctionsMap[id].bid + AuctionsMap[id].deposit)

\* The auction ends: what it held is in the mails and the fee.
LEMMA EndsStep ==
  ASSUME StoreTypes, NEW F, Current(F), NEW id \in DOMAIN AuctionsMap, NEW rows, Forget(id), SendMailTo(mails, mMitems, rows),
         NEW t, NEW fee \in Nat, Ends(t, rows, id, fee), NEW G, Applied(F, t, G), Purses(G.money),
         NEW gold, NEW i \in {AuctionsMap[id].item, Nothing}, Carries(rows, gold, i),
         LogTrade => i = AuctionsMap[id].item
  PROVE  Ended(F, G, id, gold, fee)
<1>1. IsStore(F) /\ F.spent \in Int
  BY CurrentFacts
<1>2. /\ t.inv = NoRows /\ t.mail = rows /\ t.mailSet = NoRows /\ t.unitem = {} /\ t.unmail = {}
      /\ t.auc = NoRows /\ t.aucSet = NoRows /\ t.unauc = {id} /\ t.spent = fee
  BY DEF Ends
<1>3. G.inv = F.inv /\ G.spent = F.spent + fee /\ G.spent \in Int
  BY <1>1, <1>2, InvNone, SpentSum
<1>4. Add(F.mail, rows, G.mail)
  BY <1>1, <1>2, MailInsert DEF Add
<1>5. Del(F.auc, id, G.auc)
  BY <1>1, <1>2, AucDelete DEF Del
<1>6. Closes(F, G, id, rows)
  BY <1>3, <1>4, <1>5 DEF Closes
<1>7. /\ IsStore(G) /\ Fine(G) /\ ItemsKept(F, G) /\ MailPart(F, G) /\ HousePart(G)
      /\ Posted(G.mail) = Posted(F.mail) + gold
      /\ Staked(G.auc) = Staked(F.auc) - (AuctionsMap[id].bid + AuctionsMap[id].deposit)
  BY <1>6, ClosesDone
<1> QED
  BY <1>3, <1>7 DEF Ended

\* Nobody pays: the gold of the auction is sent or spent.
LEMMA EndsFree ==
  ASSUME StoreTypes, NEW F, Current(F), NEW id \in DOMAIN AuctionsMap, NEW rows, Forget(id), SendMailTo(mails, mMitems, rows),
         NEW t, Commit(<<t>>), NEW fee \in Nat, Ends(t, rows, id, fee), t.money = NoRows, UNCHANGED playerVars,
         NEW gold \in Nat, NEW i \in {AuctionsMap[id].item, Nothing}, Carries(rows, gold, i),
         LogTrade => i = AuctionsMap[id].item,
         gold + fee = AuctionsMap[id].bid + AuctionsMap[id].deposit
  PROVE  Settles(F)
<1>1. PICK G : Applied(F, t, G)
  BY DEF Applied
<1>2. IsStore(F) /\ F.spent \in Int /\ F.money \in [Players -> Nat]
  BY CurrentFacts
<1>3. G.money = F.money
  BY <1>1, <1>2, MoneyNone
<1>4. Ended(F, G, id, gold, fee)
  <2>1. Purses(G.money)
    BY <1>2, <1>3 DEF IsStore, Purses
  <2> QED
    BY <1>1, <2>1, EndsStep
<1>5. PursePart(F, G)
  BY <1>3, <1>4, PurseSame DEF Ended
<1>6. Done(F, G)
  BY <1>4, <1>5, AllParts DEF Ended, playerVars
<1>7. ASSUME IsFiniteSet(Players)
      PROVE  GoldIn(G) = GoldIn(F)
  <2>1. PICK a, b, x, c, e : /\ a = Posted(F.mail) /\ b = Staked(F.auc) /\ x = F.spent /\ c = Posted(G.mail)
                             /\ e = AuctionsMap[id].bid + AuctionsMap[id].deposit
    OBVIOUS
  <2>2. /\ a \in Nat /\ b \in Nat /\ x \in Int /\ c = a + gold /\ Staked(G.auc) = b - e /\ G.spent = x + fee
        /\ e = gold + fee
    BY <1>2, <1>4, <1>7, <2>1, GoldNat DEF Ended
  <2>3. (c - a) + (Staked(G.auc) - b) + (G.spent - x) = 0
    BY <2>2
  <2> QED
    BY <1>2, <1>3, <1>4, <1>7, <2>1, <2>3, BalanceSame DEF Ended
<1>8. t.load = {} /\ ItemsKept(F, G)
  BY <1>4 DEF Ends, Ended
<1> QED
  BY <1>1, <1>6, <1>7, <1>8 DEF Settles, GoldKept

\* Player p pays cost.
Paid(t, p, cost) ==
  /\ online[p] = "in" /\ money[p] >= cost /\ UNCHANGED <<online, fetched, bags>>
  /\ t.money = OneRow(p, ModifyMoney(money[p], -cost))
  /\ money' = [money EXCEPT ![p] = ModifyMoney(money[p], -cost)]

\* The player who ends it pays.
LEMMA PaidPurse ==
  ASSUME StoreTypes, NEW F, Current(F), NEW p \in Players, NEW cost \in Nat, NEW t, Paid(t, p, cost),
         NEW G, Applied(F, t, G), G.inv = F.inv
  PROVE  PursePart(F, G)
<1>1. PICK rest : rest = ModifyMoney(money[p], -cost)
  OBVIOUS
<1>2. /\ online[p] = "in" /\ UNCHANGED <<online, fetched, bags>> /\ t.money = OneRow(p, rest)
      /\ money' = [money EXCEPT ![p] = rest]
  BY <1>1 DEF Paid
<1>3. G.money = [F.money EXCEPT ![p] = rest]
  BY <1>2, CurrentFacts, MoneyOne
<1>4. {i \in Items : F.inv[i] = p} = bags[p]
  BY <1>2, CurrentFacts DEF PurseMemory
<1>5. Pays(p, rest, {i \in Items : G.inv[i] = p})
  BY <1>2, <1>4 DEF Pays, StoreTypes
<1>6. PaysFor(F, G, p, rest)
  BY <1>2, <1>3, <1>5 DEF PaysFor
<1> QED
  BY <1>6, PurseDone

LEMMA PaidRest ==
  ASSUME StoreTypes, NEW F, Current(F), NEW p \in Players, NEW cost \in Nat, NEW t, Paid(t, p, cost),
         NEW G, Applied(F, t, G)
  PROVE  Purses(G.money)
<1>1. PICK rest : rest = ModifyMoney(money[p], -cost)
  OBVIOUS
<1>2. online[p] = "in" /\ -cost \in Int /\ -cost <= MaxMoney /\ t.money = OneRow(p, rest)
  BY <1>1, StoreAssumption DEF Paid
<1>3. money[p] \in Nat /\ money[p] <= MaxMoney
  BY <1>2, InFacts
<1>4. rest \in Nat /\ rest <= MaxMoney
  BY <1>1, <1>2, <1>3, ModifyNat
<1>5. IsStore(F) /\ G.money = [F.money EXCEPT ![p] = rest]
  BY <1>2, CurrentFacts, MoneyOne
<1> QED
  BY <1>4, <1>5 DEF IsStore, Purses

LEMMA PaidGold ==
  ASSUME StoreTypes, NEW F, Current(F), NEW p \in Players, NEW cost \in Nat, NEW t, Paid(t, p, cost),
         NEW G, Applied(F, t, G), IsStore(G), IsFiniteSet(Players),
         (Posted(G.mail) - Posted(F.mail)) + (Staked(G.auc) - Staked(F.auc)) + (G.spent - F.spent) = cost
  PROVE  GoldIn(G) = GoldIn(F)
<1>1. PICK rest : rest = ModifyMoney(money[p], -cost)
  OBVIOUS
<1>2. online[p] = "in" /\ money[p] >= cost /\ t.money = OneRow(p, rest)
  BY <1>1 DEF Paid
<1>3. IsStore(F) /\ G.money = [F.money EXCEPT ![p] = rest]
  BY <1>2, CurrentFacts, MoneyOne
<1>4. F.money[p] = money[p] /\ money[p] \in Nat
  BY <1>2, InFacts
<1>5. rest = money[p] - cost /\ rest \in Nat
  BY <1>1, <1>2, <1>4, Affords
<1>6. PICK b, c, d, e, g, h : /\ b = Posted(F.mail) /\ c = Staked(F.auc) /\ d = F.spent
                              /\ e = Posted(G.mail) /\ g = Staked(G.auc) /\ h = G.spent
  OBVIOUS
<1>7. b \in Nat /\ c \in Nat /\ d \in Int /\ e \in Nat /\ g \in Nat /\ h \in Int
  BY <1>3, <1>6, GoldNat
<1>8. (e - b) + (g - c) + (h - d) = cost
  BY <1>6
<1>9. rest - F.money[p] + (e - b) + (g - c) + (h - d) = 0
  BY <1>4, <1>5, <1>7, <1>8
<1> QED
  BY <1>3, <1>5, <1>6, <1>9, Balance

\* ... and what he pays is in the mails and the fee as well.
LEMMA EndsPaid ==
  ASSUME StoreTypes, NEW F, Current(F), NEW id \in DOMAIN AuctionsMap, NEW rows, Forget(id), SendMailTo(mails, mMitems, rows),
         NEW t, Commit(<<t>>), NEW fee \in Nat, Ends(t, rows, id, fee),
         NEW p \in Players, NEW cost \in Nat, Paid(t, p, cost),
         NEW gold \in Nat, NEW i \in {AuctionsMap[id].item, Nothing}, Carries(rows, gold, i),
         LogTrade => i = AuctionsMap[id].item,
         gold + fee = AuctionsMap[id].bid + AuctionsMap[id].deposit + cost
  PROVE  Settles(F)
<1>1. PICK G : Applied(F, t, G)
  BY DEF Applied
<1>2. IsStore(F) /\ F.spent \in Int /\ F.money \in [Players -> Nat]
  BY CurrentFacts
<1>3. Purses(G.money)
  BY <1>1, PaidRest
<1>4. Ended(F, G, id, gold, fee)
  BY <1>1, <1>3, EndsStep
<1>5. PursePart(F, G)
  BY <1>1, <1>4, PaidPurse DEF Ended
<1>6. Done(F, G)
  BY <1>4, <1>5, AllParts DEF Ended, Paid
<1>7. ASSUME IsFiniteSet(Players)
      PROVE  GoldIn(G) = GoldIn(F)
  <2>1. PICK a, b, x, c, y, e : /\ a = Posted(F.mail) /\ b = Staked(F.auc) /\ x = F.spent
                                /\ c = Posted(G.mail) /\ y = Staked(G.auc)
                                /\ e = AuctionsMap[id].bid + AuctionsMap[id].deposit
    OBVIOUS
  <2>2. IsAuction(AuctionsMap[id])
    BY HouseFacts
  <2>3. /\ a \in Nat /\ b \in Nat /\ x \in Int /\ c = a + gold /\ y = b - e /\ G.spent = x + fee
        /\ e \in Nat /\ gold + fee = e + cost
    BY <1>2, <1>4, <1>7, <2>1, <2>2, GoldNat DEF Ended, IsAuction
  <2>4. (c - a) + (y - b) + (G.spent - x) = cost
    BY <2>3
  <2> QED
    BY <1>1, <1>4, <1>7, <2>1, <2>4, PaidGold DEF Ended
<1>8. t.load = {} /\ ItemsKept(F, G)
  BY <1>4 DEF Ends, Ended
<1> QED
  BY <1>1, <1>6, <1>7, <1>8 DEF Settles, GoldKept

\* AuctionUpdate: the seller, the winner or the owner get what is theirs.
LEMMA UpdateDone ==
  ASSUME StoreTypes, NEW F, Current(F), NEW id, AuctionUpdate(id)
  PROVE  Settles(F)
<1>1. PICK a, s, rows : a = AuctionsMap[id] /\ s = Settlement(a, mAitems) /\ rows = Rows(s.letters)
  OBVIOUS
<1>2. PICK t : t = [NoWrites EXCEPT !.mail = rows, !.unauc = {id}, !.spent = s.fee]
  OBVIOUS
<1>3. /\ id \in DOMAIN AuctionsMap /\ SendMailTo(mails, mMitems, rows) /\ Commit(<<t>>) /\ Forget(id) /\ UNCHANGED playerVars
  BY <1>1, <1>2 DEF AuctionUpdate
<1>4. IsAuction(a) /\ a.item \in mAitems
  BY <1>1, <1>3, HouseFacts
<1>5. /\ a.item \in Items /\ a.owner \in Players /\ a.bid \in Nat /\ a.deposit \in Nat
      /\ a.bidder \in Players \cup {Nobody} /\ (a.bidder = Nobody => a.bid = 0)
      /\ a.bid + a.deposit < Word
  BY <1>4 DEF IsAuction
<1>6. mailId \in Nat
  BY DEF StoreTypes
<1>7. \E gold \in Nat, i \in {a.item, Nothing} :
        /\ Carries(rows, gold, i) /\ (LogTrade => i = a.item) /\ s.fee \in Nat /\ gold + s.fee = a.bid + a.deposit
  <2>1. CASE a.bidder = Nobody
    <3>1. s.letters = <<Letter(Nobody, a.owner, 0, 0, a.item)>> /\ s.fee = a.deposit
      BY <1>1, <1>4, <2>1 DEF Settlement, ReturnMail
    <3>2. Writes(s.letters, 1, 0, a.item)
      BY <1>5, <3>1, ItemWrites
    <3>3. Carries(rows, 0, a.item)
      BY <1>1, <1>6, <3>2, WritesRows
    <3> QED
      BY <1>5, <2>1, <3>1, <3>3
  <2>2. CASE a.bidder # Nobody
    <3>1. s.letters = SuccessfulMail(a) \o WonMail(a, mAitems) /\ s.fee = GetAuctionCut(a)
      BY <1>1, <2>2 DEF Settlement
    <3>2. PICK gold : gold = a.bid + a.deposit - GetAuctionCut(a)
      OBVIOUS
    <3>3. s.fee \in Nat /\ s.fee <= a.bid
      BY <1>5, <3>1, CutFacts
    <3>4. gold \in Nat /\ gold + s.fee = a.bid + a.deposit
      BY <1>5, <3>1, <3>2, <3>3
    <3>5. a.bidder \in Players
      BY <1>5, <2>2
    <3>6. /\ Writes(SuccessfulMail(a), 1, gold, Nothing)
          /\ \E k \in 0..1 : \E i \in {a.item, Nothing} :
               Writes(WonMail(a, mAitems), k, 0, i) /\ (LogTrade => i = a.item)
      BY <1>4, <1>5, <3>2, <3>5, SaleWrites
    <3>7. PICK k \in 0..1, i \in {a.item, Nothing} : Writes(WonMail(a, mAitems), k, 0, i) /\ (LogTrade => i = a.item)
      BY <3>6
    <3>8. 1 + k <= 3 /\ gold + 0 = gold
      BY <3>4
    <3>9. Writes(s.letters, 1 + k, gold, i)
      <4>1. Writes(SuccessfulMail(a) \o WonMail(a, mAitems), 1 + k, gold + 0, i)
        BY <3>6, <3>7, <3>8, WritesBoth
      <4> QED
        BY <3>1, <3>8, <4>1
    <3>10. Carries(rows, gold, i)
      BY <1>1, <1>6, <3>9, WritesRows
    <3> QED
      BY <3>3, <3>4, <3>7, <3>10
  <2> QED
    BY <2>1, <2>2
<1>8. PICK gold \in Nat, i \in {a.item, Nothing} :
        /\ Carries(rows, gold, i) /\ (LogTrade => i = a.item) /\ s.fee \in Nat /\ gold + s.fee = a.bid + a.deposit
  BY <1>7
<1>9. Ends(t, rows, id, s.fee) /\ t.money = NoRows
  BY <1>2 DEF Ends, NoWrites
<1> QED
  BY <1>1, <1>3, <1>8, <1>9, EndsFree

\* HandleAuctionRemoveItem: the owner pays the cut, the bidder is refunded.
LEMMA RemoveDone ==
  ASSUME StoreTypes, NEW F, Current(F), NEW p \in Players, NEW id, HandleAuctionRemoveItem(p, id)
  PROVE  Settles(F)
<1>1. PICK a, cut, fee, rows : /\ a = AuctionsMap[id] /\ cut = (IF a.bidder = Nobody THEN 0 ELSE GetAuctionCut(a))
                               /\ fee = cut + a.deposit /\ rows = Rows(RefundMail(a) \o ReturnMail(a, mAitems))
  OBVIOUS
<1>2. PICK t : t = [NoWrites EXCEPT !.money = GoldRow(p, ModifyMoney(money[p], -cut)), !.mail = rows,
                                    !.unauc = {id}, !.spent = fee]
  OBVIOUS
<1>3. /\ online[p] = "in" /\ id \in DOMAIN AuctionsMap /\ money[p] >= cut
      /\ SendMailTo(mails, mMitems, rows) /\ Commit(<<t>>) /\ Forget(id) /\ UNCHANGED <<online, fetched, bags>>
      /\ money' = [money EXCEPT ![p] = ModifyMoney(money[p], -cut)]
  BY <1>1, <1>2 DEF HandleAuctionRemoveItem, In, HasEnoughMoney
<1>4. IsAuction(a) /\ a.item \in mAitems
  BY <1>1, <1>3, HouseFacts
<1>5. /\ a.item \in Items /\ a.owner \in Players /\ a.bid \in Nat /\ a.deposit \in Nat
      /\ a.bidder \in Players \cup {Nobody} /\ (a.bidder = Nobody => a.bid = 0)
  BY <1>4 DEF IsAuction
<1>6. mailId \in Nat
  BY DEF StoreTypes
<1>7. cut \in Nat /\ fee \in Nat
  BY <1>1, <1>5, CutFacts
<1>8. Carries(rows, a.bid, a.item)
  <2>1. PICK k \in 0..1 : Writes(RefundMail(a), k, a.bid, Nothing)
    BY <1>4, RefundWrites
  <2>2. ReturnMail(a, mAitems) = <<Letter(Nobody, a.owner, 0, 0, a.item)>>
    BY <1>4 DEF ReturnMail
  <2>3. Writes(ReturnMail(a, mAitems), 1, 0, a.item)
    BY <1>5, <2>2, ItemWrites
  <2>4. k + 1 <= 3 /\ a.bid + 0 = a.bid
    BY <1>5
  <2>5. Writes(RefundMail(a) \o ReturnMail(a, mAitems), k + 1, a.bid + 0, a.item)
    BY <2>1, <2>3, <2>4, WritesBoth
  <2>6. Writes(RefundMail(a) \o ReturnMail(a, mAitems), k + 1, a.bid, a.item)
    BY <2>4, <2>5
  <2> QED
    BY <1>1, <1>6, <2>6, WritesRows
<1>9. Ends(t, rows, id, fee)
  BY <1>2 DEF Ends, NoWrites
<1>10. Paid(t, p, cut)
  BY <1>2, <1>3 DEF Paid, NoWrites, GoldRow
<1>11. a.bid + fee = a.bid + a.deposit + cut
  BY <1>1, <1>5, <1>7
<1> QED
  BY <1>1, <1>3, <1>5, <1>7, <1>8, <1>9, <1>10, <1>11, EndsPaid

\* HandleAuctionPlaceBid at the buyout.
LEMMA BuyoutDone ==
  ASSUME StoreTypes, NEW F, Current(F), NEW p \in Players, NEW id, NEW price \in Prices, Buyout(p, id, price)
  PROVE  Settles(F)
<1>1. PICK a, sold, mine, first :
        /\ a = AuctionsMap[id] /\ sold = [a EXCEPT !.bid = a.buyout, !.bidder = p] /\ mine = (a.bidder = p)
        /\ first = (IF mine THEN <<>> ELSE RefundMail(a))
  OBVIOUS
<1>2. PICK fee, rows, d :
        /\ fee = GetAuctionCut(sold) /\ rows = Rows(first \o SuccessfulMail(sold) \o WonMail(sold, mAitems))
        /\ d = IF mine THEN a.bid - a.buyout ELSE -a.buyout
  OBVIOUS
<1>3. PICK t : t = [NoWrites EXCEPT !.money = GoldRow(p, ModifyMoney(money[p], d)), !.mail = rows,
                                    !.unauc = {id}, !.spent = fee]
  OBVIOUS
<1>4. /\ online[p] = "in" /\ id \in DOMAIN AuctionsMap /\ money[p] >= price /\ price > a.bid
      /\ a.buyout > 0 /\ price >= a.buyout
      /\ SendMailTo(mails, mMitems, rows) /\ Commit(<<t>>) /\ Forget(id) /\ UNCHANGED <<online, fetched, bags>>
      /\ money' = [money EXCEPT ![p] = ModifyMoney(money[p], d)]
  BY <1>1, <1>2, <1>3 DEF Buyout, MayBid, In, HasEnoughMoney
<1>5. IsAuction(a) /\ a.item \in mAitems
  BY <1>1, <1>4, HouseFacts
<1>6. /\ a.item \in Items /\ a.owner \in Players /\ a.bid \in Nat /\ a.deposit \in Nat /\ a.buyout \in Nat
      /\ a.bidder \in Players \cup {Nobody} /\ a.bid < a.buyout /\ a.buyout + a.deposit < Word
  BY <1>4, <1>5 DEF IsAuction
<1>7. /\ sold.item = a.item /\ sold.owner = a.owner /\ sold.bid = a.buyout /\ sold.bidder = p /\ sold.deposit = a.deposit
  BY <1>1, <1>5 DEF IsAuction
<1>8. mailId \in Nat /\ price \in Nat /\ money[p] \in Nat
  BY <1>4, InFacts, AuctionAssumption DEF StoreTypes
<1>9. fee \in Nat /\ fee <= a.buyout
  BY <1>2, <1>6, <1>7, CutFacts
<1>10. PICK cost : cost = IF mine THEN a.buyout - a.bid ELSE a.buyout
  OBVIOUS
<1>11. cost \in Nat /\ money[p] >= cost /\ d = -cost
  BY <1>2, <1>4, <1>6, <1>8, <1>10
<1>12. PICK back : back = IF mine THEN 0 ELSE a.bid
  OBVIOUS
<1>13. back \in Nat
  BY <1>6, <1>12
<1>14. PICK k \in 0..1 : Writes(first, k, back, Nothing)
  <2>1. CASE mine
    BY <1>1, <1>12, <2>1, WritesNone
  <2>2. CASE ~mine
    BY <1>1, <1>5, <1>12, <2>2, RefundWrites
  <2> QED
    BY <2>1, <2>2
<1>15. PICK gain : gain = a.buyout + a.deposit - fee
  OBVIOUS
<1>16. gain \in Nat /\ back + gain \in Nat
  BY <1>6, <1>9, <1>13, <1>15
<1>17. PICK w, v : w = SuccessfulMail(sold) /\ v = WonMail(sold, mAitems)
  OBVIOUS
<1>18. /\ Writes(w, 1, gain, Nothing)
       /\ \E l \in 0..1 : \E i \in {a.item, Nothing} : Writes(v, l, 0, i) /\ (LogTrade => i = a.item)
  <2>1. /\ sold.bid \in Nat /\ sold.deposit \in Nat /\ sold.owner \in Players /\ sold.bidder \in Players
        /\ sold.item \in Items /\ sold.item \in mAitems /\ sold.bid + sold.deposit < Word
    BY <1>5, <1>6, <1>7
  <2>2. gain = sold.bid + sold.deposit - GetAuctionCut(sold)
    BY <1>2, <1>7, <1>15
  <2>3. /\ Writes(w, 1, gain, Nothing)
        /\ \E l \in 0..1 : \E i \in {sold.item, Nothing} : Writes(v, l, 0, i) /\ (LogTrade => i = sold.item)
    BY <1>17, <2>1, <2>2, SaleWrites
  <2> QED
    BY <1>7, <2>3
<1>19. PICK l \in 0..1, i \in {a.item, Nothing} : Writes(v, l, 0, i) /\ (LogTrade => i = a.item)
  BY <1>18
<1>20. Carries(rows, back + gain, i)
  <2>1. k + 1 <= 3 /\ (k + 1) + l <= 3 /\ (back + gain) + 0 = back + gain
    BY <1>16
  <2>2. Writes(first \o w, k + 1, back + gain, Nothing)
    BY <1>14, <1>18, <2>1, WritesBoth
  <2>3. Writes((first \o w) \o v, (k + 1) + l, (back + gain) + 0, i)
    BY <1>19, <2>1, <2>2, WritesBoth
  <2>4. Writes((first \o w) \o v, (k + 1) + l, back + gain, i)
    BY <2>1, <2>3
  <2>5. rows = Rows((first \o w) \o v)
    BY <1>2, <1>17
  <2> QED
    BY <1>8, <2>4, <2>5, WritesRows
<1>21. Ends(t, rows, id, fee)
  BY <1>3 DEF Ends, NoWrites
<1>22. Paid(t, p, cost)
  BY <1>3, <1>4, <1>11 DEF Paid, NoWrites, GoldRow
<1>23. (back + gain) + fee = a.bid + a.deposit + cost
  BY <1>6, <1>9, <1>10, <1>12, <1>15
<1>24. PICK gold \in Nat : gold = back + gain
  BY <1>16
<1> QED
  BY <1>1, <1>4, <1>9, <1>11, <1>19, <1>20, <1>21, <1>22, <1>23, <1>24, EndsPaid

\* A bid is written into the auction, and its item stays where it is.
SameAuctions(F, G) == \A j : With(G.auc, j) = With(F.auc, j)

LEMMA BidHouse ==
  ASSUME StoreTypes, NEW F, Current(F), NEW id \in DOMAIN AuctionsMap, NEW row, IsAuction(row),
         row.item = AuctionsMap[id].item, AuctionsMap' = [AuctionsMap EXCEPT ![id] = row],
         UNCHANGED <<mAitems, auctionId>>, NEW G, Put(F.auc, id, row, G.auc)
  PROVE  HousePart(G) /\ SameAuctions(F, G)
<1>1. PICK f, g, held : f = F.auc /\ g = G.auc /\ held = mAitems
  OBVIOUS
<1>2. /\ f = AuctionsMap /\ held = {f[k].item : k \in DOMAIN f} /\ id \in DOMAIN f
      /\ \A k \in DOMAIN f : k < auctionId
  BY <1>1, CurrentFacts DEF HouseMemory
<1>3. g = [f EXCEPT ![id] = row]
  BY <1>1 DEF Put
<1>4. DOMAIN g = DOMAIN f /\ \A k \in DOMAIN f : g[k].item = f[k].item
  BY <1>2, <1>3
<1>5. AuctionsMap' = g /\ mAitems' = held /\ auctionId' = auctionId
  BY <1>1, <1>2, <1>3
<1>6. held = {g[k].item : k \in DOMAIN g}
  BY <1>2, <1>4
<1>7. HouseMemory(g, AuctionsMap', mAitems')
  BY <1>5, <1>6 DEF HouseMemory
<1>8. HousePart(G)
  BY <1>1, <1>2, <1>4, <1>5, <1>7 DEF HousePart, StoreTypes
<1> QED
  BY <1>1, <1>4, <1>8 DEF With, SameAuctions

\* HandleAuctionPlaceBid below the buyout.
LEMMA PlaceBidDone ==
  ASSUME Narrow, StoreTypes, NEW F, Current(F), NEW p \in Players, NEW id, NEW price \in Prices, PlaceBid(p, id, price),
         UNCHANGED <<mAitems, auctionId>>
  PROVE  Settles(F)
<1>1. PICK a, row, mine, rows, d :
        /\ a = AuctionsMap[id] /\ row = [a EXCEPT !.bid = price, !.bidder = p] /\ mine = (a.bidder = p)
        /\ rows = (IF mine THEN NoRows ELSE Rows(RefundMail(a)))
        /\ d = IF mine THEN a.bid - price ELSE -price
  OBVIOUS
<1>2. PICK t : t = [NoWrites EXCEPT !.money = GoldRow(p, ModifyMoney(money[p], d)), !.mail = rows,
                                    !.aucSet = OneRow(id, row)]
  OBVIOUS
<1>3. /\ online[p] = "in" /\ id \in DOMAIN AuctionsMap /\ money[p] >= price /\ price > a.bid
      /\ price < a.buyout \/ a.buyout = 0
      /\ SendMailTo(mails, mMitems, rows) /\ Commit(<<t>>) /\ UNCHANGED <<online, fetched, bags>>
      /\ money' = [money EXCEPT ![p] = ModifyMoney(money[p], d)]
      /\ AuctionsMap' = [AuctionsMap EXCEPT ![id] = row]
  BY <1>1, <1>2 DEF PlaceBid, MayBid, In, HasEnoughMoney
<1>4. IsAuction(a) /\ id \in DOMAIN F.auc /\ F.auc[id] = a
  BY <1>1, <1>3, HouseFacts
<1>5. mailId \in Nat /\ price \in Nat /\ money[p] \in Nat
  BY <1>3, InFacts, AuctionAssumption DEF StoreTypes
<1>6. a.item \in Items /\ a.bid \in Nat /\ a.deposit \in Nat /\ a.buyout \in Nat
  BY <1>4 DEF IsAuction
<1>7. IsAuction(row) /\ row.item = a.item /\ row.bid = price /\ row.deposit = a.deposit
  <2>1. row = [item |-> a.item, owner |-> a.owner, startbid |-> a.startbid, buyout |-> a.buyout,
               bid |-> price, bidder |-> p, deposit |-> a.deposit]
    BY <1>1, <1>4 DEF IsAuction
  <2> QED
    <3>1. price + Deposit < Word
      BY DEF Narrow
    <3> QED
      BY <1>3, <1>4, <1>5, <2>1, <3>1, StoreAssumption DEF IsAuction
<1>8. PICK cost : cost = IF mine THEN price - a.bid ELSE price
  OBVIOUS
<1>9. cost \in Nat /\ money[p] >= cost /\ d = -cost
  BY <1>1, <1>3, <1>5, <1>6, <1>8
<1>10. PICK back : back = IF mine THEN 0 ELSE a.bid
  OBVIOUS
<1>11. Carries(rows, back, Nothing)
  <2>1. CASE mine
    BY <1>1, <1>5, <1>10, <2>1, CarriesNothing
  <2>2. CASE ~mine
    <3>1. PICK k \in 0..1 : Writes(RefundMail(a), k, a.bid, Nothing)
      BY <1>4, RefundWrites
    <3> QED
      BY <1>1, <1>5, <1>10, <2>2, <3>1, WritesRows
  <2> QED
    BY <2>1, <2>2
<1>12. PICK G : Applied(F, t, G)
  BY DEF Applied
<1>13. /\ t.inv = NoRows /\ t.mail = rows /\ t.mailSet = NoRows /\ t.unitem = {} /\ t.unmail = {}
       /\ t.auc = NoRows /\ t.aucSet = OneRow(id, row) /\ t.unauc = {} /\ t.spent = 0 /\ t.load = {}
  BY <1>2 DEF NoWrites
<1>14. Paid(t, p, cost)
  BY <1>2, <1>3, <1>9 DEF Paid, NoWrites, GoldRow
<1>15. IsStore(F) /\ F.spent \in Int /\ F.money \in [Players -> Nat] /\ IsAuctions(F.auc)
  BY CurrentFacts
<1>16. G.inv = F.inv /\ G.spent = F.spent
  BY <1>12, <1>13, <1>15, InvNone, SpentSum
<1>17. Purses(G.money)
  BY <1>9, <1>12, <1>14, PaidRest
<1>18. Add(F.mail, rows, G.mail)
  BY <1>12, <1>13, <1>15, MailInsert DEF Add
<1>19. Put(F.auc, id, row, G.auc)
  BY <1>4, <1>12, <1>13, <1>15, AucSet DEF Put
<1>20. Carried(F, G, back, Nothing)
  BY <1>3, <1>11, <1>18, CarriesPosts
<1>21. /\ MailPart(F, G) /\ IsMails(G.mail) /\ Posted(G.mail) = Posted(F.mail) + back
       /\ \A j \in Items : With(G.mail, j) = With(F.mail, j)
  BY <1>20, StoreAssumption DEF Carried
<1>22. HousePart(G) /\ SameAuctions(F, G)
  BY <1>1, <1>3, <1>7, <1>19, BidHouse
<1>23. IsAuctions(G.auc) /\ Staked(G.auc) = Staked(F.auc) - (a.bid + a.deposit) + (price + a.deposit)
  BY <1>4, <1>7, <1>15, <1>19, PutAuction
<1>24. IsStore(G)
  BY <1>15, <1>16, <1>17, <1>21, <1>23 DEF IsStore, Purses
<1>25. Fine(G) /\ ItemsKept(F, G)
  <2>1. \A i \in Items : (Absent(F, i) => Absent(G, i)) /\ (Placed(F, i) => Placed(G, i))
    BY <1>16, <1>21, <1>22 DEF Absent, Placed, Bagged, Mailed, Offered, SameAuctions
  <2> QED
    BY <1>24, <2>1, CurrentFacts DEF Fine, ItemsKept
<1>26. PursePart(F, G)
  BY <1>9, <1>12, <1>14, <1>16, PaidPurse
<1>27. Done(F, G)
  BY <1>3, <1>21, <1>22, <1>25, <1>26, AllParts
<1>28. ASSUME IsFiniteSet(Players)
       PROVE  GoldIn(G) = GoldIn(F)
  <2>1. PICK b, c, x, e, g : /\ b = Posted(F.mail) /\ c = Staked(F.auc) /\ x = F.spent
                             /\ e = Posted(G.mail) /\ g = Staked(G.auc)
    OBVIOUS
  <2>2. /\ b \in Nat /\ c \in Nat /\ x \in Int /\ e = b + back /\ g = c - (a.bid + a.deposit) + (price + a.deposit)
    BY <1>15, <1>21, <1>23, <1>28, <2>1, GoldNat
  <2>3. (e - b) + (g - c) + (x - x) = cost
    BY <1>5, <1>6, <1>8, <1>10, <2>2
  <2> QED
    BY <1>9, <1>12, <1>14, <1>16, <1>24, <1>28, <2>1, <2>3, PaidGold
<1> QED
  BY <1>3, <1>12, <1>13, <1>25, <1>27, <1>28 DEF Settles, GoldKept

-----------------------------------------------------------------------------
(* A sale.                                                                 *)

\* The tables F with item i of player p in the new auction a, and rest left
\* to him.
Sold(F, G, p, i, a, rest) ==
  /\ G.money = [F.money EXCEPT ![p] = rest] /\ G.inv = [F.inv EXCEPT ![i] = Nobody]
  /\ G.mail = F.mail /\ Add(F.auc, OneRow(auctionId, a), G.auc) /\ G.spent = F.spent

\* What the handler does in memory.
Sells(p, i, a, rest) ==
  /\ online[p] = "in" /\ i \in bags[p] /\ money[p] >= a.deposit
  /\ IsAuction(a) /\ a.item = i /\ a.bid = 0 /\ rest = ModifyMoney(money[p], -a.deposit)
  /\ money' = [money EXCEPT ![p] = rest] /\ AuctionsMap' = Insert(AuctionsMap, OneRow(auctionId, a))
  /\ mAitems' = mAitems \cup {i} /\ bags' = [bags EXCEPT ![p] = @ \ {i}] /\ auctionId' = auctionId + 1
  /\ UNCHANGED <<online, fetched, mailVars>>

SoldWell(F, G) ==
  /\ Fine(G) /\ ItemsKept(F, G) /\ GoldKept(F, G) /\ PursePart(F, G) /\ MailPart(F, G) /\ HousePart(G)

LEMMA SoldHouse ==
  ASSUME StoreTypes, NEW F, Current(F), NEW p \in Players, NEW i \in Items, NEW a, NEW rest, Sells(p, i, a, rest),
         NEW G, Add(F.auc, OneRow(auctionId, a), G.auc)
  PROVE  HousePart(G)
<1>1. PICK f, g, held, id, r : f = F.auc /\ g = G.auc /\ held = mAitems /\ id = auctionId /\ r = OneRow(id, a)
  OBVIOUS
<1>2. /\ f = AuctionsMap /\ held = {f[k].item : k \in DOMAIN f}
      /\ (\A k \in DOMAIN f : k < id) /\ DOMAIN f \subseteq Nat
  BY <1>1, CurrentFacts DEF HouseMemory, IsAuctions, IsTable
<1>3. DOMAIN r = {id} /\ r[id] = a /\ a.item = i
  BY <1>1 DEF OneRow, Sells
<1>4. g = Insert(f, r)
  BY <1>1 DEF Add
<1>5. Inserted(f, r, g)
  BY <1>4, InsertFacts
<1>6. id \in Nat \ {0} /\ id \notin DOMAIN f
  BY <1>1, <1>2 DEF StoreTypes
<1>7. AuctionsMap' = g /\ mAitems' = held \cup {i} /\ auctionId' = id + 1
  BY <1>1, <1>2, <1>4 DEF Sells
<1>8. DOMAIN g = DOMAIN f \cup {id} /\ g[id].item = i /\ \A k \in DOMAIN f : g[k] = f[k]
  BY <1>3, <1>5, <1>6 DEF Inserted
<1>9. held \cup {i} = {g[k].item : k \in DOMAIN g}
  BY <1>2, <1>8
<1>10. HouseMemory(g, AuctionsMap', mAitems')
  BY <1>7, <1>9 DEF HouseMemory
<1>11. id + 1 \in Nat \ {0} /\ id <= id + 1 /\ \A k \in DOMAIN g : k < id + 1
  BY <1>2, <1>6, <1>8
<1> QED
  BY <1>1, <1>7, <1>10, <1>11 DEF HousePart

LEMMA SoldDone ==
  ASSUME StoreTypes, NEW F, Current(F), NEW p \in Players, NEW i \in Items, NEW a, NEW rest, Sells(p, i, a, rest),
         NEW G, Sold(F, G, p, i, a, rest)
  PROVE  SoldWell(F, G)
<1>1. /\ online[p] = "in" /\ i \in bags[p] /\ money[p] >= a.deposit /\ a.deposit \in Nat
      /\ IsAuction(a) /\ a.item = i /\ a.bid = 0 /\ rest = ModifyMoney(money[p], -a.deposit)
      /\ money' = [money EXCEPT ![p] = rest]
      /\ bags' = [bags EXCEPT ![p] = @ \ {i}] /\ UNCHANGED <<online, fetched, mailVars>>
  BY DEF Sells, IsAuction
<1>2. /\ G.money = [F.money EXCEPT ![p] = rest] /\ G.inv = [F.inv EXCEPT ![i] = Nobody]
      /\ G.mail = F.mail /\ Add(F.auc, OneRow(auctionId, a), G.auc) /\ G.spent = F.spent
  BY DEF Sold
<1>3. /\ IsStore(F) /\ IsMails(F.mail) /\ IsAuctions(F.auc) /\ F.spent \in Int
      /\ F.money \in [Players -> Nat] /\ F.inv \in [Items -> Players \cup {Nobody}]
  BY CurrentFacts
<1>4. /\ F.money[p] = money[p] /\ money[p] \in Nat /\ money[p] <= MaxMoney /\ bags[p] \subseteq Items
      /\ \A j \in Items : F.inv[j] = p <=> j \in bags[p]
  BY <1>1, InFacts
<1>5. rest \in Nat /\ rest <= MaxMoney
  <2>1. -a.deposit \in Int /\ -a.deposit <= MaxMoney
    BY <1>1, StoreAssumption
  <2> QED
    BY <1>1, <1>4, <2>1, ModifyNat
<1>6. auctionId \in Nat \ DOMAIN F.auc
  <2>1. \A k \in DOMAIN F.auc : k < auctionId /\ k \in Nat
    BY CurrentFacts DEF IsAuctions, IsTable
  <2> QED
    BY <2>1 DEF StoreTypes
<1>7. /\ IsAuctions(G.auc) /\ Staked(G.auc) = Staked(F.auc) + a.bid + a.deposit
      /\ \A j : With(G.auc, j) = With(F.auc, j) \cup (IF a.item = j THEN {auctionId} ELSE {})
  <2>1. PICK id \in Nat \ DOMAIN F.auc : id = auctionId
    BY <1>6
  <2>2. Add(F.auc, OneRow(id, a), G.auc)
    BY <1>2, <2>1
  <2>3. /\ IsAuctions(G.auc) /\ Staked(G.auc) = Staked(F.auc) + a.bid + a.deposit
        /\ \A j : With(G.auc, j) = With(F.auc, j) \cup (IF a.item = j THEN {id} ELSE {})
    <3>1. AddedAuction(F.auc, id, a, G.auc)
      BY <1>1, <1>3, <2>2, AddAuction
    <3> QED
      BY <3>1 DEF AddedAuction
  <2> QED
    BY <2>1, <2>3
<1>8. \A j \in Items : G.inv[j] = IF j = i THEN Nobody ELSE F.inv[j]
  BY <1>2, <1>3
<1>9. IsStore(G)
  <2>1. G.money \in [Players -> Nat] /\ \A x \in Players : G.money[x] <= MaxMoney
    BY <1>2, <1>3, <1>5 DEF IsStore
  <2>2. G.inv \in [Items -> Players \cup {Nobody}]
    BY <1>2, <1>3
  <2> QED
    BY <1>2, <1>3, <1>7, <2>1, <2>2 DEF IsStore
<1>10. F.inv[i] = p /\ p # Nobody
  BY <1>1, <1>4, StoreAssumption
<1>11. Concerns(F, G, i)
  <2>1. \A j \in Items \ {i} : With(G.auc, j) = With(F.auc, j)
    BY <1>1, <1>7
  <2>2. \A j \in Items \ {i} : G.inv[j] = F.inv[j]
    BY <1>8
  <2> QED
    BY <1>2, <2>1, <2>2 DEF Concerns
<1>12. Placed(G, i)
  <2>1. With(F.mail, i) = {} /\ With(F.auc, i) = {}
    BY <1>10, BagItem
  <2>2. With(G.mail, i) = {} /\ With(G.auc, i) = {auctionId} /\ G.inv[i] = Nobody
    BY <1>1, <1>2, <1>7, <1>8, <2>1
  <2> QED
    BY <2>2 DEF Placed, Offered
<1>13. Fine(G) /\ ItemsKept(F, G)
  BY <1>9, <1>11, <1>12, FineMove
<1>14. HousePart(G)
  BY <1>2, SoldHouse
<1>15. MailPart(F, G)
  BY <1>1, <1>2, MailsSame
<1>16. PursePart(F, G)
  <2>1. {j \in Items : G.inv[j] = p} = bags[p] \ {i}
    BY <1>4, <1>8, <1>10
  <2>2. Pays(p, rest, {j \in Items : G.inv[j] = p})
    BY <1>1, <2>1 DEF Pays, StoreTypes
  <2>3. PaysFor(F, G, p, rest)
    BY <1>1, <1>2, <1>8, <1>10, <2>2 DEF PaysFor
  <2> QED
    BY <2>3, PurseDone
<1>17. ASSUME IsFiniteSet(Players)
       PROVE  GoldIn(G) = GoldIn(F)
  <2>1. PICK b, c, x, d : b = Posted(F.mail) /\ c = Staked(F.auc) /\ x = F.spent /\ d = a.deposit
    OBVIOUS
  <2>2. b \in Nat /\ c \in Nat /\ x \in Int /\ Staked(G.auc) = c + 0 + d /\ d \in Nat
    BY <1>1, <1>3, <1>7, <1>17, <2>1, GoldNat
  <2>3. rest = money[p] - d
    BY <1>1, <2>1, Affords
  <2>4. rest - F.money[p] + (b - b) + (Staked(G.auc) - c) + (x - x) = 0
    BY <1>4, <2>2, <2>3
  <2> QED
    BY <1>2, <1>3, <1>5, <1>9, <1>17, <2>1, <2>4, Balance
<1> QED
  BY <1>13, <1>14, <1>15, <1>16, <1>17 DEF SoldWell, GoldKept

\* The item is in its place, or it was deleted with the mail it was in.
Safe(d, i) == Placed(d, i) \/ i \in d.thrown

LEMMA SafeKept ==
  ASSUME NEW F, NEW t, NEW G, Applied(F, t, G), LogTrade, ItemsKept(F, G)
  PROVE  \A i \in Items : Safe(F, i) => Safe(G, i)
<1>1. \A i : i \in F.thrown => i \in G.thrown
  BY DEF Applied, Apply
<1> QED
  BY <1>1 DEF Safe, ItemsKept

\* The stack that was sold in part: first it is gone, then the auction is
\* there.
Halved(F, M, u, i) ==
  /\ Absent(M, i) /\ \E id \in DOMAIN u.auc : u.auc[id].item = i
  /\ \A j \in Items \ {i} : Safe(F, j) => Safe(M, j)
Splits(F) ==
  \E t, u : \E M, G : \E i \in Items :
    /\ Commit(<<t, u>>) /\ t.load = {} /\ u.load = {} /\ Applied(F, t, M) /\ Applied(M, u, G)
    /\ Fine(M) /\ Quiet(F, M, online, mailsLoaded) /\ Quiet(M, G, online, mailsLoaded)
    /\ Below(M, mailId, auctionId) /\ Done(F, G)
    /\ Halved(F, M, u, i) /\ ItemsKept(F, G) /\ GoldKept(F, M) /\ GoldKept(F, G)

LEMMA QueuesTwo ==
  ASSUME NEW q, Sequence(q), NEW t, NEW u
  PROVE  \E r : Queues(q, t, r) /\ Queues(r, u, q \o <<t, u>>)
<1>1. PICK S : S = {q[n] : n \in 1..Len(q)} \cup {t, u}
  OBVIOUS
<1>2. q \in Seq(S) /\ <<t>> \in Seq(S) /\ <<u>> \in Seq(S) /\ <<t, u>> \in Seq(S)
  BY <1>1 DEF Sequence
<1>3. PICK r : r = q \o <<t>>
  OBVIOUS
<1>4. Queues(q, t, r)
  BY <1>3, QueuesOne
<1>5. PICK v : v = q \o <<t, u>>
  OBVIOUS
<1>6. /\ v \in Seq(S) /\ Len(v) = Len(q) + 2 /\ v[Len(q) + 1] = t /\ v[Len(q) + 2] = u
      /\ \A n \in 1..Len(q) : v[n] = q[n]
  BY <1>2, <1>5
<1>7. Len(q) \in Nat /\ Len(r) = Len(q) + 1 /\ r[Len(q) + 1] = t /\ \A n \in 1..Len(q) : r[n] = q[n]
  BY <1>4 DEF Queues
<1>8. Sequence(v)
  BY <1>6 DEF Sequence
<1>9. Len(v) = Len(r) + 1 /\ v[Len(r) + 1] = u /\ Len(r) \in Nat
  BY <1>6, <1>7
<1>10. ASSUME NEW n \in 1..Len(r) PROVE v[n] = r[n]
  <2>1. n \in 1..Len(q) \/ n = Len(q) + 1
    BY <1>7
  <2> QED
    BY <1>6, <1>7, <2>1
<1>11. Queues(r, u, v)
  BY <1>8, <1>9, <1>10 DEF Queues
<1> QED
  BY <1>4, <1>5, <1>11

LEMMA CommitTwo ==
  ASSUME StoreTypes, NEW t, NEW u, Commit(<<t, u>>)
  PROVE  (\E r : Queues(queue, t, r) /\ Queues(r, u, queue')) /\ UNCHANGED <<db, up, crashes>>
  BY QueuesTwo DEF StoreTypes, Commit

LEMMA AllPartsTwo ==
  ASSUME StoreTypes, NEW t, NEW u, Commit(<<t, u>>), UNCHANGED <<online, fetched>>,
         NEW F, NEW G, Fine(G), PursePart(F, G), MailPart(F, G), HousePart(G)
  PROVE  Done(F, G)
<1>1. Sequence(queue') /\ UNCHANGED <<db, up, crashes>>
  BY CommitTwo DEF Queues
<1>2. StoreTypes'
  BY <1>1 DEF StoreTypes, PursePart, MailPart, HousePart
<1>3. Current(G)'
  BY DEF Current, Below, PursePart, MailPart, HousePart
<1>4. Quiet(F, G, online, mailsLoaded)
  BY DEF Quiet, MailKept, PursePart, MailPart
<1> QED
  BY <1>2, <1>3, <1>4 DEF Done, MailPart, HousePart

\* The first of the two transactions: the stack is gone.
Gone(F, M, i) ==
  /\ M.money = F.money /\ M.inv = [F.inv EXCEPT ![i] = Nobody]
  /\ M.mail = F.mail /\ M.auc = F.auc /\ M.spent = F.spent

LEMMA GoneFacts ==
  ASSUME StoreTypes, NEW F, Current(F), NEW p \in Players, online[p] = "in", NEW i \in Items, i \in bags[p],
         NEW M, Gone(F, M, i)
  PROVE  /\ Fine(M) /\ Quiet(F, M, online, mailsLoaded) /\ Below(M, mailId, auctionId)
         /\ Absent(M, i) /\ GoldKept(F, M) /\ \A j \in Items \ {i} : Placed(F, j) => Placed(M, j)
<1>1. /\ M.money = F.money /\ M.inv = [F.inv EXCEPT ![i] = Nobody]
      /\ M.mail = F.mail /\ M.auc = F.auc /\ M.spent = F.spent
  BY DEF Gone
<1>2. Fine(F) /\ IsStore(F) /\ F.inv \in [Items -> Players \cup {Nobody}] /\ Below(F, mailId, auctionId)
  BY CurrentFacts DEF Current
<1>3. \A j \in Items : M.inv[j] = IF j = i THEN Nobody ELSE F.inv[j]
  BY <1>1, <1>2
<1>4. F.inv[i] = p /\ p # Nobody
  BY InFacts, StoreAssumption
<1>5. With(F.mail, i) = {} /\ With(F.auc, i) = {}
  BY <1>4, BagItem
<1>6. Absent(M, i)
  BY <1>1, <1>3, <1>5 DEF Absent
<1>7. IsStore(M)
  <2>1. M.inv \in [Items -> Players \cup {Nobody}]
    BY <1>1, <1>2
  <2> QED
    BY <1>1, <1>2, <2>1 DEF IsStore
<1>8. Concerns(F, M, i)
  BY <1>1, <1>3 DEF Concerns
<1>9. \A j \in Items \ {i} : (Absent(F, j) => Absent(M, j)) /\ (Placed(F, j) => Placed(M, j))
  BY <1>8, ElsewhereKept
<1>10. Fine(M)
  BY <1>2, <1>6, <1>7, <1>9 DEF Fine
<1>11. Quiet(F, M, online, mailsLoaded)
  <2>1. ASSUME NEW x \in Players, online[x] # "in" PROVE Purse(F, x) = Purse(M, x)
    <3>1. x # p /\ x # Nobody
      BY <2>1, StoreAssumption
    <3>2. {j \in Items : F.inv[j] = x} = {j \in Items : M.inv[j] = x}
      BY <1>3, <1>4, <3>1
    <3> QED
      BY <1>1, <3>2 DEF Purse
  <2>2. \A x : MailKept(x, F, M)
    BY <1>1 DEF MailKept, RowsKept
  <2> QED
    BY <2>1, <2>2 DEF Quiet
<1>12. Below(M, mailId, auctionId)
  BY <1>1, <1>2 DEF Below
<1>13. GoldIn(M) = GoldIn(F)
  BY <1>1, GoldParts
<1> QED
  BY <1>6, <1>9, <1>10, <1>11, <1>12, <1>13 DEF GoldKept

\* HandleAuctionSellItem, in one transaction or two.
LEMMA SellDone ==
  ASSUME Narrow, StoreTypes, NEW F, Current(F), NEW p \in Players, NEW i \in Items, NEW startbid \in Prices,
         NEW buyout \in Prices, NEW cloned \in BOOLEAN, HandleAuctionSellItem(p, i, startbid, buyout, cloned)
  PROVE  Settles(F) \/ Splits(F)
<1>1. PICK a, rest, id : /\ a = [item |-> i, owner |-> p, startbid |-> startbid, buyout |-> buyout,
                                 bid |-> 0, bidder |-> Nobody, deposit |-> Deposit]
                         /\ rest = ModifyMoney(money[p], -Deposit) /\ id = auctionId
  OBVIOUS
<1>2. PICK gone, sold, all : /\ gone = [NoWrites EXCEPT !.inv = OneRow(i, Nobody)]
                             /\ sold = [NoWrites EXCEPT !.auc = OneRow(id, a), !.money = GoldRow(p, rest)]
                             /\ all = [sold EXCEPT !.inv = gone.inv]
  OBVIOUS
<1>3. /\ online[p] = "in" /\ i \in bags[p] /\ money[p] >= Deposit
      /\ money' = [money EXCEPT ![p] = rest] /\ AuctionsMap' = Insert(AuctionsMap, OneRow(auctionId, a))
      /\ Commit(IF cloned THEN <<gone, sold>> ELSE <<all>>)
      /\ mAitems' = mAitems \cup {i} /\ bags' = [bags EXCEPT ![p] = @ \ {i}] /\ auctionId' = auctionId + 1
      /\ UNCHANGED <<online, fetched, mailVars>>
  BY <1>1, <1>2 DEF HandleAuctionSellItem, In, HasEnoughMoney
<1>4. IsAuction(a) /\ a.item = i /\ a.bid = 0 /\ a.deposit = Deposit
  <2>1. /\ buyout \in Nat /\ Deposit \in Nat /\ Word \in Nat
        /\ buyout + Deposit < Word
    BY AuctionAssumption, MailAssumption DEF Narrow
  <2>2. 0 + Deposit < Word
    BY <2>1
  <2> QED
    BY <1>1, <2>1, <2>2, AuctionAssumption DEF IsAuction
<1>5. Sells(p, i, a, rest)
  BY <1>1, <1>3, <1>4 DEF Sells
<1>6. /\ gone.money = NoRows /\ gone.inv = OneRow(i, Nobody)
      /\ gone.mail = NoRows /\ gone.mailSet = NoRows /\ gone.unitem = {} /\ gone.unmail = {}
      /\ gone.auc = NoRows /\ gone.aucSet = NoRows /\ gone.unauc = {} /\ gone.spent = 0 /\ gone.load = {}
  BY <1>2 DEF NoWrites
<1>7. /\ sold.money = OneRow(p, rest) /\ sold.inv = NoRows
      /\ sold.mail = NoRows /\ sold.mailSet = NoRows /\ sold.unitem = {} /\ sold.unmail = {}
      /\ sold.auc = OneRow(id, a) /\ sold.aucSet = NoRows /\ sold.unauc = {} /\ sold.spent = 0 /\ sold.load = {}
  BY <1>2 DEF NoWrites, GoldRow
<1>8. /\ all.money = OneRow(p, rest) /\ all.inv = OneRow(i, Nobody)
      /\ all.mail = NoRows /\ all.mailSet = NoRows /\ all.unitem = {} /\ all.unmail = {}
      /\ all.auc = OneRow(id, a) /\ all.aucSet = NoRows /\ all.unauc = {} /\ all.spent = 0 /\ all.load = {}
  BY <1>2 DEF NoWrites, GoldRow
<1>9. IsStore(F) /\ F.spent \in Int
  BY CurrentFacts
<1>10. CASE ~cloned
  <2>1. PICK G : Applied(F, all, G)
    BY DEF Applied
  <2>2. Sold(F, G, p, i, a, rest)
    <3>1. G.money = [F.money EXCEPT ![p] = rest] /\ G.inv = [F.inv EXCEPT ![i] = Nobody]
      BY <1>8, <1>9, <2>1, MoneyOne, InvOne
    <3>2. G.mail = F.mail /\ G.spent = F.spent
      BY <1>8, <1>9, <2>1, MailNone, SpentSum
    <3>3. Add(F.auc, OneRow(id, a), G.auc)
      BY <1>8, <1>9, <2>1, AucInsert DEF Add
    <3> QED
      BY <1>1, <3>1, <3>2, <3>3 DEF Sold
  <2>3. SoldWell(F, G)
    BY <1>5, <2>2, SoldDone
  <2>4. Commit(<<all>>)
    BY <1>3, <1>10
  <2>5. Done(F, G)
    BY <1>3, <2>3, <2>4, AllParts DEF SoldWell
  <2> QED
    BY <1>8, <2>1, <2>3, <2>4, <2>5 DEF Settles, SoldWell
<1>11. CASE cloned
  <2>1. PICK M : Applied(F, gone, M)
    BY DEF Applied
  <2>2. PICK G : Applied(M, sold, G)
    BY DEF Applied
  <2>3. Gone(F, M, i)
    <3>1. M.money = F.money /\ M.inv = [F.inv EXCEPT ![i] = Nobody]
      BY <1>6, <1>9, <2>1, MoneyNone, InvOne
    <3>2. M.mail = F.mail /\ M.auc = F.auc /\ M.spent = F.spent
      BY <1>6, <1>9, <2>1, MailNone, AucNone, SpentSum
    <3> QED
      BY <3>1, <3>2 DEF Gone
  <2>4. /\ Fine(M) /\ Quiet(F, M, online, mailsLoaded) /\ Below(M, mailId, auctionId)
        /\ Absent(M, i) /\ GoldKept(F, M) /\ \A j \in Items \ {i} : Placed(F, j) => Placed(M, j)
    BY <1>3, <2>3, GoneFacts
  <2>5. Sold(F, G, p, i, a, rest)
    <3>1. IsStore(M) /\ M.spent \in Int
      BY <2>4 DEF Fine, IsStore
    <3>2. G.money = [M.money EXCEPT ![p] = rest] /\ G.inv = M.inv
      BY <1>7, <2>2, <3>1, MoneyOne, InvNone
    <3>3. G.mail = M.mail /\ G.spent = M.spent
      BY <1>7, <2>2, <3>1, MailNone, SpentSum
    <3>4. Add(M.auc, OneRow(id, a), G.auc)
      BY <1>7, <2>2, <3>1, AucInsert DEF Add
    <3>5. /\ M.money = F.money /\ M.inv = [F.inv EXCEPT ![i] = Nobody]
          /\ M.mail = F.mail /\ M.auc = F.auc /\ M.spent = F.spent
      BY <2>3 DEF Gone
    <3> QED
      BY <1>1, <3>2, <3>3, <3>4, <3>5 DEF Sold
  <2>6. SoldWell(F, G)
    BY <1>5, <2>5, SoldDone
  <2>7. Commit(<<gone, sold>>)
    BY <1>3, <1>11
  <2>8. Done(F, G)
    BY <1>3, <2>6, <2>7, AllPartsTwo DEF SoldWell
  <2>9. Quiet(M, G, online, mailsLoaded)
    <3>1. /\ M.money = F.money /\ M.inv = [F.inv EXCEPT ![i] = Nobody] /\ M.mail = F.mail
          /\ G.money = [F.money EXCEPT ![p] = rest] /\ G.inv = [F.inv EXCEPT ![i] = Nobody] /\ G.mail = F.mail
          /\ F.money \in [Players -> Nat]
      BY <1>9, <2>3, <2>5 DEF Gone, Sold, IsStore
    <3>2. \A x \in Players : online[x] # "in" => Purse(M, x) = Purse(G, x)
      BY <1>3, <3>1 DEF Purse
    <3>3. \A x : MailKept(x, M, G)
      BY <3>1 DEF MailKept, RowsKept
    <3> QED
      BY <3>2, <3>3 DEF Quiet
  <2>10. Halved(F, M, sold, i)
    <3>1. id \in DOMAIN sold.auc /\ sold.auc[id].item = i
      BY <1>4, <1>7 DEF OneRow
    <3>2. \A j : j \in F.thrown => j \in M.thrown
      BY <2>1 DEF Applied, Apply
    <3>3. \A j \in Items \ {i} : Safe(F, j) => Safe(M, j)
      BY <2>4, <3>2 DEF Safe
    <3> QED
      BY <2>4, <3>1, <3>3 DEF Halved
  <2> QED
    BY <1>6, <1>7, <2>1, <2>2, <2>4, <2>6, <2>7, <2>8, <2>9, <2>10 DEF Splits, SoldWell
<1> QED
  BY <1>10, <1>11

-----------------------------------------------------------------------------
(* Items and gold, in the tables after every operation of the queue.       *)

\* The item is in no place, and the next operation puts it into an auction.
HalfAt(T, q, n, i) ==
  n < Len(q) /\ Absent(T[n], i) /\ \E id \in DOMAIN q[n + 1].auc : q[n + 1].auc[id].item = i
ItemsLine(T, q, gone) == \A n \in 0..Len(q) : \A i \in Items \ gone : Safe(T[n], i) \/ HalfAt(T, q, n, i)
GoldLine(T, q) == \A n \in 0..Len(q) : GoldIn(T[n]) = SumFunction(StartMoney)

ItemsInv ==
  /\ up = "up" => \A T : Record(db, queue, T) => ItemsLine(T, queue, lost)
  /\ up # "up" => \A i \in Items \ lost : Safe(db, i)
GoldInv ==
  /\ up = "up" => \A T : Record(db, queue, T) => GoldLine(T, queue)
  /\ up # "up" => GoldIn(db) = SumFunction(StartMoney)

Kept == StoreInv' /\ (LogTrade /\ ItemsInv => ItemsInv') /\ (IsFiniteSet(Players) /\ GoldInv => GoldInv')

LEMMA ItemsQueues ==
  ASSUME NEW d, NEW q, NEW T, Record(d, q, T), NEW t, NEW r, Queues(q, t, r), NEW U, Record(d, r, U),
         NEW gone, ItemsLine(T, q, gone), NEW F, F = T[Len(q)], NEW G, Applied(F, t, G),
         \A i \in Items : Safe(F, i) => Safe(G, i)
  PROVE  ItemsLine(U, r, gone)
<1>1. PICK N : N = Len(q)
  OBVIOUS
<1>2. /\ N \in Nat /\ Len(r) = N + 1 /\ (\A n \in 1..N : r[n] = q[n])
      /\ (\A n \in 0..N : U[n] = T[n]) /\ U[N + 1] = G
  BY <1>1, RecordQueues DEF Queues, Applied
<1>3. ASSUME NEW n \in 0..N, NEW i \in Items \ gone
      PROVE  Safe(U[n], i) \/ HalfAt(U, r, n, i)
  <2>1. Safe(T[n], i) \/ HalfAt(T, q, n, i)
    BY <1>1, <1>3 DEF ItemsLine
  <2>2. CASE Safe(T[n], i)
    BY <1>2, <2>2
  <2>3. CASE HalfAt(T, q, n, i)
    <3>1. n < N /\ n + 1 \in 1..N /\ n < N + 1
      BY <1>1, <1>2, <2>3 DEF HalfAt
    <3> QED
      BY <1>1, <1>2, <2>3, <3>1 DEF HalfAt
  <2> QED
    BY <2>1, <2>2, <2>3
<1>4. ASSUME NEW i \in Items \ gone
      PROVE  Safe(U[N + 1], i)
  <2>1. N \in 0..N /\ ~(N < N)
    BY <1>2
  <2>2. Safe(T[N], i)
    BY <1>1, <2>1 DEF ItemsLine, HalfAt
  <2> QED
    BY <1>1, <1>2, <2>2
<1>5. \A n \in 0..(N + 1) : n \in 0..N \/ n = N + 1
  BY <1>2
<1> QED
  BY <1>2, <1>3, <1>4, <1>5 DEF ItemsLine

LEMMA ItemsSplit ==
  ASSUME NEW d, NEW q, NEW T, Record(d, q, T), NEW t, NEW r, Queues(q, t, r), NEW U, Record(d, r, U),
         NEW u, NEW s, Queues(r, u, s), NEW V, Record(d, s, V),
         NEW gone, ItemsLine(T, q, gone), NEW F, F = T[Len(q)], NEW M, Applied(F, t, M), NEW G, Applied(M, u, G),
         NEW h, Halved(F, M, u, h), \A i \in Items : Safe(F, i) => Safe(G, i)
  PROVE  ItemsLine(V, s, gone)
<1>1. PICK N : N = Len(q)
  OBVIOUS
<1>2. /\ N \in Nat /\ Len(r) = N + 1 /\ (\A n \in 1..N : r[n] = q[n]) /\ r[N + 1] = t
      /\ (\A n \in 0..N : U[n] = T[n]) /\ U[N + 1] = M
  BY <1>1, RecordQueues DEF Queues, Applied
<1>3. /\ Len(s) = Len(r) + 1 /\ (\A n \in 1..Len(r) : s[n] = r[n]) /\ s[Len(r) + 1] = u
      /\ (\A n \in 0..Len(r) : V[n] = U[n]) /\ V[Len(r) + 1] = Apply(U[Len(r)], u)
  BY RecordQueues DEF Queues
<1>4. /\ Len(s) = N + 2 /\ (\A n \in 1..N : s[n] = q[n]) /\ s[N + 2] = u
      /\ (\A n \in 0..N : V[n] = T[n]) /\ V[N + 1] = M /\ V[N + 2] = G
  <2>1. N + 1 + 1 = N + 2 /\ N + 1 \in 0..(N + 1) /\ (\A n \in 0..N : n \in 0..(N + 1)) /\ \A n \in 1..N : n \in 1..(N + 1)
    BY <1>2
  <2> QED
    BY <1>2, <1>3, <2>1 DEF Applied
<1>5. ASSUME NEW n \in 0..N, NEW i \in Items \ gone
      PROVE  Safe(V[n], i) \/ HalfAt(V, s, n, i)
  <2>1. Safe(T[n], i) \/ HalfAt(T, q, n, i)
    BY <1>1, <1>5 DEF ItemsLine
  <2>2. CASE Safe(T[n], i)
    BY <1>4, <2>2
  <2>3. CASE HalfAt(T, q, n, i)
    <3>1. n < N /\ n + 1 \in 1..N /\ n < N + 2
      BY <1>1, <1>2, <2>3 DEF HalfAt
    <3> QED
      BY <1>1, <1>4, <2>3, <3>1 DEF HalfAt
  <2> QED
    BY <2>1, <2>2, <2>3
<1>6. \A i \in Items \ gone : Safe(F, i)
  <2>1. N \in 0..N /\ ~(N < N)
    BY <1>2
  <2> QED
    BY <1>1, <2>1 DEF ItemsLine, HalfAt
<1>7. ASSUME NEW i \in Items \ gone
      PROVE  Safe(V[N + 1], i) \/ HalfAt(V, s, N + 1, i)
  <2>1. CASE i = h
    <3>1. N + 1 < N + 2 /\ (N + 1) + 1 = N + 2
      BY <1>2
    <3> QED
      BY <1>4, <2>1, <3>1 DEF HalfAt, Halved
  <2>2. CASE i # h
    BY <1>4, <1>6, <2>2 DEF Halved
  <2> QED
    BY <2>1, <2>2
<1>8. \A i \in Items \ gone : Safe(V[N + 2], i)
  BY <1>4, <1>6
<1>9. \A n \in 0..(N + 2) : n \in 0..N \/ n = N + 1 \/ n = N + 2
  BY <1>2
<1> QED
  BY <1>4, <1>5, <1>7, <1>8, <1>9 DEF ItemsLine

LEMMA ItemsExecutes ==
  ASSUME NEW d, NEW q, NEW T, Record(d, q, T), NEW r, Executes(q, r),
         NEW U, Record(Apply(d, q[1]), r, U), NEW gone, ItemsLine(T, q, gone)
  PROVE  ItemsLine(U, r, gone)
<1>1. PICK N : N = Len(r)
  OBVIOUS
<1>2. /\ N \in Nat /\ Len(q) = N + 1 /\ (\A n \in 1..N : r[n] = q[n + 1]) /\ \A n \in 0..N : U[n] = T[n + 1]
  <2>1. \A n \in 0..Len(r) : U[n] = T[n + 1]
    BY RecordExecutes
  <2> QED
    BY <1>1, <2>1 DEF Executes
<1>3. ASSUME NEW n \in 0..N, NEW i \in Items \ gone
      PROVE  Safe(U[n], i) \/ HalfAt(U, r, n, i)
  <2>1. n + 1 \in 0..(N + 1)
    BY <1>2
  <2>2. Safe(T[n + 1], i) \/ HalfAt(T, q, n + 1, i)
    BY <1>2, <2>1 DEF ItemsLine
  <2>3. CASE Safe(T[n + 1], i)
    BY <1>2, <2>3
  <2>4. CASE HalfAt(T, q, n + 1, i)
    <3>1. n < N /\ n + 1 \in 1..N
      BY <1>2, <2>4 DEF HalfAt
    <3> QED
      BY <1>1, <1>2, <2>4, <3>1 DEF HalfAt
  <2> QED
    BY <2>2, <2>3, <2>4
<1> QED
  BY <1>1, <1>3 DEF ItemsLine

LEMMA GoldQueues ==
  ASSUME NEW d, NEW q, NEW T, Record(d, q, T), NEW t, NEW r, Queues(q, t, r), NEW U, Record(d, r, U),
         GoldLine(T, q), NEW G, Applied(T[Len(q)], t, G), GoldIn(G) = SumFunction(StartMoney)
  PROVE  GoldLine(U, r)
<1>1. PICK N : N = Len(q)
  OBVIOUS
<1>2. N \in Nat /\ Len(r) = N + 1 /\ (\A n \in 0..N : U[n] = T[n]) /\ U[N + 1] = G
  BY <1>1, RecordQueues DEF Queues, Applied
<1>3. \A n \in 0..(N + 1) : n \in 0..N \/ n = N + 1
  BY <1>2
<1> QED
  BY <1>1, <1>2, <1>3 DEF GoldLine

LEMMA GoldExecutes ==
  ASSUME NEW d, NEW q, NEW T, Record(d, q, T), NEW r, Executes(q, r),
         NEW U, Record(Apply(d, q[1]), r, U), GoldLine(T, q)
  PROVE  GoldLine(U, r)
<1>1. PICK N : N = Len(r)
  OBVIOUS
<1>2. N \in Nat /\ Len(q) = N + 1 /\ \A n \in 0..N : U[n] = T[n + 1]
  <2>1. \A n \in 0..Len(r) : U[n] = T[n + 1]
    BY RecordExecutes
  <2> QED
    BY <1>1, <2>1 DEF Executes
<1>3. \A n \in 0..N : n + 1 \in 0..(N + 1)
  BY <1>2
<1> QED
  BY <1>1, <1>2, <1>3 DEF GoldLine

LEMMA GoldLast ==
  ASSUME NEW T, NEW q, Len(q) \in Nat, GoldLine(T, q), NEW F, F = T[Len(q)]
  PROVE  GoldIn(F) = SumFunction(StartMoney)
<1>1. Len(q) \in 0..Len(q)
  OBVIOUS
<1> QED
  BY <1>1 DEF GoldLine

\* One transaction is queued that keeps items and gold.
LEMMA GrowsKept ==
  ASSUME StoreTypes, up = "up", NEW t, Commit(<<t>>), UNCHANGED lost, NEW T, Record(db, queue, T),
         NEW F, F = T[Len(queue)], NEW G, Applied(F, t, G), ItemsKept(F, G), GoldKept(F, G)
  PROVE  (LogTrade /\ ItemsInv => ItemsInv') /\ (IsFiniteSet(Players) /\ GoldInv => GoldInv')
<1>1. Queues(queue, t, queue') /\ UNCHANGED <<db, up, crashes>>
  BY CommitOne
<1>2. PICK r : r = queue'
  OBVIOUS
<1>3. Queues(queue, t, r) /\ up' = "up" /\ db' = db /\ Len(queue) \in Nat
  BY <1>1, <1>2 DEF Queues
<1>4. ASSUME LogTrade, ItemsInv PROVE ItemsInv'
  <2>1. ItemsLine(T, queue, lost) /\ \A i \in Items : Safe(F, i) => Safe(G, i)
    BY <1>4, SafeKept DEF ItemsInv
  <2>2. \A U : Record(db, r, U) => ItemsLine(U, r, lost)
    BY <1>3, <2>1, ItemsQueues
  <2> QED
    BY <1>2, <1>3, <2>2 DEF ItemsInv
<1>5. ASSUME IsFiniteSet(Players), GoldInv PROVE GoldInv'
  <2>1. GoldLine(T, queue)
    BY <1>5 DEF GoldInv
  <2>2. GoldIn(G) = SumFunction(StartMoney)
    BY <1>3, <1>5, <2>1, GoldLast DEF GoldKept
  <2>3. \A U : Record(db, r, U) => GoldLine(U, r)
    <3>1. Applied(T[Len(queue)], t, G)
      OBVIOUS
    <3> QED
      BY <1>3, <2>1, <2>2, <3>1, GoldQueues
  <2> QED
    BY <1>2, <1>3, <2>3 DEF GoldInv
<1> QED
  BY <1>4, <1>5

\* A handler that commits one transaction keeps all that is claimed.
LEMMA SettleStep ==
  ASSUME StoreInv, up = "up", NEW T, Record(db, queue, T), Lines(T), Settles(T[Len(queue)]), UNCHANGED lost
  PROVE  Kept
<1>1. PICK F : F = T[Len(queue)]
  OBVIOUS
<1>2. PICK t, G : /\ Commit(<<t>>) /\ t.load = {} /\ Applied(F, t, G)
                  /\ Done(F, G) /\ ItemsKept(F, G) /\ GoldKept(F, G)
  BY <1>1 DEF Settles
<1>3. StoreInv'
  <2>1. G = Apply(T[Len(queue)], t) /\ Done(T[Len(queue)], G)
    BY <1>1, <1>2 DEF Applied
  <2> QED
    BY <1>2, <2>1, CommitStep
<1>4. StoreTypes
  BY DEF StoreInv
<1>5. (LogTrade /\ ItemsInv => ItemsInv') /\ (IsFiniteSet(Players) /\ GoldInv => GoldInv')
  BY <1>1, <1>2, <1>4, GrowsKept
<1> QED
  BY <1>3, <1>5 DEF Kept

\* ... and the sale of a split stack, which commits two.
LEMMA SplitStep ==
  ASSUME StoreInv, up = "up", NEW T, Record(db, queue, T), Lines(T), Splits(T[Len(queue)]), UNCHANGED lost
  PROVE  Kept
<1>1. PICK F : F = T[Len(queue)]
  OBVIOUS
<1>2. PICK t, u, M, G, h :
        /\ h \in Items /\ Commit(<<t, u>>) /\ t.load = {} /\ u.load = {} /\ Applied(F, t, M) /\ Applied(M, u, G)
        /\ Fine(M) /\ Quiet(F, M, online, mailsLoaded) /\ Quiet(M, G, online, mailsLoaded)
        /\ Below(M, mailId, auctionId) /\ Done(F, G)
        /\ Halved(F, M, u, h) /\ ItemsKept(F, G) /\ GoldKept(F, M) /\ GoldKept(F, G)
  <2>1. Splits(F)
    BY <1>1
  <2> QED
    BY <2>1 DEF Splits
<1>3. StoreTypes /\ Len(queue) \in Nat
  BY DEF StoreInv, StoreTypes, Sequence
<1>4. PICK s : s = queue'
  OBVIOUS
<1>5. PICK r : Queues(queue, t, r) /\ Queues(r, u, s)
  BY <1>2, <1>3, <1>4, CommitTwo
<1>6. UNCHANGED <<db, up, crashes>>
  BY <1>2, <1>3, CommitTwo
<1>7. PICK U : Record(db, r, U)
  BY <1>5, TablesRecord DEF Queues, Sequence
<1>8. /\ Fine(G) /\ Below(G, mailId', auctionId')
      /\ mailId <= mailId' /\ auctionId <= auctionId' /\ mailId' \in Nat /\ auctionId' \in Nat
      /\ mailId \in Nat /\ auctionId \in Nat
      /\ online' = online /\ fetched' = fetched /\ mailsLoaded' = mailsLoaded
      /\ Current(G)' /\ StoreTypes'
  BY <1>2 DEF Done, Current, StoreTypes, StoreInv
<1>9. Chain(T, queue, online, fetched, mailsLoaded) /\ Ids(T, queue, mailId, auctionId)
  BY DEF Lines
<1>10. Chain(U, r, online, fetched, mailsLoaded) /\ U[Len(r)] = M
  <2>1. NewLoads(t, queue, online, fetched) /\ M = Apply(T[Len(queue)], t) /\ Quiet(T[Len(queue)], M, online, mailsLoaded)
    BY <1>1, <1>2 DEF NewLoads, Applied
  <2> QED
    BY <1>2, <1>5, <1>7, <1>9, <2>1, ChainQueues
<1>11. Ids(U, r, mailId, auctionId)
  <2>1. Below(Apply(T[Len(queue)], t), mailId, auctionId) /\ mailId <= mailId /\ auctionId <= auctionId
    BY <1>1, <1>2, <1>8 DEF Applied
  <2>2. \A n \in 0..Len(queue) : Fine(T[n])
    BY <1>9 DEF Chain
  <2> QED
    BY <1>5, <1>7, <1>8, <1>9, <2>1, <2>2, IdsQueues
<1>12. ASSUME NEW V, Record(db, s, V)
       PROVE  /\ Chain(V, s, online, fetched, mailsLoaded) /\ V[Len(s)] = G
              /\ Ids(V, s, mailId', auctionId')
  <2>1. NewLoads(u, r, online, fetched) /\ G = Apply(U[Len(r)], u) /\ Quiet(U[Len(r)], G, online, mailsLoaded)
    BY <1>2, <1>10 DEF NewLoads, Applied
  <2>2. Chain(V, s, online, fetched, mailsLoaded) /\ V[Len(s)] = G
    BY <1>5, <1>7, <1>8, <1>10, <1>12, <2>1, ChainQueues
  <2>3. Below(Apply(U[Len(r)], u), mailId', auctionId')
    BY <1>8, <2>1
  <2>4. \A n \in 0..Len(r) : Fine(U[n])
    BY <1>10 DEF Chain
  <2>5. Ids(V, s, mailId', auctionId')
    BY <1>5, <1>7, <1>8, <1>11, <1>12, <2>3, <2>4, IdsQueues
  <2> QED
    BY <2>2, <2>5
<1>13. StoreInv'
  <2>1. \A V : Record(db, s, V) => Lines(V)'
    BY <1>4, <1>8, <1>12 DEF Lines
  <2> QED
    BY <1>4, <1>6, <1>8, <2>1 DEF StoreInv
<1>14. ASSUME LogTrade, ItemsInv PROVE ItemsInv'
  <2>1. ItemsLine(T, queue, lost) /\ \A i \in Items : Safe(F, i) => Safe(G, i)
    <3>1. \A i \in Items : i \in F.thrown => i \in G.thrown
      BY <1>2 DEF Applied, Apply
    <3> QED
      BY <1>2, <1>14, <3>1 DEF ItemsInv, ItemsKept, Safe
  <2>2. \A V : Record(db, s, V) => ItemsLine(V, s, lost)
    BY <1>1, <1>2, <1>5, <1>7, <2>1, ItemsSplit
  <2> QED
    BY <1>4, <1>6, <2>2 DEF ItemsInv
<1>15. ASSUME IsFiniteSet(Players), GoldInv PROVE GoldInv'
  <2>1. GoldLine(T, queue)
    BY <1>15 DEF GoldInv
  <2>2. GoldIn(G) = SumFunction(StartMoney) /\ GoldIn(M) = SumFunction(StartMoney)
    BY <1>1, <1>2, <1>3, <1>15, <2>1, GoldLast DEF GoldKept
  <2>3. GoldLine(U, r)
    <3>1. Applied(T[Len(queue)], t, M)
      BY <1>1, <1>2
    <3> QED
      BY <1>5, <1>7, <2>1, <2>2, <3>1, GoldQueues
  <2>4. \A V : Record(db, s, V) => GoldLine(V, s)
    <3>1. Applied(U[Len(r)], u, G)
      BY <1>2, <1>10
    <3> QED
      BY <1>5, <1>7, <2>2, <2>3, <3>1, GoldQueues
  <2> QED
    BY <1>4, <1>6, <2>4 DEF GoldInv
<1> QED
  BY <1>13, <1>14, <1>15 DEF Kept

-----------------------------------------------------------------------------
(* A trade.                                                                *)

\* The tables F after players p and q have exchanged the items mine and his,
\* and have v and w gold; what is above the limit, s, is gone.
Swapped(F, G, p, q, mine, his, v, w, s) ==
  /\ Purses(G.money) /\ G.inv \in [Items -> Players \cup {Nobody}]
  /\ \A x \in Players : G.money[x] = IF x = p THEN v ELSE IF x = q THEN w ELSE F.money[x]
  /\ \A j \in Items : G.inv[j] = IF j \in mine THEN q ELSE IF j \in his THEN p ELSE F.inv[j]
  /\ G.mail = F.mail /\ G.auc = F.auc /\ G.spent = F.spent + s

Swaps(p, q, mine, his, v, w) ==
  /\ online[p] = "in" /\ online[q] = "in" /\ p # q /\ mine \subseteq bags[p] /\ his \subseteq bags[q]
  /\ bags' = [bags EXCEPT ![p] = (bags[p] \ mine) \cup his, ![q] = (bags[q] \ his) \cup mine]
  /\ money' = [money EXCEPT ![p] = v, ![q] = w]
  /\ UNCHANGED <<online, fetched, mailVars, auctionVars>>

LEMMA SwapPurse ==
  ASSUME StoreTypes, NEW F, Current(F), NEW p \in Players, NEW q \in Players, NEW mine, NEW his, NEW v, NEW w, NEW s,
         Swaps(p, q, mine, his, v, w), NEW G, Swapped(F, G, p, q, mine, his, v, w, s)
  PROVE  PursePart(F, G)
<1>1. /\ online[p] = "in" /\ online[q] = "in" /\ p # q /\ mine \subseteq bags[p] /\ his \subseteq bags[q]
      /\ UNCHANGED online
  BY DEF Swaps
<1>2. /\ DOMAIN money' = Players /\ DOMAIN bags' = Players
      /\ \A x \in Players : money'[x] = IF x = p THEN v ELSE IF x = q THEN w ELSE money[x]
      /\ \A x \in Players : bags'[x] = IF x = p THEN (bags[p] \ mine) \cup his
                                       ELSE IF x = q THEN (bags[q] \ his) \cup mine ELSE bags[x]
  BY <1>1 DEF Swaps, StoreTypes
<1>3. /\ \A x \in Players : G.money[x] = IF x = p THEN v ELSE IF x = q THEN w ELSE F.money[x]
      /\ \A j \in Items : G.inv[j] = IF j \in mine THEN q ELSE IF j \in his THEN p ELSE F.inv[j]
  BY DEF Swapped
<1>4. /\ bags[p] \subseteq Items /\ \A j \in Items : F.inv[j] = p <=> j \in bags[p]
  BY <1>1, InFacts
<1>5. /\ bags[q] \subseteq Items /\ \A j \in Items : F.inv[j] = q <=> j \in bags[q]
  BY <1>1, InFacts
<1>6. \A j : j \in mine => j \notin his /\ j \notin bags[q]
  BY <1>1, <1>4, <1>5
<1>7. {j \in Items : G.inv[j] = p} = (bags[p] \ mine) \cup his
  BY <1>1, <1>3, <1>4, <1>5, <1>6
<1>8. {j \in Items : G.inv[j] = q} = (bags[q] \ his) \cup mine
  BY <1>1, <1>3, <1>4, <1>5, <1>6
<1>9. ASSUME NEW x \in Players \ {p, q}
      PROVE  {j \in Items : G.inv[j] = x} = {j \in Items : F.inv[j] = x} /\ G.money[x] = F.money[x]
  BY <1>1, <1>3, <1>4, <1>5
<1>10. PurseMemory(F, online, money, bags)
  BY CurrentFacts
<1>11. PurseMemory(G, online', money', bags')
  <2> SUFFICES ASSUME NEW x \in Players, online[x] = "in"
               PROVE  G.money[x] = money'[x] /\ {j \in Items : G.inv[j] = x} = bags'[x]
    BY <1>1 DEF PurseMemory
  <2>1. CASE x = p
    BY <1>2, <1>3, <1>7, <2>1
  <2>2. CASE x = q
    BY <1>1, <1>2, <1>3, <1>8, <2>2
  <2>3. CASE x \notin {p, q}
    BY <1>2, <1>9, <1>10, <2>3 DEF PurseMemory
  <2> QED
    BY <2>1, <2>2, <2>3
<1>12. \A x \in Players : online[x] # "in" => Purse(F, x) = Purse(G, x)
  BY <1>1, <1>9 DEF Purse
<1> QED
  BY <1>2, <1>11, <1>12 DEF PursePart

\* Both keep what they had in all, but for what is gone.
LEMMA SwapGold ==
  ASSUME IsFiniteSet(Players), NEW F, IsStore(F), NEW p \in Players, NEW q \in Players, p # q,
         NEW v \in Nat, NEW w \in Nat, NEW s \in Nat, v + w + s = F.money[p] + F.money[q],
         NEW mine, NEW his, NEW G, IsStore(G), Swapped(F, G, p, q, mine, his, v, w, s)
  PROVE  GoldIn(G) = GoldIn(F)
<1>1. PICK f, g, h : f = F.money /\ g = [f EXCEPT ![p] = v] /\ h = [g EXCEPT ![q] = w]
  OBVIOUS
<1>2. f \in [Players -> Nat] /\ g \in [Players -> Nat] /\ h \in [Players -> Nat] /\ g[q] = f[q]
  BY <1>1 DEF IsStore
<1>3. G.money = h
  <2>1. \A x \in Players : G.money[x] = h[x]
    BY <1>1, <1>2 DEF Swapped
  <2> QED
    BY <1>2, <2>1 DEF IsStore
<1>4. SumFunction(g) = SumFunction(f) - f[p] + v
  BY <1>1, <1>2, PurseSet
<1>5. SumFunction(h) = SumFunction(g) - g[q] + w
  BY <1>1, <1>2, PurseSet
<1>6. PICK a, b, c, d, x, y : /\ a = SumFunction(f) /\ b = Posted(F.mail) /\ c = Staked(F.auc) /\ d = F.spent
                              /\ x = f[p] /\ y = f[q]
  OBVIOUS
<1>7. a \in Nat /\ b \in Nat /\ c \in Nat /\ d \in Int /\ x \in Nat /\ y \in Nat
  BY <1>1, <1>2, <1>6, GoldNat DEF IsStore
<1>8. GoldIn(F) = a + b + c + d /\ GoldIn(G) = SumFunction(h) + b + c + (d + s)
  BY <1>1, <1>3, <1>6, GoldParts DEF Swapped
<1>9. SumFunction(h) = (a - x + v) - y + w /\ v + w + s = x + y
  BY <1>1, <1>2, <1>4, <1>5, <1>6
<1> QED
  BY <1>7, <1>8, <1>9

\* Two players change items and gold, in memory and in the tables.
LEMMA SwapDone ==
  ASSUME StoreTypes, NEW F, Current(F), NEW p \in Players, NEW q \in Players, NEW mine, NEW his,
         NEW v \in Nat, NEW w \in Nat, NEW s \in Nat,
         Swaps(p, q, mine, his, v, w), NEW G, Swapped(F, G, p, q, mine, his, v, w, s),
         NEW t, Commit(<<t>>), t.load = {}, Applied(F, t, G), v + w + s = money[p] + money[q]
  PROVE  Settles(F)
<1>1. IsStore(F) /\ Fine(F)
  BY CurrentFacts
<1>2. /\ Purses(G.money) /\ G.inv \in [Items -> Players \cup {Nobody}]
      /\ \A j \in Items : G.inv[j] = IF j \in mine THEN q ELSE IF j \in his THEN p ELSE F.inv[j]
      /\ G.mail = F.mail /\ G.auc = F.auc /\ G.spent = F.spent + s
  BY DEF Swapped
<1>3. IsStore(G)
  BY <1>1, <1>2 DEF IsStore, Purses
<1>4. /\ online[p] = "in" /\ online[q] = "in" /\ p # q /\ mine \subseteq bags[p] /\ his \subseteq bags[q]
      /\ UNCHANGED <<online, fetched>> /\ UNCHANGED mailVars /\ UNCHANGED auctionVars
  BY DEF Swaps
<1>5. p # Nobody /\ q # Nobody
  BY StoreAssumption
<1>6. \A j \in Items : (j \in mine => F.inv[j] = p) /\ (j \in his => F.inv[j] = q)
  <2>1. \A j \in Items : F.inv[j] = p <=> j \in bags[p]
    BY <1>4, InFacts
  <2>2. \A j \in Items : F.inv[j] = q <=> j \in bags[q]
    BY <1>4, InFacts
  <2> QED
    BY <1>4, <2>1, <2>2
<1>7. \A j \in Items : G.inv[j] = Nobody <=> F.inv[j] = Nobody
  BY <1>2, <1>5, <1>6
<1>8. \A j \in Items : (Absent(F, j) => Absent(G, j)) /\ (Placed(F, j) => Placed(G, j))
  BY <1>2, <1>7 DEF Absent, Placed, Bagged, Mailed, Offered
<1>9. Fine(G) /\ ItemsKept(F, G)
  BY <1>1, <1>3, <1>8 DEF Fine, ItemsKept
<1>10. HousePart(G) /\ MailPart(F, G)
  BY <1>2, <1>4, HouseSame, MailsSame
<1>11. PursePart(F, G)
  BY SwapPurse
<1>12. Done(F, G)
  BY <1>4, <1>9, <1>10, <1>11, AllParts
<1>13. F.money[p] = money[p] /\ F.money[q] = money[q]
  BY <1>4, InFacts
<1>14. GoldKept(F, G)
  BY <1>1, <1>3, <1>4, <1>13, SwapGold DEF GoldKept
<1> QED
  BY <1>9, <1>12, <1>14 DEF Settles

\* A player gives x of his gold and gets y; what is above the limit is gone.
LEMMA GiveTake ==
  ASSUME NEW gold \in Nat, gold <= MaxMoney, NEW x \in Nat, NEW y \in Nat, x <= gold, y <= MaxMoney
  PROVE  LET v == ModifyMoney(ModifyMoney(gold, -x), y)
             s == Above(gold - x + y, MaxMoney)
         IN  v \in Nat /\ v <= MaxMoney /\ s \in Nat /\ v + s = gold - x + y
<1>1. MaxMoney \in Nat
  BY StoreAssumption
<1>2. PICK h : h = ModifyMoney(gold, -x)
  OBVIOUS
<1>3. h = gold - x
  BY <1>1, <1>2 DEF ModifyMoney, Above, RoomFor
<1>4. h \in Nat /\ h <= MaxMoney
  BY <1>1, <1>3
<1>5. PICK v, s : v = ModifyMoney(h, y) /\ s = Above(h + y, MaxMoney)
  OBVIOUS
<1>6. v \in Nat /\ v <= MaxMoney /\ s \in Nat /\ v + s = h + y
  BY <1>1, <1>4, <1>5 DEF ModifyMoney, Above, RoomFor
<1> QED
  BY <1>2, <1>3, <1>5, <1>6

\* The exchange of a trade, with gold that both have.
LEMMA ExchangeDone ==
  ASSUME StoreTypes, NEW F, Current(F), NEW p \in Players, NEW q \in Players, p # q,
         online[p] = "in", online[q] = "in", m_trade[p].money \in Nat, m_trade[q].money \in Nat,
         money[p] >= m_trade[p].money, money[q] >= m_trade[q].money,
         Exchange(p, q), UNCHANGED <<mailVars, auctionVars>>
  PROVE  Settles(F)
<1>1. PICK mine, his, x, y, v, w :
        /\ mine = GetItem(p) /\ his = GetItem(q) /\ x = m_trade[p].money /\ y = m_trade[q].money
        /\ v = ModifyMoney(ModifyMoney(money[p], -x), y) /\ w = ModifyMoney(ModifyMoney(money[q], -y), x)
  OBVIOUS
<1>2. PICK gold, inv, s, k, t :
        /\ gold = Insert(GoldRow(q, w), GoldRow(p, v))
        /\ inv = [i \in mine \cup his |-> IF i \in mine THEN q ELSE p]
        /\ s = LostAtLimit(p, q) /\ k = LostAtLimit(q, p)
        /\ t = [NoWrites EXCEPT !.money = gold, !.inv = inv, !.spent = s + k]
  OBVIOUS
<1>3. /\ bags' = [bags EXCEPT ![p] = (bags[p] \ mine) \cup his, ![q] = (bags[q] \ his) \cup mine]
      /\ money' = [money EXCEPT ![p] = v, ![q] = w]
      /\ Commit(<<t>>) /\ UNCHANGED <<online, fetched>>
  BY <1>1, <1>2 DEF Exchange, AfterTrade
<1>4. mine \subseteq bags[p] /\ his \subseteq bags[q]
  BY <1>1 DEF GetItem
<1>5. Swaps(p, q, mine, his, v, w)
  BY <1>3, <1>4 DEF Swaps
<1>6. x \in Nat /\ y \in Nat /\ -x \in Int /\ -y \in Int /\ x \in Int /\ y \in Int
  BY <1>1
<1>7. /\ F.money[p] = money[p] /\ money[p] \in Nat /\ money[p] <= MaxMoney
      /\ F.money[q] = money[q] /\ money[q] \in Nat /\ money[q] <= MaxMoney
  BY InFacts
<1>17. MaxMoney \in Nat /\ x <= money[p] /\ y <= money[q] /\ x <= MaxMoney /\ y <= MaxMoney
  BY <1>1, <1>6, <1>7, StoreAssumption
<1>18. v \in Nat /\ v <= MaxMoney /\ s \in Nat /\ v + s = money[p] - x + y
  BY <1>1, <1>2, <1>6, <1>7, <1>17, GiveTake DEF LostAtLimit
<1>19. w \in Nat /\ w <= MaxMoney /\ k \in Nat /\ w + k = money[q] - y + x
  BY <1>1, <1>2, <1>6, <1>7, <1>17, GiveTake DEF LostAtLimit
<1>8. v \in Nat /\ w \in Nat /\ s + k \in Nat
  BY <1>18, <1>19
<1>9. PICK G : Applied(F, t, G)
  BY DEF Applied
<1>10. /\ t.money = gold /\ t.inv = inv
       /\ t.mail = NoRows /\ t.mailSet = NoRows /\ t.unitem = {} /\ t.unmail = {}
       /\ t.auc = NoRows /\ t.aucSet = NoRows /\ t.unauc = {} /\ t.spent = s + k /\ t.load = {}
  BY <1>2 DEF NoWrites
<1>11. IsStore(F) /\ F.spent \in Int /\ F.money \in [Players -> Nat] /\ F.inv \in [Items -> Players \cup {Nobody}]
       /\ \A z \in Players : F.money[z] <= MaxMoney
  BY CurrentFacts
<1>12. G.mail = F.mail /\ G.auc = F.auc /\ G.spent = F.spent + (s + k)
  BY <1>8, <1>9, <1>10, <1>11, MailNone, AucNone, SpentSum
<1>13. /\ Purses(G.money)
       /\ \A z \in Players : G.money[z] = IF z = p THEN v ELSE IF z = q THEN w ELSE F.money[z]
  <2>1. Inserted(GoldRow(q, w), GoldRow(p, v), gold)
    BY <1>2, InsertFacts
  <2>2. DOMAIN gold = {p, q} /\ gold[p] = v /\ gold[q] = w
    BY <2>1 DEF Inserted, GoldRow, OneRow
  <2>3. G.money = Update(F.money, gold)
    BY <1>9, <1>10 DEF Applied, Apply
  <2>4. G.money = [z \in Players |-> IF z \in {p, q} THEN gold[z] ELSE F.money[z]]
    BY <1>11, <2>2, <2>3 DEF Update
  <2> QED
    BY <1>8, <1>11, <1>18, <1>19, <2>2, <2>4 DEF Purses
<1>14. /\ G.inv \in [Items -> Players \cup {Nobody}]
       /\ \A j \in Items : G.inv[j] = IF j \in mine THEN q ELSE IF j \in his THEN p ELSE F.inv[j]
  <2>1. G.inv = Update(F.inv, inv)
    BY <1>9, <1>10 DEF Applied, Apply
  <2>2. DOMAIN inv = mine \cup his /\ \A i \in mine \cup his : inv[i] = IF i \in mine THEN q ELSE p
    BY <1>2
  <2>3. G.inv = [j \in Items |-> IF j \in mine \cup his THEN inv[j] ELSE F.inv[j]]
    BY <1>11, <2>1, <2>2 DEF Update
  <2> QED
    BY <1>11, <2>2, <2>3
<1>15. Swapped(F, G, p, q, mine, his, v, w, s + k)
  BY <1>12, <1>13, <1>14 DEF Swapped
<1>16. v + w + (s + k) = money[p] + money[q]
  BY <1>6, <1>7, <1>18, <1>19
<1> QED
  BY <1>3, <1>5, <1>8, <1>9, <1>10, <1>15, <1>16, SwapDone

-----------------------------------------------------------------------------
(* Players come and go.                                                    *)

\* The same tables.
Same(F, G) ==
  G.money = F.money /\ G.inv = F.inv /\ G.mail = F.mail /\ G.auc = F.auc /\ G.spent = F.spent

LEMMA SameFacts ==
  ASSUME NEW F, Fine(F), NEW G, Same(F, G)
  PROVE  /\ Fine(G) /\ ItemsKept(F, G) /\ GoldKept(F, G) /\ \A on, lo : Quiet(F, G, on, lo)
         /\ \A mid, aid : Below(F, mid, aid) => Below(G, mid, aid)
<1>1. G.money = F.money /\ G.inv = F.inv /\ G.mail = F.mail /\ G.auc = F.auc /\ G.spent = F.spent
  BY DEF Same
<1>2. IsStore(G)
  BY <1>1 DEF Fine, IsStore
<1>3. \A i : (Absent(F, i) => Absent(G, i)) /\ (Placed(F, i) => Placed(G, i))
  BY <1>1 DEF Absent, Placed, Bagged, Mailed, Offered
<1>4. \A p : Purse(F, p) = Purse(G, p) /\ MailKept(p, F, G)
  BY <1>1 DEF Purse, MailKept, RowsKept
<1>5. GoldIn(G) = GoldIn(F)
  BY <1>1, GoldParts
<1> QED
  BY <1>1, <1>2, <1>3, <1>4, <1>5 DEF Fine, ItemsKept, GoldKept, Quiet, Below

\* Players and their mail boxes change; the tables and the house do not.
Moves(on2, fe2, lo2) ==
  /\ \A p \in Players :
       /\ online[p] = "loading" /\ fetched[p] = Nothing => on2[p] = "loading" /\ fe2[p] = Nothing
       /\ fe2[p] # Nothing => fe2[p] = fetched[p] /\ on2[p] = "loading"
       /\ on2[p] = "in" /\ p \notin lo2 => (online[p] = "in" /\ p \notin mailsLoaded) \/ fetched[p] # Nothing
  /\ \A p \in lo2 : on2[p] = "in"
MovedTypes ==
  /\ DOMAIN online' = Players /\ DOMAIN fetched' = Players /\ DOMAIN money' = Players
  /\ DOMAIN bags' = Players /\ DOMAIN mails' = Players /\ DOMAIN mMitems' = Players
  /\ mailsLoaded' \subseteq Players
Moved(F) ==
  /\ MovedTypes /\ PurseMemory(F, online', money', bags') /\ MailMemory(F.mail, mailsLoaded', mails')
  /\ Held(mails', mMitems')

LEMMA MovedChain ==
  ASSUME NEW T, Lines(T), Moves(online', fetched', mailsLoaded')
  PROVE  Chain(T, queue, online', fetched', mailsLoaded')
<1>1. PICK on2, fe2, lo2 : on2 = online' /\ fe2 = fetched' /\ lo2 = mailsLoaded'
  OBVIOUS
<1>2. Moves(on2, fe2, lo2)
  BY <1>1
<1>3. Chain(T, queue, online, fetched, mailsLoaded)
  BY DEF Lines
<1>4. Chain(T, queue, on2, fe2, lo2)
  BY <1>2, <1>3, ChainPlayers DEF Moves
<1> QED
  BY <1>1, <1>4

\* Players come and go and nothing is queued.
LEMMA MovedStep ==
  ASSUME StoreInv, up = "up", NEW T, Record(db, queue, T), Lines(T),
         UNCHANGED <<storeVars, AuctionsMap, mAitems, auctionId, mailId, lost>>,
         Moves(online', fetched', mailsLoaded'), Moved(T[Len(queue)])
  PROVE  Kept
<1>1. UNCHANGED <<db, queue, up>>
  BY DEF storeVars
<1>2. StoreTypes'
  BY <1>1 DEF StoreInv, StoreTypes, Moved, MovedTypes
<1>3. Len(queue) \in Nat /\ Sequence(queue)
  BY DEF StoreInv, StoreTypes, Sequence
<1>4. ASSUME NEW U, Record(db, queue, U)
      PROVE  Lines(U)'
  <2>1. Lines(U)
    BY <1>4 DEF StoreInv
  <2>2. Chain(U, queue, online', fetched', mailsLoaded')
    BY <2>1, MovedChain
  <2>3. U[Len(queue)] = T[Len(queue)]
    <3>1. Part(queue, queue, 0) /\ Record(T[0], queue, U) /\ Len(queue) \in 0..Len(queue)
      BY <1>3, <1>4 DEF Part, Record
    <3>2. \A n \in 0..Len(queue) : U[n] = T[0 + n]
      BY <3>1, RecordPart
    <3> QED
      BY <1>3, <3>1, <3>2
  <2>4. PICK F : F = U[Len(queue)]
    OBVIOUS
  <2>5. Current(F) /\ Moved(F)
    BY <2>1, <2>3, <2>4 DEF Lines
  <2>6. Current(F)'
    BY <2>5 DEF Current, Moved
  <2>7. Ids(U, queue, mailId, auctionId)
    BY <2>1 DEF Lines
  <2> QED
    BY <1>1, <2>2, <2>4, <2>6, <2>7 DEF Lines
<1>5. StoreInv'
  BY <1>1, <1>2, <1>4 DEF StoreInv
<1>6. (ItemsInv => ItemsInv') /\ (GoldInv => GoldInv')
  BY <1>1 DEF ItemsInv, GoldInv
<1> QED
  BY <1>5, <1>6 DEF Kept

\* One transaction that writes what is there already: a login query, and the
\* save of a player who leaves.
LEMMA MovedCommit ==
  ASSUME StoreInv, up = "up", NEW T, Record(db, queue, T), Lines(T), NEW t, Commit(<<t>>),
         UNCHANGED <<AuctionsMap, mAitems, auctionId, mailId, lost>>,
         Moves(online', fetched', mailsLoaded'), NewLoads(t, queue, online', fetched'),
         NEW F, F = T[Len(queue)], Moved(F), NEW G, Applied(F, t, G), Same(F, G)
  PROVE  Kept
<1>1. Queues(queue, t, queue') /\ UNCHANGED <<db, up, crashes>>
  BY CommitOne DEF StoreInv
<1>2. PICK r : r = queue'
  OBVIOUS
<1>3. Queues(queue, t, r) /\ Sequence(r)
  BY <1>1, <1>2 DEF Queues
<1>4. StoreTypes'
  BY <1>1, <1>2, <1>3 DEF StoreInv, StoreTypes, Moved, MovedTypes
<1>5. Current(F) /\ Fine(F) /\ Below(F, mailId, auctionId)
  BY DEF Lines, Current
<1>6. /\ Fine(G) /\ ItemsKept(F, G) /\ GoldKept(F, G) /\ (\A on, lo : Quiet(F, G, on, lo))
      /\ Below(G, mailId, auctionId)
  BY <1>5, SameFacts
<1>7. Current(G)'
  BY <1>5, <1>6 DEF Current, Moved, Same, PurseMemory
<1>8. Chain(T, queue, online', fetched', mailsLoaded')
  BY MovedChain
<1>9. ASSUME NEW U, Record(db, r, U)
      PROVE  Lines(U)'
  <2>1. PICK on2, fe2, lo2 : on2 = online' /\ fe2 = fetched' /\ lo2 = mailsLoaded'
    OBVIOUS
  <2>2. Chain(T, queue, on2, fe2, lo2) /\ NewLoads(t, queue, on2, fe2)
    BY <1>8, <2>1
  <2>3. G = Apply(T[Len(queue)], t) /\ Quiet(T[Len(queue)], G, on2, lo2)
    BY <1>6 DEF Applied
  <2>4. Chain(U, r, on2, fe2, lo2) /\ U[Len(r)] = G
    BY <1>3, <1>6, <1>9, <2>2, <2>3, ChainQueues
  <2>5. Ids(U, r, mailId, auctionId)
    <3>1. Below(Apply(T[Len(queue)], t), mailId, auctionId)
      BY <1>6, <2>3
    <3>2. (\A n \in 0..Len(queue) : Fine(T[n])) /\ Ids(T, queue, mailId, auctionId)
      BY DEF Lines, Chain
    <3>3. mailId \in Nat /\ auctionId \in Nat /\ mailId <= mailId /\ auctionId <= auctionId
      BY DEF StoreInv, StoreTypes
    <3> QED
      BY <1>3, <1>9, <3>1, <3>2, <3>3, IdsQueues
  <2> QED
    BY <1>2, <1>7, <2>1, <2>4, <2>5 DEF Lines
<1>10. StoreInv'
  BY <1>1, <1>2, <1>4, <1>9 DEF StoreInv
<1>11. (LogTrade /\ ItemsInv => ItemsInv') /\ (IsFiniteSet(Players) /\ GoldInv => GoldInv')
  BY <1>6, GrowsKept DEF StoreInv
<1> QED
  BY <1>10, <1>11 DEF Kept

LEMMA LinesFacts ==
  ASSUME NEW T, Lines(T)
  PROVE  /\ \A p \in mailsLoaded : online[p] = "in"
         /\ \A p \in Players : fetched[p] # Nothing =>
              online[p] = "loading" /\ fetched[p] = Purse(T[Len(queue)], p)
         /\ \A k \in 1..Len(queue) : \A p \in queue[k].load : online[p] = "loading"
  BY DEF Lines, Chain, Reads, Loads

\* Nothing that matters changes.
LEMMA StillStep ==
  ASSUME StoreInv, UNCHANGED <<storeVars, playerVars, mailVars, AuctionsMap, mAitems, auctionId, lost>>
  PROVE  Kept
<1>1. UNCHANGED <<db, queue, up, online, fetched, money, bags, mailsLoaded, mails, mMitems, mailId, AuctionsMap,
                  mAitems, auctionId, lost>>
  BY DEF storeVars, playerVars, mailVars
<1>2. StoreInv'
  BY <1>1 DEF StoreInv, StoreTypes, Lines, Current, Idle
<1>3. (ItemsInv => ItemsInv') /\ (GoldInv => GoldInv')
  BY <1>1 DEF ItemsInv, GoldInv
<1> QED
  BY <1>2, <1>3 DEF Kept

\* The login query is queued: from here on nothing concerns the player.
LEMMA AskLoginStep ==
  ASSUME StoreInv, NEW p \in Players, AskLogin(p), UNCHANGED <<mailVars, auctionVars, lost>>
  PROVE  Kept
<1>1. up = "up" /\ online[p] = "out"
  BY DEF AskLogin
<1>2. PICK T : Record(db, queue, T) /\ Lines(T)
  BY <1>1, CurrentTables
<1>3. PICK F, t : F = T[Len(queue)] /\ t = [NoWrites EXCEPT !.load = {p}]
  OBVIOUS
<1>4. /\ Commit(<<t>>) /\ online' = [online EXCEPT ![p] = "loading"]
      /\ UNCHANGED <<fetched, money, bags, mailsLoaded, mails, mMitems, mailId, AuctionsMap, mAitems, auctionId, lost>>
  BY <1>3 DEF AskLogin, mailVars, auctionVars
<1>5. StoreTypes /\ Current(F)
  BY <1>2, <1>3 DEF StoreInv, Lines
<1>6. DOMAIN online = Players /\ DOMAIN online' = Players /\ online'[p] = "loading"
      /\ \A x \in Players \ {p} : online'[x] = online[x]
  BY <1>4, <1>5 DEF StoreTypes
<1>7. /\ \A x \in mailsLoaded : online[x] = "in"
      /\ \A x \in Players : fetched[x] # Nothing => online[x] = "loading"
      /\ \A k \in 1..Len(queue) : \A x \in queue[k].load : online[x] = "loading"
  BY <1>2, LinesFacts
<1>8. Moves(online', fetched', mailsLoaded')
  BY <1>1, <1>4, <1>5, <1>6, <1>7 DEF Moves, StoreTypes
<1>9. NewLoads(t, queue, online', fetched')
  <2>1. t.load = {p} /\ fetched'[p] = Nothing /\ \A k \in 1..Len(queue) : p \notin queue[k].load
    BY <1>1, <1>3, <1>4, <1>7 DEF NoWrites
  <2> QED
    BY <1>6, <2>1 DEF NewLoads
<1>10. Moved(F)
  <2>1. PurseMemory(F, online', money', bags')
    BY <1>4, <1>5, <1>6, CurrentFacts DEF PurseMemory
  <2>2. MailMemory(F.mail, mailsLoaded', mails') /\ Held(mails', mMitems')
    BY <1>4, <1>5, CurrentFacts
  <2> QED
    BY <1>4, <1>5, <1>6, <2>1, <2>2 DEF Moved, MovedTypes, StoreTypes
<1>11. PICK G : Applied(F, t, G)
  BY DEF Applied
<1>12. Same(F, G)
  <2>1. /\ t.money = NoRows /\ t.inv = NoRows /\ t.mail = NoRows /\ t.mailSet = NoRows /\ t.unitem = {} /\ t.unmail = {}
        /\ t.auc = NoRows /\ t.aucSet = NoRows /\ t.unauc = {} /\ t.spent = 0
    BY <1>3 DEF NoWrites
  <2>2. IsStore(F) /\ F.spent \in Int
    BY <1>5, CurrentFacts
  <2>3. G.money = F.money /\ G.inv = F.inv
    BY <1>11, <2>1, <2>2, MoneyNone, InvNone
  <2>4. G.mail = F.mail /\ G.auc = F.auc /\ G.spent = F.spent
    BY <1>11, <2>1, <2>2, MailNone, AucNone, SpentSum
  <2> QED
    BY <2>3, <2>4 DEF Same
<1> QED
  BY <1>1, <1>2, <1>3, <1>4, <1>8, <1>9, <1>10, <1>11, <1>12, MovedCommit

\* What the query has read is what the queue leads to.
LEMMA FinishLoginStep ==
  ASSUME StoreInv, NEW p \in Players, FinishLogin(p), UNCHANGED <<mailVars, auctionVars, lost>>
  PROVE  Kept
<1>1. up = "up" /\ fetched[p] # Nothing
  BY DEF FinishLogin
<1>2. PICK T : Record(db, queue, T) /\ Lines(T)
  BY <1>1, CurrentTables
<1>3. PICK F : F = T[Len(queue)]
  OBVIOUS
<1>4. /\ online' = [online EXCEPT ![p] = "in"] /\ fetched' = [fetched EXCEPT ![p] = Nothing]
      /\ money' = [money EXCEPT ![p] = fetched[p].money] /\ bags' = [bags EXCEPT ![p] = fetched[p].bags]
      /\ UNCHANGED <<storeVars, AuctionsMap, mAitems, auctionId, mailId, lost>> /\ UNCHANGED <<mailsLoaded, mails, mMitems>>
  BY DEF FinishLogin, mailVars, auctionVars
<1>5. StoreTypes /\ Current(F)
  BY <1>2, <1>3 DEF StoreInv, Lines
<1>6. /\ DOMAIN online' = Players /\ online'[p] = "in" /\ \A x \in Players \ {p} : online'[x] = online[x]
      /\ DOMAIN fetched' = Players /\ fetched'[p] = Nothing /\ \A x \in Players \ {p} : fetched'[x] = fetched[x]
      /\ DOMAIN money' = Players /\ money'[p] = fetched[p].money /\ \A x \in Players \ {p} : money'[x] = money[x]
      /\ DOMAIN bags' = Players /\ bags'[p] = fetched[p].bags /\ \A x \in Players \ {p} : bags'[x] = bags[x]
  BY <1>4, <1>5 DEF StoreTypes
<1>7. /\ \A x \in mailsLoaded : online[x] = "in"
      /\ \A x \in Players : fetched[x] # Nothing => online[x] = "loading" /\ fetched[x] = Purse(F, x)
  BY <1>2, <1>3, LinesFacts
<1>8. Moves(online', fetched', mailsLoaded')
  BY <1>1, <1>4, <1>5, <1>6, <1>7 DEF Moves, StoreTypes
<1>9. Moved(F)
  <2>0. PICK e : e = fetched[p]
    OBVIOUS
  <2>a. e = Purse(F, p)
    BY <1>1, <1>7, <2>0
  <2>b. e.money = F.money[p] /\ e.bags = {i \in Items : F.inv[i] = p}
    BY <2>a DEF Purse
  <2>1. fetched[p].money = F.money[p] /\ fetched[p].bags = {i \in Items : F.inv[i] = p}
    BY <2>0, <2>b
  <2>2. PurseMemory(F, online', money', bags')
    BY <1>5, <1>6, <2>1, CurrentFacts DEF PurseMemory
  <2>3. MailMemory(F.mail, mailsLoaded', mails') /\ Held(mails', mMitems')
    BY <1>4, <1>5, CurrentFacts
  <2> QED
    BY <1>4, <1>5, <1>6, <2>2, <2>3 DEF Moved, MovedTypes, StoreTypes
<1>10. Moved(T[Len(queue)])
  BY <1>3, <1>9
<1> QED
  BY <1>1, <1>2, <1>4, <1>8, <1>10, MovedStep

\* The gold that is saved is the gold that the tables have already.
LEMMA LogoutStep ==
  ASSUME StoreInv, NEW p \in Players, SaveAndLeave(p), mailsLoaded' = mailsLoaded \ {p},
         mails' = [mails EXCEPT ![p] = NoRows], mMitems' = [mMitems EXCEPT ![p] = {}],
         UNCHANGED <<mailId, auctionVars, lost>>
  PROVE  Kept
<1>1. up = "up" /\ online[p] = "in"
  BY DEF SaveAndLeave, In
<1>2. PICK T : Record(db, queue, T) /\ Lines(T)
  BY <1>1, CurrentTables
<1>3. PICK F, t : F = T[Len(queue)] /\ t = [NoWrites EXCEPT !.money = GoldRow(p, money[p])]
  OBVIOUS
<1>4. /\ Commit(<<t>>) /\ online' = [online EXCEPT ![p] = "out"] /\ UNCHANGED fetched
      /\ money' = [money EXCEPT ![p] = 0] /\ bags' = [bags EXCEPT ![p] = {}]
      /\ UNCHANGED <<AuctionsMap, mAitems, auctionId, mailId, lost>>
  BY <1>3 DEF SaveAndLeave, auctionVars
<1>5. StoreTypes /\ Current(F)
  BY <1>2, <1>3 DEF StoreInv, Lines
<1>6. /\ DOMAIN online' = Players /\ online'[p] = "out" /\ \A x \in Players \ {p} : online'[x] = online[x]
      /\ DOMAIN money' = Players /\ \A x \in Players \ {p} : money'[x] = money[x]
      /\ DOMAIN bags' = Players /\ \A x \in Players \ {p} : bags'[x] = bags[x]
      /\ DOMAIN mails' = Players /\ DOMAIN mails'[p] = {} /\ \A x \in Players \ {p} : mails'[x] = mails[x]
      /\ DOMAIN mMitems' = Players /\ mMitems'[p] = {} /\ \A x \in Players \ {p} : mMitems'[x] = mMitems[x]
  BY <1>4, <1>5 DEF StoreTypes, NoRows
<1>7. /\ \A x \in mailsLoaded : online[x] = "in"
      /\ \A x \in Players : fetched[x] # Nothing => online[x] = "loading"
  BY <1>2, LinesFacts
<1>8. Moves(online', fetched', mailsLoaded')
  BY <1>1, <1>4, <1>5, <1>6, <1>7 DEF Moves, StoreTypes
<1>9. t.load = {}
  BY <1>3 DEF NoWrites
<1>10. NewLoads(t, queue, online', fetched')
  BY <1>9 DEF NewLoads
<1>11. Moved(F)
  <2>1. PurseMemory(F, online', money', bags')
    BY <1>5, <1>6, CurrentFacts DEF PurseMemory
  <2>2. MailMemory(F.mail, mailsLoaded, mails)
    BY <1>5, CurrentFacts
  <2>3. MailMemory(F.mail, mailsLoaded', mails')
    BY <1>6, <2>2 DEF MailMemory
  <2>4. Held(mails', mMitems')
    BY <1>5, <1>6, CurrentFacts DEF Held
  <2> QED
    BY <1>4, <1>5, <1>6, <2>1, <2>3, <2>4 DEF Moved, MovedTypes, StoreTypes
<1>12. PICK G : Applied(F, t, G)
  BY DEF Applied
<1>13. Same(F, G)
  <2>1. /\ t.money = OneRow(p, money[p]) /\ t.inv = NoRows
        /\ t.mail = NoRows /\ t.mailSet = NoRows /\ t.unitem = {} /\ t.unmail = {}
        /\ t.auc = NoRows /\ t.aucSet = NoRows /\ t.unauc = {} /\ t.spent = 0
    BY <1>3 DEF NoWrites, GoldRow
  <2>2. IsStore(F) /\ F.spent \in Int /\ F.money \in [Players -> Nat] /\ F.money[p] = money[p]
    BY <1>1, <1>5, CurrentFacts, InFacts
  <2>3. G.money = [F.money EXCEPT ![p] = money[p]] /\ G.inv = F.inv
    BY <1>12, <2>1, <2>2, MoneyOne, InvNone
  <2>4. G.mail = F.mail /\ G.auc = F.auc /\ G.spent = F.spent
    BY <1>12, <2>1, <2>2, MailNone, AucNone, SpentSum
  <2>5. G.money = F.money
    BY <2>2, <2>3
  <2> QED
    BY <2>3, <2>4, <2>5 DEF Same
<1> QED
  BY <1>1, <1>2, <1>3, <1>4, <1>8, <1>10, <1>11, <1>12, <1>13, MovedCommit

\* The mails are read from the tables as they are now, and are those that the
\* queue leads to.
LEMMA MailListStep ==
  ASSUME StoreInv, NEW p \in Players, HandleGetMailList(p), UNCHANGED <<auctionVars, lost>>
  PROVE  Kept
<1>1. up = "up" /\ online[p] = "in" /\ p \notin mailsLoaded
  BY DEF HandleGetMailList, In
<1>2. PICK T : Record(db, queue, T) /\ Lines(T)
  BY <1>1, CurrentTables
<1>3. PICK F, box : F = T[Len(queue)] /\ box = MailOf(db.mail, p)
  OBVIOUS
<1>4. /\ mails' = [mails EXCEPT ![p] = box] /\ mailsLoaded' = mailsLoaded \cup {p}
      /\ mMitems' = [mMitems EXCEPT ![p] = @ \cup ItemsOf(box)]
      /\ UNCHANGED <<storeVars, AuctionsMap, mAitems, auctionId, mailId, lost>>
      /\ UNCHANGED <<online, fetched, money, bags>>
  BY <1>3 DEF HandleGetMailList, auctionVars, storeVars
<1>5. StoreTypes /\ Current(F)
  BY <1>2, <1>3 DEF StoreInv, Lines
<1>6. /\ DOMAIN mails' = Players /\ mails'[p] = box /\ \A x \in Players \ {p} : mails'[x] = mails[x]
      /\ DOMAIN mMitems' = Players /\ mMitems'[p] = mMitems[p] \cup ItemsOf(box)
      /\ \A x \in Players \ {p} : mMitems'[x] = mMitems[x]
  BY <1>4, <1>5 DEF StoreTypes
<1>7. /\ \A x \in mailsLoaded : online[x] = "in"
      /\ \A x \in Players : fetched[x] # Nothing => online[x] = "loading"
  BY <1>2, LinesFacts
<1>8. Moves(online', fetched', mailsLoaded')
  BY <1>1, <1>4, <1>5, <1>7 DEF Moves, StoreTypes
<1>9. RowsKept(p, db.mail, F.mail)
  <2>1. 0 \in 0..Len(queue) /\ T[0] = db
    BY <1>2, <1>5 DEF StoreTypes, Sequence, Record
  <2>2. MailKept(p, T[0], F)
    BY <1>1, <1>2, <1>3, <2>1 DEF Lines, Chain, Unread
  <2> QED
    BY <2>1, <2>2 DEF MailKept
<1>10. \A m \in DOMAIN box : m \in DOMAIN db.mail /\ box[m] = db.mail[m] /\ db.mail[m].to = p
  BY <1>3 DEF MailOf, Restrict
<1>11. \A m \in DOMAIN box : m \in DOMAIN F.mail /\ F.mail[m] = box[m] /\ F.mail[m].to = p
  BY <1>9, <1>10 DEF RowsKept
<1>12. Moved(F)
  <2>1. PurseMemory(F, online', money', bags')
    BY <1>4, <1>5, CurrentFacts
  <2>2. MailMemory(F.mail, mailsLoaded, mails)
    BY <1>5, CurrentFacts
  <2>3. MailMemory(F.mail, mailsLoaded', mails')
    <3> SUFFICES ASSUME NEW x \in Players, NEW m \in DOMAIN mails'[x]
                 PROVE  x \in mailsLoaded' /\ m \in DOMAIN F.mail /\ F.mail[m] = mails'[x][m] /\ F.mail[m].to = x
      BY DEF MailMemory
    <3>1. CASE x = p
      BY <1>4, <1>6, <1>11, <3>1
    <3>2. CASE x # p
      BY <1>4, <1>6, <2>2, <3>2 DEF MailMemory
    <3> QED
      BY <3>1, <3>2
  <2>4. Held(mails', mMitems')
    <3>1. Held(mails, mMitems)
      BY <1>5, CurrentFacts
    <3>2. Nothing \notin ItemsOf(box) /\ \A m \in DOMAIN box : box[m].item \in ItemsOf(box) \cup {Nothing}
      BY DEF ItemsOf
    <3> QED
      BY <1>6, <3>1, <3>2 DEF Held
  <2> QED
    BY <1>4, <1>5, <1>6, <2>1, <2>3, <2>4 DEF Moved, MovedTypes, StoreTypes
<1>13. Moved(T[Len(queue)])
  BY <1>3, <1>12
<1> QED
  BY <1>1, <1>2, <1>4, <1>8, <1>13, MovedStep

-----------------------------------------------------------------------------
(* Workers, crashes and restarts.                                          *)

\* The only worker executes the first operation: the other tables stay.
LEMMA WorkStep ==
  ASSUME StoreInv, Workers = 1, NEW n \in 1..Len(queue), Execute(n), UNCHANGED <<mailVars, auctionVars, lost>>
  PROVE  Kept
<1>1. /\ n = 1 /\ Len(queue) \in Nat /\ Len(queue) > 0 /\ Sequence(queue) /\ StoreTypes
  BY DEF StoreInv, StoreTypes, Sequence, Execute
<1>2. up = "up"
  BY <1>1 DEF StoreInv, Idle
<1>3. PICK T : Record(db, queue, T) /\ Lines(T)
  BY <1>2, CurrentTables
<1>4. /\ db' = Apply(db, queue[1]) /\ queue' = RemoveAt(queue, 1) /\ UNCHANGED <<up, online, money, bags>>
      /\ UNCHANGED <<mailsLoaded, mails, mMitems, mailId, AuctionsMap, mAitems, auctionId, lost>>
      /\ DOMAIN fetched' = Players
      /\ \A p \in Players : fetched'[p] = IF p \in queue[1].load THEN Purse(db, p) ELSE fetched[p]
  BY <1>1 DEF Execute, Purse, mailVars, auctionVars
<1>5. PICK r, e : r = queue' /\ e = fetched'
  OBVIOUS
<1>6. Executes(queue, r)
  BY <1>1, <1>4, <1>5, ExecutesFirst
<1>7. /\ Chain(T, queue, online, fetched, mailsLoaded) /\ Ids(T, queue, mailId, auctionId)
      /\ Current(T[Len(queue)])
  BY <1>3 DEF Lines
<1>8. ASSUME NEW U, Record(db', queue', U)
      PROVE  Lines(U)'
  <2>1. Record(Apply(db, queue[1]), r, U)
    BY <1>4, <1>5, <1>8
  <2>2. \A p \in Players : e[p] = IF p \in queue[1].load THEN Purse(db, p) ELSE fetched[p]
    BY <1>4, <1>5
  <2>3. Chain(U, r, online, e, mailsLoaded) /\ U[Len(r)] = T[Len(queue)]
    BY <1>3, <1>6, <1>7, <2>1, <2>2, ChainExecutes
  <2>4. Ids(U, r, mailId, auctionId)
    BY <1>3, <1>6, <1>7, <2>1, IdsExecutes
  <2>5. Current(U[Len(r)])
    BY <1>7, <2>3
  <2>6. Current(U[Len(r)])'
    BY <1>4, <2>5 DEF Current
  <2> QED
    BY <1>4, <1>5, <2>3, <2>4, <2>6 DEF Lines
<1>9. StoreTypes'
  BY <1>1, <1>4, <1>5, <1>6 DEF StoreTypes, Executes
<1>10. StoreInv'
  BY <1>2, <1>4, <1>8, <1>9 DEF StoreInv
<1>11. ASSUME ItemsInv
       PROVE  ItemsInv'
  <2>1. ItemsLine(T, queue, lost)
    BY <1>2, <1>3, <1>11 DEF ItemsInv
  <2>2. ASSUME NEW U, Record(db', queue', U)
        PROVE  ItemsLine(U, r, lost)
    <3>1. Record(Apply(db, queue[1]), r, U)
      BY <1>4, <1>5, <2>2
    <3> QED
      BY <1>3, <1>6, <2>1, <3>1, ItemsExecutes
  <2> QED
    BY <1>2, <1>4, <1>5, <2>2 DEF ItemsInv
<1>12. ASSUME GoldInv
       PROVE  GoldInv'
  <2>1. GoldLine(T, queue)
    BY <1>2, <1>3, <1>12 DEF GoldInv
  <2>2. ASSUME NEW U, Record(db', queue', U)
        PROVE  GoldLine(U, r)
    <3>1. Record(Apply(db, queue[1]), r, U)
      BY <1>4, <1>5, <2>2
    <3> QED
      BY <1>3, <1>6, <2>1, <3>1, GoldExecutes
  <2> QED
    BY <1>2, <1>4, <1>5, <2>2 DEF GoldInv
<1> QED
  BY <1>10, <1>11, <1>12 DEF Kept

\* The tables as they are, while the world is open.
LEMMA Here ==
  ASSUME NEW T, StoreTypes, Record(db, queue, T)
  PROVE  0 \in 0..Len(queue) /\ T[0] = db
  BY DEF StoreTypes, Sequence, Record

\* A stack that is between its two transactions.
LEMMA HalfHere ==
  ASSUME NEW i, HalfAt(Tables(db, queue), queue, 0, i), StoreTypes
  PROVE  HalfSold(i)
<1>1. PICK T : T = Tables(db, queue)
  OBVIOUS
<1>2. Len(queue) \in Nat
  BY DEF StoreTypes, Sequence
<1>3. Record(db, queue, T)
  BY <1>1, <1>2, TablesRecord
<1>4. T[0] = db
  BY <1>3, Here
<1>5. /\ 0 < Len(queue) /\ Absent(db, i) /\ \E id \in DOMAIN queue[1].auc : queue[1].auc[id].item = i
  <2>1. HalfAt(T, queue, 0, i) /\ 0 + 1 = 1
    BY <1>1
  <2> QED
    BY <1>4, <2>1 DEF HalfAt
<1>6. queue # <<>>
  BY <1>5
<1> QED
  BY <1>5, <1>6, PlacesNone DEF HalfSold

LEMMA FineHere == ASSUME StoreInv PROVE Fine(db)
<1>1. CASE up = "up"
  <2>1. PICK T : Record(db, queue, T) /\ Lines(T)
    BY <1>1, CurrentTables
  <2>2. 0 \in 0..Len(queue) /\ T[0] = db
    BY <2>1, Here DEF StoreInv
  <2>3. Fine(T[0])
    BY <2>1, <2>2 DEF Lines, Chain
  <2> QED
    BY <2>2, <2>3
<1> QED
  BY <1>1 DEF StoreInv, Idle

\* The queue is thrown away: the tables are the first of those considered.
LEMMA CrashedStep ==
  ASSUME StoreInv, CrashAuctions, lost' = lost \cup {i \in Items : HalfSold(i)}
  PROVE  Kept
<1>1. PICK T : T = Tables(db, queue)
  OBVIOUS
<1>2. Record(db, queue, T) /\ StoreTypes
  <2>1. StoreTypes /\ Len(queue) \in Nat
    BY DEF StoreInv, StoreTypes, Sequence
  <2> QED
    BY <1>1, <2>1, TablesRecord
<1>3. 0 \in 0..Len(queue) /\ T[0] = db
  BY <1>2, Here
<1>4. Fine(db)
  BY FineHere
<1>5. /\ db' = db /\ queue' = <<>> /\ up' = "down" /\ online' = [p \in Players |-> "out"]
      /\ fetched' = [p \in Players |-> Nothing] /\ money' = [p \in Players |-> 0] /\ bags' = [p \in Players |-> {}]
      /\ mailsLoaded' = {} /\ mails' = [p \in Players |-> NoRows] /\ mMitems' = [p \in Players |-> {}]
      /\ mailId' = 1 /\ auctionId' = 1
  BY DEF CrashAuctions, StopServer
<1>6. Sequence(queue') /\ Len(queue') = 0
  BY <1>5 DEF Sequence
<1>7. StoreTypes'
  BY <1>5, <1>6 DEF StoreTypes
<1>8. Idle'
  <2>1. Fine(db')
    BY <1>4, <1>5
  <2>2. Fine(db)'
    BY <2>1 DEF Fine, IsStore, Absent, Placed, Bagged, Mailed, Offered
  <2>3. \A p \in Players : online'[p] = "out" /\ fetched'[p] = Nothing /\ DOMAIN mails'[p] = {} /\ mMitems'[p] = {}
    BY <1>5 DEF NoRows
  <2> QED
    BY <1>5, <1>6, <2>2, <2>3 DEF Idle
<1>9. StoreInv'
  BY <1>5, <1>7, <1>8 DEF StoreInv
<1>10. ASSUME ItemsInv
       PROVE  ItemsInv'
  <2>1. ASSUME NEW i \in Items \ lost'
        PROVE  Safe(db, i)
    <3>1. i \in Items /\ i \notin lost /\ ~HalfSold(i)
      BY <2>1
    <3>2. CASE up = "up"
      <4>1. ItemsLine(T, queue, lost)
        BY <1>2, <1>10, <3>2 DEF ItemsInv
      <4>2. Safe(T[0], i) \/ HalfAt(T, queue, 0, i)
        BY <1>3, <3>1, <4>1 DEF ItemsLine
      <4>3. ~HalfAt(T, queue, 0, i)
        BY <1>1, <1>2, <3>1, HalfHere
      <4> QED
        BY <1>3, <4>2, <4>3
    <3>3. CASE up # "up"
      BY <1>10, <3>1, <3>3 DEF ItemsInv
    <3> QED
      BY <3>2, <3>3
  <2>2. \A i \in Items \ lost' : Safe(db', i)
    BY <1>5, <2>1
  <2> QED
    BY <1>5, <2>2 DEF ItemsInv
<1>11. ASSUME GoldInv
       PROVE  GoldInv'
  <2>1. GoldIn(db) = SumFunction(StartMoney)
    <3>1. CASE up = "up"
      <4>1. GoldLine(T, queue)
        BY <1>2, <1>11, <3>1 DEF GoldInv
      <4> QED
        BY <1>3, <4>1 DEF GoldLine
    <3> QED
      BY <1>11, <3>1 DEF GoldInv
  <2>2. GoldIn(db') = SumFunction(StartMoney)
    BY <1>5, <2>1
  <2> QED
    BY <1>5, <2>2 DEF GoldInv
<1> QED
  BY <1>9, <1>10, <1>11 DEF Kept

\* A finite set of natural numbers has a greatest element.
LEMMA GreatestExists ==
  ASSUME NEW S \in SUBSET Nat, IsFiniteSet(S), S # {}
  PROVE  \E x \in S : \A y \in S : x >= y
<1> DEFINE N == {n \in Nat : \A s \in SUBSET S : Cardinality(s) = n + 1 => \E x \in s : \A y \in s : x >= y}
<1>1. \A s \in SUBSET S : /\ Cardinality(s) \in Nat /\ (Cardinality(s) = 0 <=> s = {})
                          /\ \A x \in s : Cardinality(s \ {x}) = Cardinality(s) - 1 /\ s \ {x} \in SUBSET S
  BY SubsetSize
<1>2. 0 \in N
  <2> SUFFICES ASSUME NEW s \in SUBSET S, Cardinality(s) = 1
               PROVE  \E x \in s : \A y \in s : x >= y
    OBVIOUS
  <2>1. PICK x \in s : TRUE
    BY <1>1
  <2>a. PICK R : R = s \ {x}
    OBVIOUS
  <2>b. Cardinality(R) = 0 /\ R \in SUBSET S
    BY <1>1, <2>1, <2>a
  <2>2. R = {}
    BY <1>1, <2>b
  <2>c. x \in Nat /\ \A y \in s : y = x
    BY <2>1, <2>2, <2>a
  <2>3. \A y \in s : x >= y
    BY <2>c
  <2> QED
    BY <2>1, <2>3
<1>3. ASSUME NEW n \in N
      PROVE  n + 1 \in N
  <2> SUFFICES ASSUME NEW s \in SUBSET S, Cardinality(s) = (n + 1) + 1
               PROVE  \E x \in s : \A y \in s : x >= y
    OBVIOUS
  <2>1. n \in Nat
    OBVIOUS
  <2>2. PICK a \in s : TRUE
    BY <1>1, <2>1
  <2>3. PICK R : R = s \ {a}
    OBVIOUS
  <2>4. Cardinality(R) = n + 1 /\ R \in SUBSET S
    BY <1>1, <2>1, <2>2, <2>3
  <2>5. PICK x \in R : \A y \in R : x >= y
    BY <2>4
  <2>6. a \in Nat /\ x \in Nat /\ \A y \in s : y \in Nat
    BY <2>2, <2>3, <2>5
  <2>7. CASE a >= x
    <3>1. \A y \in s : a >= y
      BY <2>3, <2>5, <2>6, <2>7
    <3> QED
      BY <2>2, <3>1
  <2>8. CASE ~(a >= x)
    <3>1. \A y \in s : x >= y
      BY <2>3, <2>5, <2>6, <2>8
    <3> QED
      BY <2>3, <2>5, <3>1
  <2> QED
    BY <2>7, <2>8
<1>4. N \in SUBSET Nat
  OBVIOUS
<1>5. S \in SUBSET S /\ Cardinality(S) - 1 \in Nat
  <2>1. S \in SUBSET S
    OBVIOUS
  <2>2. Cardinality(S) \in Nat /\ Cardinality(S) # 0
    BY <1>1, <2>1
  <2> QED
    BY <2>1, <2>2
<1>6. N = Nat
  <2> HIDE DEF N
  <2> QED
    BY <1>2, <1>3, <1>4, Induction
<1>7. Cardinality(S) - 1 \in N /\ Cardinality(S) = (Cardinality(S) - 1) + 1
  <2>1. Cardinality(S) \in Nat
    BY <1>1, <1>5
  <2> HIDE DEF N
  <2> QED
    BY <1>5, <1>6, <2>1
<1> QED
  BY <1>5, <1>7

\* SetHighestGuids: the next id is above those of the table.
LEMMA HighestFacts ==
  ASSUME NEW f, IsTable(f)
  PROVE  HighestId(f) \in Nat /\ \A k \in DOMAIN f : k < HighestId(f) + 1
<1>1. DOMAIN f \in SUBSET Nat /\ IsFiniteSet(DOMAIN f)
  BY DEF IsTable
<1>2. CASE DOMAIN f = {}
  BY <1>2 DEF HighestId
<1>3. CASE DOMAIN f # {}
  <2>1. \E x \in DOMAIN f : \A y \in DOMAIN f : x >= y
    BY <1>1, <1>3, GreatestExists
  <2>2. PICK x : x = Max(DOMAIN f)
    OBVIOUS
  <2>3. x \in DOMAIN f /\ \A y \in DOMAIN f : x >= y
    BY <2>1, <2>2 DEF Max
  <2>4. HighestId(f) = x
    BY <1>3, <2>2 DEF HighestId
  <2> QED
    BY <1>1, <2>3, <2>4
<1> QED
  BY <1>2, <1>3

\* The ids are read while the tables are at rest.
LEMMA StartServerStep ==
  ASSUME StoreInv, StartServer, UNCHANGED lost
  PROVE  Kept
<1>1. /\ up = "down" /\ up' = "starting" /\ auctionId' = HighestId(db.auc) + 1 /\ mailId' = HighestId(db.mail) + 1
      /\ UNCHANGED <<db, queue, online, fetched, money, bags, mailsLoaded, mails, mMitems, lost>>
  BY DEF StartServer, playerVars
<1>2. StoreTypes /\ Idle
  BY <1>1 DEF StoreInv
<1>3. IsTable(db.mail) /\ IsTable(db.auc)
  BY <1>2 DEF Idle, Fine, IsStore, IsMails, IsAuctions
<1>4. /\ HighestId(db.mail) \in Nat /\ HighestId(db.auc) \in Nat
      /\ Below(db, HighestId(db.mail) + 1, HighestId(db.auc) + 1)
  BY <1>3, HighestFacts DEF Below
<1>5. mailId' \in Nat \ {0} /\ auctionId' \in Nat \ {0}
  BY <1>1, <1>4
<1>6. StoreTypes'
  BY <1>1, <1>2, <1>5 DEF StoreTypes
<1>7. Idle'
  BY <1>1, <1>2 DEF Idle
<1>8. Below(db, mailId, auctionId)'
  BY <1>1, <1>4
<1>9. StoreInv'
  BY <1>1, <1>6, <1>7, <1>8 DEF StoreInv
<1>10. (ItemsInv => ItemsInv') /\ (GoldInv => GoldInv')
  BY <1>1 DEF ItemsInv, GoldInv
<1> QED
  BY <1>9, <1>10 DEF Kept

\* With nothing queued and nobody there, memory is what is read.
LEMMA Opens ==
  ASSUME StoreTypes, Idle, Below(db, mailId, auctionId), HouseMemory(db.auc, AuctionsMap, mAitems),
         NEW T, Record(db, queue, T)
  PROVE  Lines(T)
<1>1. Len(queue) = 0 /\ T[0] = db
  BY DEF Idle, Record
<1>2. \A n \in 0..Len(queue) : n = 0
  BY <1>1
<1>3. \A n \in 0..Len(queue) : T[n] = db
  BY <1>1, <1>2
<1>4. \A k \in 1..Len(queue) : FALSE
  BY <1>1
<1>5. /\ mailsLoaded = {} /\ Fine(db)
      /\ \A p \in Players : online[p] = "out" /\ fetched[p] = Nothing /\ DOMAIN mails[p] = {} /\ mMitems[p] = {}
  BY DEF Idle
<1>6. Loads(T, queue, online, fetched)
  BY <1>4 DEF Loads
<1>7. Reads(T, queue, online, fetched) /\ Unread(T, queue, online, mailsLoaded)
  BY <1>5 DEF Reads, Unread
<1>8. Chain(T, queue, online, fetched, mailsLoaded)
  BY <1>3, <1>5, <1>6, <1>7 DEF Chain
<1>9. Ids(T, queue, mailId, auctionId)
  BY <1>3 DEF Ids
<1>10. Current(db)
  BY <1>5 DEF Current, PurseMemory, MailMemory, Held
<1>11. Current(T[Len(queue)])
  BY <1>1, <1>10
<1> QED
  BY <1>8, <1>9, <1>11 DEF Lines

LEMMA ItemsOpens ==
  ASSUME Len(queue) = 0, \A i \in Items \ lost : Safe(db, i), NEW T, Record(db, queue, T)
  PROVE  ItemsLine(T, queue, lost)
<1>1. T[0] = db /\ \A n \in 0..Len(queue) : n = 0
  BY DEF Record
<1> QED
  BY <1>1 DEF ItemsLine

LEMMA GoldOpens ==
  ASSUME Len(queue) = 0, GoldIn(db) = SumFunction(StartMoney), NEW T, Record(db, queue, T)
  PROVE  GoldLine(T, queue)
<1>1. T[0] = db /\ \A n \in 0..Len(queue) : n = 0
  BY DEF Record
<1> QED
  BY <1>1 DEF GoldLine

\* The auctions are read, and nobody is there yet.
LEMMA LoadAuctionsStep ==
  ASSUME StoreInv, LoadAuctions, UNCHANGED lost
  PROVE  Kept
<1>1. /\ up = "starting" /\ up' = "up" /\ AuctionsMap' = db.auc /\ mAitems' = {db.auc[id].item : id \in DOMAIN db.auc}
      /\ UNCHANGED <<db, queue, online, fetched, money, bags, mailsLoaded, mails, mMitems, mailId, auctionId, lost>>
  BY DEF LoadAuctions, playerVars, mailVars
<1>2. StoreTypes /\ Idle /\ Below(db, mailId, auctionId)
  BY <1>1 DEF StoreInv
<1>3. StoreTypes'
  BY <1>1, <1>2 DEF StoreTypes
<1>4. Idle'
  BY <1>1, <1>2 DEF Idle
<1>5. Below(db, mailId, auctionId)' /\ HouseMemory(db.auc, AuctionsMap, mAitems)'
  BY <1>1, <1>2 DEF HouseMemory
<1>6. ASSUME NEW T, Record(db', queue', T)
      PROVE  Lines(T)'
  <2>1. Record(db, queue, T) /\ Chain(T, queue, online, fetched, mailsLoaded)
        /\ Ids(T, queue, mailId, auctionId) /\ T[Len(queue)] = db
    <3>1. Len(queue) = 0 /\ T[0] = db /\ Record(db, queue, T)
      BY <1>1, <1>2, <1>6 DEF Idle, Record
    <3>2. \A n \in 0..Len(queue) : n = 0
      BY <3>1
    <3>3. \A n \in 0..Len(queue) : T[n] = db
      BY <3>1, <3>2
    <3>4. Loads(T, queue, online, fetched)
      BY <3>1 DEF Loads
    <3>5. Reads(T, queue, online, fetched) /\ Unread(T, queue, online, mailsLoaded)
      BY <1>2 DEF Idle, Reads, Unread
    <3>6. Chain(T, queue, online, fetched, mailsLoaded)
      BY <1>2, <3>3, <3>4, <3>5 DEF Chain, Idle
    <3>7. Ids(T, queue, mailId, auctionId)
      BY <1>2, <3>3 DEF Ids
    <3> QED
      BY <3>1, <3>6, <3>7
  <2>2. Current(db)'
    <3>1. /\ Fine(db) /\ PurseMemory(db, online, money, bags) /\ MailMemory(db.mail, mailsLoaded, mails)
          /\ Held(mails, mMitems)
      BY <1>2 DEF Idle, PurseMemory, MailMemory, Held
    <3> QED
      BY <1>1, <1>5, <3>1 DEF Current
  <2> QED
    BY <1>1, <2>1, <2>2 DEF Lines
<1>7. StoreInv'
  BY <1>1, <1>3, <1>6 DEF StoreInv
<1>8. ASSUME ItemsInv
      PROVE  ItemsInv'
  <2>1. Len(queue) = 0 /\ \A i \in Items \ lost : Safe(db, i)
    BY <1>1, <1>2, <1>8 DEF ItemsInv, Idle
  <2>2. \A T : Record(db, queue, T) => ItemsLine(T, queue, lost)
    BY <2>1, ItemsOpens
  <2> QED
    BY <1>1, <2>2 DEF ItemsInv
<1>9. ASSUME GoldInv
      PROVE  GoldInv'
  <2>1. Len(queue) = 0 /\ GoldIn(db) = SumFunction(StartMoney)
    BY <1>1, <1>2, <1>9 DEF GoldInv, Idle
  <2>2. \A T : Record(db, queue, T) => GoldLine(T, queue)
    BY <2>1, GoldOpens
  <2> QED
    BY <1>1, <2>2 DEF GoldInv
<1> QED
  BY <1>7, <1>8, <1>9 DEF Kept

\* The first state.
LEMMA StoreBegins ==
  ASSUME Init
  PROVE  StoreInv /\ ItemsInv /\ (IsFiniteSet(Players) => GoldInv)
<1>1. /\ db = EmptyStore /\ queue = <<>> /\ up = "up" /\ online = [p \in Players |-> "out"]
      /\ fetched = [p \in Players |-> Nothing] /\ money = [p \in Players |-> 0] /\ bags = [p \in Players |-> {}]
      /\ mailsLoaded = {} /\ mails = [p \in Players |-> NoRows] /\ mMitems = [p \in Players |-> {}] /\ mailId = 1
      /\ AuctionsMap = NoRows /\ mAitems = {} /\ auctionId = 1 /\ lost = {}
  BY DEF Init, StoreInit, MailInit, AuctionInit
<1>2. Len(queue) = 0 /\ Sequence(queue)
  BY <1>1 DEF Sequence
<1>3. StoreTypes
  BY <1>1, <1>2 DEF StoreTypes
<1>4. /\ db.money = StartMoney /\ db.inv = StartOwner /\ db.mail = NoRows /\ db.auc = NoRows /\ db.spent = 0
  BY <1>1 DEF EmptyStore
<1>5. DOMAIN NoRows = {} /\ IsTable(NoRows)
  BY FS_EmptySet DEF NoRows, IsTable, IsMap
<1>6. \A i \in Items : Bagged(db, i)
  BY <1>4, <1>5, StoreAssumption DEF Bagged, With
<1>7. Fine(db)
  BY <1>4, <1>5, <1>6, StoreAssumption DEF Fine, IsStore, IsMails, IsAuctions, Placed
<1>8. Idle
  BY <1>1, <1>2, <1>5, <1>7 DEF Idle
<1>9. Below(db, mailId, auctionId)
  BY <1>4, <1>5 DEF Below
<1>10. HouseMemory(db.auc, AuctionsMap, mAitems)
  BY <1>1, <1>4, <1>5 DEF HouseMemory
<1>11. \A T : Record(db, queue, T) => Lines(T)
  BY <1>3, <1>8, <1>9, <1>10, Opens
<1>12. StoreInv
  BY <1>1, <1>3, <1>11 DEF StoreInv
<1>13. ItemsInv
  <2>1. \A i \in Items \ lost : Safe(db, i)
    BY <1>6 DEF Placed, Safe
  <2> QED
    BY <1>1, <1>2, <2>1, ItemsOpens DEF ItemsInv
<1>14. ASSUME IsFiniteSet(Players)
       PROVE  GoldInv
  <2>1. Posted(db.mail) = 0
    BY <1>4, <1>5, PostedEmpty
  <2>2. DOMAIN Pledged(db.auc) = {}
    BY <1>4, <1>5 DEF Pledged
  <2>3. Staked(db.auc) = 0
    BY <2>2, SumEmpty DEF Staked
  <2>4. Amounted(StartMoney)
    BY <1>14, StoreAssumption DEF Amounted
  <2>5. SumFunction(StartMoney) \in Nat
    BY <2>4, SumNat
  <2>6. GoldIn(db) = SumFunction(db.money) + Posted(db.mail) + Staked(db.auc) + db.spent
    BY GoldParts
  <2>7. GoldIn(db) = SumFunction(StartMoney)
    BY <1>4, <2>1, <2>3, <2>5, <2>6
  <2> QED
    BY <1>1, <1>2, <2>7, GoldOpens DEF GoldInv
<1> QED
  BY <1>12, <1>13, <1>14

-----------------------------------------------------------------------------
(* Trades.                                                                 *)

USE StoreAssumption, BoundAssumption

TradeTypes ==
  /\ bound \in Bounds
  /\ DOMAIN online = Players /\ DOMAIN terms = Players
  /\ m_trade \in [Players -> [trader : Players \cup {Nobody}, money : Nat,
                              item : Items \cup {Nothing}, accepted : BOOLEAN]]

\* A trade is between two players of the world, each the trader of the other,
\* and nobody is left with half of one.
PairInv ==
  \A p \in Players : Trading(p) =>
    /\ online[p] = "in"
    /\ Trader(p) \in Players \ {p} /\ Trading(Trader(p)) /\ Trader(Trader(p)) = p

AgreedInv == \A p \in Players : m_trade[p].accepted => terms[p] = TermsOf(p)

TradeInv == TradeTypes /\ PairInv /\ AgreedInv

-----------------------------------------------------------------------------

LEMMA TradeInitInv == ASSUME Init PROVE TradeInv
<1>1. /\ m_trade = [p \in Players |-> NoTrade] /\ terms = [p \in Players |-> NoTerms]
      /\ online = [p \in Players |-> "out"]
  BY DEF Init, TradeInit, StoreInit
<1>2. TradeTypes
  BY <1>1 DEF Init, TradeTypes, NoTrade, TradeData
<1>3. PairInv
  BY <1>1 DEF PairInv, Trading
<1>4. AgreedInv
  BY <1>1 DEF AgreedInv, NoTrade, TradeData
<1> QED
  BY <1>2, <1>3, <1>4 DEF TradeInv

\* Steps that leave the trades alone and take nobody out of the world.
LEMMA TradeKept ==
  ASSUME TradeInv, UNCHANGED tradeVars, UNCHANGED bound, DOMAIN online' = Players,
         \A p \in Players : online[p] = "in" => online'[p] = "in"
  PROVE  TradeInv'
<1>1. UNCHANGED <<m_trade, terms>>
  BY DEF tradeVars
<1>2. TradeTypes'
  BY <1>1 DEF TradeInv, TradeTypes
<1>3. PairInv'
  BY <1>1 DEF TradeInv, PairInv, Trading, Trader
<1>4. AgreedInv'
  BY <1>1 DEF TradeInv, AgreedInv, TermsOf, Trader
<1> QED
  BY <1>2, <1>3, <1>4 DEF TradeInv

\* The world, the mail box, the auction house and the workers.
LEMMA OthersStep ==
  ASSUME TradeInv,
         Login \/ Mailing \/ Auctioning \/ Settle \/ Work \/ Start \/ Cleanup \/ UNCHANGED vars
  PROVE  TradeInv'
<1>0. DOMAIN online = Players
  BY DEF TradeInv, TradeTypes
<1>1. CASE Login
  <2>1. ASSUME NEW p \in bound.players, AskLogin(p) \/ FinishLogin(p)
        PROVE  DOMAIN online' = Players /\ \A q \in Players : online[q] = "in" => online'[q] = "in"
    BY <1>0, <2>1 DEF AskLogin, FinishLogin
  <2> QED
    BY <1>1, <2>1, TradeKept DEF Login
<1>2. CASE Mailing
  <2>a. \A p, q, gold, cod, i : HandleSendMail(p, q, gold, cod, i) => UNCHANGED online
    BY Zenon DEF HandleSendMail
  <2>b. \A p : HandleGetMailList(p) => UNCHANGED online
    BY DEF HandleGetMailList
  <2>c. \A p, m, asked : HandleMailTakeMoney(p, m, asked) => UNCHANGED online
    BY Zenon DEF HandleMailTakeMoney
  <2>d. \A p, m, i : HandleMailTakeItem(p, m, i) => UNCHANGED online
    BY Zenon DEF HandleMailTakeItem
  <2>e. \A p, m : HandleMailReturnToSender(p, m) => UNCHANGED online
    BY Zenon DEF HandleMailReturnToSender, playerVars
  <2>1. UNCHANGED online
    BY <1>2, <2>a, <2>b, <2>c, <2>d, <2>e, Zenon DEF Mailing
  <2> QED
    BY <1>0, <1>2, <2>1, TradeKept DEF Mailing
<1>3. CASE Auctioning
  <2>a. \A p, i, b, buyout, cloned :
          HandleAuctionSellItem(p, i, b, buyout, cloned) => UNCHANGED online
    BY DEF HandleAuctionSellItem
  <2>b. \A p, id, price : HandleAuctionPlaceBid(p, id, price) => UNCHANGED online
    <3>1. \A p, id, price : PlaceBid(p, id, price) => UNCHANGED online
      BY DEF PlaceBid
    <3>2. \A p, id, price : Buyout(p, id, price) => UNCHANGED online
      BY DEF Buyout
    <3> QED
      BY <3>1, <3>2 DEF HandleAuctionPlaceBid
  <2>c. \A p, id : HandleAuctionRemoveItem(p, id) \/ ComeDue(id) => UNCHANGED online
    BY Zenon DEF HandleAuctionRemoveItem, ComeDue, playerVars
  <2>1. UNCHANGED online
    BY <1>3, <2>a, <2>b, <2>c, Zenon DEF Auctioning
  <2> QED
    BY <1>0, <1>3, <2>1, TradeKept DEF Auctioning
<1>4. CASE Settle \/ Work \/ Start \/ Cleanup \/ UNCHANGED vars
  <2>1. UNCHANGED online /\ UNCHANGED tradeVars /\ UNCHANGED bound
    BY <1>4 DEF Settle, AuctionUpdate, Work, Execute, Start, StartServer, LoadAuctions,
                Cleanup, DeleteExpired, playerVars, vars
  <2> QED
    BY <1>0, <2>1, TradeKept
<1> QED
  BY <1>1, <1>2, <1>3, <1>4

\* The trade of p, if he has one, is over for both.
LEMMA TradeOver ==
  ASSUME TradeInv, NEW p \in Players, TradeCancel(p), UNCHANGED bound,
         DOMAIN online' = Players, \A q \in Players \ {p} : online'[q] = online[q]
  PROVE  TradeInv'
<1>a. PICK over : over = IF Trading(p) THEN {p, Trader(p)} ELSE {}
  OBVIOUS
<1>b. /\ m_trade' = [x \in Players |-> IF x \in over THEN NoTrade ELSE m_trade[x]]
      /\ terms' = [x \in Players |-> IF x \in over THEN NoTerms ELSE terms[x]]
  BY <1>a DEF TradeCancel
<1>1. /\ \A x \in over : m_trade'[x] = NoTrade
      /\ \A x \in Players \ over : m_trade'[x] = m_trade[x] /\ terms'[x] = terms[x]
  BY <1>a, <1>b DEF TradeInv, PairInv
<1>2. TradeTypes'
  BY <1>b DEF TradeInv, TradeTypes, NoTrade, TradeData
<1>3. ASSUME NEW x \in Players, Trading(x)'
      PROVE  /\ x \notin over /\ Trading(x) /\ Trader(x)' = Trader(x) /\ x # p
             /\ Trader(x) \in Players \ over
  <2>1. x \notin over /\ Trading(x) /\ Trader(x)' = Trader(x)
    BY <1>1, <1>3, <1>b DEF Trading, Trader
  <2>2. x # p
    BY <1>a, <2>1
  <2>3. Trader(x) \in Players /\ Trader(Trader(x)) = x
    BY <2>1 DEF TradeInv, PairInv
  <2>4. Trader(x) \notin over
    BY <1>a, <2>1, <2>2, <2>3 DEF TradeInv, PairInv
  <2> QED
    BY <2>1, <2>2, <2>3, <2>4
<1>4. PairInv'
  BY <1>1, <1>3 DEF TradeInv, PairInv, Trading, Trader
<1>5. AgreedInv'
  <2> SUFFICES ASSUME NEW x \in Players, m_trade'[x].accepted PROVE terms'[x] = TermsOf(x)'
    BY DEF AgreedInv
  <2>1. x \notin over /\ m_trade'[x] = m_trade[x] /\ terms'[x] = terms[x]
    BY <1>1, <1>b DEF NoTrade, TradeData
  <2>2. Trading(x) /\ Trading(x)'
    BY <2>1 DEF Trading, NoTrade, TradeData
  <2>3. Trader(x) \in Players \ over /\ Trader(x)' = Trader(x)
    BY <1>3, <2>2
  <2> QED
    BY <1>1, <2>1, <2>3 DEF TradeInv, AgreedInv, TermsOf, Trader
<1> QED
  BY <1>2, <1>4, <1>5 DEF TradeInv

LEMMA LeaveStep ==
  ASSUME TradeInv, Logout
  PROVE  TradeInv'
<1>1. PICK p \in bound.leavers : SaveAndLeave(p) /\ TradeCancel(p)
  BY DEF Logout
<1>2. DOMAIN online = Players /\ online' = [online EXCEPT ![p] = "out"] /\ online[p] = "in"
  BY <1>1 DEF SaveAndLeave, In, TradeInv, TradeTypes
<1>3. p \in Players
  BY DEF TradeInv, TradeTypes
<1>4. DOMAIN online' = Players /\ \A q \in Players \ {p} : online'[q] = online[q]
  BY <1>2
<1>5. UNCHANGED bound
  BY DEF Logout
<1> QED
  BY <1>1, <1>3, <1>4, <1>5, TradeOver

LEMMA CrashStep ==
  ASSUME TradeInv, Crash
  PROVE  TradeInv'
<1>1. /\ m_trade' = [p \in Players |-> NoTrade] /\ terms' = [p \in Players |-> NoTerms]
      /\ online' = [p \in Players |-> "out"] /\ UNCHANGED bound
  BY DEF Crash, CrashAuctions, StopServer
<1>2. TradeTypes'
  BY <1>1 DEF TradeInv, TradeTypes, NoTrade, TradeData
<1>3. PairInv'
  BY <1>1 DEF PairInv, Trading
<1>4. AgreedInv'
  BY <1>1 DEF AgreedInv, NoTrade, TradeData
<1> QED
  BY <1>2, <1>3, <1>4 DEF TradeInv

-----------------------------------------------------------------------------
(* The handlers of the trade window.                                       *)

LEMMA InitiateStep ==
  ASSUME TradeInv, NEW p \in Players, NEW q \in Players, HandleInitiateTrade(p, q),
         UNCHANGED bound
  PROVE  TradeInv'
<1>1. /\ online[p] = "in" /\ online[q] = "in" /\ p # q /\ ~Trading(p) /\ ~Trading(q)
      /\ m_trade' = [m_trade EXCEPT ![p] = TradeData(q), ![q] = TradeData(p)]
      /\ UNCHANGED <<terms, online>>
  BY DEF HandleInitiateTrade, In, playerVars
<1>2. /\ m_trade'[p] = TradeData(q) /\ m_trade'[q] = TradeData(p)
      /\ \A x \in Players \ {p, q} : m_trade'[x] = m_trade[x]
  BY <1>1 DEF TradeInv, TradeTypes
<1>3. \A x \in Players : Trading(x) => x \notin {p, q} /\ Trader(x) \in Players \ {p, q}
  BY <1>1 DEF TradeInv, PairInv
<1>4. TradeTypes'
  BY <1>1 DEF TradeInv, TradeTypes, TradeData
<1>5. PairInv'
  <2> SUFFICES ASSUME NEW x \in Players, Trading(x)'
               PROVE  /\ online[x] = "in" /\ Trader(x)' \in Players \ {x}
                      /\ m_trade'[Trader(x)'] # NoTrade /\ m_trade'[Trader(x)'].trader = x
    BY <1>1 DEF PairInv, Trading, Trader
  <2>0. /\ TradeData(p) # NoTrade /\ TradeData(q) # NoTrade
        /\ TradeData(p).trader = p /\ TradeData(q).trader = q
    BY DEF NoTrade, TradeData
  <2>1. CASE x \in {p, q}
    <3>1. CASE x = p
      BY <1>1, <1>2, <2>0, <3>1 DEF Trader
    <3>2. CASE x = q
      BY <1>1, <1>2, <2>0, <3>2 DEF Trader
    <3> QED
      BY <2>1, <3>1, <3>2
  <2>2. CASE x \notin {p, q}
    <3>1. Trading(x) /\ Trader(x)' = Trader(x)
      BY <1>2, <2>2 DEF Trading, Trader
    <3> QED
      BY <1>2, <1>3, <3>1 DEF TradeInv, PairInv, Trading, Trader
  <2> QED
    BY <2>1, <2>2
<1>6. AgreedInv'
  <2> SUFFICES ASSUME NEW x \in Players, m_trade'[x].accepted PROVE terms'[x] = TermsOf(x)'
    BY DEF AgreedInv
  <2>1. x \notin {p, q} /\ m_trade'[x] = m_trade[x] /\ Trading(x)
    BY <1>2 DEF Trading, NoTrade, TradeData
  <2>2. Trader(x)' = Trader(x) /\ m_trade'[Trader(x)] = m_trade[Trader(x)]
    BY <1>2, <1>3, <2>1 DEF Trader
  <2> QED
    BY <1>1, <2>1, <2>2 DEF TradeInv, AgreedInv, TermsOf, Trader
<1> QED
  BY <1>4, <1>5, <1>6 DEF TradeInv

\* Steps in which offers and acceptances of traders change and nothing else:
\* who is left accepting has the terms on record.
LEMMA OffersStep ==
  ASSUME TradeInv, UNCHANGED <<bound, online>>, DOMAIN terms' = Players,
         m_trade' \in [Players -> [trader : Players \cup {Nobody}, money : Nat,
                                  item : Items \cup {Nothing}, accepted : BOOLEAN]],
         \A x \in Players : Trader(x)' = Trader(x) /\ (Trading(x)' <=> Trading(x)),
         \A x \in Players : Trading(x) /\ m_trade'[x].accepted => terms'[x] = TermsOf(x)'
  PROVE  TradeInv'
<1>1. TradeTypes'
  BY DEF TradeInv, TradeTypes
<1>2. PairInv'
  <2>1. ASSUME NEW x \in Players, Trading(x)
        PROVE  /\ Trader(x) \in Players \ {x} /\ m_trade'[Trader(x)] # NoTrade
               /\ m_trade'[Trader(x)].trader = x /\ online[x] = "in"
    BY <2>1 DEF TradeInv, PairInv, Trading, Trader
  <2> QED
    BY <2>1 DEF PairInv, Trading, Trader
<1>3. AgreedInv'
  <2>1. \A x \in Players : m_trade'[x].accepted => Trading(x)'
    BY DEF Trading, NoTrade, TradeData
  <2> QED
    BY <2>1 DEF AgreedInv
<1> QED
  BY <1>1, <1>2, <1>3 DEF TradeInv

\* An offer that changes takes back the acceptance of both.
LEMMA SetOfferStep ==
  ASSUME TradeInv, UNCHANGED bound, NEW p \in Players, Trading(p),
         NEW gold \in Nat, NEW item \in Items \cup {Nothing}, SetOffer(p, gold, item)
  PROVE  TradeInv'
<1>1. PICK q : q = Trader(p)
  OBVIOUS
<1>2. q \in Players /\ q # p /\ Trading(q) /\ Trader(q) = p
  BY <1>1 DEF TradeInv, PairInv
<1>3. /\ m_trade' = [m_trade EXCEPT ![p].money = gold, ![p].item = item,
                                   ![p].accepted = FALSE, ![q].accepted = FALSE]
      /\ terms' = [terms EXCEPT ![p] = NoTerms, ![q] = NoTerms]
      /\ UNCHANGED online
  BY <1>1 DEF SetOffer, playerVars
<1>4. /\ m_trade'[p] = [trader |-> q, money |-> gold, item |-> item, accepted |-> FALSE]
      /\ m_trade'[q] = [trader |-> p, money |-> m_trade[q].money,
                        item |-> m_trade[q].item, accepted |-> FALSE]
      /\ \A x \in Players \ {p, q} : m_trade'[x] = m_trade[x] /\ terms'[x] = terms[x]
      /\ DOMAIN m_trade' = Players /\ DOMAIN terms' = Players
  <2>1. PICK mine : mine = m_trade[p]
    OBVIOUS
  <2>2. PICK his : his = m_trade[q]
    OBVIOUS
  <2>3. /\ mine \in [trader : Players \cup {Nobody}, money : Nat,
                     item : Items \cup {Nothing}, accepted : BOOLEAN]
        /\ his \in [trader : Players \cup {Nobody}, money : Nat,
                    item : Items \cup {Nothing}, accepted : BOOLEAN]
        /\ mine.trader = q /\ his.trader = p
    BY <1>1, <1>2, <2>1, <2>2 DEF TradeInv, TradeTypes, Trader
  <2>4. m_trade'[p] = [[[mine EXCEPT !.money = gold] EXCEPT !.item = item] EXCEPT !.accepted = FALSE]
    BY <1>2, <1>3, <2>1 DEF TradeInv, TradeTypes
  <2>5. m_trade'[q] = [his EXCEPT !.accepted = FALSE]
    BY <1>2, <1>3, <2>2 DEF TradeInv, TradeTypes
  <2>6. m_trade'[p] = [trader |-> q, money |-> gold, item |-> item, accepted |-> FALSE]
    BY <2>3, <2>4
  <2>7. m_trade'[q] = [trader |-> p, money |-> his.money, item |-> his.item, accepted |-> FALSE]
    BY <2>3, <2>5
  <2>8. /\ \A x \in Players \ {p, q} : m_trade'[x] = m_trade[x] /\ terms'[x] = terms[x]
        /\ DOMAIN m_trade' = Players /\ DOMAIN terms' = Players
    BY <1>2, <1>3 DEF TradeInv, TradeTypes
  <2> QED
    BY <2>2, <2>6, <2>7, <2>8
<1>5. \A x \in Players : Trader(x)' = Trader(x) /\ (Trading(x)' <=> Trading(x))
  <2>1. Nobody \notin Players
    OBVIOUS
  <2>2. Trading(p)' /\ Trading(q)'
    BY <1>2, <1>4, <2>1 DEF Trading, NoTrade, TradeData
  <2> QED
    BY <1>1, <1>2, <1>4, <2>2 DEF Trading, Trader
<1>6. ASSUME NEW x \in Players, Trading(x), m_trade'[x].accepted
      PROVE  terms'[x] = TermsOf(x)'
  <2>1. x \notin {p, q}
    BY <1>4, <1>6
  <2>2. Trader(x) \in Players \ {p, q}
    BY <1>1, <1>2, <1>6, <2>1 DEF TradeInv, PairInv
  <2> QED
    BY <1>4, <1>5, <1>6, <2>1, <2>2 DEF TradeInv, AgreedInv, TermsOf, Trader
<1>7. m_trade' \in [Players -> [trader : Players \cup {Nobody}, money : Nat,
                               item : Items \cup {Nothing}, accepted : BOOLEAN]]
  <2>1. ASSUME NEW x \in Players
        PROVE  m_trade'[x] \in [trader : Players \cup {Nobody}, money : Nat,
                                item : Items \cup {Nothing}, accepted : BOOLEAN]
    <3>1. CASE x = p
      <4>1. [trader |-> q, money |-> gold, item |-> item, accepted |-> FALSE]
              \in [trader : Players \cup {Nobody}, money : Nat,
                   item : Items \cup {Nothing}, accepted : BOOLEAN]
        BY <1>2
      <4>2. m_trade'[x] = [trader |-> q, money |-> gold, item |-> item, accepted |-> FALSE]
        BY <1>4, <3>1, Zenon
      <4> QED
        BY <4>1, <4>2, Zenon
    <3>2. CASE x = q
      <4>1. PICK g \in Nat, i \in Items \cup {Nothing} :
              g = m_trade[q].money /\ i = m_trade[q].item
        BY <1>2 DEF TradeInv, TradeTypes
      <4>2. [trader |-> p, money |-> g, item |-> i, accepted |-> FALSE]
              \in [trader : Players \cup {Nobody}, money : Nat,
                   item : Items \cup {Nothing}, accepted : BOOLEAN]
        OBVIOUS
      <4>3. m_trade'[x] = [trader |-> p, money |-> g, item |-> i, accepted |-> FALSE]
        BY <1>4, <3>2, <4>1, Zenon
      <4> QED
        BY <4>2, <4>3, Zenon
    <3>3. CASE x \notin {p, q}
      BY <1>4, <3>3 DEF TradeInv, TradeTypes
    <3> QED
      BY <3>1, <3>2, <3>3
  <2>2. m_trade' = [x \in Players |-> m_trade'[x]]
    BY <1>3 DEF TradeInv, TradeTypes
  <2> QED
    BY <2>1, <2>2
<1>8. DOMAIN terms' = Players
  BY <1>4
<1> QED
  BY <1>3, <1>5, <1>6, <1>7, <1>8, OffersStep

\* Acceptances that are given, with the terms of that moment, or withdrawn.
LEMMA AcceptStep ==
  ASSUME TradeInv, UNCHANGED <<bound, online>>, NEW yes \in SUBSET Players,
         NEW no \in SUBSET Players, \A x \in yes \cup no : Trading(x), yes \cap no = {},
         m_trade' = [x \in Players |->
           IF x \in yes THEN [m_trade[x] EXCEPT !.accepted = TRUE]
           ELSE IF x \in no THEN [m_trade[x] EXCEPT !.accepted = FALSE] ELSE m_trade[x]],
         terms' = [x \in Players |->
           IF x \in yes THEN TermsOf(x) ELSE IF x \in no THEN NoTerms ELSE terms[x]]
  PROVE  TradeInv'
<1>1. m_trade' \in [Players -> [trader : Players \cup {Nobody}, money : Nat,
                               item : Items \cup {Nothing}, accepted : BOOLEAN]]
  <2>1. ASSUME NEW x \in Players
        PROVE  m_trade'[x] \in [trader : Players \cup {Nobody}, money : Nat,
                                item : Items \cup {Nothing}, accepted : BOOLEAN]
    <3>1. PICK t : t = m_trade[x]
      OBVIOUS
    <3>2. t \in [trader : Players \cup {Nobody}, money : Nat,
                 item : Items \cup {Nothing}, accepted : BOOLEAN]
      BY <3>1 DEF TradeInv, TradeTypes
    <3>3. \/ m_trade'[x] = t
          \/ m_trade'[x] = [t EXCEPT !.accepted = TRUE]
          \/ m_trade'[x] = [t EXCEPT !.accepted = FALSE]
      BY <3>1
    <3> QED
      BY <3>2, <3>3
  <2> QED
    BY <2>1
<1>2. \A x \in Players : /\ m_trade'[x].trader = m_trade[x].trader
                         /\ m_trade'[x].money = m_trade[x].money
                         /\ m_trade'[x].item = m_trade[x].item
                         /\ m_trade'[x].accepted <=>
                              x \in yes \/ (x \notin no /\ m_trade[x].accepted)
  BY DEF TradeInv, TradeTypes
<1>3. \A x \in Players : Trader(x)' = Trader(x)
  BY <1>2 DEF Trader
<1>4. \A x \in Players : Trading(x)' <=> Trading(x)
  <2>1. \A x \in Players : Trading(x) => m_trade[x].trader # Nobody
    BY DEF TradeInv, PairInv, Trader
  <2>2. \A x \in Players : Trading(x) => Trading(x)'
    <3>1. NoTrade.trader = Nobody
      BY DEF NoTrade, TradeData
    <3> QED
      BY <1>2, <2>1, <3>1 DEF Trading
  <2>3. \A x \in Players : ~Trading(x) => m_trade'[x] = m_trade[x]
    OBVIOUS
  <2> QED
    BY <2>2, <2>3 DEF Trading
<1>5. ASSUME NEW x \in Players, Trading(x), m_trade'[x].accepted
      PROVE  terms'[x] = TermsOf(x)'
  <2>1. Trader(x) \in Players
    BY <1>5 DEF TradeInv, PairInv
  <2>2. TermsOf(x)' = TermsOf(x)
    BY <1>2, <1>3, <2>1 DEF TermsOf, Trader
  <2> QED
    BY <1>2, <1>5, <2>2 DEF TradeInv, AgreedInv
<1>6. DOMAIN terms' = Players
  OBVIOUS
<1> QED
  BY <1>1, <1>3, <1>4, <1>5, <1>6, OffersStep

LEMMA SetAcceptedStep ==
  ASSUME TradeInv, UNCHANGED <<bound, online>>, NEW who \in SUBSET Players,
         \A x \in who : Trading(x), NEW state \in BOOLEAN, SetAccepted(who, state)
  PROVE  TradeInv'
<1>1. CASE state
  <2>1. PICK no \in SUBSET Players : no = {}
    OBVIOUS
  <2>2. m_trade' = [x \in Players |->
           IF x \in who THEN [m_trade[x] EXCEPT !.accepted = TRUE]
           ELSE IF x \in no THEN [m_trade[x] EXCEPT !.accepted = FALSE] ELSE m_trade[x]]
    BY <1>1, <2>1 DEF SetAccepted
  <2>3. terms' = [x \in Players |->
           IF x \in who THEN TermsOf(x) ELSE IF x \in no THEN NoTerms ELSE terms[x]]
    BY <1>1, <2>1 DEF SetAccepted
  <2> QED
    BY <2>1, <2>2, <2>3, AcceptStep
<1>2. CASE ~state
  <2>1. PICK yes \in SUBSET Players : yes = {}
    OBVIOUS
  <2>2. m_trade' = [x \in Players |->
           IF x \in yes THEN [m_trade[x] EXCEPT !.accepted = TRUE]
           ELSE IF x \in who THEN [m_trade[x] EXCEPT !.accepted = FALSE] ELSE m_trade[x]]
    BY <1>2, <2>1 DEF SetAccepted
  <2>3. terms' = [x \in Players |->
           IF x \in yes THEN TermsOf(x) ELSE IF x \in who THEN NoTerms ELSE terms[x]]
    BY <1>2, <2>1 DEF SetAccepted
  <2> QED
    BY <2>1, <2>2, <2>3, AcceptStep
<1> QED
  BY <1>1, <1>2

LEMMA HandleAcceptStep ==
  ASSUME TradeInv, UNCHANGED bound, NEW p \in Players, HandleAcceptTrade(p)
  PROVE  TradeInv'
<1>1. PICK q : q = Trader(p)
  OBVIOUS
<1>2. Trading(p)
  BY DEF HandleAcceptTrade
<1>3. q \in Players /\ q # p /\ Trading(q) /\ Trader(q) = p
  BY <1>1, <1>2 DEF TradeInv, PairInv
<1>4. \/ SetAccepted({p}, FALSE) /\ UNCHANGED online
      \/ /\ m_trade' = [m_trade EXCEPT ![p].accepted = TRUE, ![q].accepted = FALSE]
         /\ terms' = [terms EXCEPT ![p] = TermsOf(p), ![q] = NoTerms]
         /\ UNCHANGED online
      \/ SetAccepted({p}, TRUE) /\ UNCHANGED online
      \/ SetAccepted({p, q}, FALSE) /\ UNCHANGED online
      \/ Exchange(p, q)
  BY <1>1 DEF HandleAcceptTrade, playerVars
<1>5. CASE SetAccepted({p}, FALSE) /\ UNCHANGED online
  BY <1>2, <1>5, SetAcceptedStep
<1>6. CASE SetAccepted({p}, TRUE) /\ UNCHANGED online
  BY <1>2, <1>6, SetAcceptedStep
<1>7. CASE SetAccepted({p, q}, FALSE) /\ UNCHANGED online
  BY <1>2, <1>3, <1>7, SetAcceptedStep
<1>8. CASE /\ m_trade' = [m_trade EXCEPT ![p].accepted = TRUE, ![q].accepted = FALSE]
           /\ terms' = [terms EXCEPT ![p] = TermsOf(p), ![q] = NoTerms]
           /\ UNCHANGED online
  <2>1. PICK yes \in SUBSET Players, no \in SUBSET Players : yes = {p} /\ no = {q}
    BY <1>3
  <2>2. m_trade' = [x \in Players |->
           IF x \in yes THEN [m_trade[x] EXCEPT !.accepted = TRUE]
           ELSE IF x \in no THEN [m_trade[x] EXCEPT !.accepted = FALSE] ELSE m_trade[x]]
    BY <1>3, <1>8, <2>1 DEF TradeInv, TradeTypes
  <2>3. terms' = [x \in Players |->
           IF x \in yes THEN TermsOf(x) ELSE IF x \in no THEN NoTerms ELSE terms[x]]
    BY <1>3, <1>8, <2>1 DEF TradeInv, TradeTypes
  <2>4. (\A x \in yes \cup no : Trading(x)) /\ yes \cap no = {} /\ UNCHANGED <<bound, online>>
    BY <1>2, <1>3, <1>8, <2>1
  <2> QED
    BY <2>2, <2>3, <2>4, AcceptStep
<1>9. CASE Exchange(p, q)
  <2>1. /\ m_trade' = [m_trade EXCEPT ![p] = NoTrade, ![q] = NoTrade]
        /\ terms' = [terms EXCEPT ![p] = NoTerms, ![q] = NoTerms]
        /\ UNCHANGED online
    BY <1>9 DEF Exchange
  <2>2. PICK over : over = IF Trading(p) THEN {p, Trader(p)} ELSE {}
    OBVIOUS
  <2>3. over = {p, q}
    BY <1>1, <1>2, <2>2
  <2>4. /\ m_trade' = [x \in Players |-> IF x \in over THEN NoTrade ELSE m_trade[x]]
        /\ terms' = [x \in Players |-> IF x \in over THEN NoTerms ELSE terms[x]]
    BY <1>3, <2>1, <2>3 DEF TradeInv, TradeTypes
  <2>5. DOMAIN online' = Players /\ \A x \in Players \ {p} : online'[x] = online[x]
    BY <2>1 DEF TradeInv, TradeTypes
  <2>6. TradeCancel(p)
    BY <2>2, <2>4 DEF TradeCancel
  <2> QED
    BY <2>5, <2>6, TradeOver
<1> QED
  BY <1>4, <1>5, <1>6, <1>7, <1>8, <1>9

LEMMA TradeStep ==
  ASSUME TradeInv, Trade
  PROVE  TradeInv'
<1>0. UNCHANGED bound
  BY DEF Trade
<1>1. PICK p \in Players :
        \/ \E q \in Players : HandleInitiateTrade(p, q)
        \/ \E gold \in Offers : HandleSetTradeGold(p, gold)
        \/ \E i \in Items \cup {Nothing} : HandleSetTradeItem(p, i)
        \/ HandleAcceptTrade(p) \/ HandleUnacceptTrade(p) \/ HandleCancelTrade(p)
  BY DEF Trade
<1>2. CASE \E q \in Players : HandleInitiateTrade(p, q)
  BY <1>0, <1>2, InitiateStep
<1>3. CASE \E gold \in Offers : HandleSetTradeGold(p, gold)
  <2>1. PICK gold \in Offers : HandleSetTradeGold(p, gold)
    BY <1>3
  <2>2. gold \in Nat
    BY TradeAssumption
  <2>3. Trading(p) /\ SetOffer(p, gold, m_trade[p].item)
    BY <2>1 DEF HandleSetTradeGold
  <2>4. m_trade[p].item \in Items \cup {Nothing}
    BY DEF TradeInv, TradeTypes
  <2> QED
    BY <1>0, <2>2, <2>3, <2>4, SetOfferStep
<1>4. CASE \E i \in Items \cup {Nothing} : HandleSetTradeItem(p, i)
  <2>1. PICK i \in Items \cup {Nothing} : HandleSetTradeItem(p, i)
    BY <1>4
  <2>2. Trading(p) /\ SetOffer(p, m_trade[p].money, i)
    BY <2>1 DEF HandleSetTradeItem
  <2>3. m_trade[p].money \in Nat
    BY DEF TradeInv, TradeTypes
  <2> QED
    BY <1>0, <2>2, <2>3, SetOfferStep
<1>5. CASE HandleAcceptTrade(p)
  BY <1>0, <1>5, HandleAcceptStep
<1>6. CASE HandleUnacceptTrade(p)
  <2>1. Trading(p) /\ SetAccepted({p}, FALSE) /\ UNCHANGED online
    BY <1>6 DEF HandleUnacceptTrade, playerVars
  <2> QED
    BY <1>0, <2>1, SetAcceptedStep
<1>7. CASE HandleCancelTrade(p)
  <2>1. TradeCancel(p) /\ UNCHANGED online
    BY <1>7 DEF HandleCancelTrade, playerVars
  <2>2. DOMAIN online' = Players /\ \A x \in Players \ {p} : online'[x] = online[x]
    BY <2>1 DEF TradeInv, TradeTypes
  <2> QED
    BY <1>0, <2>1, <2>2, TradeOver
<1> QED
  BY <1>1, <1>2, <1>3, <1>4, <1>5, <1>6, <1>7

LEMMA TradeNext ==
  ASSUME TradeInv, [Next \/ Cleanup]_vars
  PROVE  TradeInv'
BY OthersStep, LeaveStep, CrashStep, TradeStep DEF Next

-----------------------------------------------------------------------------
(* The steps of the world.                                                 *)

\* A handler, whatever the tables are that the queue leads to.
LEMMA Settled ==
  ASSUME StoreInv, up = "up", \A F : Current(F) => Settles(F) \/ Splits(F), UNCHANGED lost
  PROVE  Kept
<1>1. PICK T : Record(db, queue, T) /\ Lines(T)
  BY CurrentTables
<1>2. PICK F : F = T[Len(queue)]
  OBVIOUS
<1>3. Settles(F) \/ Splits(F)
  BY <1>1, <1>2 DEF Lines
<1>4. CASE Settles(F)
  BY <1>1, <1>2, <1>4, SettleStep
<1>5. CASE Splits(F)
  BY <1>1, <1>2, <1>5, SplitStep
<1> QED
  BY <1>3, <1>4, <1>5

LEMMA PlayersBound ==
  ASSUME TradeInv
  PROVE  bound.players \subseteq Players /\ bound.leavers \subseteq Players
  BY BoundAssumption DEF TradeInv, TradeTypes

LEMMA LoginStep ==
  ASSUME StoreInv, TradeInv, Login
  PROVE  Kept
<1>1. PICK p \in bound.players : AskLogin(p) \/ FinishLogin(p)
  BY DEF Login
<1>2. p \in Players /\ UNCHANGED <<mailVars, auctionVars, lost>>
  BY PlayersBound DEF Login
<1> QED
  BY <1>1, <1>2, AskLoginStep, FinishLoginStep

LEMMA LogoutsStep ==
  ASSUME StoreInv, TradeInv, Logout
  PROVE  Kept
<1>1. PICK p \in bound.leavers : /\ SaveAndLeave(p) /\ mailsLoaded' = mailsLoaded \ {p}
                                 /\ mails' = [mails EXCEPT ![p] = NoRows] /\ mMitems' = [mMitems EXCEPT ![p] = {}]
  BY DEF Logout
<1>2. p \in Players /\ UNCHANGED <<mailId, auctionVars, lost>>
  BY PlayersBound DEF Logout
<1> QED
  BY <1>1, <1>2, LogoutStep

LEMMA MailingStep ==
  ASSUME Narrow, ~AnyMail, StoreInv, TradeInv, Mailing
  PROVE  Kept
<1>0. StoreTypes /\ UNCHANGED auctionVars /\ UNCHANGED lost
  BY DEF StoreInv, Mailing
<1>1. ASSUME NEW p \in Players, NEW q \in Players, NEW gold \in Amounts, NEW cod \in Amounts,
             NEW i \in Items \cup {Nothing}, HandleSendMail(p, q, gold, cod, i)
      PROVE  Kept
  <2>1. up = "up"
    BY <1>1 DEF HandleSendMail, In
  <2>2. \A F : Current(F) => Settles(F)
    BY <1>0, <1>1, SendMailDone
  <2> QED
    BY <1>0, <2>1, <2>2, Settled
<1>2. ASSUME NEW p \in Players, HandleGetMailList(p)
      PROVE  Kept
  BY <1>0, <1>2, MailListStep
<1>3. ASSUME NEW p \in Players, NEW m \in DOMAIN mails[p], NEW asked \in {0, mails[p][m].money},
             HandleMailTakeMoney(p, m, asked)
      PROVE  Kept
  <2>1. up = "up"
    BY <1>3 DEF HandleMailTakeMoney, In
  <2>2. \A F : Current(F) => Settles(F)
    BY <1>0, <1>3, TakeMoneyDone
  <2> QED
    BY <1>0, <2>1, <2>2, Settled
<1>4. ASSUME NEW p \in Players, NEW m, NEW i, mails[p][m].item = i, HandleMailTakeItem(p, m, i)
      PROVE  Kept
  <2>1. up = "up"
    BY <1>4 DEF HandleMailTakeItem, In
  <2>2. \A F : Current(F) => Settles(F)
    BY <1>0, <1>4, TakeItemDone
  <2> QED
    BY <1>0, <2>1, <2>2, Settled
<1>5. ASSUME NEW p \in Players, NEW m, HandleMailReturnToSender(p, m)
      PROVE  Kept
  <2>1. up = "up"
    BY <1>5 DEF HandleMailReturnToSender, In
  <2>2. \A F : Current(F) => Settles(F)
    BY <1>0, <1>5, ReturnDone
  <2> QED
    BY <1>0, <2>1, <2>2, Settled
<1> QED
  <2>1. "anymail" \notin bound.steps
    BY DEF AnyMail, TradeInv, TradeTypes
  <2> QED
    BY <1>1, <1>2, <1>3, <1>4, <1>5, <2>1 DEF Mailing

LEMMA AuctioningStep ==
  ASSUME Narrow, StoreInv, Auctioning
  PROVE  Kept
<1>0. StoreTypes /\ UNCHANGED lost
  BY DEF StoreInv, Auctioning
<1>1. ASSUME NEW p \in Players, NEW i \in Items, NEW b \in Prices, NEW buyout \in Prices, NEW cloned \in BOOLEAN,
             HandleAuctionSellItem(p, i, b, buyout, cloned)
      PROVE  Kept
  <2>1. up = "up"
    BY <1>1 DEF HandleAuctionSellItem, In
  <2>2. \A F : Current(F) => Settles(F) \/ Splits(F)
    BY <1>0, <1>1, SellDone
  <2> QED
    BY <1>0, <2>1, <2>2, Settled
<1>2. ASSUME NEW p \in Players, NEW id, NEW price \in Prices, PlaceBid(p, id, price)
      PROVE  Kept
  <2>1. up = "up" /\ UNCHANGED <<mAitems, auctionId>>
    BY <1>2 DEF PlaceBid, MayBid, In
  <2>2. \A F : Current(F) => Settles(F)
    BY <1>0, <1>2, <2>1, PlaceBidDone
  <2> QED
    BY <1>0, <2>1, <2>2, Settled
<1>3. ASSUME NEW p \in Players, NEW id, NEW price \in Prices, Buyout(p, id, price)
      PROVE  Kept
  <2>1. up = "up"
    BY <1>3 DEF Buyout, MayBid, In
  <2>2. \A F : Current(F) => Settles(F)
    BY <1>0, <1>3, BuyoutDone
  <2> QED
    BY <1>0, <2>1, <2>2, Settled
<1>4. ASSUME NEW p \in Players, NEW id, HandleAuctionRemoveItem(p, id)
      PROVE  Kept
  <2>1. up = "up"
    BY <1>4 DEF HandleAuctionRemoveItem, In
  <2>2. \A F : Current(F) => Settles(F)
    BY <1>0, <1>4, RemoveDone
  <2> QED
    BY <1>0, <2>1, <2>2, Settled
<1>5. ASSUME NEW id, ComeDue(id)
      PROVE  Kept
  <2>1. UNCHANGED <<storeVars, playerVars, mailVars, AuctionsMap, mAitems, auctionId, lost>>
    BY <1>0, <1>5 DEF ComeDue
  <2> QED
    BY <2>1, StillStep
<1> QED
  BY <1>1, <1>2, <1>3, <1>4, <1>5 DEF Auctioning, HandleAuctionPlaceBid

\* HandleAcceptTrade: both can pay and both are in the world.
LEMMA AcceptedStep ==
  ASSUME StoreInv, TradeInv, NEW p \in Players, HandleAcceptTrade(p), UNCHANGED <<mailVars, auctionVars, lost>>
  PROVE  Kept
<1>1. CASE UNCHANGED <<storeVars, playerVars>>
  <2>1. UNCHANGED <<storeVars, playerVars, mailVars, AuctionsMap, mAitems, auctionId, lost>>
    BY <1>1 DEF auctionVars
  <2> QED
    BY <2>1, StillStep
<1>2. CASE ~UNCHANGED <<storeVars, playerVars>>
  <2>1. PICK q : q = Trader(p)
    OBVIOUS
  <2>2. /\ up = "up" /\ online[p] = "in" /\ Trading(p) /\ Trading(q) /\ Exchange(p, q)
        /\ money[p] >= m_trade[p].money /\ money[q] >= m_trade[q].money
    BY <1>2, <2>1, Zenon DEF HandleAcceptTrade, In, HasEnoughMoney
  <2>3. q \in Players /\ p # q /\ online[q] = "in"
    BY <2>1, <2>2 DEF TradeInv, PairInv
  <2>4. m_trade[p].money \in Nat /\ m_trade[q].money \in Nat
    BY <2>3 DEF TradeInv, TradeTypes
  <2>5. \A F : Current(F) => Settles(F)
    BY <2>2, <2>3, <2>4, ExchangeDone DEF StoreInv
  <2> QED
    BY <2>2, <2>5, Settled
<1> QED
  BY <1>1, <1>2

LEMMA TradingStep ==
  ASSUME StoreInv, TradeInv, Trade
  PROVE  Kept
<1>1. PICK p \in Players :
        \/ \E q \in Players : HandleInitiateTrade(p, q)
        \/ \E gold \in Offers : HandleSetTradeGold(p, gold)
        \/ \E i \in Items \cup {Nothing} : HandleSetTradeItem(p, i)
        \/ HandleAcceptTrade(p) \/ HandleUnacceptTrade(p) \/ HandleCancelTrade(p)
  BY DEF Trade
<1>2. UNCHANGED <<mailVars, auctionVars, lost>>
  BY DEF Trade
<1>3. CASE HandleAcceptTrade(p)
  BY <1>2, <1>3, AcceptedStep
<1>4. CASE ~HandleAcceptTrade(p)
  <2>1. UNCHANGED <<storeVars, playerVars>>
    BY <1>1, <1>4 DEF HandleInitiateTrade, HandleSetTradeGold, HandleSetTradeItem, SetOffer,
                      HandleUnacceptTrade, HandleCancelTrade
  <2>2. UNCHANGED <<storeVars, playerVars, mailVars, AuctionsMap, mAitems, auctionId, lost>>
    BY <1>2, <2>1 DEF auctionVars
  <2> QED
    BY <2>2, StillStep
<1> QED
  BY <1>3, <1>4

LEMMA SettlingStep ==
  ASSUME StoreInv, Settle
  PROVE  Kept
<1>1. PICK id : AuctionUpdate(id)
  BY DEF Settle
<1>2. up = "up" /\ StoreTypes /\ UNCHANGED lost
  BY <1>1 DEF AuctionUpdate, StoreInv, Settle
<1>3. \A F : Current(F) => Settles(F)
  BY <1>1, <1>2, UpdateDone
<1> QED
  BY <1>2, <1>3, Settled

\* Every step of the world, the workers and the process.
LEMMA StoreNext ==
  ASSUME Narrow, ~AnyMail, StoreInv, TradeInv, Workers = 1, [Next]_vars
  PROVE  Kept
<1>1. CASE Work
  <2>1. PICK n \in 1..Len(queue) : Execute(n)
    BY <1>1 DEF Work
  <2>2. UNCHANGED <<mailVars, auctionVars, lost>>
    BY <1>1 DEF Work
  <2> QED
    BY <2>1, <2>2, WorkStep
<1>2. CASE Crash
  BY <1>2, CrashedStep DEF Crash
<1>3. CASE Start
  BY <1>3, StartServerStep, LoadAuctionsStep DEF Start
<1>4. CASE UNCHANGED vars
  <2>1. UNCHANGED <<storeVars, playerVars, mailVars, AuctionsMap, mAitems, auctionId, lost>>
    BY <1>4 DEF vars, auctionVars
  <2> QED
    BY <2>1, StillStep
<1> QED
  BY <1>1, <1>2, <1>3, <1>4, LoginStep, LogoutsStep, MailingStep, AuctioningStep, TradingStep, SettlingStep DEF Next

-----------------------------------------------------------------------------
(* What follows.                                                           *)

\* The last tables are those of Replay.
LEMMA StoreInvSaved == ASSUME StoreInv PROVE MemoryIsSaved
<1> SUFFICES ASSUME up = "up"
             PROVE  /\ \A p \in Players : online[p] = "in" =>
                         /\ Replay.money[p] = money[p]
                         /\ {i \in Items : Replay.inv[i] = p} = bags[p]
                         /\ \A m \in DOMAIN mails[p] :
                              m \in DOMAIN Replay.mail /\ Replay.mail[m] = InBox(p, m)
                    /\ Replay.auc = AuctionsMap
                    /\ mAitems = {AuctionsMap[id].item : id \in DOMAIN AuctionsMap}
  BY DEF MemoryIsSaved
<1>1. PICK T : T = Tables(db, queue)
  OBVIOUS
<1>2. Record(db, queue, T)
  BY <1>1, TablesRecord DEF StoreInv, StoreTypes, Sequence
<1>3. PICK F : F = T[Len(queue)]
  OBVIOUS
<1>4. Replay = F
  BY <1>1, <1>3 DEF Replay
<1>5. Current(F)
  BY <1>2, <1>3 DEF StoreInv, Lines
<1>6. ASSUME NEW p \in Players, NEW m \in DOMAIN mails[p]
      PROVE  InBox(p, m) = mails[p][m]
  <2>1. IsLetter(mails[p][m])
    BY <1>5 DEF Current, MailMemory, Fine, IsStore, IsMails
  <2>2. mails[p][m].item \in mMitems[p] \cup {Nothing}
    BY <1>5 DEF Current, Held
  <2>3. PICK l : l = mails[p][m]
    OBVIOUS
  <2>4. [l EXCEPT !.item = IF l.item \in mMitems[p] THEN l.item ELSE Nothing] = l
    <3>1. (IF l.item \in mMitems[p] THEN l.item ELSE Nothing) = l.item
      BY <2>2, <2>3
    <3>2. l \in [from : Players \cup {Nobody}, to : Players, money : Nat, cod : Nat,
                 item : Items \cup {Nothing}]
      BY <2>1, <2>3 DEF IsLetter
    <3>3. [l EXCEPT !.item = l.item] = l
      BY <3>2
    <3> QED
      BY <3>1, <3>3
  <2> QED
    BY <2>3, <2>4 DEF InBox
<1> QED
  BY <1>4, <1>5, <1>6 DEF Current, PurseMemory, MailMemory, HouseMemory

\* The first tables are those of the database.
LEMMA ItemsInvAccounted == ASSUME StoreInv, ItemsInv PROVE ItemsAccounted
<1> SUFFICES ASSUME NEW i \in Items
             PROVE  /\ PlacesOf(db, i) <= 1
                    /\ PlacesOf(db, i) = 1 \/ HalfSold(i) \/ i \in lost \cup db.thrown
  BY DEF ItemsAccounted
<1>1. Fine(db)
  BY FineHere
<1>2. PlacesOf(db, i) <= 1
  <2>1. PlacesOf(db, i) = 1 \/ PlacesOf(db, i) = 0
    BY <1>1, PlacesOne, PlacesNone DEF Fine
  <2> QED
    BY <2>1
<1>3. CASE i \notin lost /\ up = "up"
  <2>1. PICK T : T = Tables(db, queue)
    OBVIOUS
  <2>2. StoreTypes /\ Record(db, queue, T)
    BY <2>1, TablesRecord DEF StoreInv, StoreTypes, Sequence
  <2>3. 0 \in 0..Len(queue) /\ T[0] = db
    BY <2>2, Here
  <2>4. Safe(T[0], i) \/ HalfAt(T, queue, 0, i)
    BY <1>3, <2>2, <2>3 DEF ItemsInv, ItemsLine
  <2>5. Safe(db, i) \/ HalfSold(i)
    BY <2>1, <2>2, <2>3, <2>4, HalfHere
  <2> QED
    BY <1>2, <2>5, PlacesOne DEF Safe
<1>4. CASE i \notin lost /\ up # "up"
  <2>1. Safe(db, i)
    BY <1>4 DEF ItemsInv
  <2> QED
    BY <1>2, <2>1, PlacesOne DEF Safe
<1> QED
  BY <1>2, <1>3, <1>4

LEMMA GoldInvDurable == ASSUME StoreInv, GoldInv PROVE DurableGold
<1>1. CASE up = "up"
  <2>1. PICK T : T = Tables(db, queue)
    OBVIOUS
  <2>2. StoreTypes /\ Record(db, queue, T)
    BY <2>1, TablesRecord DEF StoreInv, StoreTypes, Sequence
  <2>3. 0 \in 0..Len(queue) /\ T[0] = db
    BY <2>2, Here
  <2>4. GoldIn(T[0]) = SumFunction(StartMoney)
    BY <1>1, <2>2, <2>3 DEF GoldInv, GoldLine
  <2> QED
    BY <2>3, <2>4 DEF DurableGold
<1>2. CASE up # "up"
  BY <1>2 DEF GoldInv, DurableGold
<1> QED
  BY <1>1, <1>2

LEMMA TradeInvAgreed == ASSUME TradeInv PROVE TradeAgreed
BY DEF TradeInv, PairInv, AgreedInv, TradeAgreed

-----------------------------------------------------------------------------

\* In every state a trade is between two players of the world who are each
\* other's trader, and who has accepted has accepted the offers as they are
\* now: whatever the order of offers, acceptances, logouts, mail and auctions,
\* HandleAcceptTradeOpcode is carried out only on the gold and the item guids
\* that both have accepted (what is found under a guid is not part of this).
THEOREM SpecTradeAgreed == Spec => []TradeAgreed
<1>1. Init => TradeInv
  BY TradeInitInv
<1>2. TradeInv /\ [Next]_vars => TradeInv'
  BY TradeNext
<1>3. TradeInv => TradeAgreed
  BY TradeInvAgreed
<1> QED
  BY <1>1, <1>2, <1>3, PTL DEF Spec

\* With one worker, with amounts that the 32 bit fields hold and requests that
\* name the mail an item is in, what the players and the auction house have in
\* memory is at all times what the tables will hold when the queue is executed:
\* every handler of mail, auction house and trade writes what it changes, the
\* login query finds what was queued before it, and a restart reads all of it.
THEOREM SpecMemoryIsSaved ==
  ASSUME Workers = 1, Narrow, ~AnyMail
  PROVE  Spec => []MemoryIsSaved
<1>1. Init => StoreInv /\ TradeInv
  BY StoreBegins, TradeInitInv
<1>2. StoreInv /\ TradeInv /\ [Next]_vars => (StoreInv /\ TradeInv)'
  BY StoreNext, TradeNext DEF Kept
<1>3. StoreInv => MemoryIsSaved
  BY StoreInvSaved
<1> QED
  BY <1>1, <1>2, <1>3, PTL DEF Spec

\* Under the same assumptions, and with GM.LogTrade set so that
\* SendAuctionWonMail finds a winner who is not in the world, every item is at
\* all times in at most one place of the tables, and in exactly one, whatever
\* crashes, but for the stack that HandleAuctionSellItem splits, between its
\* two transactions, and for what HandleMailReturnToSender deletes with a mail
\* of the auction house.
THEOREM SpecItemsAccounted ==
  ASSUME Workers = 1, Narrow, ~AnyMail, LogTrade
  PROVE  Spec => []ItemsAccounted
<1>1. Init => StoreInv /\ TradeInv /\ ItemsInv
  BY StoreBegins, TradeInitInv
<1>2. StoreInv /\ TradeInv /\ ItemsInv /\ [Next]_vars => (StoreInv /\ TradeInv /\ ItemsInv)'
  BY StoreNext, TradeNext DEF Kept
<1>3. StoreInv /\ ItemsInv => ItemsAccounted
  BY ItemsInvAccounted
<1> QED
  BY <1>1, <1>2, <1>3, PTL DEF Spec

\* Under the same assumptions the gold in purses, mails, bids and deposits adds
\* up to what there was at first, less what fees, mails that are given up and
\* the limit of a purse have taken, and more by what game masters have sent
\* without having it, at all times and whatever crashes.
THEOREM SpecDurableGold ==
  ASSUME Workers = 1, Narrow, ~AnyMail, IsFiniteSet(Players)
  PROVE  Spec => []DurableGold
<1>1. Init => StoreInv /\ TradeInv /\ GoldInv
  BY StoreBegins, TradeInitInv
<1>2. StoreInv /\ TradeInv /\ GoldInv /\ [Next]_vars => (StoreInv /\ TradeInv /\ GoldInv)'
  BY StoreNext, TradeNext DEF Kept
<1>3. StoreInv /\ GoldInv => DurableGold
  BY GoldInvDurable
<1> QED
  BY <1>1, <1>2, <1>3, PTL DEF Spec
=============================================================================
