------------------------- MODULE CounterFlowProofs -------------------------
(***************************************************************************)
(* Proofs about module CounterFlow, for every finite set of threads, all   *)
(* kinds of requests and any number of them.                               *)
(***************************************************************************)
EXTENDS CounterFlow, FiniteSetTheorems, WellFoundedInduction, TLAPS

-----------------------------------------------------------------------------
(* Induction, and the sum of a function over a finite set                  *)
(*                                                                         *)
(* The induction theorems of the library take the induction predicate as   *)
(* an operator P(_).  Here it is a set P of numbers, or of subsets of a    *)
(* finite set, and the rule says that P is everything.  The sum is         *)
(* SumFunction of the community module Functions, a recursive function on  *)
(* the subsets of its domain: that such a function exists, and that the    *)
(* order of adding up does not matter, is proved here.                     *)

\* Induction over the numbers: a set with 0 that is closed under adding 1 is Nat.
LEMMA CountUp ==
  ASSUME NEW P \in SUBSET Nat, 0 \in P, \A n \in P : n + 1 \in P
  PROVE  P = Nat
<1> DEFINE R == {ss \in Nat \X Nat : ss[1] < ss[2]}
<1> SUFFICES ASSUME P # Nat PROVE FALSE
  OBVIOUS
<1>1. IsWellFoundedOn(R, Nat)
  BY NatLessThanWellFounded DEF OpToRel
<1>2. PICK n \in Nat \ P : \A k \in Nat \ P : ~(<<k, n>> \in R)
  <2> HIDE DEF R
  <2> QED
    BY <1>1, WFMin
<1>3. n # 0 /\ n - 1 \in Nat /\ <<n - 1, n>> \in R
  OBVIOUS
<1>4. n - 1 \in P
  BY <1>2, <1>3
<1> QED
  BY <1>4

\* One unfolding of the sum of f over a set s, g being the sum over the smaller sets.
SumBody(f, g, s) == IF s = {} THEN 0 ELSE LET x == CHOOSE x \in s : TRUE IN f[x] + g[s \ {x}]

\* The sum of f over the subsets of D, as the library chooses it.
SumFun(f, D) == CHOOSE g : g = [s \in SUBSET D |-> SumBody(f, g, s)]

\* SumFunction, written with SumFun.
LEMMA SumIs ==
  ASSUME NEW f, NEW D, D = DOMAIN f
  PROVE SumFunction(f) = SumFun(f, D)[D]
BY DEF SumFunction, SumFunctionOnSet, FoldFunctionOnSet, MapThenFoldSet, SumFun, SumBody

\* The sum of the library is a recursive function on the subsets of a finite set: it exists.
LEMMA SumFunDef ==
  ASSUME NEW f, NEW D, IsFiniteSet(D)
  PROVE  SumFun(f, D) = [s \in SUBSET D |-> SumBody(f, SumFun(f, D), s)]
<1> DEFINE Dom(n) == {s \in SUBSET D : Cardinality(s) <= n}
           IsSum(g, n) == g = [s \in Dom(n) |-> SumBody(f, g, s)]
           P == {n \in Nat : \E g : IsSum(g, n)}
<1>1. 0 \in P
  <2> DEFINE g == [s \in Dom(0) |-> 0]
  <2>1. \A s \in Dom(0) : s = {}
    BY FS_EmptySet, FS_Subset, FS_CardinalityType
  <2>2. IsSum(g, 0)
    BY <2>1 DEF SumBody
  <2> QED
    BY <2>2
<1>2. ASSUME NEW n \in P PROVE n + 1 \in P
  <2>1. PICK g : IsSum(g, n)
    OBVIOUS
  <2> DEFINE h == [s \in Dom(n + 1) |-> SumBody(f, g, s)]
  <2>2. ASSUME NEW s \in Dom(n + 1) PROVE SumBody(f, g, s) = SumBody(f, h, s)
    <3>1. CASE s = {}
      BY <3>1 DEF SumBody
    <3>2. CASE s # {}
      <4> DEFINE x == CHOOSE x \in s : TRUE
                 r == s \ {x}
      <4>1. x \in s
        BY <3>2
      <4>2. r \in Dom(n) /\ r \in Dom(n + 1)
        BY <4>1, FS_Subset, FS_RemoveElement, FS_CardinalityType
      <4>3. g[r] = SumBody(f, g, r) /\ h[r] = SumBody(f, g, r)
        BY <2>1, <4>2
      <4> QED
        BY <3>2, <4>3 DEF SumBody
    <3> QED
      BY <3>1, <3>2
  <2>3. IsSum(h, n + 1)
    BY <2>2
  <2>4. \E k : IsSum(k, n + 1)
    BY <2>3
  <2>5. n + 1 \in Nat
    OBVIOUS
  <2> HIDE DEF IsSum
  <2> QED
    BY <2>4, <2>5
<1>3. P = Nat
  <2> HIDE DEF P
  <2>1. P \in SUBSET Nat
    BY DEF P
  <2> QED
    BY <1>1, <1>2, <2>1, CountUp
<1>4. Cardinality(D) \in Nat /\ Dom(Cardinality(D)) = SUBSET D
  BY FS_Subset, FS_CardinalityType
<1>5. \E g : g = [s \in SUBSET D |-> SumBody(f, g, s)]
  <2>1. PICK g : IsSum(g, Cardinality(D))
    <3> HIDE DEF IsSum
    <3> QED
      BY <1>3, <1>4
  <2> QED
    BY <2>1, <1>4
<1> QED
  BY <1>5 DEF SumFun

\* Induction over the subsets of a finite set, by their size.
LEMMA SubsetsUp ==
  ASSUME NEW D, IsFiniteSet(D), NEW P \in SUBSET SUBSET D, {} \in P,
         \A s \in SUBSET D : (s # {} /\ \A x \in s : s \ {x} \in P) => s \in P
  PROVE  P = SUBSET D
<1> DEFINE N == {n \in Nat : \A s \in SUBSET D : Cardinality(s) = n => s \in P}
<1>1. \A s \in SUBSET D : IsFiniteSet(s) /\ Cardinality(s) \in Nat
  BY FS_Subset, FS_CardinalityType
<1>2. 0 \in N
  BY <1>1, FS_EmptySet
<1>3. ASSUME NEW n \in N PROVE n + 1 \in N
  <2> SUFFICES ASSUME NEW s \in SUBSET D, Cardinality(s) = n + 1 PROVE s \in P
    OBVIOUS
  <2>1. s # {}
    BY FS_EmptySet
  <2>2. ASSUME NEW x \in s PROVE s \ {x} \in P
    <3>1. Cardinality(s \ {x}) = n
      BY <1>1, FS_RemoveElement
    <3> QED
      BY <3>1
  <2> QED
    BY <2>1, <2>2
<1>4. N = Nat
  <2> HIDE DEF N
  <2>1. N \in SUBSET Nat
    BY DEF N
  <2> QED
    BY <1>2, <1>3, <2>1, CountUp
<1> QED
  BY <1>1, <1>4

\* The sum over a set unfolds.
LEMMA SumFunStep ==
  ASSUME NEW D, IsFiniteSet(D), NEW f, NEW s \in SUBSET D
  PROVE  SumFun(f, D)[s] = SumBody(f, SumFun(f, D), s)
<1> DEFINE F == SumFun(f, D)
<1>1. F = [r \in SUBSET D |-> SumBody(f, F, r)]
  BY SumFunDef
<1> HIDE DEF F
<1>2. F[s] = SumBody(f, F, s)
  BY <1>1
<1> QED
  BY <1>2 DEF F

\* The sum over a set is that of one element of it and of the rest.
LEMMA SumFunPick ==
  ASSUME NEW D, IsFiniteSet(D), NEW f
  PROVE  /\ SumFun(f, D)[{}] = 0
         /\ \A s \in SUBSET D : s # {} =>
              \E x \in s : /\ x = CHOOSE y \in s : TRUE
                          /\ SumFun(f, D)[s] = f[x] + SumFun(f, D)[s \ {x}]
<1>1. SumFun(f, D)[{}] = 0
  BY SumFunStep DEF SumBody
<1>2. ASSUME NEW s \in SUBSET D, s # {}
      PROVE  \E x \in s : /\ x = CHOOSE y \in s : TRUE
                          /\ SumFun(f, D)[s] = f[x] + SumFun(f, D)[s \ {x}]
  <2> DEFINE x == CHOOSE y \in s : TRUE
  <2>1. x \in s
    BY <1>2
  <2>2. SumFun(f, D)[s] = f[x] + SumFun(f, D)[s \ {x}]
    <3> DEFINE F == SumFun(f, D)
    <3>1. F[s] = SumBody(f, F, s)
      BY SumFunStep
    <3> HIDE DEF F
    <3>2. F[s] = f[x] + F[s \ {x}]
      BY ONLY <1>2, <3>1 DEF SumBody
    <3> QED
      BY ONLY <3>2 DEF F
  <2> QED
    BY <2>1, <2>2
<1> QED
  BY <1>1, <1>2

\* A sum of numbers is a number.
LEMMA SumFunType ==
  ASSUME NEW D, IsFiniteSet(D), NEW f \in [D -> Nat], NEW s \in SUBSET D
  PROVE  SumFun(f, D)[s] \in Nat
<1> DEFINE F == SumFun(f, D)
           P == {r \in SUBSET D : F[r] \in Nat}
<1>s. F[{}] = 0 /\ \A r \in SUBSET D : r # {} => \E x \in r : F[r] = f[x] + F[r \ {x}]
  BY SumFunPick
<1> HIDE DEF F
<1>1. {} \in P
  BY <1>s
<1>2. ASSUME NEW r \in SUBSET D, r # {}, \A x \in r : r \ {x} \in P
      PROVE  r \in P
  <2>1. PICK x \in r : F[r] = f[x] + F[r \ {x}]
    BY <1>2, <1>s
  <2> QED
    BY <1>2, <2>1
<1>3. P = SUBSET D
  <2> HIDE DEF P
  <2>1. P \in SUBSET SUBSET D
    BY DEF P
  <2> QED
    BY <1>1, <1>2, <2>1, SubsetsUp
<1> QED
  BY <1>3 DEF F

\* The order in which the elements are added up does not matter.
LEMMA SumFunRemove ==
  ASSUME NEW D, IsFiniteSet(D), NEW f \in [D -> Nat], NEW s \in SUBSET D, NEW e \in s
  PROVE  SumFun(f, D)[s] = f[e] + SumFun(f, D)[s \ {e}]
<1> DEFINE F == SumFun(f, D)
           P == {r \in SUBSET D : \A y \in r : F[r] = f[y] + F[r \ {y}]}
<1>t. \A r \in SUBSET D : F[r] \in Nat
  BY SumFunType
<1>s. \A r \in SUBSET D : r # {} => \E x \in r : F[r] = f[x] + F[r \ {x}]
  BY SumFunPick
<1> HIDE DEF F
<1>1. {} \in P
  OBVIOUS
<1>2. ASSUME NEW r \in SUBSET D, r # {}, \A x \in r : r \ {x} \in P
      PROVE  r \in P
  <2> SUFFICES ASSUME NEW y \in r PROVE F[r] = f[y] + F[r \ {y}]
    OBVIOUS
  <2>1. PICK x \in r : F[r] = f[x] + F[r \ {x}]
    BY <1>2, <1>s
  <2>2. CASE x = y
    BY <2>1, <2>2
  <2>3. CASE x # y
    <3>1. F[r \ {x}] = f[y] + F[(r \ {x}) \ {y}]
      BY <1>2, <2>3
    <3>2. F[r \ {y}] = f[x] + F[(r \ {y}) \ {x}]
      BY <1>2, <2>3
    <3>3. (r \ {x}) \ {y} = (r \ {y}) \ {x}
      OBVIOUS
    <3>4. f[x] \in Nat /\ f[y] \in Nat /\ F[(r \ {y}) \ {x}] \in Nat
      BY <1>t
    <3> DEFINE k == F[(r \ {y}) \ {x}]
    <3>5. F[r \ {x}] = f[y] + k
      BY <3>1, <3>3
    <3>6. F[r] = f[x] + (f[y] + k) /\ F[r \ {y}] = f[x] + k
      BY <2>1, <3>2, <3>5
    <3> HIDE DEF k, P
    <3> QED
      BY <3>4, <3>6 DEF k
  <2> QED
    BY <2>2, <2>3
<1>3. P = SUBSET D
  <2> HIDE DEF P
  <2>1. P \in SUBSET SUBSET D
    BY DEF P
  <2> QED
    BY <1>1, <1>2, <2>1, SubsetsUp
<1> QED
  BY <1>3 DEF F

\* Functions that agree on s have the same sum over s.
LEMMA SumFunSame ==
  ASSUME NEW D, IsFiniteSet(D), NEW f \in [D -> Nat], NEW g \in [D -> Nat],
         NEW s \in SUBSET D, \A x \in s : f[x] = g[x]
  PROVE  SumFun(f, D)[s] = SumFun(g, D)[s]
<1> DEFINE F == SumFun(f, D)
           G == SumFun(g, D)
           P == {r \in SUBSET D : r \subseteq s => F[r] = G[r]}
<1>s. \A r \in SUBSET D : /\ F[r] = SumBody(f, F, r)
                          /\ G[r] = SumBody(g, G, r)
  BY SumFunStep
<1> HIDE DEF F, G
<1>1. {} \in P
  BY <1>s DEF SumBody
<1>2. ASSUME NEW r \in SUBSET D, r # {}, \A x \in r : r \ {x} \in P
      PROVE  r \in P
  <2> SUFFICES ASSUME r \subseteq s PROVE F[r] = G[r]
    OBVIOUS
  <2> DEFINE x == CHOOSE x \in r : TRUE
  <2>1. x \in r
    BY <1>2
  <2>2. F[r] = f[x] + F[r \ {x}] /\ G[r] = g[x] + G[r \ {x}]
    BY <1>2, <1>s DEF SumBody
  <2>3. F[r \ {x}] = G[r \ {x}] /\ f[x] = g[x]
    BY <1>2, <2>1
  <2> QED
    BY <2>2, <2>3
<1>3. P = SUBSET D
  <2> HIDE DEF P
  <2>1. P \in SUBSET SUBSET D
    BY DEF P
  <2> QED
    BY <1>1, <1>2, <2>1, SubsetsUp
<1> QED
  BY <1>3 DEF F, G

\* For every function to the numbers with a finite domain, SumFunction is a number.
LEMMA SumType ==
  ASSUME NEW D, IsFiniteSet(D), NEW f \in [D -> Nat]
  PROVE  SumFunction(f) \in Nat
BY SumIs, SumFunType

\* The sum of zeros is zero.
LEMMA SumZero ==
  ASSUME NEW D, IsFiniteSet(D), NEW f \in [D -> Nat], \A x \in D : f[x] = 0
  PROVE  SumFunction(f) = 0
<1> DEFINE F == SumFun(f, D)
           P == {r \in SUBSET D : F[r] = 0}
<1>s. F[{}] = 0 /\ \A r \in SUBSET D : r # {} => \E x \in r : F[r] = f[x] + F[r \ {x}]
  BY SumFunPick
<1> HIDE DEF F
<1>1. {} \in P
  BY <1>s
<1>2. ASSUME NEW r \in SUBSET D, r # {}, \A x \in r : r \ {x} \in P
      PROVE  r \in P
  <2>1. PICK x \in r : F[r] = f[x] + F[r \ {x}]
    BY <1>2, <1>s
  <2>2. f[x] = 0 /\ F[r \ {x}] = 0
    BY <1>2
  <2> QED
    BY <2>1, <2>2
<1>3. P = SUBSET D
  <2> HIDE DEF P
  <2>1. P \in SUBSET SUBSET D
    BY DEF P
  <2> QED
    BY <1>1, <1>2, <2>1, SubsetsUp
<1> QED
  BY <1>3, SumIs DEF F

\* Functions that differ in one argument have sums that differ by that much.
LEMMA SumChange ==
  ASSUME NEW D, IsFiniteSet(D), NEW f \in [D -> Nat], NEW g \in [D -> Nat],
         NEW e \in D, \A x \in D \ {e} : f[x] = g[x]
  PROVE  SumFunction(f) + g[e] = SumFunction(g) + f[e]
<1> DEFINE F == SumFun(f, D)
           G == SumFun(g, D)
<1>1. SumFunction(f) = f[e] + F[D \ {e}] /\ SumFunction(g) = g[e] + G[D \ {e}]
  <2>1. SumFunction(f) = F[D] /\ SumFunction(g) = G[D]
    BY SumIs
  <2>2. F[D] = f[e] + F[D \ {e}] /\ G[D] = g[e] + G[D \ {e}]
    BY SumFunRemove
  <2> QED
    BY <2>1, <2>2
<1>2. F[D \ {e}] = G[D \ {e}]
  BY SumFunSame
<1>3. F[D \ {e}] \in Nat /\ f[e] \in Nat /\ g[e] \in Nat
  BY SumFunType
<1> HIDE DEF F, G
<1> QED
  BY <1>1, <1>2, <1>3

-----------------------------------------------------------------------------
(* The inductive invariant                                                 *)

\* The counters other than total, added up.
Five(f) == f["trash"] + f["no_req"] + f["inv"] + f["inv_sign"] + f["success"]

\* What has left the threads.
Merged == [c \in Charged |-> global[c] + Taken(c)]

\* What a thread in the middle of merge_counters has still to add of those.
Pending(t) == IF at[t] = 0 THEN 0 ELSE Five([c \in Charged |-> Left(t, c)])

LeftOf(c) == [t \in Threads |-> Left(t, c)]

PendingOf == [t \in Threads |-> Pending(t)]

Counted == \A c \in Charged : seen[c] = SumFunction(LeftOf(c)) + Merged[c]

Cleared == \A i \in pos + 1..Len(ReportOrder) : report[ReportOrder[i]] = 0

Together == \A t \in Threads : local[t]["total"] >= Five(local[t])

\* A thread that has begun to merge has added its total, and its other counters
\* are covered by it.
Ahead == Merged["total"] >= Five(Merged) + SumFunction(PendingOf)

FlowInv == TypeOK /\ Counted /\ Cleared /\ Together /\ Ahead

-----------------------------------------------------------------------------
(* The two orders and the sums                                             *)

\* Both orders name counters of Charged; a thread or a report has no others.
LEMMA OrderFacts ==
  /\ Len(MergeOrder) = 6 /\ Len(ReportOrder) = 6
  /\ MergeOrder[1] = "total" /\ MergeOrder[2] = "trash" /\ MergeOrder[3] = "no_req"
  /\ MergeOrder[4] = "inv" /\ MergeOrder[5] = "inv_sign" /\ MergeOrder[6] = "success"
  /\ ReportOrder[1] = "total" /\ ReportOrder[2] = "trash" /\ ReportOrder[3] = "no_req"
  /\ ReportOrder[4] = "inv" /\ ReportOrder[5] = "inv_sign" /\ ReportOrder[6] = "success"
BY DEF MergeOrder, ReportOrder

\* The sum of the library over the kinds is the sum written out.
LEMMA KindsAddUp ==
  ASSUME NEW f \in [Charged \ {"total"} -> Nat]
  PROVE  SumFunction(f) = Five(f)
<1> DEFINE D == Charged \ {"total"}
           F == SumFun(f, D)
           d1 == D \ {"trash"}
           d2 == d1 \ {"no_req"}
           d3 == d2 \ {"inv"}
           d4 == d3 \ {"inv_sign"}
           d5 == d4 \ {"success"}
<1>1. D = {"trash", "no_req", "inv", "inv_sign", "success"}
  BY DEF Charged
<1>2. IsFiniteSet(D)
  <2>1. IsFiniteSet({}) /\ \A S, x : IsFiniteSet(S) => IsFiniteSet(S \cup {x})
    BY FS_EmptySet, FS_AddElement
  <2>2. IsFiniteSet(((({} \cup {"trash"}) \cup {"no_req"}) \cup {"inv"}) \cup {"inv_sign"})
    BY <2>1
  <2>3. D = ((((({} \cup {"trash"}) \cup {"no_req"}) \cup {"inv"}) \cup {"inv_sign"}) \cup {"success"})
    BY <1>1
  <2> HIDE DEF D
  <2> QED
    BY <2>1, <2>2, <2>3
<1>3. /\ d1 \in SUBSET D /\ d2 \in SUBSET D /\ d3 \in SUBSET D
      /\ d4 \in SUBSET D /\ d5 = {} /\ D \in SUBSET D
      /\ "trash" \in D /\ "no_req" \in d1 /\ "inv" \in d2 /\ "inv_sign" \in d3 /\ "success" \in d4
  BY <1>1
<1>4. \A r \in SUBSET D : \A e \in r : F[r] = f[e] + F[r \ {e}]
  BY <1>2, SumFunRemove
<1>5. F[D] = f["trash"] + F[d1] /\ F[d1] = f["no_req"] + F[d2]
  BY <1>3, <1>4
<1>6. F[d2] = f["inv"] + F[d3]
  BY <1>3, <1>4
<1>d. d4 = d3 \ {"inv_sign"} /\ d5 = d4 \ {"success"}
  OBVIOUS
<1>e. F[d3] = f["inv_sign"] + F[d4] /\ F[d4] = f["success"] + F[d5]
  <2> HIDE DEF F, D, d1, d2, d3, d4, d5
  <2> QED
    BY <1>3, <1>4, <1>d
<1>7. F[d5] = 0
  BY <1>2, <1>3, SumFunPick
<1>8. SumFunction(f) = F[D]
  BY <1>2, SumIs
<1>9. /\ f["trash"] \in Nat /\ f["no_req"] \in Nat /\ f["inv"] \in Nat
      /\ f["inv_sign"] \in Nat /\ f["success"] \in Nat
  BY <1>1
<1> HIDE DEF F, d1, d2, d3, d4, d5, D
<1> QED
  BY <1>5, <1>6, <1>e, <1>7, <1>8, <1>9 DEF Five

\* The sum written out is a number.
LEMMA FiveType ==
  ASSUME NEW f \in [Charged -> Nat]
  PROVE  Five(f) \in Nat
BY DEF Five, Charged

\* Adding n to one of the kinds adds n to their sum.
LEMMA FiveChange ==
  ASSUME NEW f \in [Charged -> Nat], NEW g \in [Charged -> Nat], NEW c \in Charged,
         \A d \in Charged \ {c} : f[d] = g[d]
  PROVE  Five(f) + (IF c = "total" THEN 0 ELSE g[c]) = Five(g) + (IF c = "total" THEN 0 ELSE f[c])
<1>1. \A d \in Charged : f[d] \in Nat /\ g[d] \in Nat
  OBVIOUS
<1>2. \A d \in Charged : d # c => f[d] = g[d]
  OBVIOUS
<1>3. /\ "trash" \in Charged /\ "no_req" \in Charged /\ "inv" \in Charged
      /\ "inv_sign" \in Charged /\ "success" \in Charged
  BY DEF Charged
<1> QED
  BY <1>1, <1>2, <1>3 DEF Five, Charged

-----------------------------------------------------------------------------
(* What the invariant gives                                                *)

\* What TypeOK says, counter by counter.
LEMMA Types ==
  TypeOK => /\ local \in [Threads -> [Charged -> Nat]]
            /\ at \in [Threads -> 0..5]
            /\ global \in [Charged -> Nat] /\ report \in [Charged -> Nat]
            /\ posted \in [Charged -> Nat] /\ dropped \in [Charged -> Nat]
            /\ seen \in [Charged -> Nat]
            /\ pos \in 0..6
            /\ stopped \in BOOLEAN
            /\ ended \subseteq Threads \cup {Stats}
BY OrderFacts DEF TypeOK

LeftTyped == /\ \A t \in Threads, c \in Charged : Left(t, c) \in Nat
             /\ \A c \in Charged : LeftOf(c) \in [Threads -> Nat]
             /\ \A t \in Threads : Pending(t) \in Nat
             /\ PendingOf \in [Threads -> Nat]
             /\ Merged \in [Charged -> Nat]
             /\ \A c \in Charged : Taken(c) \in Nat

\* What a thread still has of a counter, and what has left the threads, is a number.
LEMMA LeftType == TypeOK => LeftTyped
<1> SUFFICES ASSUME TypeOK PROVE LeftTyped
  OBVIOUS
<1>1. \A t \in Threads, c \in Charged : Left(t, c) \in Nat
  BY Types DEF Left
<1>2. \A t \in Threads : Pending(t) \in Nat
  <2> SUFFICES ASSUME NEW t \in Threads PROVE Pending(t) \in Nat
    OBVIOUS
  <2>1. [c \in Charged |-> Left(t, c)] \in [Charged -> Nat]
    BY <1>1
  <2> QED
    BY <2>1, FiveType DEF Pending
<1>3. \A c \in Charged : Taken(c) \in Nat
  BY Types DEF Taken
<1> QED
  BY <1>1, <1>2, <1>3, Types DEF LeftOf, PendingOf, Merged, LeftTyped

\* The same in the next state.
\* The same of the next state.
LEMMA TypesNext ==
  TypeOK' => /\ local' \in [Threads -> [Charged -> Nat]]
             /\ at' \in [Threads -> 0..5]
             /\ global' \in [Charged -> Nat] /\ report' \in [Charged -> Nat]
             /\ pos' \in 0..6
BY OrderFacts DEF TypeOK

\* The same of the next state.
LEMMA LeftTypeNext == TypeOK' => LeftTyped'
BY LeftType, PTL

\* The kinds of one request are covered by its total.
LEMMA OneKind ==
  ASSUME NEW kind \in Kinds
  PROVE  LET one == [c \in Charged |-> IF c \in kind THEN 1 ELSE 0]
         IN  one \in [Charged -> Nat] /\ one["total"] = 1 /\ Five(one) <= 1
<1> DEFINE one == [c \in Charged |-> IF c \in kind THEN 1 ELSE 0]
<1>1. PICK c \in Charged : kind = {"total", c}
  BY FlowAssumption
<1> QED
  BY <1>1 DEF Charged, Five

\* One ++ adds one to that counter and leaves the others alone.
LEMMA PlusIs ==
  ASSUME NEW f \in [Charged -> Nat], NEW g \in [Charged -> Nat]
  PROVE  /\ Plus(f, g) \in [Charged -> Nat]
         /\ \A c \in Charged : Plus(f, g)[c] = f[c] + g[c]
         /\ Five(Plus(f, g)) = Five(f) + Five(g)
<1>1. \A c \in Charged : f[c] \in Nat /\ g[c] \in Nat /\ Plus(f, g)[c] = f[c] + g[c]
  BY DEF Plus
<1>2. Plus(f, g) \in [Charged -> Nat]
  BY DEF Plus
<1>3. /\ "trash" \in Charged /\ "no_req" \in Charged /\ "inv" \in Charged
      /\ "inv_sign" \in Charged /\ "success" \in Charged
  BY DEF Charged
<1> QED
  BY <1>1, <1>2, <1>3 DEF Five

-----------------------------------------------------------------------------
(* Type correctness                                                        *)

\* Cleared counters are numbers.
LEMMA ZeroType == Zero \in [Charged -> Nat]
BY DEF Zero

\* The counters start as numbers.
LEMMA InitTypes == Init => TypeOK
<1> SUFFICES ASSUME Init PROVE TypeOK
  OBVIOUS
<1>1. Len(MergeOrder) - 1 = 5 /\ Len(ReportOrder) = 6
  BY OrderFacts
<1>2. local \in [Threads -> [Charged -> Nat]]
  BY ZeroType DEF Init
<1>3. at \in [Threads -> 0..Len(MergeOrder) - 1]
  <2>1. 0 \in 0..Len(MergeOrder) - 1
    BY <1>1
  <2> QED
    BY <2>1 DEF Init
<1>4. pos \in 0..Len(ReportOrder)
  BY <1>1 DEF Init
<1> QED
  BY <1>2, <1>3, <1>4, ZeroType DEF Init, TypeOK

\* Every step keeps the counters numbers.
LEMMA NextTypes ==
  ASSUME TypeOK, [Next]_vars
  PROVE  TypeOK'
<1> USE Types, OrderFacts
<1>1. ASSUME NEW t \in Threads, NEW kind \in Kinds, Count(t, kind) PROVE TypeOK'
  <2> DEFINE one == [c \in Charged |-> IF c \in kind THEN 1 ELSE 0]
  <2>1. one \in [Charged -> Nat]
    BY OneKind
  <2>2. Plus(local[t], one) \in [Charged -> Nat] /\ Plus(seen, one) \in [Charged -> Nat]
    BY <2>1, PlusIs
  <2>3. local' = [local EXCEPT ![t] = Plus(@, one)] /\ seen' = Plus(seen, one)
    BY <1>1 DEF Count
  <2> HIDE DEF one
  <2>4. local' \in [Threads -> [Charged -> Nat]] /\ seen' \in [Charged -> Nat]
    BY <2>2, <2>3
  <2> QED
    BY <1>1, <2>4 DEF Count, TypeOK
<1>2. ASSUME NEW t \in Threads, MergeStep(t) PROVE TypeOK'
  <2>1. global' \in [Charged -> Nat]
    <3> DEFINE c == MergeOrder[at[t] + 1]
    <3>1. global' = [global EXCEPT ![c] = @ + local[t][c]]
      BY <1>2 DEF MergeStep
    <3>2. c \in Charged
      <4>1. at[t] + 1 \in 1..6
        OBVIOUS
      <4> QED
        BY <4>1 DEF Charged
    <3>3. global[c] + local[t][c] \in Nat
      BY <3>2
    <3> HIDE DEF c
    <3> QED
      BY <3>1, <3>2, <3>3
  <2>2. local' \in [Threads -> [Charged -> Nat]]
    BY <1>2, ZeroType DEF MergeStep
  <2>3. at' \in [Threads -> 0..5]
    <3>1. PICK n \in 0..5 : at' = [at EXCEPT ![t] = n]
      BY <1>2 DEF MergeStep
    <3> QED
      BY <3>1
  <2> QED
    BY <1>2, <2>1, <2>2, <2>3 DEF MergeStep, TypeOK
<1>3. ASSUME NEW t \in Threads, WorkerEnds(t) PROVE TypeOK'
  BY <1>3 DEF WorkerEnds, TypeOK
<1>4. ASSUME ReportStep PROVE TypeOK'
  <2>1. PICK c : c = ReportOrder[pos + 1] /\ TakeCounter(c)
    BY <1>4 DEF ReportStep
  <2>2. c \in Charged /\ pos' \in 0..6
    BY <1>4, <2>1 DEF Charged, ReportStep
  <2>3. global' \in [Charged -> Nat] /\ report' \in [Charged -> Nat]
    BY <2>1, <2>2 DEF TakeCounter
  <2> QED
    BY <1>4, <2>2, <2>3 DEF ReportStep, TypeOK
<1>5. ASSUME SendReport PROVE TypeOK'
  BY <1>5, PlusIs, ZeroType DEF SendReport, TypeOK
<1>6. ASSUME StopSignal PROVE TypeOK'
  BY <1>6 DEF StopSignal, TypeOK
<1>7. ASSUME StatsEnds PROVE TypeOK'
  BY <1>7 DEF StatsEnds, TypeOK
<1>8. ASSUME UNCHANGED vars PROVE TypeOK'
  BY <1>8 DEF vars, TypeOK
<1> QED
  BY <1>1, <1>2, <1>3, <1>4, <1>5, <1>6, <1>7, <1>8 DEF Next, AllEnded

-----------------------------------------------------------------------------
(* The steps                                                               *)

\* Before a merge, and after its end, everything the thread has counted is left.
LEMMA LeftAtRest ==
  ASSUME TypeOK, NEW t \in Threads, at[t] = 0
  PROVE  \A c \in Charged : Left(t, c) = local[t][c]
BY DEF Left

\* The request callback adds to its own thread only, and to seen.
LEMMA CountStep ==
  ASSUME FlowInv, NEW t \in Threads, NEW kind \in Kinds, Count(t, kind)
  PROVE  Counted' /\ Cleared' /\ Together' /\ Ahead'
<1> DEFINE one == [c \in Charged |-> IF c \in kind THEN 1 ELSE 0]
<1>1. TypeOK /\ TypeOK'
  BY NextTypes DEF FlowInv, Next
<1>2. one \in [Charged -> Nat] /\ one["total"] = 1 /\ Five(one) <= 1 /\ Five(one) \in Nat
  BY OneKind, FiveType
<1>3. /\ at[t] = 0 /\ at'[t] = 0
      /\ local' = [local EXCEPT ![t] = Plus(@, one)]
      /\ seen' = Plus(seen, one)
      /\ UNCHANGED <<at, global, pos, report, posted, dropped>>
  BY DEF Count
<1> HIDE DEF one
<1>4. /\ local'[t] = Plus(local[t], one)
      /\ \A u \in Threads \ {t} : local'[u] = local[u]
  BY <1>1, <1>3, Types
<1>5. local[t] \in [Charged -> Nat] /\ seen \in [Charged -> Nat]
  BY <1>1, Types
<1>6. Counted'
  <2> SUFFICES ASSUME NEW c \in Charged
               PROVE  seen'[c] = SumFunction(LeftOf(c)') + Merged'[c]
    BY DEF Counted
  <2>1. /\ LeftOf(c) \in [Threads -> Nat] /\ LeftOf(c)' \in [Threads -> Nat]
        /\ Merged[c] \in Nat /\ Merged'[c] = Merged[c]
    BY <1>1, <1>3, LeftType, LeftTypeNext DEF LeftTyped, Merged, Taken
  <2>2. LeftOf(c)[t] = local[t][c] /\ LeftOf(c)'[t] = local[t][c] + one[c]
    BY <1>1, <1>2, <1>3, <1>4, <1>5, LeftAtRest, PlusIs DEF LeftOf, Left
  <2>3. \A u \in Threads \ {t} : LeftOf(c)[u] = LeftOf(c)'[u]
    BY <1>3, <1>4 DEF LeftOf, Left
  <2>4. SumFunction(LeftOf(c)) + LeftOf(c)'[t] = SumFunction(LeftOf(c)') + LeftOf(c)[t]
    BY <2>1, <2>3, SumChange, FlowAssumption
  <2>5. SumFunction(LeftOf(c)) \in Nat /\ SumFunction(LeftOf(c)') \in Nat
    BY <2>1, SumType, FlowAssumption
  <2>6. seen[c] = SumFunction(LeftOf(c)) + Merged[c] /\ seen'[c] = seen[c] + one[c]
    BY <1>2, <1>3, <1>5, PlusIs DEF FlowInv, Counted
  <2>7. local[t][c] \in Nat /\ one[c] \in Nat
    BY <1>2, <1>5
  <2> QED
    BY <2>1, <2>2, <2>4, <2>5, <2>6, <2>7
<1>7. Cleared'
  BY <1>3 DEF FlowInv, Cleared
<1>8. Together'
  <2>1. local[t]["total"] >= Five(local[t])
    BY DEF FlowInv, Together
  <2>2. Five(local'[t]) = Five(local[t]) + Five(one) /\ local'[t]["total"] = local[t]["total"] + 1
    BY <1>2, <1>4, <1>5, PlusIs DEF Charged
  <2>3. Five(local[t]) \in Nat /\ local[t]["total"] \in Nat
    BY <1>5, FiveType DEF Charged
  <2>4. local'[t]["total"] >= Five(local'[t])
    BY <1>2, <2>1, <2>2, <2>3
  <2> QED
    BY <1>4, <2>4 DEF FlowInv, Together
<1>9. Ahead'
  <2>1. PendingOf' = PendingOf
    <3>1. \A u \in Threads : Pending(u)' = Pending(u)
      BY <1>3, <1>4 DEF Pending, Left
    <3> QED
      BY <3>1 DEF PendingOf
  <2>2. Merged' = Merged
    BY <1>3 DEF Merged, Taken
  <2> QED
    BY <2>1, <2>2 DEF FlowInv, Ahead
<1> QED
  BY <1>6, <1>7, <1>8, <1>9

\* One += of merge_counters: what the thread has left of that counter is zero
\* afterwards, nothing else of it changes, and GlobalCounters has it.
LEMMA MergeMoves ==
  ASSUME TypeOK, TypeOK', NEW t \in Threads, MergeStep(t)
  PROVE  \E k \in Charged :
           /\ k = "total" <=> at[t] = 0
           /\ Left(t, k) = local[t][k] /\ Left(t, k)' = 0
           /\ \A d \in Charged \ {k} : Left(t, d)' = Left(t, d)
           /\ \A u \in Threads \ {t}, d \in Charged : Left(u, d)' = Left(u, d)
           /\ Merged'[k] = Merged[k] + local[t][k]
           /\ \A d \in Charged \ {k} : Merged'[d] = Merged[d]
<1>1. at[t] \in 0..5 /\ at[t] + 1 \in 1..6
  BY Types
<1>0. PICK k \in Charged : k = MergeOrder[at[t] + 1]
  BY <1>1, OrderFacts DEF Charged
<1>2. k \in Charged /\ (k = "total" <=> at[t] = 0)
  BY <1>0, <1>1, OrderFacts DEF Charged
<1>3. \A i \in 1..6 : MergeOrder[i] = k <=> i = at[t] + 1
  BY <1>0, <1>1, OrderFacts
<1>4. Left(t, k) = local[t][k]
  BY <1>1, <1>3 DEF Left
<1>5. \A d \in Charged : \E i \in 1..6 : MergeOrder[i] = d
  BY OrderFacts DEF Charged
<1>6. \A u \in Threads \ {t} : at'[u] = at[u] /\ local'[u] = local[u]
  BY Types DEF MergeStep
<1>7. \A u \in Threads \ {t}, d \in Charged : Left(u, d)' = Left(u, d)
  BY <1>6 DEF Left
<1>8. Left(t, k)' = 0 /\ \A d \in Charged \ {k} : Left(t, d)' = Left(t, d)
  <2>1. CASE at[t] < 5
    <3>1. at'[t] = at[t] + 1 /\ local' = local
      BY <1>1, <2>1, Types, OrderFacts DEF MergeStep
    <3> QED
      BY <1>1, <1>2, <1>3, <3>1 DEF Left
  <2>2. CASE at[t] = 5
    <3>1. at'[t] = 0 /\ local'[t] = Zero
      BY <1>1, <2>2, Types, OrderFacts DEF MergeStep
    <3>2. \A d \in Charged : Left(t, d)' = 0
      BY <3>1 DEF Left, Zero
    <3>3. \A d \in Charged \ {k} : Left(t, d) = 0
      <4> SUFFICES ASSUME NEW d \in Charged \ {k} PROVE Left(t, d) = 0
        OBVIOUS
      <4>1. PICK i \in 1..6 : MergeOrder[i] = d
        BY <1>5
      <4>2. i \in 1..5
        BY <1>3, <2>2, <4>1
      <4> QED
        BY <2>2, <4>1, <4>2 DEF Left
    <3> QED
      BY <1>2, <3>2, <3>3
  <2> QED
    BY <1>1, <2>1, <2>2
<1>9. Merged'[k] = Merged[k] + local[t][k] /\ \A d \in Charged \ {k} : Merged'[d] = Merged[d]
  <2>1. global' = [global EXCEPT ![k] = @ + local[t][k]] /\ UNCHANGED <<report, posted, dropped>>
    BY <1>0 DEF MergeStep
  <2>2. \A d \in Charged : /\ global[d] \in Nat /\ report[d] \in Nat /\ posted[d] \in Nat
                           /\ dropped[d] \in Nat /\ local[t][d] \in Nat
    BY Types
  <2>3. global'[k] = global[k] + local[t][k] /\ \A d \in Charged \ {k} : global'[d] = global[d]
    BY <1>2, <2>1, Types
  <2> QED
    BY <1>2, <2>1, <2>2, <2>3 DEF Merged, Taken
<1> QED
  BY <1>2, <1>4, <1>7, <1>8, <1>9

\* merge_counters keeps the invariant, wherever its loop has got to.
LEMMA MergeKeeps ==
  ASSUME FlowInv, NEW t \in Threads, MergeStep(t)
  PROVE  Counted' /\ Cleared' /\ Together' /\ Ahead'
<1>1. TypeOK /\ TypeOK'
  BY NextTypes DEF FlowInv, Next
<1>2. PICK k \in Charged :
      /\ k = "total" <=> at[t] = 0
      /\ Left(t, k) = local[t][k] /\ Left(t, k)' = 0
      /\ \A d \in Charged \ {k} : Left(t, d)' = Left(t, d)
      /\ \A u \in Threads \ {t}, d \in Charged : Left(u, d)' = Left(u, d)
      /\ Merged'[k] = Merged[k] + local[t][k]
      /\ \A d \in Charged \ {k} : Merged'[d] = Merged[d]
  BY <1>1, MergeMoves
<1>3. UNCHANGED <<pos, report, seen>>
  BY DEF MergeStep
<1>4. local[t] \in [Charged -> Nat] /\ local[t][k] \in Nat /\ Merged[k] \in Nat
  BY <1>1, <1>2, Types, LeftType, LeftTypeNext DEF LeftTyped
<1>5. Counted'
  <2> SUFFICES ASSUME NEW c \in Charged
               PROVE  seen'[c] = SumFunction(LeftOf(c)') + Merged'[c]
    BY DEF Counted
  <2>1. /\ LeftOf(c) \in [Threads -> Nat] /\ LeftOf(c)' \in [Threads -> Nat]
        /\ Merged[c] \in Nat
        /\ seen[c] = SumFunction(LeftOf(c)) + Merged[c]
    BY <1>1, LeftType, LeftTypeNext DEF LeftTyped, FlowInv, Counted
  <2>2. \A u \in Threads \ {t} : LeftOf(c)[u] = LeftOf(c)'[u]
    BY <1>2 DEF LeftOf
  <2>3. SumFunction(LeftOf(c)) + LeftOf(c)'[t] = SumFunction(LeftOf(c)') + LeftOf(c)[t]
    BY <2>1, <2>2, SumChange, FlowAssumption
  <2>4. SumFunction(LeftOf(c)) \in Nat /\ SumFunction(LeftOf(c)') \in Nat
    BY <2>1, SumType, FlowAssumption
  <2>5. LeftOf(c)[t] = Left(t, c) /\ LeftOf(c)'[t] = Left(t, c)'
    BY DEF LeftOf
  <2>6. Left(t, c) \in Nat /\ Left(t, c)' \in Nat
    BY <1>1, LeftType, LeftTypeNext DEF LeftTyped
  <2>7. CASE c = k
    BY <1>2, <1>3, <1>4, <2>1, <2>3, <2>4, <2>5, <2>7
  <2>8. CASE c # k
    BY <1>2, <1>3, <2>1, <2>3, <2>4, <2>5, <2>6, <2>8
  <2> QED
    BY <2>7, <2>8
<1>6. Cleared'
  BY <1>3 DEF FlowInv, Cleared
<1>7. Together'
  <2>1. local'[t] = local[t] \/ local'[t] = Zero
    BY <1>1, Types DEF MergeStep
  <2>2. \A u \in Threads \ {t} : local'[u] = local[u]
    BY <1>1, Types DEF MergeStep
  <2>3. Zero["total"] >= Five(Zero)
    BY DEF Zero, Five, Charged
  <2> QED
    BY <2>1, <2>2, <2>3 DEF FlowInv, Together
<1>8. Ahead'
  <2>1. PendingOf \in [Threads -> Nat] /\ PendingOf' \in [Threads -> Nat]
    BY <1>1, LeftType, LeftTypeNext DEF LeftTyped
  <2>2. \A u \in Threads \ {t} : PendingOf[u] = PendingOf'[u]
    <3> SUFFICES ASSUME NEW u \in Threads \ {t} PROVE Pending(u) = Pending(u)'
      BY DEF PendingOf
    <3>1. at'[u] = at[u]
      BY <1>1, Types DEF MergeStep
    <3>2. [c \in Charged |-> Left(u, c)] = [c \in Charged |-> Left(u, c)']
      BY <1>2
    <3> QED
      BY <3>1, <3>2 DEF Pending
  <2>3. SumFunction(PendingOf) + PendingOf'[t] = SumFunction(PendingOf') + PendingOf[t]
    BY <2>1, <2>2, SumChange, FlowAssumption
  <2>4. SumFunction(PendingOf) \in Nat /\ SumFunction(PendingOf') \in Nat
    BY <2>1, SumType, FlowAssumption
  <2>5. PendingOf[t] = Pending(t) /\ PendingOf'[t] = Pending(t)' /\ Pending(t) \in Nat /\ Pending(t)' \in Nat
    BY <1>1, LeftType, LeftTypeNext DEF LeftTyped, PendingOf
  <2>6. Merged \in [Charged -> Nat] /\ Merged' \in [Charged -> Nat]
    BY <1>1, LeftType, LeftTypeNext DEF LeftTyped
  <2>7. /\ Five(Merged) \in Nat /\ Five(Merged') \in Nat
        /\ Merged["total"] \in Nat /\ Merged'["total"] \in Nat
    BY <2>6, FiveType DEF Charged
  <2>8. Merged["total"] >= Five(Merged) + SumFunction(PendingOf)
    BY DEF FlowInv, Ahead
  <2>9. Five(Merged) + (IF k = "total" THEN 0 ELSE Merged'[k])
          = Five(Merged') + (IF k = "total" THEN 0 ELSE Merged[k])
    BY <1>2, <2>6, FiveChange
  <2> DEFINE L == [c \in Charged |-> Left(t, c)]
             M == [c \in Charged |-> Left(t, c)']
  <2>10. L \in [Charged -> Nat] /\ M \in [Charged -> Nat] /\ \A d \in Charged \ {k} : L[d] = M[d]
    BY <1>1, <1>2, LeftType, LeftTypeNext DEF LeftTyped
  <2>11. Five(L) \in Nat /\ Five(M) \in Nat
    BY <2>10, FiveType
  <2>12. Pending(t) = (IF at[t] = 0 THEN 0 ELSE Five(L)) /\ Pending(t)' = (IF at'[t] = 0 THEN 0 ELSE Five(M))
    BY DEF Pending
  <2>13. Five(L) + (IF k = "total" THEN 0 ELSE M[k]) = Five(M) + (IF k = "total" THEN 0 ELSE L[k])
    BY <1>2, <2>10, FiveChange
  <2>14. L[k] = local[t][k] /\ M[k] = 0
    BY <1>2
  <2>15. CASE at[t] = 0
    <3>1. k = "total" /\ Pending(t) = 0
      BY <1>2, <2>12, <2>15
    <3>2. Five(Merged') = Five(Merged) /\ Five(L) = Five(M)
      BY <2>7, <2>9, <2>11, <2>13, <3>1
    <3>3. L = local[t]
      BY <1>1, <1>4, <2>15, LeftAtRest
    <3>4. local[t]["total"] >= Five(L)
      BY <3>3 DEF FlowInv, Together
    <3>5. Merged'["total"] = Merged["total"] + local[t]["total"] /\ local[t]["total"] \in Nat
      BY <1>2, <1>4, <3>1
    <3>6. Pending(t)' <= Five(M)
      BY <2>11, <2>12
    <3> HIDE DEF L, M
    <3>7. Merged'["total"] >= Five(Merged') + SumFunction(PendingOf')
      BY <2>3, <2>4, <2>5, <2>7, <2>8, <2>11, <3>1, <3>2, <3>4, <3>5, <3>6
    <3> QED
      BY <3>7 DEF Ahead
  <2>16. CASE at[t] # 0
    <3>1. k # "total" /\ Pending(t) = Five(L)
      BY <1>2, <2>12, <2>16
    <3>2. Merged'["total"] = Merged["total"]
      BY <1>2, <3>1 DEF Charged
    <3>3. Pending(t)' <= Five(M)
      BY <2>11, <2>12
    <3>4. Five(Merged') = Five(Merged) + local[t][k]
      BY <1>2, <1>4, <2>7, <2>9, <3>1
    <3>5. Five(L) = Five(M) + local[t][k]
      BY <1>4, <2>11, <2>13, <2>14, <3>1
    <3> HIDE DEF L, M
    <3>6. Merged'["total"] >= Five(Merged') + SumFunction(PendingOf')
      BY <1>4, <2>3, <2>4, <2>5, <2>7, <2>8, <2>11, <3>1, <3>2, <3>3, <3>4, <3>5
    <3> QED
      BY <3>6 DEF Ahead
  <2> QED
    BY <2>15, <2>16
<1> QED
  BY <1>5, <1>6, <1>7, <1>8

\* The steps of the other actions leave what the threads have left, and what has
\* left them, as it is.
LEMMA OthersKeep ==
  ASSUME FlowInv, UNCHANGED <<local, at, seen>>, Merged' = Merged, Cleared'
  PROVE  Counted' /\ Cleared' /\ Together' /\ Ahead'
<1>1. \A t \in Threads, c \in Charged : Left(t, c)' = Left(t, c)
  BY DEF Left
<1>2. \A c \in Charged : LeftOf(c)' = LeftOf(c)
  BY <1>1 DEF LeftOf
<1>3. PendingOf' = PendingOf
  <2>1. \A t \in Threads : Pending(t)' = Pending(t)
    BY <1>1 DEF Pending
  <2> QED
    BY <2>1 DEF PendingOf
<1> QED
  BY <1>2, <1>3 DEF FlowInv, Counted, Together, Ahead

\* An exchange moves a counter from GlobalCounters to the report; the report held
\* nothing of it.
LEMMA ReportKeeps ==
  ASSUME FlowInv, ReportStep
  PROVE  Counted' /\ Cleared' /\ Together' /\ Ahead'
<1> DEFINE c == ReportOrder[pos + 1]
<1>1. TypeOK /\ TypeOK'
  BY NextTypes DEF FlowInv, Next
<1>2. /\ pos \in 0..5 /\ pos' = pos + 1
      /\ report' = [report EXCEPT ![c] = global[c]]
      /\ global' = [global EXCEPT ![c] = 0]
      /\ UNCHANGED <<local, at, posted, dropped, seen>>
  BY <1>1, Types, OrderFacts DEF ReportStep, TakeCounter
<1>3. c \in Charged /\ report[c] = 0
  <2>1. pos + 1 \in 1..6 /\ pos + 1 \in pos + 1..Len(ReportOrder)
    BY <1>2, OrderFacts
  <2> QED
    BY <2>1, OrderFacts DEF FlowInv, Cleared, Charged
<1>4. \A i \in 1..6 : ReportOrder[i] = c => i = pos + 1
  BY <1>2, OrderFacts
<1>5. \A i \in 1..6 : ReportOrder[i] \in Charged
  BY OrderFacts DEF Charged
<1> HIDE DEF c
<1>6. /\ report'[c] = global[c] /\ global'[c] = 0
      /\ \A d \in Charged \ {c} : report'[d] = report[d] /\ global'[d] = global[d]
  BY <1>1, <1>2, <1>3, Types
<1>7. Cleared'
  <2> SUFFICES ASSUME NEW i \in pos' + 1..Len(ReportOrder) PROVE report'[ReportOrder[i]] = 0
    BY DEF Cleared
  <2>1. i \in 1..6 /\ i # pos + 1 /\ i \in pos + 1..Len(ReportOrder)
    BY <1>2, OrderFacts
  <2>2. ReportOrder[i] \in Charged \ {c}
    BY <1>4, <1>5, <2>1
  <2>3. report[ReportOrder[i]] = 0
    BY <2>1 DEF FlowInv, Cleared
  <2> QED
    BY <1>6, <2>2, <2>3
<1>8. Merged' = Merged
  <2>1. \A d \in Charged : /\ global[d] \in Nat /\ report[d] \in Nat
                           /\ posted[d] \in Nat /\ dropped[d] \in Nat
    BY <1>1, Types
  <2>2. \A d \in Charged : global'[d] + report'[d] = global[d] + report[d]
    BY <1>3, <1>6, <2>1
  <2>3. \A d \in Charged : global'[d] \in Nat /\ report'[d] \in Nat
    BY <1>1, TypesNext
  <2>4. ASSUME NEW d \in Charged
        PROVE  global'[d] + (report'[d] + posted[d] + dropped[d]) = global[d] + (report[d] + posted[d] + dropped[d])
    BY <2>1, <2>2, <2>3
  <2> QED
    BY <1>2, <2>4 DEF Merged, Taken
<1> QED
  BY <1>2, <1>7, <1>8, OthersKeep

\* post() takes the report or it is gone.
LEMMA SendKeeps ==
  ASSUME FlowInv, SendReport
  PROVE  Counted' /\ Cleared' /\ Together' /\ Ahead'
<1>1. TypeOK /\ TypeOK'
  BY NextTypes DEF FlowInv, Next
<1>2. /\ \A d \in Charged : /\ global[d] \in Nat /\ report[d] \in Nat
                            /\ posted[d] \in Nat /\ dropped[d] \in Nat
      /\ report \in [Charged -> Nat] /\ posted \in [Charged -> Nat] /\ dropped \in [Charged -> Nat]
  BY <1>1, Types
<1>3. /\ report' = Zero /\ UNCHANGED <<local, at, global, seen>>
      /\ \/ posted' = Plus(posted, report) /\ dropped' = dropped
         \/ dropped' = Plus(dropped, report) /\ posted' = posted
  BY DEF SendReport
<1>4. ASSUME NEW d \in Charged PROVE Taken(d)' = Taken(d)
  <2>1. report'[d] = 0
    BY <1>3 DEF Zero
  <2> QED
    BY <1>2, <1>3, <2>1, PlusIs DEF Taken
<1>5. Merged' = Merged
  BY <1>3, <1>4 DEF Merged
<1>6. Cleared'
  <2>1. \A i \in 1..6 : ReportOrder[i] \in Charged
    BY OrderFacts DEF Charged
  <2>2. pos' = 0
    BY DEF SendReport
  <2> QED
    BY <1>3, <2>1, <2>2, OrderFacts DEF Cleared, Zero
<1> QED
  BY <1>3, <1>5, <1>6, OthersKeep

-----------------------------------------------------------------------------
(* The theorems                                                            *)

\* The invariant holds at the start.
LEMMA InitFlow == Init => FlowInv
<1> SUFFICES ASSUME Init PROVE FlowInv
  OBVIOUS
<1>1. TypeOK
  BY InitTypes
<1>2. \A c \in Charged : Merged[c] = 0
  BY DEF Init, Merged, Taken, Zero
<1>3. Counted
  <2> SUFFICES ASSUME NEW c \in Charged
               PROVE  seen[c] = SumFunction(LeftOf(c)) + Merged[c]
    BY DEF Counted
  <2>1. LeftOf(c) \in [Threads -> Nat] /\ \A t \in Threads : LeftOf(c)[t] = 0
    BY <1>1, LeftType DEF LeftTyped, LeftOf, Left, Init, Zero
  <2>2. SumFunction(LeftOf(c)) = 0
    BY <2>1, SumZero, FlowAssumption
  <2> QED
    BY <1>2, <2>2 DEF Init, Zero
<1>4. Cleared
  <2>1. \A i \in 1..6 : ReportOrder[i] \in Charged
    BY OrderFacts DEF Charged
  <2> QED
    BY <2>1, OrderFacts DEF Cleared, Init, Zero
<1>5. Zero["total"] = 0 /\ Five(Zero) = 0
  BY DEF Zero, Five, Charged
<1>6. Together
  BY <1>5 DEF Together, Init
<1>7. Ahead
  <2>1. PendingOf \in [Threads -> Nat] /\ \A t \in Threads : PendingOf[t] = 0
    BY <1>1, LeftType DEF LeftTyped, PendingOf, Pending, Init
  <2>2. SumFunction(PendingOf) = 0
    BY <2>1, SumZero, FlowAssumption
  <2>3. Merged["total"] = 0 /\ Five(Merged) = 0
    BY <1>2 DEF Five, Charged
  <2> QED
    BY <2>2, <2>3 DEF Ahead
<1> QED
  BY <1>1, <1>3, <1>4, <1>6, <1>7 DEF FlowInv

\* Every step keeps the invariant.
LEMMA NextFlow ==
  ASSUME FlowInv, [Next]_vars
  PROVE  FlowInv'
<1>1. TypeOK'
  BY NextTypes DEF FlowInv
<1>2. ASSUME UNCHANGED <<local, at, global, pos, report, posted, dropped, seen>>
      PROVE  Counted' /\ Cleared' /\ Together' /\ Ahead'
  <2>1. Merged' = Merged
    BY <1>2 DEF Merged, Taken
  <2>2. Cleared'
    BY <1>2 DEF FlowInv, Cleared
  <2> QED
    BY <1>2, <2>1, <2>2, OthersKeep
<1>3. ASSUME NEW t \in Threads, WorkerEnds(t) PROVE Counted' /\ Cleared' /\ Together' /\ Ahead'
  BY <1>2, <1>3 DEF WorkerEnds
<1>4. ASSUME StopSignal \/ StatsEnds \/ UNCHANGED vars
      PROVE  Counted' /\ Cleared' /\ Together' /\ Ahead'
  BY <1>2, <1>4 DEF StopSignal, StatsEnds, vars
<1> QED
  BY <1>1, <1>3, <1>4, CountStep, MergeKeeps, ReportKeeps, SendKeeps DEF FlowInv, Next, AllEnded

\* The inductive invariant behind the two theorems below.
THEOREM FlowInvariant == Spec => []FlowInv
<1>1. Init => FlowInv
  BY InitFlow
<1>2. FlowInv /\ [Next]_vars => FlowInv'
  BY NextFlow
<1> QED
  BY <1>1, <1>2, PTL DEF Spec

\* However the += of the workers and the exchanges of Stats fall, every count is
\* in exactly one of a thread, GlobalCounters or a report.
THEOREM CountsAreNeverLost == Spec => []NothingLost
<1>1. FlowInv => NothingLost
  <2> SUFFICES ASSUME FlowInv, NEW c \in Charged
               PROVE  seen[c] = SumFunction([t \in Threads |-> Left(t, c)]) + global[c] + Taken(c)
    BY DEF FlowInv, NothingLost
  <2>1. SumFunction(LeftOf(c)) \in Nat /\ global[c] \in Nat /\ Taken(c) \in Nat
    BY LeftType, Types, SumType, FlowAssumption DEF LeftTyped, FlowInv
  <2>2. seen[c] = SumFunction(LeftOf(c)) + (global[c] + Taken(c))
    BY DEF FlowInv, Counted, Merged
  <2> QED
    BY <2>1, <2>2 DEF LeftOf
<1> QED
  BY <1>1, FlowInvariant, PTL

\* In GlobalCounters and the reports together, total is never behind the sum of
\* the other counters.
THEOREM TotalIsAhead == Spec => []TotalLeads
<1>1. FlowInv => TotalLeads
  <2> SUFFICES ASSUME FlowInv PROVE TotalLeads
    OBVIOUS
  <2> DEFINE f == [c \in Charged \ {"total"} |-> global[c] + Taken(c)]
  <2>1. Merged \in [Charged -> Nat] /\ PendingOf \in [Threads -> Nat]
    BY LeftType DEF LeftTyped, FlowInv
  <2>2. f \in [Charged \ {"total"} -> Nat]
    BY LeftType, Types DEF LeftTyped, FlowInv
  <2>3. SumFunction(f) = Five(f)
    BY <2>2, KindsAddUp
  <2>4. Five(f) = Five(Merged)
    BY DEF Five, Merged, Charged
  <2>5. Five(Merged) \in Nat /\ SumFunction(PendingOf) \in Nat /\ Merged["total"] \in Nat
    BY <2>1, FiveType, SumType, FlowAssumption DEF Charged
  <2>6. Merged["total"] >= Five(Merged) + SumFunction(PendingOf)
    BY DEF FlowInv, Ahead
  <2>7. Merged["total"] = global["total"] + Taken("total")
    BY DEF Merged, Charged
  <2>8. Merged["total"] >= SumFunction(f)
    BY <2>3, <2>4, <2>5, <2>6
  <2> QED
    BY <2>7, <2>8 DEF TotalLeads
<1> QED
  BY <1>1, FlowInvariant, PTL

=============================================================================
