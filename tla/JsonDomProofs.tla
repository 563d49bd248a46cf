--------------------------- MODULE JsonDomProofs ---------------------------
(***************************************************************************)
(* Proofs about the values of a document (JsonDom, the unit "dom" of       *)
(* JsonMemory), for any number of values, blocks and elements: every block *)
(* has one owner, a value of the client, a cell of another block or the    *)
(* call that is moving it, and hangs below it without a cycle (Owning).    *)
(* A call is made of a few moves that keep this: cells come, go and are    *)
(* rearranged (Rearranged), move to a wider block (ReserveIs) or are       *)
(* copied (CopyKeeps), blocks are given back (Destroyed).                  *)
(*                                                                         *)
(* First, what all proofs about JsonParts use: induction over the numbers, *)
(* which the library states with an operator P(_) as induction predicate,  *)
(* with a set P of numbers, from the well-foundedness of <.                *)
(***************************************************************************)
EXTENDS JsonMemory, Integers, Sequences, WellFoundedInduction, TLAPS

-----------------------------------------------------------------------------
(* Induction                                                               *)

\* Every non-empty set of numbers has a least element.
LEMMA LeastNumber ==
  ASSUME NEW T \in SUBSET Nat, T # {}
  PROVE  \E low \in T : \A y \in T : low <= y
<1> DEFINE R == {ss \in Nat \X Nat : ss[1] < ss[2]}
<1>1. IsWellFoundedOn(R, Nat)
  BY NatLessThanWellFounded DEF OpToRel
<1>2. PICK low \in T : \A y \in T : ~(<<y, low>> \in R)
  <2> HIDE DEF R
  <2> QED
    BY <1>1, WFMin
<1>3. ASSUME NEW y \in T PROVE low <= y
  <2>1. <<y, low>> \in Nat \X Nat /\ <<y, low>> \notin R
    BY <1>2
  <2>2. ~(y < low)
    BY <2>1
  <2> QED
    BY <2>2
<1> QED
  BY <1>3

\* Induction over the numbers: a set with 0 that is closed under adding 1 is Nat.
LEMMA CountUp ==
  ASSUME NEW P \in SUBSET Nat, 0 \in P, \A n \in P : n + 1 \in P
  PROVE  P = Nat
<1> SUFFICES ASSUME P # Nat PROVE FALSE
  OBVIOUS
<1>1. PICK n \in Nat \ P : \A k \in Nat \ P : n <= k
  BY LeastNumber
<1>2. n - 1 \in P
  BY <1>1
<1> QED
  BY <1>2

\* g[k] is what k steps F make of s.
Iterates(F, s, n, g) == g = [k \in 0..n |-> IF k = 0 THEN s ELSE F[g[k - 1]]]

\* A step that is taken over and over gives a function of the number of steps.
LEMMA Iterated ==
  ASSUME NEW S, NEW F \in [S -> S], NEW s \in S, NEW n \in Nat
  PROVE  \E g \in [0..n -> S] : Iterates(F, s, n, g)
<1> DEFINE Is(g, m) == g = [k \in 0..m |-> IF k = 0 THEN s ELSE F[g[k - 1]]]
           P == {m \in Nat : \E g \in [0..m -> S] : Is(g, m)}
<1>1. 0 \in P
  <2> DEFINE g == [k \in 0..0 |-> s]
  <2>1. g \in [0..0 -> S] /\ Is(g, 0)
    OBVIOUS
  <2> QED
    BY <2>1
<1>2. ASSUME NEW m \in P PROVE m + 1 \in P
  <2>1. PICK g \in [0..m -> S] : Is(g, m)
    OBVIOUS
  <2> DEFINE h == [k \in 0..m + 1 |-> IF k = 0 THEN s ELSE F[g[k - 1]]]
  <2>2. h \in [0..m + 1 -> S]
    <3>1. ASSUME NEW k \in 0..m + 1, k # 0 PROVE k - 1 \in 0..m
      BY <3>1
    <3> QED
      BY <3>1
  <2>3. \A k \in 0..m : h[k] = g[k]
    <3>1. \A k \in 0..m : g[k] = IF k = 0 THEN s ELSE F[g[k - 1]]
      BY <2>1
    <3> QED
      BY <3>1
  <2>4. Is(h, m + 1)
    <3> SUFFICES ASSUME NEW k \in 0..m + 1
                 PROVE  h[k] = IF k = 0 THEN s ELSE F[h[k - 1]]
      OBVIOUS
    <3>1. k # 0 => k - 1 \in 0..m
      OBVIOUS
    <3> QED
      BY <2>3, <3>1
  <2> HIDE DEF Is, h
  <2>5. \E f \in [0..m + 1 -> S] : Is(f, m + 1)
    BY <2>2, <2>4
  <2>6. m + 1 \in Nat
    OBVIOUS
  <2> QED
    BY <2>5, <2>6
<1>3. P = Nat
  <2> HIDE DEF P
  <2>1. P \in SUBSET Nat
    BY DEF P
  <2> QED
    BY <1>1, <1>2, <2>1, CountUp
<1> QED
  BY <1>3 DEF Iterates

\* Induction up to n.
LEMMA CountTo ==
  ASSUME NEW n \in Nat, NEW P, 0 \in P, \A k \in 0..n : k < n /\ k \in P => k + 1 \in P
  PROVE  \A k \in 0..n : k \in P
<1> DEFINE Q == {k \in Nat : k <= n => k \in P}
<1>1. 0 \in Q
  OBVIOUS
<1>2. ASSUME NEW k \in Q PROVE k + 1 \in Q
  OBVIOUS
<1>3. Q = Nat
  <2> HIDE DEF Q
  <2>1. Q \in SUBSET Nat
    BY DEF Q
  <2> QED
    BY <1>1, <1>2, <2>1, CountUp
<1> QED
  BY <1>3

\* g[k] is the state after k turns that begin with s; turn B knows how many were made before it.
Loops(B, s, n, g) == g = [k \in 0..n |-> IF k = 0 THEN s ELSE B[<<k - 1, g[k - 1]>>]]

\* A loop of n turns that begins with s exists as a recursive function of the turn, if its turns
\* B stay in J, a set of pairs of the number of turns made and a state.
LEMMA Looped ==
  ASSUME NEW J, NEW B, NEW s, NEW n \in Nat, << 0, s >> \in J,
         \A k \in Nat : \A t : <<k, t>> \in J => <<k + 1, B[<<k, t>>]>> \in J,
         \A p \in J : \E k \in Nat : \E t : p = <<k, t>>
  PROVE  \E g : Loops(B, s, n, g) /\ \A k \in 0..n : <<k, g[k]>> \in J
<1> DEFINE F == [p \in J |-> <<p[1] + 1, B[p]>>]
           first == << 0, s >>
<1>1. F \in [J -> J]
  <2> SUFFICES ASSUME NEW p \in J PROVE <<p[1] + 1, B[p]>> \in J
    OBVIOUS
  <2>1. PICK k \in Nat : \E t : p = <<k, t>>
    OBVIOUS
  <2>2. PICK t : p = <<k, t>>
    BY <2>1
  <2>3. p[1] = k
    BY <2>2
  <2> QED
    BY <2>2, <2>3
<1>2. PICK f \in [0..n -> J] : f = [k \in 0..n |-> IF k = 0 THEN first ELSE F[f[k - 1]]]
  <2> HIDE DEF F, first
  <2>1. first \in J
    BY DEF first
  <2>2. \E f \in [0..n -> J] : Iterates(F, first, n, f)
    BY ONLY <1>1, <2>1, n \in Nat, Iterated
  <2> QED
    BY ONLY <2>2 DEF Iterates
<1> DEFINE g == [k \in 0..n |-> f[k][2]]
           P == {k \in 0..n : f[k] = <<k, g[k]>>}
<1> HIDE DEF F
<1>3. 0 \in P
  BY <1>2
<1>4. ASSUME NEW k \in 0..n, k < n, k \in P PROVE k + 1 \in P
  <2>1. k + 1 \in 0..n /\ k + 1 # 0 /\ (k + 1) - 1 = k
    BY <1>4
  <2>2. f[k + 1] = F[f[(k + 1) - 1]]
    BY <1>2, <2>1
  <2>3. f[k] = <<k, g[k]>> /\ f[k] \in J
    BY <1>2, <1>4
  <2>4. F[f[k]] = <<f[k][1] + 1, B[f[k]]>>
    BY ONLY <2>3 DEF F
  <2>5. f[k + 1] = <<k + 1, B[f[k]]>>
    BY ONLY <2>1, <2>2, <2>3, <2>4
  <2> QED
    BY <2>1, <2>5
<1>5. \A k \in 0..n : f[k] = <<k, g[k]>>
  <2> HIDE DEF P
  <2>1. \A k \in 0..n : k < n /\ k \in P => k + 1 \in P
    BY <1>4
  <2>2. \A k \in 0..n : k \in P
    BY ONLY <1>3, <2>1, n \in Nat, CountTo
  <2> QED
    BY <2>2 DEF P
<1>6. \A k \in 0..n : <<k, g[k]>> \in J
  <2> SUFFICES ASSUME NEW k \in 0..n PROVE <<k, g[k]>> \in J
    OBVIOUS
  <2>1. f[k] \in J
    BY <1>2
  <2> QED
    BY <1>5, <2>1
<1>7. ASSUME NEW k \in 0..n PROVE g[k] = IF k = 0 THEN s ELSE B[<<k - 1, g[k - 1]>>]
  <2>1. CASE k = 0
    BY <1>2, <2>1
  <2>2. CASE k # 0
    <3>1. k - 1 \in 0..n
      BY <2>2
    <3>2. f[k - 1] = <<k - 1, g[k - 1]>> /\ f[k - 1] \in J
      BY <1>2, <1>5, <3>1
    <3>3. f[k] = F[f[k - 1]]
      BY <1>2, <2>2
    <3>4. F[f[k - 1]] = <<(k - 1) + 1, B[f[k - 1]]>>
      BY <3>2 DEF F
    <3>5. g[k] = B[f[k - 1]]
      BY <3>3, <3>4
    <3> QED
      BY <2>2, <3>2, <3>5
  <2> QED
    BY <2>1, <2>2
<1>8. g = [k \in 0..n |-> IF k = 0 THEN s ELSE B[<<k - 1, g[k - 1]>>]]
  <2> DEFINE h == [k \in 0..n |-> IF k = 0 THEN s ELSE B[<<k - 1, g[k - 1]>>]]
  <2>1. \A k \in 0..n : g[k] = h[k]
    BY <1>7
  <2> QED
    BY <2>1
<1> QED
  BY <1>6, <1>8 DEF Loops

-----------------------------------------------------------------------------
(* The values of a document: every block has one owner                    *)

\* Blocks that own blocks: kids[b] are those that b owns, used those in use, tops those that no
\* block owns.  A set that has the kids of its blocks, and the smallest one with those of from in it.
Spreads(kids, S) == \A b \in S : kids[b] \subseteq S
Least(kids, from) ==
  {b \in HeapBlocks : \A S \in SUBSET HeapBlocks : from \subseteq S /\ Spreads(kids, S) => b \in S}

\* Every block in use is a top or has one owner, and hangs below a top: there are no circles.
Forest(kids, used, tops) ==
  /\ used \subseteq HeapBlocks
  /\ kids \in [HeapBlocks -> SUBSET used]
  /\ tops \subseteq used
  /\ \A b \in HeapBlocks : kids[b] \cap tops = {} /\ (b \notin used => kids[b] = {})
  /\ \A b, c \in HeapBlocks : b # c => kids[b] \cap kids[c] = {}
  /\ \A S \in SUBSET HeapBlocks : tops \subseteq S /\ Spreads(kids, S) => used \subseteq S

\* The smallest set that spreads over its kids.
LEMMA LeastIs ==
  ASSUME NEW used \in SUBSET HeapBlocks, NEW kids \in [HeapBlocks -> SUBSET used], NEW from \in SUBSET used
  PROVE  /\ from \subseteq Least(kids, from)
         /\ Least(kids, from) \subseteq used
         /\ Spreads(kids, Least(kids, from))
         /\ \A S \in SUBSET HeapBlocks : from \subseteq S /\ Spreads(kids, S) => Least(kids, from) \subseteq S
<1>1. from \subseteq Least(kids, from)
  BY DEF Least
<1>2. \A S \in SUBSET HeapBlocks : from \subseteq S /\ Spreads(kids, S) => Least(kids, from) \subseteq S
  BY DEF Least
<1>3. Spreads(kids, used)
  BY DEF Spreads
<1>4. Least(kids, from) \subseteq used
  BY <1>2, <1>3
<1>5. ASSUME NEW b \in Least(kids, from), NEW c \in kids[b]
      PROVE  c \in Least(kids, from)
  <2>1. b \in HeapBlocks /\ c \in HeapBlocks
    BY DEF Least
  <2>2. ASSUME NEW S \in SUBSET HeapBlocks, from \subseteq S, Spreads(kids, S)
        PROVE  c \in S
    BY <2>2 DEF Least, Spreads
  <2> QED
    BY <2>1, <2>2 DEF Least
<1>6. Spreads(kids, Least(kids, from))
  BY <1>5 DEF Spreads
<1> QED
  BY <1>1, <1>2, <1>4, <1>6

\* A block that is in the smallest set, and is not one it grew from, has an owner in it.
LEMMA LeastHasOwner ==
  ASSUME NEW used \in SUBSET HeapBlocks, NEW kids \in [HeapBlocks -> SUBSET used], NEW from \in SUBSET used,
         NEW c \in Least(kids, from), c \notin from
  PROVE  \E b \in Least(kids, from) : c \in kids[b]
<1> DEFINE V == Least(kids, from)
<1>1. /\ from \subseteq V /\ V \subseteq used /\ Spreads(kids, V)
      /\ \A S \in SUBSET HeapBlocks : from \subseteq S /\ Spreads(kids, S) => V \subseteq S
  BY LeastIs
<1> SUFFICES ASSUME \A b \in V : c \notin kids[b] PROVE FALSE
  OBVIOUS
<1> HIDE DEF V
<1>2. Spreads(kids, V \ {c})
  BY <1>1 DEF Spreads
<1>3. V \subseteq V \ {c}
  BY <1>1, <1>2
<1> QED
  BY <1>3 DEF V

\* The cells of a top are changed; what they had and have no more is a top, too.
LEMMA ForestRecell ==
  ASSUME NEW kids, NEW used, NEW tops, Forest(kids, used, tops), NEW b \in tops,
         NEW now, now \subseteq kids[b] \cup (tops \ {b})
  PROVE  Forest([kids EXCEPT ![b] = now], used, (tops \cup kids[b]) \ now)
<1> DEFINE new == [kids EXCEPT ![b] = now]
           top == (tops \cup kids[b]) \ now
<1>1. /\ b \in HeapBlocks /\ b \in used /\ b \notin kids[b]
      /\ new \in [HeapBlocks -> SUBSET used] /\ new[b] = now
      /\ \A c \in HeapBlocks : c # b => new[c] = kids[c]
  BY DEF Forest
<1> HIDE DEF new
<1>2. \A c \in HeapBlocks : new[c] \cap top = {} /\ (c \notin used => new[c] = {})
  BY <1>1 DEF Forest
<1>3. \A c, e \in HeapBlocks : c # e => new[c] \cap new[e] = {}
  BY <1>1 DEF Forest
<1>4. ASSUME NEW S \in SUBSET HeapBlocks, top \subseteq S, Spreads(new, S)
      PROVE  used \subseteq S
  <2>1. b \in S
    BY <1>1, <1>4
  <2>2. now \subseteq S
    BY <2>1, <1>1, <1>4 DEF Spreads
  <2>3. tops \subseteq S /\ kids[b] \subseteq S
    BY <2>2, <1>4
  <2>4. Spreads(kids, S)
    BY <2>3, <1>1, <1>4 DEF Spreads
  <2> QED
    BY <2>3, <2>4 DEF Forest
<1>5. used \subseteq HeapBlocks /\ top \subseteq used
  BY DEF Forest
<1>6. Forest(new, used, top)
  BY <1>1, <1>2, <1>3, <1>4, <1>5 DEF Forest
<1> QED
  BY <1>6 DEF new

\* A new block is a top.
LEMMA ForestGrows ==
  ASSUME NEW kids, NEW used, NEW tops, Forest(kids, used, tops), NEW n \in HeapBlocks \ used
  PROVE  Forest(kids, used \cup {n}, tops \cup {n})
<1>1. ASSUME NEW S \in SUBSET HeapBlocks, tops \cup {n} \subseteq S, Spreads(kids, S)
      PROVE  used \cup {n} \subseteq S
  BY <1>1 DEF Forest
<1> QED
  BY <1>1 DEF Forest

\* A new block takes the place of a top.
LEMMA ForestMoves ==
  ASSUME NEW kids, NEW used, NEW tops, Forest(kids, used, tops), NEW n \in HeapBlocks \ used, NEW b \in tops
  PROVE  Forest([kids EXCEPT ![n] = kids[b], ![b] = {}], (used \cup {n}) \ {b}, (tops \cup {n}) \ {b})
<1> DEFINE new == [kids EXCEPT ![n] = kids[b], ![b] = {}]
           now == (used \cup {n}) \ {b}
           top == (tops \cup {n}) \ {b}
<1>1. /\ b \in HeapBlocks /\ b \in used /\ b # n
      /\ new[n] = kids[b] /\ new[b] = {} /\ DOMAIN new = HeapBlocks
      /\ \A c \in HeapBlocks : c # b /\ c # n => new[c] = kids[c]
      /\ new = [c \in HeapBlocks |-> new[c]]
  BY DEF Forest
<1> HIDE DEF new
<1>2. \A c \in HeapBlocks : new[c] \subseteq now
  BY <1>1 DEF Forest
<1>3. \A c \in HeapBlocks : new[c] \cap top = {} /\ (c \notin now => new[c] = {})
  BY <1>1 DEF Forest
<1>4. \A c, e \in HeapBlocks : c # e => new[c] \cap new[e] = {}
  BY <1>1 DEF Forest
<1>5. ASSUME NEW S \in SUBSET HeapBlocks, top \subseteq S, Spreads(new, S)
      PROVE  now \subseteq S
  <2>1. n \in S /\ tops \subseteq S \cup {b} /\ S \cup {b} \in SUBSET HeapBlocks
    BY <1>1, <1>5
  <2>2. ASSUME NEW c \in S \cup {b} PROVE kids[c] \subseteq S \cup {b}
    <3>1. CASE c = b
      BY <3>1, <2>1, <1>1, <1>5 DEF Spreads
    <3>2. CASE c = n
      BY <3>2 DEF Forest
    <3>3. CASE c # b /\ c # n
      <4>1. c \in S /\ new[c] = kids[c]
        BY <2>1, <3>3, <1>1
      <4> QED
        BY <4>1, <1>5 DEF Spreads
    <3> QED
      BY <3>1, <3>2, <3>3
  <2>3. used \subseteq S \cup {b}
    BY <2>1, <2>2 DEF Forest, Spreads
  <2> QED
    BY <2>1, <2>3
<1>6. now \subseteq HeapBlocks /\ top \subseteq now
  BY DEF Forest
<1>7. new \in [HeapBlocks -> SUBSET now]
  BY <1>1, <1>2
<1>8. Forest(new, now, top)
  BY <1>3, <1>4, <1>5, <1>6, <1>7 DEF Forest
<1> QED
  BY <1>8 DEF new

\* Some tops are destroyed, with all below them.
LEMMA ForestShrinks ==
  ASSUME NEW kids, NEW used, NEW tops, Forest(kids, used, tops), NEW from \in SUBSET tops
  PROVE  Forest([b \in HeapBlocks |-> IF b \in Least(kids, from) THEN {} ELSE kids[b]],
                used \ Least(kids, from), tops \ from)
<1> DEFINE gone == Least(kids, from)
           new == [b \in HeapBlocks |-> IF b \in gone THEN {} ELSE kids[b]]
           now == used \ gone
           top == tops \ from
<1>0. used \in SUBSET HeapBlocks /\ kids \in [HeapBlocks -> SUBSET used] /\ from \in SUBSET used
  BY DEF Forest
<1>1. /\ from \subseteq gone /\ gone \subseteq used /\ Spreads(kids, gone)
      /\ \A c \in gone : c \notin from => \E b \in gone : c \in kids[b]
  <2>1. from \subseteq gone /\ gone \subseteq used /\ Spreads(kids, gone)
    BY <1>0, LeastIs
  <2>2. ASSUME NEW c \in gone, c \notin from PROVE \E b \in gone : c \in kids[b]
    BY ONLY <1>0, <2>2, LeastHasOwner
  <2> QED
    BY <2>1, <2>2
<1> HIDE DEF gone
<1>2. ASSUME NEW c \in gone, NEW b \in HeapBlocks, c \in kids[b] PROVE b \in gone
  <2>1. c \notin from
    BY <1>2 DEF Forest
  <2>2. PICK e \in gone : c \in kids[e]
    BY <2>1, <1>1
  <2>3. e \in HeapBlocks
    BY <1>0, <1>1
  <2> QED
    BY <1>2, <2>2, <2>3 DEF Forest
<1>3. top \cap gone = {}
  <2> SUFFICES ASSUME NEW c \in gone, c \in tops, c \notin from PROVE FALSE
    OBVIOUS
  <2>1. PICK e \in gone : c \in kids[e]
    BY <1>1
  <2> QED
    BY <2>1, <1>0, <1>1 DEF Forest
<1>4. new \in [HeapBlocks -> SUBSET now]
  BY <1>0, <1>2
<1>5. \A c \in HeapBlocks : new[c] \cap top = {} /\ (c \notin now => new[c] = {})
  BY DEF Forest
<1>6. \A c, e \in HeapBlocks : c # e => new[c] \cap new[e] = {}
  BY DEF Forest
<1>7. ASSUME NEW S \in SUBSET HeapBlocks, top \subseteq S, Spreads(new, S)
      PROVE  now \subseteq S
  <2>1. tops \subseteq S \cup gone /\ S \cup gone \in SUBSET HeapBlocks
    BY <1>0, <1>1, <1>7
  <2>2. ASSUME NEW b \in S \cup gone PROVE kids[b] \subseteq S \cup gone
    BY <2>1, <1>1, <1>7 DEF Spreads
  <2>3. Spreads(kids, S \cup gone)
    BY <2>2 DEF Spreads
  <2>4. used \subseteq S \cup gone
    BY <2>1, <2>3 DEF Forest
  <2> QED
    BY <2>4
<1>8. now \subseteq HeapBlocks /\ top \subseteq now
  BY <1>0, <1>3 DEF Forest
<1>9. Forest(new, now, top)
  BY <1>4, <1>5, <1>6, <1>7, <1>8 DEF Forest
<1> QED
  BY <1>9 DEF gone

\* What the tops in hand own is looked at no more.
LEMMA ForestCleans ==
  ASSUME NEW kids, NEW used, NEW tops, NEW hand, Forest(kids, used, tops \cup hand), tops \cap hand = {}
  PROVE  Forest([b \in HeapBlocks |-> IF b \in Least(kids, tops) THEN kids[b] ELSE {}],
                used \cap Least(kids, tops), tops)
<1> DEFINE kept == Least(kids, tops)
           new == [b \in HeapBlocks |-> IF b \in kept THEN kids[b] ELSE {}]
           now == used \cap kept
<1>0. used \in SUBSET HeapBlocks /\ kids \in [HeapBlocks -> SUBSET used] /\ tops \in SUBSET used
  BY DEF Forest
<1>1. /\ tops \subseteq kept /\ kept \subseteq used /\ Spreads(kids, kept)
      /\ \A S \in SUBSET HeapBlocks : tops \subseteq S /\ Spreads(kids, S) => kept \subseteq S
  BY <1>0, LeastIs
<1> HIDE DEF kept
<1>2. new \in [HeapBlocks -> SUBSET now]
  BY <1>0, <1>1 DEF Spreads
<1>3. \A c \in HeapBlocks : new[c] \cap tops = {} /\ (c \notin now => new[c] = {})
  BY <1>0, <1>1 DEF Forest
<1>4. \A c, e \in HeapBlocks : c # e => new[c] \cap new[e] = {}
  BY DEF Forest
<1>5. ASSUME NEW S \in SUBSET HeapBlocks, tops \subseteq S, Spreads(new, S)
      PROVE  now \subseteq S
  <2>1. tops \subseteq S \cap kept /\ S \cap kept \in SUBSET HeapBlocks
    BY <1>5, <1>1
  <2>2. Spreads(kids, S \cap kept)
    BY <1>5, <1>1 DEF Spreads
  <2> QED
    BY <2>1, <2>2, <1>1
<1>6. now \subseteq HeapBlocks /\ tops \subseteq now
  BY <1>0, <1>1
<1>7. Forest(new, now, tops)
  BY <1>2, <1>3, <1>4, <1>5, <1>6 DEF Forest
<1> QED
  BY <1>7 DEF new, kept

\* Nothing is outside of what the tops own.
LEMMA ForestIsAll ==
  ASSUME NEW kids, NEW used, NEW tops, Forest(kids, used, tops)
  PROVE  Least(kids, tops) = used
<1>1. used \in SUBSET HeapBlocks /\ kids \in [HeapBlocks -> SUBSET used] /\ tops \in SUBSET used
  BY DEF Forest
<1>2. /\ tops \subseteq Least(kids, tops) /\ Least(kids, tops) \subseteq used /\ Spreads(kids, Least(kids, tops))
  BY <1>1, LeastIs
<1>3. Least(kids, tops) \in SUBSET HeapBlocks
  BY DEF Least
<1> QED
  BY <1>2, <1>3 DEF Forest

\* The copies of the blocks of S.
Images(to, S) == {to[b] : b \in S}

\* Blocks below some tops are copied, each to a new one; the others below them own nothing.
LEMMA ForestCopies ==
  ASSUME NEW kids, NEW used, NEW tops, Forest(kids, used, tops), NEW from \in SUBSET tops,
         NEW copied \in SUBSET Least(kids, from), \A b \in Least(kids, from) \ copied : kids[b] = {},
         NEW to \in [copied -> HeapBlocks \ used], \A b, c \in copied : to[b] = to[c] => b = c,
         NEW new \in [HeapBlocks -> SUBSET HeapBlocks],
         \A b \in HeapBlocks : (\A c \in copied : to[c] # b) => new[b] = kids[b],
         \A b \in copied : new[to[b]] = Images(to, kids[b] \cap copied)
  PROVE  Forest(new, used \cup Images(to, copied), tops \cup Images(to, from \cap copied))
<1> USE DEF Images
<1> DEFINE below == Least(kids, from)
           now == used \cup {to[b] : b \in copied}
           top == tops \cup {to[b] : b \in from \cap copied}
<1>0. used \in SUBSET HeapBlocks /\ kids \in [HeapBlocks -> SUBSET used] /\ from \in SUBSET used
  BY DEF Forest
<1>1. /\ from \subseteq below /\ below \subseteq used /\ Spreads(kids, below)
      /\ \A S \in SUBSET HeapBlocks : from \subseteq S /\ Spreads(kids, S) => below \subseteq S
  BY <1>0, LeastIs
<1>1a. copied \subseteq below /\ \A b \in below \ copied : kids[b] = {}
  OBVIOUS
<1> HIDE DEF below
<1>2. \A b \in used : new[b] = kids[b]
  BY <1>0, <1>1
<1>3. ASSUME NEW b \in HeapBlocks
      PROVE  b \in used \/ (\E c \in copied : b = to[c]) \/ (b \notin now /\ new[b] = {} /\ kids[b] = {})
  BY <1>0 DEF Forest
<1>4. \A b \in copied : to[b] \in HeapBlocks /\ to[b] \notin used /\ b \in used
  BY <1>1, <1>1a
<1>5. new \in [HeapBlocks -> SUBSET now]
  <2> SUFFICES ASSUME NEW b \in HeapBlocks PROVE new[b] \subseteq now
    OBVIOUS
  <2>1. CASE b \in used
    BY <2>1, <1>2, <1>0
  <2>2. ASSUME NEW c \in copied, b = to[c] PROVE new[b] \subseteq now
    BY <2>2
  <2> QED
    BY <2>1, <2>2, <1>3
<1>6. ASSUME NEW b \in HeapBlocks PROVE new[b] \cap top = {} /\ (b \notin now => new[b] = {})
  <2>1. CASE b \in used
    BY <2>1, <1>2, <1>0, <1>4 DEF Forest
  <2>2. ASSUME NEW c \in copied, b = to[c] PROVE new[b] \cap top = {} /\ b \in now
    <3>1. kids[c] \cap from = {} /\ new[b] = {to[e] : e \in kids[c] \cap copied}
      BY <2>2, <1>4, <1>0 DEF Forest
    <3>2. tops \subseteq used
      BY DEF Forest
    <3> QED
      BY <3>1, <3>2, <2>2, <1>4
  <2> QED
    BY <2>1, <2>2, <1>3
<1>7. ASSUME NEW b \in HeapBlocks, NEW c \in HeapBlocks, NEW e \in new[b], e \in new[c] PROVE b = c
  <2>1. CASE b \in used /\ c \in used
    BY <2>1, <1>2, <1>7 DEF Forest
  <2>2. CASE b \in used
    BY <2>2, <2>1, <1>3, <1>4, <1>2, <1>7, <1>0
  <2>3. CASE c \in used
    BY <2>3, <2>1, <1>3, <1>4, <1>2, <1>7, <1>0
  <2>4. ASSUME NEW p \in copied, NEW q \in copied, b = to[p], c = to[q] PROVE b = c
    <3>1. PICK y \in kids[p] \cap copied : e = to[y]
      BY <2>4, <1>7
    <3>2. PICK z \in kids[q] \cap copied : e = to[z]
      BY <2>4, <1>7
    <3>3. y = z /\ p \in HeapBlocks /\ q \in HeapBlocks
      BY <3>1, <3>2, <1>4, <1>0
    <3>4. p = q
      BY <3>1, <3>2, <3>3 DEF Forest
    <3> QED
      BY <3>4, <2>4
  <2> QED
    BY <2>2, <2>3, <2>4, <1>3, <1>7
<1>8. ASSUME NEW S \in SUBSET HeapBlocks, top \subseteq S, Spreads(new, S)
      PROVE  now \subseteq S
  <2>1. used \subseteq S
    <3>1. Spreads(kids, S)
      <4> SUFFICES ASSUME NEW b \in S PROVE kids[b] \subseteq S
        BY DEF Spreads
      <4>1. CASE b \in used
        BY <4>1, <1>2, <1>8 DEF Spreads
      <4>2. CASE b \notin used
        BY <4>2 DEF Forest
      <4> QED
        BY <4>1, <4>2
    <3> QED
      BY <3>1, <1>8 DEF Forest
  <2> DEFINE T == {b \in below : b \in copied => to[b] \in S}
  <2>2. from \subseteq T
    BY <1>1, <1>8
  <2>3. ASSUME NEW b \in T, NEW c \in kids[b] PROVE c \in T
    <3>1. c \in below /\ b \in copied
      BY <2>3, <1>1, <1>1a DEF Spreads
    <3>2. ASSUME c \in copied PROVE to[c] \in S
      <4>1. to[b] \in S /\ to[c] \in new[to[b]]
        BY <3>1, <3>2, <2>3
      <4> QED
        BY <4>1, <1>8 DEF Spreads
    <3> QED
      BY <3>1, <3>2
  <2>4. Spreads(kids, T)
    BY <2>3 DEF Spreads
  <2>5. below \subseteq T
    BY <2>2, <2>4, <1>0, <1>1
  <2> QED
    BY <2>1, <2>5, <1>1a
<1>9. now \subseteq HeapBlocks /\ top \subseteq now
  BY <1>0, <1>4 DEF Forest
<1> QED
  BY <1>5, <1>6, <1>7, <1>8, <1>9 DEF Forest

\* The types of a value, of cells, of a block and of a document.
Datas     == [flags : {"null", "const", "array", "object", "copy"}, ptr : Nat]
DataCells == Seq([1..1 -> Datas] \cup [1..2 -> Datas])
Heaped    == [used : BOOLEAN, char : Nat, capacity : Nat, cells : DataCells]
Documents == [needFree : BOOLEAN, slot : [Slots -> Datas], heap : [HeapBlocks -> Heaped],
              wrong : BOOLEAN, calls : Nat]

\* What a block owns, and what the client's values own.
Kids(d) == [b \in HeapBlocks |-> Dom!Held(d.heap[b].cells)]
Tops(d) == Dom!Held(Dom!OnOwn(d))

\* Every block has one owner: a cell, a value of the client, or the hand of a call on its way.
Owning(d, hand) ==
  /\ d \in Documents /\ ~d.wrong
  /\ Dom!Once(Dom!OnOwn(d)) /\ \A b \in HeapBlocks : Dom!Once(d.heap[b].cells)
  /\ Tops(d) \cap hand = {}
  /\ Forest(Kids(d), Dom!UsedBlocks(d), Tops(d) \cup hand)

\* What a list of cells holds, and what the client's values own.
LEMMA HeldHas ==
  ASSUME NEW cells, NEW b
  PROVE  b \in Dom!Held(cells) <=>
           b # 0 /\ \E i \in DOMAIN cells : \E j \in DOMAIN cells[i] : b = Dom!Block(cells[i][j])
<1> DEFINE In(i) == {Dom!Block(cells[i][j]) : j \in DOMAIN cells[i]}
           Ins   == {In(i) : i \in DOMAIN cells}
<1>1. Dom!Held(cells) = (UNION Ins) \ {0}
  BY DEF Dom!Held
<1>2. ASSUME NEW i \in DOMAIN cells PROVE In(i) \in Ins
  OBVIOUS
<1>3. ASSUME NEW S \in Ins PROVE \E i \in DOMAIN cells : S = In(i)
  OBVIOUS
<1>4. \A i \in DOMAIN cells : b \in In(i) <=> \E j \in DOMAIN cells[i] : b = Dom!Block(cells[i][j])
  OBVIOUS
<1> HIDE DEF In, Ins
<1>5. b \in UNION Ins <=> \E i \in DOMAIN cells : b \in In(i)
  BY <1>2, <1>3
<1>6. b \in Dom!Held(cells) <=> b \in UNION Ins /\ b # 0
  BY <1>1
<1>7. \A i \in DOMAIN cells : b \in In(i) <=> \E j \in DOMAIN cells[i] : b = Dom!Block(cells[i][j])
  BY <1>4
<1> QED
  BY ONLY <1>5, <1>6, <1>7

\* The blocks that the client's values own.
LEMMA TopsHas ==
  ASSUME NEW d, NEW b
  PROVE  b \in Tops(d) <=> b # 0 /\ \E s \in Slots : b = Dom!Block(d.slot[s])
<1>1. /\ DOMAIN Dom!OnOwn(d) = Slots
      /\ \A s \in Slots : DOMAIN Dom!OnOwn(d)[s] = 1..1 /\ Dom!OnOwn(d)[s][1] = d.slot[s]
  BY DEF Dom!OnOwn
<1>2. \A s \in Slots : \A j \in DOMAIN Dom!OnOwn(d)[s] : Dom!OnOwn(d)[s][j] = d.slot[s]
  BY <1>1
<1>3. \A s \in Slots : 1 \in DOMAIN Dom!OnOwn(d)[s]
  <2>1. 1 \in 1..1
    OBVIOUS
  <2> QED
    BY <1>1, <2>1
<1> QED
  BY <1>1, <1>2, <1>3, HeldHas DEF Tops

\* No two values of the client own the same block.
LEMMA OnceOnOwn ==
  ASSUME NEW d
  PROVE  Dom!Once(Dom!OnOwn(d)) <=>
           \A s, t \in Slots : Dom!Block(d.slot[s]) = Dom!Block(d.slot[t]) /\ Dom!Block(d.slot[s]) # 0 => s = t
<1>1. /\ DOMAIN Dom!OnOwn(d) = Slots
      /\ \A s \in Slots : DOMAIN Dom!OnOwn(d)[s] = 1..1 /\ Dom!OnOwn(d)[s][1] = d.slot[s]
  BY DEF Dom!OnOwn
<1>2. \A s \in Slots : \A j \in DOMAIN Dom!OnOwn(d)[s] : j = 1
  BY <1>1
<1>3. \A s \in Slots : 1 \in DOMAIN Dom!OnOwn(d)[s]
  <2>1. 1 \in 1..1
    OBVIOUS
  <2> QED
    BY <1>1, <2>1
<1> QED
  BY <1>1, <1>2, <1>3 DEF Dom!Once

\* Below is the smallest set of the forest.
LEMMA BelowIs ==
  ASSUME NEW d, NEW from
  PROVE  Dom!Below(d, from) = Least(Kids(d), from)
<1>1. \A S \in SUBSET HeapBlocks : Dom!Closed(d, S) <=> Spreads(Kids(d), S)
  BY DEF Dom!Closed, Spreads, Kids
<1> QED
  BY <1>1 DEF Dom!Below, Least

\* A set out of a list, and the rest.
LEMMA Parted ==
  ASSUME NEW cells, NEW rest, NEW out, Dom!Once(cells),
         NEW f \in [DOMAIN rest -> DOMAIN cells], NEW g \in [DOMAIN out -> DOMAIN cells],
         \A i, k \in DOMAIN rest : f[i] = f[k] => i = k,
         \A i, k \in DOMAIN out : g[i] = g[k] => i = k,
         \A i \in DOMAIN rest : rest[i] = cells[f[i]],
         \A i \in DOMAIN out : out[i] = cells[g[i]],
         \A i \in DOMAIN rest : \A k \in DOMAIN out : f[i] # g[k],
         \A m \in DOMAIN cells : (\E i \in DOMAIN rest : f[i] = m) \/ (\E i \in DOMAIN out : g[i] = m)
  PROVE  /\ Dom!Once(rest) /\ Dom!Once(out)
         /\ Dom!Held(rest) \cap Dom!Held(out) = {}
         /\ Dom!Held(rest) \cup Dom!Held(out) = Dom!Held(cells)
<1>1. Dom!Once(rest)
  BY DEF Dom!Once
<1>2. Dom!Once(out)
  BY DEF Dom!Once
<1>3. ASSUME NEW b, b \in Dom!Held(rest), b \in Dom!Held(out) PROVE FALSE
  BY <1>3, HeldHas DEF Dom!Once
<1>4. ASSUME NEW b, b \in Dom!Held(rest) \cup Dom!Held(out) PROVE b \in Dom!Held(cells)
  BY <1>4, HeldHas
<1>5. ASSUME NEW b, b \in Dom!Held(cells) PROVE b \in Dom!Held(rest) \cup Dom!Held(out)
  <2>1. PICK m \in DOMAIN cells : b # 0 /\ \E j \in DOMAIN cells[m] : b = Dom!Block(cells[m][j])
    BY <1>5, HeldHas
  <2>2. CASE \E i \in DOMAIN rest : f[i] = m
    BY <2>1, <2>2, HeldHas
  <2>3. CASE \E i \in DOMAIN out : g[i] = m
    BY <2>1, <2>3, HeldHas
  <2> QED
    BY <2>2, <2>3
<1> QED
  BY <1>1, <1>2, <1>3, <1>4, <1>5

\* The client's values change, and the cells of one top: what had one owner has one again, or is in hand.
LEMMA Rearranged ==
  ASSUME NEW d, NEW hand, Owning(d, hand), NEW e \in Documents, ~e.wrong,
         NEW b \in Tops(d) \cup hand, NEW all, all = Tops(d) \cup hand \cup Kids(d)[b],
         \A c \in HeapBlocks : e.heap[c].used = d.heap[c].used,
         \A c \in HeapBlocks : c # b => e.heap[c].cells = d.heap[c].cells,
         Dom!Once(Dom!OnOwn(e)), Dom!Once(e.heap[b].cells),
         Dom!Held(e.heap[b].cells) \subseteq all \ {b},
         Tops(e) \subseteq all \ Dom!Held(e.heap[b].cells)
  PROVE  Owning(e, all \ (Dom!Held(e.heap[b].cells) \cup Tops(e)))
<1> DEFINE now == Dom!Held(e.heap[b].cells)
           used == Dom!UsedBlocks(d)
           tops == Tops(d) \cup hand
<1>1. Forest(Kids(d), used, tops) /\ b \in tops /\ d \in Documents
  BY DEF Owning
<1>2. b \in HeapBlocks /\ b \notin Kids(d)[b]
  BY <1>1 DEF Forest
<1>3. Forest([Kids(d) EXCEPT ![b] = now], used, (tops \cup Kids(d)[b]) \ now)
  <2>1. now \subseteq Kids(d)[b] \cup (tops \ {b})
    OBVIOUS
  <2> QED
    BY ONLY <1>1, <2>1, ForestRecell
<1>4. Kids(e) = [Kids(d) EXCEPT ![b] = now]
  BY <1>2 DEF Kids
<1>5. Dom!UsedBlocks(e) = used
  BY DEF Dom!UsedBlocks
<1>6. (tops \cup Kids(d)[b]) \ now = Tops(e) \cup (all \ (now \cup Tops(e)))
  OBVIOUS
<1>7. \A c \in HeapBlocks : Dom!Once(e.heap[c].cells)
  BY DEF Owning
<1> QED
  BY <1>3, <1>4, <1>5, <1>6, <1>7 DEF Owning

\* The client's values change, and no cells.
LEMMA Regrouped ==
  ASSUME NEW d, NEW hand, Owning(d, hand), NEW e \in Documents, ~e.wrong,
         \A c \in HeapBlocks : e.heap[c].used = d.heap[c].used /\ e.heap[c].cells = d.heap[c].cells,
         Dom!Once(Dom!OnOwn(e)), Tops(e) \subseteq Tops(d) \cup hand
  PROVE  Owning(e, (Tops(d) \cup hand) \ Tops(e))
<1>1. Kids(e) = Kids(d)
  BY DEF Kids
<1>2. Dom!UsedBlocks(e) = Dom!UsedBlocks(d)
  BY DEF Dom!UsedBlocks
<1>3. Tops(e) \cup ((Tops(d) \cup hand) \ Tops(e)) = Tops(d) \cup hand
  OBVIOUS
<1> QED
  BY <1>1, <1>2, <1>3 DEF Owning

\* What is in hand is destroyed.
LEMMA Destroyed ==
  ASSUME NEW d, NEW hand, Owning(d, hand), NEW from \in SUBSET hand, NEW e \in Documents, ~e.wrong,
         e.slot = d.slot,
         e.heap = [b \in HeapBlocks |-> IF b \in Least(Kids(d), from) THEN Dom!Unused ELSE d.heap[b]]
  PROVE  Owning(e, hand \ from)
<1> DEFINE gone == Least(Kids(d), from)
           tops == Tops(d) \cup hand
<1>1. Forest(Kids(d), Dom!UsedBlocks(d), tops) /\ Tops(d) \cap hand = {}
  BY DEF Owning
<1>2. Forest([b \in HeapBlocks |-> IF b \in gone THEN {} ELSE Kids(d)[b]], Dom!UsedBlocks(d) \ gone, tops \ from)
  BY ONLY <1>1, ForestShrinks
<1> HIDE DEF gone
<1>h. e.heap = [b \in HeapBlocks |-> IF b \in gone THEN Dom!Unused ELSE d.heap[b]]
  BY DEF gone
<1>3. Dom!Unused.cells = << >> /\ ~Dom!Unused.used
  BY DEF Dom!Unused
<1>4. Dom!Held(Dom!Unused.cells) = {} /\ Dom!Once(Dom!Unused.cells)
  BY <1>3 DEF Dom!Held, Dom!Once
<1>5. Kids(e) = [b \in HeapBlocks |-> IF b \in gone THEN {} ELSE Kids(d)[b]]
  BY <1>h, <1>4 DEF Kids
<1>6. Dom!UsedBlocks(e) = Dom!UsedBlocks(d) \ gone
  BY <1>h, <1>3 DEF Dom!UsedBlocks
<1>7. Tops(e) = Tops(d) /\ Dom!OnOwn(e) = Dom!OnOwn(d)
  BY DEF Tops, Dom!OnOwn
<1>8. tops \ from = Tops(e) \cup (hand \ from)
  BY <1>1, <1>7
<1>9. \A b \in HeapBlocks : Dom!Once(e.heap[b].cells)
  BY <1>h, <1>4 DEF Owning
<1> QED
  BY <1>1, <1>2, <1>5, <1>6, <1>7, <1>8, <1>9 DEF Owning

\* A document whose blocks have one owner each is as the property says.
LEMMA OwningIsOwned ==
  Owning(x, {}) => Dom!Owned
<1> SUFFICES ASSUME Owning(x, {}) PROVE Dom!Owned
  OBVIOUS
<1> DEFINE used == Dom!UsedBlocks(x)
<1>1. Forest(Kids(x), used, Tops(x))
  BY DEF Owning
<1>2. Dom!Below(x, Tops(x)) = used
  BY <1>1, BelowIs, ForestIsAll
<1>3. \A b \in HeapBlocks : Kids(x)[b] = Dom!Held(x.heap[b].cells)
  BY DEF Kids
<1>4. used \subseteq HeapBlocks
  BY DEF Dom!UsedBlocks
<1>5. \A b \in used : /\ Dom!Held(x.heap[b].cells) \cap Tops(x) = {}
                      /\ \A c \in used \ {b} : Dom!Held(x.heap[b].cells) \cap Dom!Held(x.heap[c].cells) = {}
  BY <1>1, <1>3, <1>4 DEF Forest
<1>6. Dom!Separate(x, Dom!OnOwn(x))
  BY <1>2, <1>4, <1>5 DEF Owning, Dom!Separate, Tops
<1> QED
  BY <1>2, <1>6 DEF Owning, Dom!Owned, Tops

\* At the beginning nobody owns a block.
LEMMA StartsOwning ==
  Dom!Init => Owning(x, {})
<1> SUFFICES ASSUME Dom!Init PROVE Owning(x, {})
  OBVIOUS
<1>1. PICK needFree \in BOOLEAN, slot \in [Slots -> Dom!Simple] :
        x = [needFree |-> needFree, slot |-> slot, heap |-> [b \in HeapBlocks |-> Dom!Unused],
             wrong |-> FALSE, calls |-> 0]
  BY DEF Dom!Init
<1>2. Dom!Simple \subseteq Datas /\ \A v \in Dom!Simple : Dom!Block(v) = 0
  BY DEF Dom!Simple, Dom!Null, Dom!Data, Datas, Dom!Block, Dom!IsContainer
<1>3. /\ Dom!Unused \in Heaped /\ Dom!Unused.cells = << >> /\ ~Dom!Unused.used
      /\ Dom!Held(Dom!Unused.cells) = {} /\ Dom!Once(Dom!Unused.cells)
  <2>1. << >> \in DataCells
    BY DEF DataCells
  <2>2. Dom!Unused \in Heaped /\ Dom!Unused.cells = << >> /\ ~Dom!Unused.used
    BY <2>1 DEF Dom!Unused, Heaped
  <2> QED
    BY <2>2 DEF Dom!Held, Dom!Once
<1>4. x \in Documents /\ ~x.wrong
  BY <1>1, <1>2, <1>3 DEF Documents
<1>5. \A s \in Slots : Dom!Block(x.slot[s]) = 0
  BY <1>1, <1>2
<1>6. Tops(x) = {} /\ Dom!Once(Dom!OnOwn(x))
  BY <1>5, TopsHas, OnceOnOwn
<1>7. Dom!UsedBlocks(x) = {} /\ Kids(x) = [b \in HeapBlocks |-> {}]
  BY <1>1, <1>3 DEF Dom!UsedBlocks, Kids
<1>8. Forest([b \in HeapBlocks |-> {}], {}, {})
  BY DEF Forest
<1>9. \A b \in HeapBlocks : Dom!Once(x.heap[b].cells)
  BY <1>1, <1>3
<1> QED
  BY <1>4, <1>6, <1>7, <1>8, <1>9 DEF Owning

\* When a call leaves, only the pool has something in hand, and forgets it.
LEMMA Leaving ==
  ASSUME NEW d, NEW hand, Owning(d, hand), d.needFree => hand = {}, Dom!Leaves(d)
  PROVE  Owning(x', {})
<1> DEFINE owned == Least(Kids(d), Tops(d))
<1>1. d \in Documents /\ ~d.wrong
  BY DEF Owning
<1>2. x' = [d EXCEPT !.calls = @ + 1,
                     !.heap = [b \in HeapBlocks |-> IF d.needFree \/ b \in owned THEN @[b] ELSE Dom!Unused]]
  <2>1. Dom!Below(d, Dom!Held(Dom!OnOwn(d))) = owned
    BY BelowIs DEF Tops
  <2> QED
    BY <2>1 DEF Dom!Leaves
<1> HIDE DEF owned
<1>3. /\ Dom!Unused \in Heaped /\ Dom!Unused.cells = << >> /\ ~Dom!Unused.used
      /\ Dom!Held(Dom!Unused.cells) = {} /\ Dom!Once(Dom!Unused.cells)
  <2>1. << >> \in DataCells
    BY DEF DataCells
  <2>2. Dom!Unused \in Heaped /\ Dom!Unused.cells = << >> /\ ~Dom!Unused.used
    BY <2>1 DEF Dom!Unused, Heaped
  <2> QED
    BY <2>2 DEF Dom!Held, Dom!Once
<1>4. x' \in Documents /\ ~x'.wrong /\ x'.slot = d.slot
  <2>1. \A b \in HeapBlocks : (IF d.needFree \/ b \in owned THEN d.heap[b] ELSE Dom!Unused) \in Heaped
    BY <1>1, <1>3 DEF Documents
  <2>2. d.calls + 1 \in Nat
    BY <1>1 DEF Documents
  <2> QED
    BY <1>1, <1>2, <2>1, <2>2 DEF Documents
<1>5. Tops(x') = Tops(d) /\ Dom!OnOwn(x') = Dom!OnOwn(d)
  BY <1>4 DEF Tops, Dom!OnOwn
<1>6. CASE d.needFree
  <2>1. x'.heap = d.heap
    BY <1>1, <1>2, <1>6 DEF Documents
  <2>2. Kids(x') = Kids(d) /\ Dom!UsedBlocks(x') = Dom!UsedBlocks(d)
    BY <2>1 DEF Kids, Dom!UsedBlocks
  <2> QED
    BY <1>4, <1>5, <1>6, <2>1, <2>2 DEF Owning
<1>7. CASE ~d.needFree
  <2>1. x'.heap = [b \in HeapBlocks |-> IF b \in owned THEN d.heap[b] ELSE Dom!Unused]
    BY <1>1, <1>2, <1>7 DEF Documents
  <2>2. Kids(x') = [b \in HeapBlocks |-> IF b \in owned THEN Kids(d)[b] ELSE {}]
    BY <2>1, <1>3 DEF Kids
  <2>3. Dom!UsedBlocks(x') = Dom!UsedBlocks(d) \cap owned
    BY <2>1, <1>3 DEF Dom!UsedBlocks
  <2>4. Forest([b \in HeapBlocks |-> IF b \in owned THEN Kids(d)[b] ELSE {}],
               Dom!UsedBlocks(d) \cap owned, Tops(d))
    BY ForestCleans DEF Owning, owned
  <2>5. \A b \in HeapBlocks : Dom!Once(x'.heap[b].cells)
    BY <2>1, <1>3 DEF Owning
  <2> QED
    BY <1>4, <1>5, <2>2, <2>3, <2>4, <2>5 DEF Owning
<1> QED
  BY <1>6, <1>7

\* A list of which each block has one owner, next to the others, is destroyed without a fault.
LEMMA DestroysRight ==
  ASSUME NEW d, NEW hand, Owning(d, hand), NEW cells, Dom!Once(cells),
         Dom!Held(cells) \subseteq Dom!UsedBlocks(d),
         \A c \in Least(Kids(d), Dom!Held(cells)) : Kids(d)[c] \cap Dom!Held(cells) = {}
  PROVE  Dom!Separate(d, cells)
<1> DEFINE below == Least(Kids(d), Dom!Held(cells))
<1>1. Dom!Below(d, Dom!Held(cells)) = below
  BY BelowIs
<1>2. Forest(Kids(d), Dom!UsedBlocks(d), Tops(d) \cup hand)
  BY DEF Owning
<1>3. below \subseteq Dom!UsedBlocks(d)
  BY <1>2, LeastIs DEF Forest
<1>4. \A c \in HeapBlocks : Kids(d)[c] = Dom!Held(d.heap[c].cells)
  BY DEF Kids
<1>5. Dom!UsedBlocks(d) \subseteq HeapBlocks
  BY DEF Dom!UsedBlocks
<1> HIDE DEF below
<1>6. \A c \in below : Kids(d)[c] \cap Dom!Held(cells) = {}
  BY DEF below
<1>7. \A c \in below : /\ Dom!Once(d.heap[c].cells)
                       /\ Dom!Held(d.heap[c].cells) \cap Dom!Held(cells) = {}
                       /\ \A e \in below \ {c} : Dom!Held(d.heap[c].cells) \cap Dom!Held(d.heap[e].cells) = {}
  BY <1>2, <1>3, <1>4, <1>5, <1>6 DEF Owning, Forest
<1> QED
  BY <1>1, <1>3, <1>7 DEF Dom!Separate

\* A block that is not in use owns nothing.
LEMMA UnusedIs ==
  /\ Dom!Unused \in Heaped /\ Dom!Unused.cells = << >> /\ ~Dom!Unused.used
  /\ Dom!Held(Dom!Unused.cells) = {} /\ Dom!Once(Dom!Unused.cells)
<1>1. << >> \in DataCells
  BY DEF DataCells
<1>2. Dom!Unused \in Heaped /\ Dom!Unused.cells = << >> /\ ~Dom!Unused.used
  BY <1>1 DEF Dom!Unused, Heaped
<1> QED
  BY <1>2 DEF Dom!Held, Dom!Once

\* A document from its fields.
LEMMA DocumentIs ==
  ASSUME NEW n \in BOOLEAN, NEW s \in [Slots -> Datas], NEW h \in [HeapBlocks -> Heaped], NEW w \in BOOLEAN,
         NEW c \in Nat
  PROVE  [needFree |-> n, slot |-> s, heap |-> h, wrong |-> w, calls |-> c] \in Documents
  BY DEF Documents

\* A value as a cell of its own.
LEMMA CellIs ==
  ASSUME NEW v
  PROVE  Dom!Held(Dom!Cell(v)) = {Dom!Block(v)} \ {0} /\ Dom!Once(Dom!Cell(v))
<1>1. /\ \A i \in DOMAIN Dom!Cell(v) : i = 1 /\ \A j \in DOMAIN Dom!Cell(v)[i] : j = 1
      /\ 1 \in DOMAIN Dom!Cell(v) /\ 1 \in DOMAIN Dom!Cell(v)[1] /\ Dom!Cell(v)[1][1] = v
  BY DEF Dom!Cell
<1> QED
  BY <1>1, HeldHas DEF Dom!Once

\* A value is put into a slot.
LEMMA SlotPut ==
  ASSUME NEW d \in Documents, NEW e, NEW s \in Slots, NEW v, e.slot = [d.slot EXCEPT ![s] = v],
         Dom!Once(Dom!OnOwn(d)), Dom!Block(v) \notin Tops(d) \ {Dom!Block(d.slot[s])}
  PROVE  /\ Tops(e) = (Tops(d) \ {Dom!Block(d.slot[s])}) \cup ({Dom!Block(v)} \ {0})
         /\ Dom!Once(Dom!OnOwn(e))
<1>1. e.slot[s] = v /\ \A t \in Slots : t # s => e.slot[t] = d.slot[t]
  BY DEF Documents
<1>2. \A p, q \in Slots : Dom!Block(d.slot[p]) = Dom!Block(d.slot[q]) /\ Dom!Block(d.slot[p]) # 0 => p = q
  BY OnceOnOwn
<1>3. ASSUME NEW b PROVE b \in Tops(e) <=> b \in (Tops(d) \ {Dom!Block(d.slot[s])}) \cup ({Dom!Block(v)} \ {0})
  <2>1. b \in Tops(e) <=> b # 0 /\ \E t \in Slots : b = Dom!Block(e.slot[t])
    BY TopsHas
  <2>2. b \in Tops(d) <=> b # 0 /\ \E t \in Slots : b = Dom!Block(d.slot[t])
    BY TopsHas
  <2> QED
    BY <1>1, <1>2, <2>1, <2>2
<1>4. Dom!Once(Dom!OnOwn(e))
  <2>1. \A t \in Slots \ {s} : Dom!Block(d.slot[t]) # 0 => Dom!Block(d.slot[t]) # Dom!Block(v)
    BY <1>2, TopsHas
  <2> QED
    <3>1. ASSUME NEW p \in Slots, NEW q \in Slots, Dom!Block(e.slot[p]) = Dom!Block(e.slot[q]), Dom!Block(e.slot[p]) # 0
          PROVE  p = q
      BY <3>1, <1>1, <1>2, <2>1
    <3> QED
      BY <3>1, OnceOnOwn
<1> QED
  BY <1>3, <1>4

\* A value is put into a slot of a document, and nothing else changes.
LEMMA SlotTyped ==
  ASSUME NEW d \in Documents, NEW s \in Slots, NEW v \in Datas
  PROVE  LET e == [d EXCEPT !.slot[s] = v]
         IN  /\ e \in Documents /\ e.slot = [d.slot EXCEPT ![s] = v]
             /\ e.heap = d.heap /\ e.wrong = d.wrong /\ e.needFree = d.needFree
  BY DEF Documents

\* A null owns nothing.
LEMMA NullIs ==
  Dom!Null \in Datas /\ Dom!Block(Dom!Null) = 0
  BY DEF Dom!Null, Dom!Data, Datas, Dom!Block, Dom!IsContainer

\* A block that nothing in the smallest set is, does not change the set.
LEMMA LeastSame ==
  ASSUME NEW used \in SUBSET HeapBlocks, NEW kids \in [HeapBlocks -> SUBSET used], NEW from \in SUBSET used,
         NEW other \in [HeapBlocks -> SUBSET used], NEW b, \A c \in HeapBlocks : c # b => other[c] = kids[c],
         b \notin Least(kids, from)
  PROVE  Least(other, from) = Least(kids, from)
<1>1. /\ from \subseteq Least(kids, from) /\ Least(kids, from) \subseteq used /\ Spreads(kids, Least(kids, from))
      /\ \A S \in SUBSET HeapBlocks : from \subseteq S /\ Spreads(kids, S) => Least(kids, from) \subseteq S
  BY LeastIs
<1>2. /\ from \subseteq Least(other, from) /\ Least(other, from) \subseteq used /\ Spreads(other, Least(other, from))
      /\ \A S \in SUBSET HeapBlocks : from \subseteq S /\ Spreads(other, S) => Least(other, from) \subseteq S
  BY LeastIs
<1> DEFINE one == Least(kids, from)
           two == Least(other, from)
<1>3. one \in SUBSET HeapBlocks /\ two \in SUBSET HeapBlocks
  BY <1>1, <1>2
<1>4. b \notin one
  OBVIOUS
<1> HIDE DEF one, two
<1>5. two \subseteq one
  <2>1. Spreads(other, one)
    BY <1>1, <1>3, <1>4 DEF Spreads, one
  <2> QED
    BY <1>1, <1>2, <1>3, <2>1 DEF one, two
<1>6. one \subseteq two
  <2>1. Spreads(kids, two)
    BY <1>2, <1>3, <1>4, <1>5 DEF Spreads, two
  <2> QED
    BY <1>1, <1>2, <1>3, <2>1 DEF one, two
<1> QED
  BY <1>5, <1>6 DEF one, two

\* Destroy, of cells whose blocks have one owner next to the others.
LEMMA DestroyIs ==
  ASSUME NEW d \in Documents, NEW cells, Dom!Separate(d, cells), ~d.wrong, NEW e, e = Dom!Destroy(d, cells)
  PROVE  /\ e \in Documents /\ ~e.wrong /\ e.slot = d.slot /\ e.needFree = d.needFree
         /\ ~d.needFree => e.heap = d.heap
         /\ d.needFree => e.heap = [b \in HeapBlocks |-> IF b \in Least(Kids(d), Dom!Held(cells))
                                                       THEN Dom!Unused ELSE d.heap[b]]
<1> DEFINE gone == Least(Kids(d), Dom!Held(cells))
<1>1. Dom!Below(d, Dom!Held(cells)) = gone
  BY BelowIs
<1> HIDE DEF gone
<1>2. CASE ~d.needFree
  <2>1. e = d
    BY <1>2 DEF Dom!Destroy
  <2> QED
    BY <2>1, <1>2
<1>3. CASE d.needFree
  <2>1. e = [d EXCEPT !.heap = [b \in HeapBlocks |-> IF b \in gone THEN Dom!Unused ELSE @[b]],
                      !.wrong = @ \/ ~Dom!Separate(d, cells)]
    BY <1>1, <1>3 DEF Dom!Destroy
  <2>2. /\ e.heap = [b \in HeapBlocks |-> IF b \in gone THEN Dom!Unused ELSE d.heap[b]]
        /\ e.slot = d.slot /\ e.needFree = d.needFree /\ ~e.wrong
    BY <2>1 DEF Documents
  <2>3. e \in Documents
    <3>1. \A b \in HeapBlocks : (IF b \in gone THEN Dom!Unused ELSE d.heap[b]) \in Heaped
      BY UnusedIs DEF Documents
    <3>2. e.heap \in [HeapBlocks -> Heaped]
      BY <2>2, <3>1
    <3>3. e = [needFree |-> d.needFree, slot |-> d.slot, heap |-> e.heap, wrong |-> FALSE, calls |-> d.calls]
      BY <2>1 DEF Documents
    <3>4. d.needFree \in BOOLEAN /\ d.slot \in [Slots -> Datas] /\ d.calls \in Nat /\ FALSE \in BOOLEAN
      BY DEF Documents
    <3> DEFINE h == e.heap
    <3>5. /\ h \in [HeapBlocks -> Heaped]
          /\ e = [needFree |-> d.needFree, slot |-> d.slot, heap |-> h, wrong |-> FALSE, calls |-> d.calls]
      BY <3>2, <3>3
    <3> HIDE DEF h
    <3>6. [needFree |-> d.needFree, slot |-> d.slot, heap |-> h, wrong |-> FALSE, calls |-> d.calls] \in Documents
      BY ONLY <3>4, <3>5, DocumentIs
    <3> QED
      BY ONLY <3>5, <3>6
  <2> QED
    BY <2>2, <2>3, <1>3 DEF gone
<1> QED
  BY <1>2, <1>3

\* A slot is destroyed.
LEMMA SlotDestroyed ==
  ASSUME NEW d, Owning(d, {}), NEW s \in Slots,
         NEW e, e = Dom!Destroy(d, Dom!Cell(d.slot[s]))
  PROVE  /\ e \in Documents /\ ~e.wrong /\ e.slot = d.slot /\ e.needFree = d.needFree
         /\ \E hand : Owning([e EXCEPT !.slot[s] = Dom!Null], hand) /\ (d.needFree => hand = {})
         /\ e.heap = IF d.needFree
                     THEN [b \in HeapBlocks |-> IF b \in Least(Kids(d), {Dom!Block(d.slot[s])} \ {0})
                                                THEN Dom!Unused ELSE d.heap[b]]
                     ELSE d.heap
<1> DEFINE cells == Dom!Cell(d.slot[s])
           hand  == {Dom!Block(d.slot[s])} \ {0}
           gone  == Least(Kids(d), hand)
           given == [d EXCEPT !.slot[s] = Dom!Null]
<1>1. d \in Documents /\ ~d.wrong /\ Dom!Once(Dom!OnOwn(d)) /\ Forest(Kids(d), Dom!UsedBlocks(d), Tops(d))
  BY DEF Owning
<1>2. Dom!Held(cells) = hand /\ Dom!Once(cells)
  BY CellIs
<1>3. hand \subseteq Tops(d)
  BY TopsHas
<1>4. Owning(given, hand)
  <2>1. /\ given \in Documents /\ given.slot = [d.slot EXCEPT ![s] = Dom!Null]
        /\ given.heap = d.heap /\ given.wrong = d.wrong
    BY <1>1, NullIs, SlotTyped
  <2>2. /\ Tops(given) = (Tops(d) \ {Dom!Block(d.slot[s])}) \cup ({Dom!Block(Dom!Null)} \ {0})
        /\ Dom!Once(Dom!OnOwn(given))
    <3>1. Dom!Block(Dom!Null) \notin Tops(d) \ {Dom!Block(d.slot[s])}
      BY NullIs, TopsHas
    <3> HIDE DEF given
    <3> QED
      BY <1>1, <2>1, <3>1, SlotPut
  <2> HIDE DEF given
  <2>3. Tops(given) = Tops(d) \ hand /\ (Tops(d) \cup {}) \ Tops(given) = hand
    BY <2>2, <1>3, NullIs, TopsHas
  <2>4. Owning(given, (Tops(d) \cup {}) \ Tops(given))
    BY <2>1, <2>2, <2>3, <1>1, Regrouped
  <2> QED
    BY <2>3, <2>4
<1>5. Dom!Separate(d, cells)
  <2>1. hand \subseteq Dom!UsedBlocks(d)
    BY <1>1, <1>3 DEF Forest
  <2>2. \A c \in gone : Kids(d)[c] \cap hand = {}
    BY <1>1, <1>3 DEF Forest, Least
  <2> HIDE DEF cells
  <2> QED
    BY <1>2, <2>1, <2>2, DestroysRight
<1> HIDE DEF cells, gone
<1>6. /\ e \in Documents /\ ~e.wrong /\ e.slot = d.slot /\ e.needFree = d.needFree
      /\ ~d.needFree => e.heap = d.heap
      /\ d.needFree => e.heap = [b \in HeapBlocks |-> IF b \in gone THEN Dom!Unused ELSE d.heap[b]]
  <2>1. e = Dom!Destroy(d, cells)
    BY DEF cells
  <2> QED
    BY <1>1, <1>2, <1>5, <2>1, DestroyIs DEF gone
<1>7. CASE ~d.needFree
  <2>1. e = d
    BY <1>7 DEF Dom!Destroy
  <2> QED
    BY <2>1, <1>4, <1>6, <1>7
<1>8. CASE d.needFree
  <2> DEFINE put == [e EXCEPT !.slot[s] = Dom!Null]
  <2>1. /\ put \in Documents /\ put.slot = given.slot /\ put.heap = e.heap /\ ~put.wrong
    BY <1>1, <1>6, NullIs, SlotTyped
  <2>2. Kids(given) = Kids(d)
    BY <1>1, NullIs, SlotTyped DEF Kids
  <2> HIDE DEF put, given
  <2>3. put.heap = [b \in HeapBlocks |-> IF b \in Least(Kids(given), hand) THEN Dom!Unused ELSE given.heap[b]]
    <3>1. given.heap = d.heap
      BY <1>1, NullIs, SlotTyped DEF given
    <3>2. gone = Least(Kids(given), hand)
      BY <2>2 DEF gone
    <3> QED
      BY <1>6, <1>8, <2>1, <3>1, <3>2
  <2>4. Owning(put, hand \ hand)
    BY <1>4, <2>1, <2>3, Destroyed
  <2>5. hand \ hand = {}
    OBVIOUS
  <2> QED
    BY <1>6, <1>8, <2>4, <2>5 DEF put, gone
<1> QED
  BY <1>7, <1>8

\* A new block without cells is put into a slot that owned none.
LEMMA BlockPut ==
  ASSUME NEW d, NEW hand, Owning(d, hand), NEW s \in Slots, Dom!Block(d.slot[s]) = 0,
         NEW n \in Dom!FreeBlocks(d), NEW v, Dom!Block(v) = n,
         NEW e \in Documents, ~e.wrong, e.slot = [d.slot EXCEPT ![s] = v],
         e.heap[n].used, e.heap[n].cells = << >>,
         \A b \in HeapBlocks : b # n => e.heap[b] = d.heap[b]
  PROVE  Owning(e, hand)
<1> DEFINE used == Dom!UsedBlocks(d)
<1>1. /\ d \in Documents /\ Dom!Once(Dom!OnOwn(d)) /\ Tops(d) \cap hand = {}
      /\ \A b \in HeapBlocks : Dom!Once(d.heap[b].cells)
      /\ Forest(Kids(d), used, Tops(d) \cup hand)
  BY DEF Owning
<1>2. n \in HeapBlocks \ used /\ n # 0
  BY DomAssumption DEF Dom!FreeBlocks, Dom!UsedBlocks
<1>3. n \notin Tops(d) /\ n \notin hand
  BY <1>1, <1>2 DEF Forest
<1>4. Tops(e) = (Tops(d) \ {Dom!Block(d.slot[s])}) \cup ({Dom!Block(v)} \ {0}) /\ Dom!Once(Dom!OnOwn(e))
  BY <1>1, <1>3, SlotPut
<1>5. Tops(e) = Tops(d) \cup {n}
  <2>1. 0 \notin Tops(d)
    BY TopsHas
  <2> QED
    BY <1>2, <1>4, <2>1
<1>6. Dom!Held(e.heap[n].cells) = {} /\ Dom!Once(e.heap[n].cells)
  BY DEF Dom!Held, Dom!Once
<1>7. Kids(e) = Kids(d)
  <2>1. Kids(d)[n] = {}
    BY <1>1, <1>2 DEF Forest
  <2> QED
    BY <1>2, <1>6, <2>1 DEF Kids
<1>8. Dom!UsedBlocks(e) = used \cup {n}
  BY <1>2 DEF Dom!UsedBlocks
<1>9. Forest(Kids(d), used \cup {n}, (Tops(d) \cup hand) \cup {n})
  BY ONLY <1>1, <1>2, ForestGrows
<1>10. (Tops(d) \cup hand) \cup {n} = Tops(e) \cup hand
  BY <1>5
<1>11. \A b \in HeapBlocks : Dom!Once(e.heap[b].cells)
  BY <1>1, <1>6
<1> QED
  BY <1>1, <1>3, <1>4, <1>5, <1>7, <1>8, <1>9, <1>10, <1>11 DEF Owning

\* A new block is one that was free.
LEMMA NewBlockIs ==
  ASSUME NEW d, Dom!FreeBlocks(d) # {}
  PROVE  Dom!NewBlock(d) \in Dom!FreeBlocks(d)
  BY DEF Dom!NewBlock

\* SetNull, SetArray, SetObject, SetString
LEMMA SetKeeps ==
  ASSUME Owning(x, {}), NEW s \in Slots, Dom!Set(s)
  PROVE  Owning(x', {})
<1> DEFINE e   == Dom!Destroy(x, Dom!Cell(x.slot[s]))
           put == [e EXCEPT !.slot[s] = Dom!Null]
<1>1. /\ e \in Documents /\ ~e.wrong /\ e.slot = x.slot /\ e.needFree = x.needFree
      /\ \E hand : Owning(put, hand) /\ (x.needFree => hand = {})
      /\ e.heap = IF x.needFree
                     THEN [b \in HeapBlocks |-> IF b \in Least(Kids(x), {Dom!Block(x.slot[s])} \ {0})
                                                THEN Dom!Unused ELSE x.heap[b]]
                     ELSE x.heap
  BY SlotDestroyed
<1>2. \/ \E v \in Dom!Simple : Dom!Leaves([e EXCEPT !.slot[s] = v])
      \/ Dom!Room /\ Dom!Leaves(Dom!NewString(e, s, 2))
  BY DEF Dom!Set
<1> HIDE DEF e
<1>3. /\ put \in Documents /\ put.slot = [e.slot EXCEPT ![s] = Dom!Null]
      /\ put.heap = e.heap /\ put.wrong = e.wrong /\ put.needFree = e.needFree
  BY <1>1, NullIs, SlotTyped
<1> HIDE DEF put
<1>4. PICK hand : Owning(put, hand) /\ (x.needFree => hand = {})
  BY <1>1
<1>5. put.slot[s] = Dom!Null /\ e.slot \in [Slots -> Datas]
  BY <1>1, <1>3 DEF Documents
<1>6. ASSUME NEW v \in Dom!Simple, Dom!Leaves([e EXCEPT !.slot[s] = v]) PROVE Owning(x', {})
  <2> DEFINE f == [e EXCEPT !.slot[s] = v]
  <2>1. v \in Datas /\ Dom!Block(v) = 0
    BY DEF Dom!Simple, Dom!Null, Dom!Data, Datas, Dom!Block, Dom!IsContainer
  <2>2. /\ f \in Documents /\ f.slot = [e.slot EXCEPT ![s] = v]
        /\ f.heap = e.heap /\ f.wrong = e.wrong /\ f.needFree = e.needFree
    BY <1>1, <2>1, SlotTyped
  <2> HIDE DEF f
  <2>3. f.slot = [put.slot EXCEPT ![s] = v]
    BY <2>2, <1>3, <1>5
  <2>4. 0 \notin Tops(put)
    BY TopsHas
  <2>5. Tops(f) = Tops(put) /\ Dom!Once(Dom!OnOwn(f))
    <3>1. Dom!Once(Dom!OnOwn(put))
      BY <1>4 DEF Owning
    <3>2. /\ Tops(f) = (Tops(put) \ {Dom!Block(put.slot[s])}) \cup ({Dom!Block(v)} \ {0})
          /\ Dom!Once(Dom!OnOwn(f))
      BY <3>1, <1>3, <2>1, <2>3, <2>4, SlotPut
    <3> QED
      BY <3>2, <1>5, <2>1, <2>4, NullIs
  <2>6. Owning(f, (Tops(put) \cup hand) \ Tops(f))
    BY <1>4, <2>2, <2>5, <1>1, <1>3, Regrouped
  <2>7. (Tops(put) \cup hand) \ Tops(f) = hand
    BY <1>4, <2>5 DEF Owning
  <2> QED
    BY <1>4, <1>1, <1>6, <2>2, <2>6, <2>7, Leaving DEF f
<1>7. ASSUME Dom!Room, Dom!Leaves(Dom!NewString(e, s, 2)) PROVE Owning(x', {})
  <2> DEFINE f == Dom!NewString(e, s, 2)
             n == Dom!NewBlock(e)
  <2>1. n \in Dom!FreeBlocks(e)
    <3>1. Dom!FreeBlocks(x) \subseteq Dom!FreeBlocks(e)
      BY <1>1, UnusedIs DEF Dom!FreeBlocks
    <3> QED
      BY <3>1, <1>7, NewBlockIs DEF Dom!Room
  <2>2. f = [e EXCEPT !.heap[n] = Dom!Used(2, 0, << >>), !.slot[s] = Dom!Data("copy", n)]
    BY DEF Dom!NewString
  <2> HIDE DEF f, n
  <2>3. n \in HeapBlocks /\ n \in Nat
    BY <2>1, DomAssumption DEF Dom!FreeBlocks
  <2>4. /\ Dom!Used(2, 0, << >>) \in Heaped /\ Dom!Used(2, 0, << >>).used /\ Dom!Used(2, 0, << >>).cells = << >>
        /\ Dom!Data("copy", n) \in Datas /\ Dom!Block(Dom!Data("copy", n)) = n
    BY <2>3 DEF Dom!Used, Heaped, DataCells, Dom!Data, Datas, Dom!Block, Dom!IsContainer
  <2>5. /\ f.slot = [e.slot EXCEPT ![s] = Dom!Data("copy", n)]
        /\ f.heap = [e.heap EXCEPT ![n] = Dom!Used(2, 0, << >>)]
        /\ ~f.wrong /\ f.needFree = e.needFree
        /\ f \in Documents
    BY <1>1, <2>2, <2>3, <2>4 DEF Documents
  <2>6. f.slot = [put.slot EXCEPT ![s] = Dom!Data("copy", n)]
    BY <2>5, <1>3, <1>5
  <2>7. n \in Dom!FreeBlocks(put)
    BY <2>1, <1>3 DEF Dom!FreeBlocks
  <2>8. f.heap[n] = Dom!Used(2, 0, << >>) /\ \A b \in HeapBlocks : b # n => f.heap[b] = put.heap[b]
    BY <2>3, <2>5, <1>1, <1>3 DEF Documents
  <2>9. Owning(f, hand)
    <3>1. Dom!Block(put.slot[s]) = 0 /\ f.heap[n].used /\ f.heap[n].cells = << >>
      BY <1>5, NullIs, <2>4, <2>8
    <3>2. \A b \in HeapBlocks : b # n => f.heap[b] = put.heap[b]
      BY <2>8
    <3> DEFINE v == Dom!Data("copy", n)
    <3>3. Dom!Block(v) = n /\ f.slot = [put.slot EXCEPT ![s] = v]
      BY <2>4, <2>6
    <3> HIDE DEF v
    <3>4. f \in Documents /\ ~f.wrong /\ s \in Slots /\ Owning(put, hand)
      BY <1>4, <2>5
    <3> QED
      BY ONLY <3>1, <3>2, <3>3, <3>4, <2>7, BlockPut
  <2> QED
    BY <1>1, <1>4, <1>7, <2>5, <2>9, Leaving DEF f
<1> QED
  BY <1>2, <1>6, <1>7

\* operator= of another slot
LEMMA AssignKeeps ==
  ASSUME Owning(x, {}), NEW s \in Slots, NEW t \in Slots \ {s}, Dom!Leaves(Dom!Assign(x, s, t))
  PROVE  Owning(x', {})
<1> DEFINE e   == Dom!Destroy(x, Dom!Cell(x.slot[s]))
           put == [e EXCEPT !.slot[s] = Dom!Null]
           f   == Dom!Assign(x, s, t)
<1>1. /\ e \in Documents /\ ~e.wrong /\ e.slot = x.slot /\ e.needFree = x.needFree
      /\ \E hand : Owning(put, hand) /\ (x.needFree => hand = {})
      /\ e.heap = IF x.needFree
                     THEN [b \in HeapBlocks |-> IF b \in Least(Kids(x), {Dom!Block(x.slot[s])} \ {0})
                                                THEN Dom!Unused ELSE x.heap[b]]
                     ELSE x.heap
  BY SlotDestroyed
<1>2. f = [[e EXCEPT !.slot[s] = x.slot[t]] EXCEPT !.slot = [r \in Slots |-> IF r \in {t} THEN Dom!Null ELSE @[r]]]
  BY DEF Dom!Assign, Dom!RawAssign
<1> HIDE DEF e, f
<1>3. /\ put \in Documents /\ put.slot = [e.slot EXCEPT ![s] = Dom!Null]
      /\ put.heap = e.heap /\ put.wrong = e.wrong /\ put.needFree = e.needFree
  BY <1>1, NullIs, SlotTyped
<1> HIDE DEF put
<1>4. PICK hand : Owning(put, hand) /\ (x.needFree => hand = {})
  BY <1>1
<1>5. e.slot \in [Slots -> Datas] /\ x.slot[t] \in Datas
  BY <1>1 DEF Documents
<1>6. /\ f.slot = [r \in Slots |-> IF r = t THEN Dom!Null ELSE IF r = s THEN x.slot[t] ELSE e.slot[r]]
      /\ f.heap = e.heap /\ f.wrong = e.wrong /\ f.needFree = e.needFree /\ f \in Documents
  BY <1>1, <1>2, <1>5, NullIs DEF Documents
<1>7. /\ Dom!Block(f.slot[t]) = 0 /\ f.slot[s] = put.slot[t] /\ Dom!Block(put.slot[s]) = 0
      /\ \A r \in Slots \ {s, t} : f.slot[r] = put.slot[r]
  BY <1>1, <1>3, <1>5, <1>6, NullIs
<1>8. \A p, q \in Slots : Dom!Block(put.slot[p]) = Dom!Block(put.slot[q]) /\ Dom!Block(put.slot[p]) # 0 => p = q
  BY <1>4, OnceOnOwn DEF Owning
<1>9. Dom!Once(Dom!OnOwn(f))
  <2>1. \A p, q \in Slots : Dom!Block(f.slot[p]) = Dom!Block(f.slot[q]) /\ Dom!Block(f.slot[p]) # 0 => p = q
    BY <1>7, <1>8
  <2> QED
    BY <2>1, OnceOnOwn
<1>10. ASSUME NEW b PROVE b \in Tops(f) <=> b \in Tops(put)
  <2>1. b \in Tops(f) <=> b # 0 /\ \E r \in Slots : b = Dom!Block(f.slot[r])
    BY TopsHas
  <2>2. b \in Tops(put) <=> b # 0 /\ \E r \in Slots : b = Dom!Block(put.slot[r])
    BY TopsHas
  <2> QED
    BY <1>7, <2>1, <2>2
<1>11. Tops(f) = Tops(put)
  BY <1>10
<1>12. Owning(f, (Tops(put) \cup hand) \ Tops(f))
  BY <1>1, <1>3, <1>4, <1>6, <1>9, <1>11, Regrouped
<1>13. (Tops(put) \cup hand) \ Tops(f) = hand
  BY <1>4, <1>11 DEF Owning
<1> QED
  BY <1>1, <1>4, <1>6, <1>12, <1>13, Leaving DEF f

\* Swap of two slots
LEMMA SwapKeeps ==
  ASSUME Owning(x, {}), NEW s \in Slots, NEW t \in Slots \ {s}, Dom!Leaves(Dom!Swap(x, s, t))
  PROVE  Owning(x', {})
<1> DEFINE f == Dom!Swap(x, s, t)
<1>1. x \in Documents /\ ~x.wrong /\ x.slot \in [Slots -> Datas]
  BY DEF Owning, Documents
<1>2. /\ f.slot = [x.slot EXCEPT ![s] = x.slot[t], ![t] = x.slot[s]]
      /\ f.heap = x.heap /\ f.wrong = x.wrong /\ f.needFree = x.needFree /\ f \in Documents
  BY <1>1 DEF Dom!Swap, Documents
<1> HIDE DEF f
<1>3. f.slot[s] = x.slot[t] /\ f.slot[t] = x.slot[s] /\ \A r \in Slots \ {s, t} : f.slot[r] = x.slot[r]
  BY <1>1, <1>2
<1>4. \A p, q \in Slots : Dom!Block(x.slot[p]) = Dom!Block(x.slot[q]) /\ Dom!Block(x.slot[p]) # 0 => p = q
  BY OnceOnOwn DEF Owning
<1>5. Dom!Once(Dom!OnOwn(f))
  <2>1. \A p, q \in Slots : Dom!Block(f.slot[p]) = Dom!Block(f.slot[q]) /\ Dom!Block(f.slot[p]) # 0 => p = q
    BY <1>3, <1>4
  <2> QED
    BY <2>1, OnceOnOwn
<1>6. ASSUME NEW b PROVE b \in Tops(f) <=> b \in Tops(x)
  <2>1. b \in Tops(f) <=> b # 0 /\ \E r \in Slots : b = Dom!Block(f.slot[r])
    BY TopsHas
  <2>2. b \in Tops(x) <=> b # 0 /\ \E r \in Slots : b = Dom!Block(x.slot[r])
    BY TopsHas
  <2> QED
    BY <1>3, <2>1, <2>2
<1>7. Tops(f) = Tops(x)
  BY <1>6
<1>8. Owning(f, (Tops(x) \cup {}) \ Tops(f))
  BY <1>1, <1>2, <1>5, <1>7, Regrouped
<1>9. (Tops(x) \cup {}) \ Tops(f) = {}
  BY <1>7
<1> QED
  BY <1>8, <1>9, Leaving DEF f

\* Some cells of a value are destroyed, and it is left with the rest.
LEMMA RemovalKeeps ==
  ASSUME Owning(x, {}), NEW s \in Slots, Dom!IsContainer(x.slot[s]), NEW out, NEW rest \in DataCells,
         Dom!Once(rest), Dom!Once(out), Dom!Held(rest) \cap Dom!Held(out) = {},
         Dom!Held(rest) \cup Dom!Held(out) = Dom!Held(Dom!Cells(x, x.slot[s])),
         Dom!Leaves(Dom!Left(Dom!Destroy(x, out), s, rest))
  PROVE  Owning(x', {})
<1> DEFINE e    == Dom!Destroy(x, out)
           f    == Dom!Left(e, s, rest)
           b    == x.slot[s].ptr
           hand == Dom!Held(out)
           used == Dom!UsedBlocks(x)
           gone == Least(Kids(x), hand)
<1>1. /\ x \in Documents /\ ~x.wrong /\ Dom!Once(Dom!OnOwn(x)) /\ Forest(Kids(x), used, Tops(x))
      /\ \A c \in HeapBlocks : Dom!Once(x.heap[c].cells)
  BY DEF Owning
<1>2. used \in SUBSET HeapBlocks /\ Kids(x) \in [HeapBlocks -> SUBSET used] /\ Tops(x) \subseteq used
  BY <1>1 DEF Forest
<1>3. Dom!Block(x.slot[s]) = b
  BY DEF Dom!Block
<1>4. CASE b = 0
  <2>1. Dom!Cells(x, x.slot[s]) = << >>
    BY <1>4 DEF Dom!Cells
  <2>2. hand = {}
    BY <2>1, HeldHas
  <2>3. gone = {}
    BY <2>2, <1>2, LeastIs DEF Spreads
  <2>4. Dom!Separate(x, out)
    <3>1. Dom!Below(x, Dom!Held(out)) = {}
      BY <2>3, BelowIs
    <3> QED
      BY <3>1 DEF Dom!Separate
  <2> HIDE DEF gone, hand
  <2>5. /\ e \in Documents /\ ~e.wrong /\ e.slot = x.slot /\ e.needFree = x.needFree
        /\ ~x.needFree => e.heap = x.heap
        /\ x.needFree => e.heap = [c \in HeapBlocks |-> IF c \in gone THEN Dom!Unused ELSE x.heap[c]]
    BY <1>1, <2>4, DestroyIs DEF gone, hand
  <2> HIDE DEF e
  <2>6. e.heap = x.heap
    BY <2>3, <2>5, <1>1 DEF Documents
  <2>7. Owning(e, {})
    <3>1. Tops(e) = Tops(x) /\ Dom!OnOwn(e) = Dom!OnOwn(x) /\ Kids(e) = Kids(x) /\ Dom!UsedBlocks(e) = Dom!UsedBlocks(x)
      BY <2>5, <2>6 DEF Tops, Dom!OnOwn, Kids, Dom!UsedBlocks
    <3> QED
      BY <3>1, <2>5, <2>6 DEF Owning
  <2>8. f = e
    BY <1>4, <2>5 DEF Dom!Left
  <2> QED
    BY <2>7, <2>8, Leaving DEF e
<1>5. CASE b # 0
  <2>1. b \in Tops(x)
    BY <1>3, <1>5, TopsHas
  <2>2. b \in HeapBlocks /\ Dom!Cells(x, x.slot[s]) = x.heap[b].cells /\ Kids(x)[b] = Dom!Held(x.heap[b].cells)
    BY <1>2, <1>5, <2>1 DEF Dom!Cells, Kids
  <2>3. hand \subseteq used /\ hand \subseteq Kids(x)[b] /\ hand \cap Tops(x) = {}
    BY <2>2, <1>1, <1>2 DEF Forest
  <2>4. b \notin gone
    <3>1. b \notin hand
      BY <2>1, <2>3
    <3>2. \A c \in HeapBlocks : b \notin Kids(x)[c]
      BY <2>1, <1>1 DEF Forest
    <3>3. gone \subseteq HeapBlocks
      BY DEF Least
    <3> HIDE DEF hand
    <3> QED
      BY <3>1, <3>2, <3>3, <1>2, <2>3, LeastHasOwner
  <2>5. \A c \in gone : Kids(x)[c] \cap hand = {}
    <3>1. gone \subseteq HeapBlocks
      BY DEF Least
    <3> HIDE DEF gone, hand
    <3> QED
      BY <3>1, <2>2, <2>3, <2>4, <1>1 DEF Forest
  <2>6. Dom!Separate(x, out)
    BY <2>3, <2>5, DestroysRight
  <2> HIDE DEF gone, hand
  <2>7. /\ e \in Documents /\ ~e.wrong /\ e.slot = x.slot /\ e.needFree = x.needFree
        /\ ~x.needFree => e.heap = x.heap
        /\ x.needFree => e.heap = [c \in HeapBlocks |-> IF c \in gone THEN Dom!Unused ELSE x.heap[c]]
    BY <1>1, <2>6, DestroyIs DEF gone, hand
  <2> HIDE DEF e
  <2>8. f = [e EXCEPT !.heap[b].cells = rest]
    BY <1>5, <2>7 DEF Dom!Left
  <2> HIDE DEF f
  <2> DEFINE given == [x EXCEPT !.heap[b].cells = rest]
  <2>9. /\ given \in Documents /\ ~given.wrong /\ given.slot = x.slot
        /\ given.heap = [x.heap EXCEPT ![b].cells = rest]
    BY <1>1, <2>2 DEF Documents, Heaped
  <2>10. /\ f \in Documents /\ ~f.wrong /\ f.slot = x.slot /\ f.needFree = x.needFree
         /\ f.heap = [e.heap EXCEPT ![b].cells = rest]
    <3>1. e \in Documents /\ ~e.wrong /\ e.slot = x.slot /\ e.needFree = x.needFree
      BY <2>7
    <3> QED
      BY ONLY <3>1, <2>2, <2>8, rest \in DataCells DEF Documents, Heaped
  <2> HIDE DEF given
  <2>11. /\ given.heap[b].cells = rest
         /\ \A c \in HeapBlocks : given.heap[c].used = x.heap[c].used
         /\ \A c \in HeapBlocks : c # b => given.heap[c] = x.heap[c]
    BY <1>1, <2>2, <2>9 DEF Documents, Heaped
  <2>12. Owning(given, hand)
    <3> DEFINE all == Tops(x) \cup {} \cup Kids(x)[b]
    <3>1. Tops(given) = Tops(x) /\ Dom!OnOwn(given) = Dom!OnOwn(x)
      BY <2>9 DEF Tops, Dom!OnOwn
    <3>2. Dom!Held(given.heap[b].cells) \subseteq all \ {b}
      BY <2>1, <2>2, <2>11, <1>1 DEF Forest
    <3>3. Tops(given) \subseteq all \ Dom!Held(given.heap[b].cells)
      BY <3>1, <2>2, <2>11, <1>1 DEF Forest
    <3>4. all \ (Dom!Held(given.heap[b].cells) \cup Tops(given)) = hand
      BY <3>1, <2>2, <2>3, <2>11 DEF hand
    <3> DEFINE now == Dom!Held(given.heap[b].cells)
    <3>5. Owning(given, all \ (now \cup Tops(given)))
      <4>1. b \in Tops(x) \cup {} /\ all = Tops(x) \cup {} \cup Kids(x)[b]
        BY <2>1
      <4>2. \A c \in HeapBlocks : c # b => given.heap[c].cells = x.heap[c].cells
        BY <2>11
      <4>3. Dom!Once(Dom!OnOwn(given)) /\ Dom!Once(given.heap[b].cells)
        BY <3>1, <2>11, <1>1
      <4> HIDE DEF all
      <4> QED
        BY <4>1, <4>2, <4>3, <3>2, <3>3, <2>9, <2>11, Rearranged
    <3> QED
      BY <3>4, <3>5
  <2>13. CASE ~x.needFree
    <3>1. f.heap = given.heap
      BY <2>7, <2>9, <2>10, <2>13
    <3>2. Tops(f) = Tops(given) /\ Dom!OnOwn(f) = Dom!OnOwn(given) /\ Kids(f) = Kids(given)
          /\ Dom!UsedBlocks(f) = Dom!UsedBlocks(given)
      BY <3>1, <2>9, <2>10 DEF Tops, Dom!OnOwn, Kids, Dom!UsedBlocks
    <3>3. Owning(f, hand)
      BY <3>1, <3>2, <2>10, <2>12 DEF Owning
    <3> QED
      BY <3>3, <2>10, <2>13, Leaving DEF f, e
  <2>14. CASE x.needFree
    <3>1. Least(Kids(given), hand) = gone
      <4>1. Kids(given) \in [HeapBlocks -> SUBSET used]
        BY <2>12, <2>11 DEF Owning, Forest, Dom!UsedBlocks
      <4>2. \A c \in HeapBlocks : c # b => Kids(given)[c] = Kids(x)[c]
        BY <2>11 DEF Kids
      <4> QED
        <5>1. b \notin Least(Kids(x), hand) /\ hand \in SUBSET used
          BY <2>3, <2>4 DEF gone
        <5> QED
          BY ONLY <5>1, <4>1, <4>2, <1>2, LeastSame DEF gone
    <3>2. f.heap = [c \in HeapBlocks |-> IF c \in Least(Kids(given), hand) THEN Dom!Unused ELSE given.heap[c]]
      <4>1. \A c \in HeapBlocks : f.heap[c] = IF c \in gone THEN Dom!Unused ELSE given.heap[c]
        BY <2>2, <2>4, <2>7, <2>9, <2>10, <2>14, <1>1 DEF Documents
      <4>2. DOMAIN f.heap = HeapBlocks /\ f.heap = [c \in HeapBlocks |-> f.heap[c]]
        BY <2>10 DEF Documents
      <4> QED
        BY <4>1, <4>2, <3>1
    <3>3. Owning(f, hand \ hand)
      <4>1. f.slot = given.slot /\ hand \in SUBSET hand /\ f \in Documents /\ ~f.wrong
        BY <2>9, <2>10
      <4> QED
        BY ONLY <4>1, <3>2, <2>12, Destroyed
    <3>4. hand \ hand = {}
      OBVIOUS
    <3> QED
      BY <3>3, <3>4, Leaving DEF f, e
  <2> QED
    BY <2>13, <2>14
<1> QED
  BY <1>4, <1>5

\* The cells of an array or object are in the block it owns, if it has one.
LEMMA CellsTyped ==
  ASSUME NEW d, NEW hand, Owning(d, hand), NEW s \in Slots, Dom!IsContainer(d.slot[s]),
         NEW cells, cells = Dom!Cells(d, d.slot[s])
  PROVE  /\ cells \in DataCells /\ Dom!Once(cells) /\ d.slot[s].ptr = Dom!Block(d.slot[s])
         /\ d.slot[s].ptr = 0 => cells = << >>
         /\ d.slot[s].ptr # 0 => /\ d.slot[s].ptr \in HeapBlocks /\ d.slot[s].ptr \in Tops(d)
                                 /\ cells = d.heap[d.slot[s].ptr].cells
                                 /\ Dom!Held(cells) = Kids(d)[d.slot[s].ptr]
<1>1. d.slot[s].ptr = Dom!Block(d.slot[s])
  BY DEF Dom!Block
<1>2. CASE d.slot[s].ptr = 0
  <2>1. cells = << >>
    BY <1>2 DEF Dom!Cells
  <2>2. cells \in DataCells
    BY <2>1 DEF DataCells
  <2>3. Dom!Once(cells)
    BY <2>1 DEF Dom!Once
  <2> QED
    BY <1>1, <1>2, <2>1, <2>2, <2>3
<1>3. CASE d.slot[s].ptr # 0
  <2>1. d.slot[s].ptr \in Tops(d)
    BY <1>1, <1>3, TopsHas
  <2>2. d.slot[s].ptr \in HeapBlocks
    BY <2>1 DEF Owning, Forest
  <2>3. cells = d.heap[d.slot[s].ptr].cells
    BY <1>3 DEF Dom!Cells
  <2>4. cells \in DataCells /\ Dom!Once(cells)
    BY <2>2, <2>3 DEF Owning, Documents, Heaped
  <2>5. Dom!Held(cells) = Kids(d)[d.slot[s].ptr]
    BY <2>2, <2>3 DEF Kids
  <2> QED
    BY <1>1, <1>3, <2>1, <2>2, <2>3, <2>4, <2>5
<1> QED
  BY <1>2, <1>3

\* RemoveAllMembers, Clear
LEMMA RemoveAllKeeps ==
  ASSUME Owning(x, {}), NEW s \in Slots, Dom!IsContainer(x.slot[s]), Dom!Leaves(Dom!RemoveAll(x, s))
  PROVE  Owning(x', {})
<1> DEFINE cells == Dom!Cells(x, x.slot[s])
<1>1. Dom!Once(cells) /\ Dom!Leaves(Dom!Left(Dom!Destroy(x, cells), s, << >>))
  BY CellsTyped DEF Dom!RemoveAll
<1>2. << >> \in DataCells /\ Dom!Once(<< >>) /\ Dom!Held(<< >>) = {}
  BY HeldHas DEF DataCells, Dom!Once
<1> HIDE DEF cells
<1>3. Dom!Held(<< >>) \cap Dom!Held(cells) = {} /\ Dom!Held(<< >>) \cup Dom!Held(cells) = Dom!Held(cells)
  BY <1>2
<1> QED
  BY <1>1, <1>2, <1>3, RemovalKeeps DEF cells

\* PopBack
LEMMA PopBackKeeps ==
  ASSUME Owning(x, {}), NEW s \in Slots, Dom!IsContainer(x.slot[s]), Dom!Size(x, x.slot[s]) > 0,
         Dom!Leaves(Dom!PopBack(x, s))
  PROVE  Owning(x', {})
<1> DEFINE cells == Dom!Cells(x, x.slot[s])
           rest  == Dom!Front(cells)
           out   == << Dom!Last(cells) >>
<1>1. cells \in DataCells /\ Dom!Once(cells) /\ Len(cells) > 0
  BY CellsTyped DEF Dom!Size
<1>2. Dom!Leaves(Dom!Left(Dom!Destroy(x, out), s, rest))
  BY DEF Dom!PopBack
<1> HIDE DEF cells
<1>3. rest \in DataCells /\ DOMAIN rest = 1..(Len(cells) - 1) /\ \A i \in DOMAIN rest : rest[i] = cells[i]
  BY <1>1 DEF Dom!Front, DataCells
<1>4. DOMAIN out = 1..1 /\ out[1] = cells[Len(cells)] /\ DOMAIN cells = 1..Len(cells) /\ Len(cells) \in Nat
  BY <1>1 DEF Dom!Last, DataCells
<1> HIDE DEF rest, out
<1>5. /\ Dom!Once(rest) /\ Dom!Once(out)
      /\ Dom!Held(rest) \cap Dom!Held(out) = {} /\ Dom!Held(rest) \cup Dom!Held(out) = Dom!Held(cells)
  <2> DEFINE f == [i \in DOMAIN rest |-> i]
             g == [i \in DOMAIN out |-> Len(cells)]
  <2>1. f \in [DOMAIN rest -> DOMAIN cells] /\ g \in [DOMAIN out -> DOMAIN cells]
    BY <1>1, <1>3, <1>4
  <2>2. \A i, k \in DOMAIN rest : f[i] = f[k] => i = k
    BY <1>1, <1>3, <1>4
  <2>3. \A i, k \in DOMAIN out : g[i] = g[k] => i = k
    BY <1>1, <1>3, <1>4
  <2>4. \A i \in DOMAIN rest : rest[i] = cells[f[i]]
    BY <1>1, <1>3, <1>4
  <2>5. \A i \in DOMAIN out : out[i] = cells[g[i]]
    BY <1>1, <1>3, <1>4
  <2>6. \A i \in DOMAIN rest : \A k \in DOMAIN out : f[i] # g[k]
    BY <1>1, <1>3, <1>4
  <2>7. ASSUME NEW m \in DOMAIN cells
        PROVE  (\E i \in DOMAIN rest : f[i] = m) \/ (\E i \in DOMAIN out : g[i] = m)
    <3>1. CASE m = Len(cells)
      <4>1. 1 \in DOMAIN out /\ g[1] = m
        BY <3>1, <1>4
      <4> QED
        BY <4>1
    <3>2. CASE m # Len(cells)
      <4>1. m \in DOMAIN rest /\ f[m] = m
        BY <3>2, <1>3, <1>4
      <4> QED
        BY <4>1
    <3> QED
      BY <3>1, <3>2
  <2>8. Dom!Once(cells)
    BY <1>1
  <2> HIDE DEF f, g
  <2> QED
    BY ONLY <2>1, <2>2, <2>3, <2>4, <2>5, <2>6, <2>7, <2>8, Parted
<1> QED
  BY <1>2, <1>3, <1>5, RemovalKeeps DEF cells

\* RemoveMember
LEMMA RemoveMemberKeeps ==
  ASSUME Owning(x, {}), NEW s \in Slots, Dom!IsContainer(x.slot[s]), NEW at \in 1..Dom!Size(x, x.slot[s]),
         Dom!Leaves(Dom!RemoveMember(x, s, at))
  PROVE  Owning(x', {})
<1> DEFINE cells == Dom!Cells(x, x.slot[s])
           rest  == Dom!Front([cells EXCEPT ![at] = Dom!Last(cells)])
           out   == << cells[at] >>
<1>1. cells \in DataCells /\ Dom!Once(cells) /\ at \in 1..Len(cells)
  BY CellsTyped DEF Dom!Size
<1>2. Dom!Leaves(Dom!Left(Dom!Destroy(x, out), s, rest))
  BY DEF Dom!RemoveMember
<1> HIDE DEF cells
<1>3. Len(cells) \in Nat /\ Len(cells) > 0 /\ DOMAIN cells = 1..Len(cells)
  BY <1>1 DEF DataCells
<1>4. /\ rest \in DataCells /\ DOMAIN rest = 1..(Len(cells) - 1)
      /\ \A i \in DOMAIN rest : rest[i] = cells[IF i = at THEN Len(cells) ELSE i]
  <2> DEFINE moved == [cells EXCEPT ![at] = Dom!Last(cells)]
  <2>1. moved \in DataCells /\ Len(moved) = Len(cells)
        /\ \A i \in DOMAIN cells : moved[i] = IF i = at THEN cells[Len(cells)] ELSE cells[i]
    BY <1>1, <1>3 DEF DataCells, Dom!Last
  <2> HIDE DEF moved
  <2>2. /\ rest \in DataCells /\ DOMAIN rest = 1..(Len(cells) - 1)
        /\ \A i \in DOMAIN rest : rest[i] = moved[i]
    BY <1>3, <2>1 DEF Dom!Front, DataCells, moved
  <2> HIDE DEF rest
  <2>3. ASSUME NEW i \in DOMAIN rest PROVE rest[i] = cells[IF i = at THEN Len(cells) ELSE i]
    <3>1. i \in DOMAIN cells
      BY <2>2, <1>3
    <3>2. rest[i] = moved[i]
      BY <2>2
    <3>3. moved[i] = IF i = at THEN cells[Len(cells)] ELSE cells[i]
      BY <3>1, <2>1
    <3> QED
      BY <3>2, <3>3
  <2> QED
    BY <2>2, <2>3
<1>5. DOMAIN out = 1..1 /\ out[1] = cells[at]
  BY <1>1
<1> HIDE DEF rest, out
<1>6. /\ Dom!Once(rest) /\ Dom!Once(out)
      /\ Dom!Held(rest) \cap Dom!Held(out) = {} /\ Dom!Held(rest) \cup Dom!Held(out) = Dom!Held(cells)
  <2> DEFINE f == [i \in DOMAIN rest |-> IF i = at THEN Len(cells) ELSE i]
             g == [i \in DOMAIN out |-> at]
  <2>1. f \in [DOMAIN rest -> DOMAIN cells] /\ g \in [DOMAIN out -> DOMAIN cells]
    BY <1>1, <1>3, <1>4, <1>5
  <2>2. \A i, k \in DOMAIN rest : f[i] = f[k] => i = k
    BY <1>1, <1>3, <1>4, <1>5
  <2>3. \A i, k \in DOMAIN out : g[i] = g[k] => i = k
    BY <1>1, <1>3, <1>4, <1>5
  <2>4. \A i \in DOMAIN rest : rest[i] = cells[f[i]]
    BY <1>1, <1>3, <1>4, <1>5
  <2>5. \A i \in DOMAIN out : out[i] = cells[g[i]]
    BY <1>1, <1>3, <1>4, <1>5
  <2>6. \A i \in DOMAIN rest : \A k \in DOMAIN out : f[i] # g[k]
    BY <1>1, <1>3, <1>4, <1>5
  <2>7. ASSUME NEW m \in DOMAIN cells
        PROVE  (\E i \in DOMAIN rest : f[i] = m) \/ (\E i \in DOMAIN out : g[i] = m)
    <3>1. CASE m = at
      <4>1. 1 \in DOMAIN out /\ g[1] = m
        BY <3>1, <1>5
      <4> QED
        BY <4>1
    <3>2. CASE m # at /\ m = Len(cells)
      <4>1. at \in DOMAIN rest /\ f[at] = m
        BY <3>2, <1>1, <1>3, <1>4
      <4> QED
        BY <4>1
    <3>3. CASE m # at /\ m # Len(cells)
      <4>1. m \in DOMAIN rest /\ f[m] = m
        BY <3>3, <1>1, <1>3, <1>4
      <4> QED
        BY <4>1
    <3> QED
      BY <3>1, <3>2, <3>3
  <2>8. Dom!Once(cells)
    BY <1>1
  <2> HIDE DEF f, g
  <2> QED
    BY ONLY <2>1, <2>2, <2>3, <2>4, <2>5, <2>6, <2>7, <2>8, Parted
<1> QED
  BY <1>2, <1>4, <1>6, RemovalKeeps DEF cells

\* Erase, EraseMember
LEMMA EraseKeeps ==
  ASSUME Owning(x, {}), NEW s \in Slots, Dom!IsContainer(x.slot[s]),
         NEW first \in 1..Dom!Size(x, x.slot[s]), NEW last \in first..Dom!Size(x, x.slot[s]),
         Dom!Leaves(Dom!Erase(x, s, first, last))
  PROVE  Owning(x', {})
<1> DEFINE cells == Dom!Cells(x, x.slot[s])
           n     == last - first + 1
           rest  == [i \in 1..Len(cells) - n |-> IF i >= first THEN cells[i + n] ELSE cells[i]]
           out   == SubSeq(cells, first, last)
<1>1. cells \in DataCells /\ Dom!Once(cells) /\ first \in 1..Len(cells) /\ last \in first..Len(cells)
  BY CellsTyped DEF Dom!Size
<1>2. Dom!Leaves(Dom!Left(Dom!Destroy(x, out), s, rest))
  BY DEF Dom!Erase
<1> HIDE DEF cells
<1>3. /\ Len(cells) \in Nat /\ DOMAIN cells = 1..Len(cells) /\ n \in Nat /\ n <= Len(cells) /\ n > 0
      /\ first \in Nat /\ last \in Nat /\ first >= 1 /\ first <= last /\ last <= Len(cells)
  BY <1>1 DEF DataCells
<1>4. /\ rest \in DataCells /\ DOMAIN rest = 1..(Len(cells) - n)
      /\ \A i \in DOMAIN rest : rest[i] = cells[IF i >= first THEN i + n ELSE i]
  <2>1. \A i \in 1..(Len(cells) - n) : rest[i] \in [1..1 -> Datas] \cup [1..2 -> Datas]
    BY <1>1, <1>3 DEF DataCells
  <2> QED
    BY <2>1, <1>3 DEF DataCells
<1>5. Len(out) = n /\ DOMAIN out = 1..n /\ \A i \in DOMAIN out : out[i] = cells[first + i - 1]
  BY <1>1, <1>3 DEF DataCells
<1>6. n = last - first + 1
  OBVIOUS
<1> HIDE DEF rest, out, n
<1>7. /\ Dom!Once(rest) /\ Dom!Once(out)
      /\ Dom!Held(rest) \cap Dom!Held(out) = {} /\ Dom!Held(rest) \cup Dom!Held(out) = Dom!Held(cells)
  <2> DEFINE f == [i \in DOMAIN rest |-> IF i >= first THEN i + n ELSE i]
             g == [i \in DOMAIN out |-> first + i - 1]
  <2>1. f \in [DOMAIN rest -> DOMAIN cells] /\ g \in [DOMAIN out -> DOMAIN cells]
    BY <1>3, <1>4, <1>5, <1>6
  <2>2. \A i, k \in DOMAIN rest : f[i] = f[k] => i = k
    BY <1>3, <1>4, <1>5, <1>6
  <2>3. \A i, k \in DOMAIN out : g[i] = g[k] => i = k
    BY <1>3, <1>4, <1>5, <1>6
  <2>4. \A i \in DOMAIN rest : rest[i] = cells[f[i]]
    BY <1>3, <1>4, <1>5, <1>6
  <2>5. \A i \in DOMAIN out : out[i] = cells[g[i]]
    BY <1>3, <1>4, <1>5, <1>6
  <2>6. \A i \in DOMAIN rest : \A k \in DOMAIN out : f[i] # g[k]
    BY <1>3, <1>4, <1>5, <1>6
  <2>7. ASSUME NEW m \in DOMAIN cells
        PROVE  (\E i \in DOMAIN rest : f[i] = m) \/ (\E i \in DOMAIN out : g[i] = m)
    <3>1. CASE m < first
      <4>1. m \in DOMAIN rest /\ f[m] = m
        BY <3>1, <1>3, <1>4, <1>6
      <4> QED
        BY <4>1
    <3>2. CASE m >= first /\ m <= last
      <4>1. m - first + 1 \in DOMAIN out /\ g[m - first + 1] = m
        BY <3>2, <1>3, <1>5, <1>6
      <4> QED
        BY <4>1
    <3>3. CASE m > last
      <4>1. m - n \in DOMAIN rest /\ f[m - n] = m
        BY <3>3, <1>3, <1>4, <1>6
      <4> QED
        BY <4>1
    <3> QED
      BY <3>1, <3>2, <3>3, <1>3
  <2>8. Dom!Once(cells)
    BY <1>1
  <2> HIDE DEF f, g
  <2> QED
    BY ONLY <2>1, <2>2, <2>3, <2>4, <2>5, <2>6, <2>7, <2>8, Parted
<1> QED
  BY <1>2, <1>4, <1>7, RemovalKeeps DEF cells

\* Reserve: the cells are in a block of the wanted width, which the same value owns.
LEMMA ReserveIs ==
  ASSUME NEW d, Owning(d, {}), NEW s \in Slots, Dom!IsContainer(d.slot[s]), Dom!FreeBlocks(d) # {},
         NEW capacity \in Nat, NEW e, e = Dom!Reserve(d, s, capacity)
  PROVE  /\ Owning(e, {}) /\ e.needFree = d.needFree
         /\ \A t \in Slots \ {s} : e.slot[t] = d.slot[t]
         /\ e.slot[s].flags = d.slot[s].flags
         /\ Dom!Cells(e, e.slot[s]) = Dom!Cells(d, d.slot[s])
         /\ capacity > 0 => e.slot[s].ptr # 0
<1> DEFINE v     == d.slot[s]
           cells == Dom!Cells(d, v)
           n     == Dom!NewBlock(d)
           w     == Dom!Data(v.flags, n)
           wide  == Dom!Used(0, capacity, cells)
<1>1. /\ d \in Documents /\ ~d.wrong /\ Dom!Once(Dom!OnOwn(d)) /\ v \in Datas
      /\ Forest(Kids(d), Dom!UsedBlocks(d), Tops(d)) /\ \A c \in HeapBlocks : Dom!Once(d.heap[c].cells)
  BY DEF Owning, Documents
<1>2. /\ cells \in DataCells /\ Dom!Once(cells) /\ v.ptr = Dom!Block(v)
      /\ v.ptr = 0 => cells = << >>
      /\ v.ptr # 0 => v.ptr \in HeapBlocks /\ v.ptr \in Tops(d) /\ cells = d.heap[v.ptr].cells
                      /\ Dom!Held(cells) = Kids(d)[v.ptr]
  BY CellsTyped
<1>3. CASE capacity <= Dom!Capacity(d, v)
  <2>1. e = d
    BY <1>3 DEF Dom!Reserve
  <2>2. capacity > 0 => v.ptr # 0
    BY <1>3 DEF Dom!Capacity
  <2> QED
    BY <2>1, <2>2
<1>4. CASE ~(capacity <= Dom!Capacity(d, v))
  <2>1. n \in Dom!FreeBlocks(d) /\ n \in HeapBlocks \ Dom!UsedBlocks(d) /\ n # 0 /\ n \in Nat
    BY NewBlockIs, DomAssumption DEF Dom!FreeBlocks, Dom!UsedBlocks
  <2>2. e = [d EXCEPT !.heap = [c \in HeapBlocks |-> CASE c = n     -> wide
                                                      [] c = v.ptr -> Dom!Unused
                                                      [] OTHER     -> @[c]],
                      !.slot[s] = w]
    BY <1>4 DEF Dom!Reserve
  <2> HIDE DEF n, cells
  <2>3. /\ wide \in Heaped /\ wide.used /\ wide.cells = cells
        /\ w \in Datas /\ Dom!Block(w) = n /\ w.flags = v.flags /\ w.ptr = n
    BY <1>1, <1>2, <2>1 DEF Dom!Used, Heaped, Dom!Data, Datas, Dom!Block, Dom!IsContainer
  <2>4. n \notin Tops(d)
    BY <1>1, <2>1 DEF Forest
  <2>5. v.ptr # n
    BY <1>2, <2>1, <2>4
  <2> HIDE DEF wide, w
  <2>6. /\ e.slot = [d.slot EXCEPT ![s] = w] /\ ~e.wrong /\ e.needFree = d.needFree
        /\ DOMAIN e.heap = HeapBlocks /\ e.heap[n] = wide
        /\ v.ptr # 0 => e.heap[v.ptr] = Dom!Unused
        /\ \A c \in HeapBlocks : c # n /\ c # v.ptr => e.heap[c] = d.heap[c]
    BY <1>1, <1>2, <2>1, <2>2, <2>5 DEF Documents
  <2>7. e \in Documents
    <3> DEFINE h == e.heap
    <3>1. h \in [HeapBlocks -> Heaped]
      <4>1. \A c \in HeapBlocks : e.heap[c] \in Heaped
        BY <1>1, <1>2, <2>3, <2>6, UnusedIs, DomAssumption DEF Documents
      <4>2. e.heap = [c \in HeapBlocks |-> e.heap[c]]
        BY <1>1, <2>2 DEF Documents
      <4> QED
        BY <4>1, <4>2
    <3> DEFINE g == [d.slot EXCEPT ![s] = w]
    <3>2. g \in [Slots -> Datas] /\ d.needFree \in BOOLEAN /\ d.calls \in Nat /\ FALSE \in BOOLEAN
      BY <1>1, <2>3 DEF Documents
    <3>3. e = [needFree |-> d.needFree, slot |-> g, heap |-> h, wrong |-> FALSE, calls |-> d.calls]
      BY <1>1, <2>2 DEF Documents
    <3> HIDE DEF h, g
    <3> QED
      BY ONLY <3>1, <3>2, <3>3, DocumentIs
  <2>8. e.slot[s] = w /\ \A t \in Slots \ {s} : e.slot[t] = d.slot[t]
    BY <1>1, <2>6 DEF Documents
  <2>9. Dom!Cells(e, e.slot[s]) = cells
    BY <2>1, <2>3, <2>6, <2>8 DEF Dom!Cells
  <2>10. Owning(e, {})
    <3>1. CASE v.ptr = 0
      <4>1. \A c \in HeapBlocks : c # n => e.heap[c] = d.heap[c]
        BY <2>6, <3>1, DomAssumption
      <4>2. e.heap[n].used /\ e.heap[n].cells = << >> /\ Dom!Block(d.slot[s]) = 0
        BY <1>2, <2>3, <2>6, <3>1
      <4> QED
        BY ONLY <4>1, <4>2, <2>1, <2>3, <2>6, <2>7, Owning(d, {}), s \in Slots, BlockPut
    <3>2. CASE v.ptr # 0
      <4> DEFINE b == v.ptr
      <4>1. b \in HeapBlocks /\ b \in Tops(d) /\ cells = d.heap[b].cells /\ b # n /\ Dom!Block(d.slot[s]) = b
        BY <1>2, <2>5, <3>2
      <4> HIDE DEF b
      <4>2. /\ Tops(e) = (Tops(d) \ {Dom!Block(d.slot[s])}) \cup ({Dom!Block(w)} \ {0})
            /\ Dom!Once(Dom!OnOwn(e))
        BY ONLY <1>1, <2>3, <2>4, <2>6, s \in Slots, SlotPut
      <4>3. Tops(e) = (Tops(d) \cup {n}) \ {b}
        BY <2>1, <2>3, <4>1, <4>2
      <4>4. Kids(e) = [Kids(d) EXCEPT ![n] = Kids(d)[b], ![b] = {}]
        <5>1. \A c \in HeapBlocks : c # b /\ c # n => Kids(e)[c] = Kids(d)[c]
          BY <2>6 DEF Kids, b
        <5>2. Kids(e)[b] = {} /\ Kids(e)[n] = Kids(d)[b]
          BY <2>1, <2>3, <2>6, <3>2, <4>1, UnusedIs DEF Kids, b
        <5>3. DOMAIN Kids(e) = HeapBlocks /\ DOMAIN Kids(d) = HeapBlocks
              /\ Kids(e) = [c \in HeapBlocks |-> Kids(e)[c]]
          BY DEF Kids
        <5> QED
          BY <4>1, <2>1, <5>1, <5>2, <5>3
      <4>5. Dom!UsedBlocks(e) = (Dom!UsedBlocks(d) \cup {n}) \ {b}
        <5>1. \A c \in HeapBlocks : e.heap[c].used <=> (d.heap[c].used \/ c = n) /\ c # b
          BY <2>1, <2>3, <2>6, <3>2, <4>1, UnusedIs DEF b
        <5> QED
          BY <2>1, <5>1 DEF Dom!UsedBlocks
      <4>6. Forest([Kids(d) EXCEPT ![n] = Kids(d)[b], ![b] = {}], (Dom!UsedBlocks(d) \cup {n}) \ {b},
                   (Tops(d) \cup {n}) \ {b})
        BY ONLY <1>1, <2>1, <4>1, ForestMoves
      <4>7. \A c \in HeapBlocks : Dom!Once(e.heap[c].cells)
        BY <1>1, <1>2, <2>3, <2>6, <3>2, UnusedIs DEF b
      <4> QED
        BY <2>6, <2>7, <4>2, <4>3, <4>4, <4>5, <4>6, <4>7 DEF Owning
    <3> QED
      BY <3>1, <3>2
  <2> QED
    BY <2>1, <2>3, <2>6, <2>8, <2>9, <2>10 DEF cells
<1> QED
  BY <1>3, <1>4

\* Reserve, MemberReserve
LEMMA WidenKeeps ==
  ASSUME Owning(x, {}), NEW s \in Slots, Dom!Widen(s)
  PROVE  Owning(x', {})
<1> DEFINE e == Dom!Reserve(x, s, DefaultCapacity + 1)
<1>1. Dom!IsContainer(x.slot[s]) /\ Dom!FreeBlocks(x) # {} /\ Dom!Leaves(e) /\ DefaultCapacity + 1 \in Nat
  BY DomAssumption DEF Dom!Widen, Dom!Container, Dom!Room
<1> HIDE DEF e
<1>2. Owning(e, {})
  BY <1>1, ReserveIs DEF e
<1> QED
  BY <1>1, <1>2, Leaving

\* The cells with one more, and what that one holds.
Added(cells, cell) == Append(cells, cell)
CellHolds(cell) == {Dom!Block(cell[i]) : i \in DOMAIN cell} \ {0}

\* A cell is put behind the others.
LEMMA CellAdded ==
  ASSUME NEW cells \in DataCells, Dom!Once(cells), NEW cell \in [1..1 -> Datas] \cup [1..2 -> Datas],
         \A i, j \in DOMAIN cell : Dom!Block(cell[i]) = Dom!Block(cell[j]) /\ Dom!Block(cell[i]) # 0 => i = j,
         \A i \in DOMAIN cell : Dom!Block(cell[i]) \notin Dom!Held(cells),
         NEW now, now = Added(cells, cell)
  PROVE  now \in DataCells /\ Dom!Once(now) /\ Dom!Held(now) = Dom!Held(cells) \cup CellHolds(cell)
<1> DEFINE n == Len(cells)
<1>1. n \in Nat /\ DOMAIN cells = 1..n
  BY DEF DataCells
<1>2. /\ now \in DataCells /\ DOMAIN now = 1..n + 1
      /\ now[n + 1] = cell /\ \A i \in 1..n : now[i] = cells[i]
  BY <1>1 DEF DataCells, Added
<1> HIDE DEF n
<1>5. \A i \in DOMAIN now : i \in DOMAIN cells \/ i = n + 1
  BY <1>1, <1>2
<1>6. n + 1 \in DOMAIN now /\ n + 1 \notin DOMAIN cells /\ \A i \in DOMAIN cells : i \in DOMAIN now /\ now[i] = cells[i]
  BY <1>1, <1>2
<1>7. \A i \in DOMAIN cells : \A j \in DOMAIN cells[i] :
        Dom!Block(cells[i][j]) # 0 => Dom!Block(cells[i][j]) \in Dom!Held(cells)
  BY HeldHas
<1>8. Dom!Once(now)
  <2> SUFFICES ASSUME NEW i \in DOMAIN now, NEW m \in DOMAIN now, NEW j \in DOMAIN now[i], NEW l \in DOMAIN now[m],
                      Dom!Block(now[i][j]) = Dom!Block(now[m][l]), Dom!Block(now[i][j]) # 0
               PROVE  i = m /\ j = l
    BY DEF Dom!Once
  <2>1. CASE i \in DOMAIN cells /\ m \in DOMAIN cells
    BY <2>1, <1>6 DEF Dom!Once
  <2>2. CASE i = n + 1 /\ m = n + 1
    BY <2>2, <1>2
  <2>3. CASE i \in DOMAIN cells /\ m = n + 1
    BY <2>3, <1>2, <1>6, <1>7
  <2>4. CASE i = n + 1 /\ m \in DOMAIN cells
    BY <2>4, <1>2, <1>6, <1>7
  <2> QED
    BY <1>5, <2>1, <2>2, <2>3, <2>4
<1>9. ASSUME NEW b
      PROVE  b \in Dom!Held(now) <=> b \in Dom!Held(cells) \cup CellHolds(cell)
  <2>1. b \in Dom!Held(now) <=> b # 0 /\ \E i \in DOMAIN now : \E j \in DOMAIN now[i] : b = Dom!Block(now[i][j])
    BY ONLY HeldHas
  <2>2. b \in Dom!Held(cells) <=> b # 0 /\ \E i \in DOMAIN cells : \E j \in DOMAIN cells[i] : b = Dom!Block(cells[i][j])
    BY HeldHas
  <2>3. (\E i \in DOMAIN now : \E j \in DOMAIN now[i] : b = Dom!Block(now[i][j]))
        <=> \/ \E i \in DOMAIN cells : \E j \in DOMAIN cells[i] : b = Dom!Block(cells[i][j])
            \/ \E j \in DOMAIN cell : b = Dom!Block(cell[j])
    BY <1>2, <1>5, <1>6
  <2> QED
    BY <2>1, <2>2, <2>3 DEF CellHolds
<1> QED
  BY <1>2, <1>8, <1>9

\* The cells with v as value l of cell k.
WithItem(cells, k, l, v) == [cells EXCEPT ![k][l] = v]

\* A value is put in the place of an item.
LEMMA ItemPut ==
  ASSUME NEW cells \in DataCells, Dom!Once(cells), NEW k \in DOMAIN cells, NEW l \in DOMAIN cells[k],
         NEW v \in Datas, Dom!Block(v) \notin Dom!Held(cells), NEW now, now = WithItem(cells, k, l, v)
  PROVE  /\ now \in DataCells /\ Dom!Once(now)
         /\ Dom!Held(now) = (Dom!Held(cells) \ {Dom!Block(cells[k][l])}) \cup ({Dom!Block(v)} \ {0})
<1> DEFINE n == Len(cells)
<1>1. n \in Nat /\ DOMAIN cells = 1..n /\ cells[k] \in [1..1 -> Datas] \cup [1..2 -> Datas]
  BY DEF DataCells
<1>2. /\ [cells[k] EXCEPT ![l] = v] \in [1..1 -> Datas] \cup [1..2 -> Datas]
      /\ DOMAIN [cells[k] EXCEPT ![l] = v] = DOMAIN cells[k]
  BY <1>1
<1>3. /\ now \in DataCells /\ DOMAIN now = DOMAIN cells
      /\ now[k] = [cells[k] EXCEPT ![l] = v] /\ \A i \in DOMAIN cells : i # k => now[i] = cells[i]
  BY <1>1, <1>2 DEF DataCells, WithItem
<1>4. /\ \A i \in DOMAIN cells : DOMAIN now[i] = DOMAIN cells[i]
      /\ now[k][l] = v
      /\ \A i \in DOMAIN cells : \A j \in DOMAIN cells[i] : i # k \/ j # l => now[i][j] = cells[i][j]
  BY <1>2, <1>3
<1>5. \A i \in DOMAIN cells : \A j \in DOMAIN cells[i] :
        Dom!Block(cells[i][j]) # 0 => Dom!Block(cells[i][j]) \in Dom!Held(cells)
  BY HeldHas
<1>6. Dom!Once(now)
  <2> SUFFICES ASSUME NEW i \in DOMAIN cells, NEW m \in DOMAIN cells, NEW j \in DOMAIN cells[i], NEW p \in DOMAIN cells[m],
                      Dom!Block(now[i][j]) = Dom!Block(now[m][p]), Dom!Block(now[i][j]) # 0
               PROVE  i = m /\ j = p
    BY <1>3, <1>4 DEF Dom!Once
  <2>1. CASE (i # k \/ j # l) /\ (m # k \/ p # l)
    BY <2>1, <1>4 DEF Dom!Once
  <2>2. CASE i = k /\ j = l /\ (m # k \/ p # l)
    BY <2>2, <1>4, <1>5
  <2>3. CASE (i # k \/ j # l) /\ m = k /\ p = l
    BY <2>3, <1>4, <1>5
  <2> QED
    BY <2>1, <2>2, <2>3
<1>7. ASSUME NEW b
      PROVE  b \in Dom!Held(now) <=> b \in (Dom!Held(cells) \ {Dom!Block(cells[k][l])}) \cup ({Dom!Block(v)} \ {0})
  <2>1. b \in Dom!Held(now) <=> b # 0 /\ \E i \in DOMAIN now : \E j \in DOMAIN now[i] : b = Dom!Block(now[i][j])
    BY ONLY HeldHas
  <2>2. b \in Dom!Held(cells) <=> b # 0 /\ \E i \in DOMAIN cells : \E j \in DOMAIN cells[i] : b = Dom!Block(cells[i][j])
    BY HeldHas
  <2>3. CASE b = 0
    BY <2>1, <2>2, <2>3
  <2>4. CASE b # 0
    <3>1. ASSUME b \in Dom!Held(now) PROVE b = Dom!Block(v) \/ (b \in Dom!Held(cells) /\ b # Dom!Block(cells[k][l]))
      <4>1. PICK i \in DOMAIN cells : \E j \in DOMAIN cells[i] : b = Dom!Block(now[i][j])
        BY <2>1, <3>1, <1>3, <1>4
      <4>2. PICK j \in DOMAIN cells[i] : b = Dom!Block(now[i][j])
        BY <4>1
      <4>3. CASE i = k /\ j = l
        BY <4>2, <4>3, <1>4
      <4>4. CASE i # k \/ j # l
        <5>1. b = Dom!Block(cells[i][j]) /\ b \in Dom!Held(cells)
          BY <4>2, <4>4, <1>4, <1>5, <2>4
        <5>2. b # Dom!Block(cells[k][l])
          BY <5>1, <4>4, <2>4 DEF Dom!Once
        <5> QED
          BY <5>1, <5>2
      <4> QED
        BY <4>3, <4>4
    <3>2. ASSUME b = Dom!Block(v) PROVE b \in Dom!Held(now)
      BY <2>1, <2>4, <3>2, <1>3, <1>4
    <3>3. ASSUME b \in Dom!Held(cells), b # Dom!Block(cells[k][l]) PROVE b \in Dom!Held(now)
      <4>1. PICK i \in DOMAIN cells : \E j \in DOMAIN cells[i] : b = Dom!Block(cells[i][j])
        BY <2>2, <3>3
      <4>2. PICK j \in DOMAIN cells[i] : b = Dom!Block(cells[i][j])
        BY <4>1
      <4>3. now[i][j] = cells[i][j]
        BY <4>2, <3>3, <1>4
      <4> QED
        BY <2>1, <2>4, <4>2, <4>3, <1>3, <1>4
    <3> QED
      BY <3>1, <3>2, <3>3, <2>4
  <2> QED
    BY <2>3, <2>4
<1> QED
  BY <1>3, <1>6, <1>7

\* A cell has a last value.
LEMMA CellLast ==
  ASSUME NEW cell \in [1..1 -> Datas] \cup [1..2 -> Datas]
  PROVE  Len(cell) \in DOMAIN cell /\ cell[Len(cell)] \in Datas
<1>1. CASE cell \in [1..1 -> Datas]
  <2>1. cell \in Seq(Datas) /\ Len(cell) = 1
    <3>1. cell = [i \in 1..1 |-> cell[i]] /\ \A i \in 1..1 : cell[i] \in Datas
      BY <1>1
    <3>2. [i \in 1..1 |-> cell[i]] \in Seq(Datas) /\ Len([i \in 1..1 |-> cell[i]]) = 1
      BY <3>1
    <3> QED
      BY <3>1, <3>2
  <2> QED
    BY <1>1, <2>1
<1>2. CASE cell \in [1..2 -> Datas]
  <2>1. cell \in Seq(Datas) /\ Len(cell) = 2
    <3>1. cell = [i \in 1..2 |-> cell[i]] /\ \A i \in 1..2 : cell[i] \in Datas
      BY <1>2
    <3>2. [i \in 1..2 |-> cell[i]] \in Seq(Datas) /\ Len([i \in 1..2 |-> cell[i]]) = 2
      BY <3>1
    <3> QED
      BY <3>1, <3>2
  <2> QED
    BY <1>2, <2>1
<1> QED
  BY <1>1, <1>2

\* The document with other values of the client, and other cells in block b.
Put(d, slot, b, cells) == [d EXCEPT !.slot = slot, !.heap[b].cells = cells]

\* The client's values change, and the cells of one of its blocks.
LEMMA CellsPut ==
  ASSUME NEW d, Owning(d, {}), NEW b \in Tops(d), NEW now \in DataCells, Dom!Once(now), NEW g \in [Slots -> Datas],
         NEW e, e = Put(d, g, b, now), Dom!Once(Dom!OnOwn(e)),
         NEW all, all = Tops(d) \cup Kids(d)[b],
         Dom!Held(now) \subseteq all \ {b}, Tops(e) \subseteq all \ Dom!Held(now)
  PROVE  e.needFree = d.needFree /\ Owning(e, all \ (Dom!Held(now) \cup Tops(e)))
<1>1. d \in Documents /\ ~d.wrong /\ b \in HeapBlocks
  BY DEF Owning, Forest
<1>2. d.heap \in [HeapBlocks -> Heaped] /\ [d.heap[b] EXCEPT !.cells = now] \in Heaped
  BY <1>1 DEF Documents, Heaped
<1>3. e.heap = [d.heap EXCEPT ![b] = [d.heap[b] EXCEPT !.cells = now]] /\ ~e.wrong /\ e.needFree = d.needFree
      /\ e.slot = g
  BY <1>1 DEF Documents, Put
<1>4. e \in Documents
  <2> DEFINE h == [d.heap EXCEPT ![b] = [d.heap[b] EXCEPT !.cells = now]]
  <2>1. h \in [HeapBlocks -> Heaped] /\ d.needFree \in BOOLEAN /\ d.calls \in Nat /\ FALSE \in BOOLEAN
    BY <1>1, <1>2 DEF Documents
  <2>2. e = [needFree |-> d.needFree, slot |-> g, heap |-> h, wrong |-> FALSE, calls |-> d.calls]
    BY <1>1 DEF Documents, Put
  <2> HIDE DEF h
  <2> QED
    BY ONLY <2>1, <2>2, g \in [Slots -> Datas], DocumentIs
<1>5. /\ e.heap[b].cells = now
      /\ \A c \in HeapBlocks : e.heap[c].used = d.heap[c].used
      /\ \A c \in HeapBlocks : c # b => e.heap[c].cells = d.heap[c].cells
  BY <1>1, <1>2, <1>3 DEF Heaped
<1>6. Owning(e, all \ (Dom!Held(e.heap[b].cells) \cup Tops(e)))
  <2>1. b \in Tops(d) \cup {} /\ all = Tops(d) \cup {} \cup Kids(d)[b]
    OBVIOUS
  <2>2. /\ Dom!Once(e.heap[b].cells) /\ Dom!Held(e.heap[b].cells) \subseteq all \ {b}
        /\ Tops(e) \subseteq all \ Dom!Held(e.heap[b].cells)
    BY <1>5
  <2> QED
    BY ONLY <1>3, <1>4, <1>5, <2>1, <2>2, Owning(d, {}), Dom!Once(Dom!OnOwn(e)), Rearranged
<1> QED
  BY <1>3, <1>5, <1>6

\* PushBack, AddMember
LEMMA AppendKeeps ==
  ASSUME Owning(x, {}), NEW s \in Slots, Dom!IsContainer(x.slot[s]), Dom!Room,
         NEW k \in {1, 2}, NEW moved \in [1..k -> Slots \ {s}], \A i, j \in 1..k : moved[i] = moved[j] => i = j,
         Dom!Leaves(Dom!AppendFrom(x, s, moved))
  PROVE  Owning(x', {})
<1> DEFINE grown == Dom!Grown(x, x.slot[s])
           room  == Dom!Reserve(x, s, grown)
           cell  == [i \in DOMAIN moved |-> x.slot[moved[i]]]
           b     == room.slot[s].ptr
           from  == Dom!Range(moved)
           f     == Dom!AppendFrom(x, s, moved)
<1>1. grown \in Nat /\ grown > 0
  <2>1. Dom!Capacity(x, x.slot[s]) \in Nat /\ Dom!Size(x, x.slot[s]) \in Nat
    <3>1. Dom!Cells(x, x.slot[s]) \in DataCells /\ (x.slot[s].ptr # 0 => x.slot[s].ptr \in HeapBlocks)
      BY CellsTyped
    <3> QED
      BY <3>1 DEF Dom!Capacity, Dom!Size, DataCells, Owning, Documents, Heaped
  <2>2. DefaultCapacity \in Nat /\ DefaultCapacity > 0
    BY DomAssumption
  <2> DEFINE c == Dom!Capacity(x, x.slot[s])
             z == Dom!Size(x, x.slot[s])
  <2>3. grown = IF z < c THEN c ELSE IF c = 0 THEN DefaultCapacity ELSE c + ((c + 1) \div 2)
    BY DEF Dom!Grown
  <2> HIDE DEF c, z, grown
  <2> QED
    BY <2>1, <2>2, <2>3 DEF c, z
<1>2. f = [[room EXCEPT !.heap[b].cells = Append(@, cell)] EXCEPT
             !.slot = [r \in Slots |-> IF r \in from THEN Dom!Null ELSE @[r]]]
  BY DEF Dom!AppendFrom, Dom!RawAssign
<1> HIDE DEF grown, f
<1>3. /\ Owning(room, {}) /\ room.needFree = x.needFree
      /\ \A t \in Slots \ {s} : room.slot[t] = x.slot[t]
      /\ room.slot[s].flags = x.slot[s].flags /\ b # 0
  BY <1>1, ReserveIs DEF Dom!Room
<1> HIDE DEF room
<1>4. Dom!IsContainer(room.slot[s]) /\ room \in Documents /\ Dom!Once(Dom!OnOwn(room))
      /\ Forest(Kids(room), Dom!UsedBlocks(room), Tops(room)) /\ ~room.wrong
  BY <1>3 DEF Dom!IsContainer, Owning
<1>5. room.slot \in [Slots -> Datas]
  BY <1>4 DEF Documents
<1> DEFINE cells == room.heap[b].cells
<1>6. /\ cells \in DataCells /\ Dom!Once(cells) /\ b \in HeapBlocks /\ b \in Tops(room) /\ b = Dom!Block(room.slot[s])
      /\ Dom!Held(cells) = Kids(room)[b]
  BY <1>3, <1>4, CellsTyped
<1>7. cell \in [1..k -> Datas] /\ \A i \in 1..k : cell[i] = room.slot[moved[i]] /\ moved[i] \in Slots \ {s}
  BY <1>3, <1>5
<1>8. \A p, q \in Slots : Dom!Block(room.slot[p]) = Dom!Block(room.slot[q]) /\ Dom!Block(room.slot[p]) # 0 => p = q
  BY <1>4, OnceOnOwn
<1>9. \A p \in Slots : Dom!Block(room.slot[p]) # 0 => Dom!Block(room.slot[p]) \in Tops(room)
  BY TopsHas
<1>10. Tops(room) \cap Kids(room)[b] = {} /\ b \notin Kids(room)[b]
  BY <1>4, <1>6 DEF Forest
<1>11. \A r : r \in from <=> \E i \in 1..k : r = moved[i]
  BY DEF Dom!Range
<1> HIDE DEF b, cell, cells, from
<1> DEFINE now == Added(cells, cell)
           g   == [r \in Slots |-> IF r \in from THEN Dom!Null ELSE room.slot[r]]
           all == Tops(room) \cup Kids(room)[b]
<1>12. /\ now \in DataCells /\ Dom!Once(now)
       /\ Dom!Held(now) = Dom!Held(cells) \cup CellHolds(cell)
  <2>1. \A i, j \in DOMAIN cell : Dom!Block(cell[i]) = Dom!Block(cell[j]) /\ Dom!Block(cell[i]) # 0 => i = j
    BY <1>7, <1>8
  <2>2. \A i \in DOMAIN cell : Dom!Block(cell[i]) \notin Dom!Held(cells)
    <3>1. 0 \notin Dom!Held(cells)
      BY HeldHas
    <3> QED
      BY <3>1, <1>6, <1>7, <1>9, <1>10
  <2>3. now = Added(cells, cell)
    OBVIOUS
  <2>4. cells \in DataCells /\ Dom!Once(cells) /\ cell \in [1..1 -> Datas] \cup [1..2 -> Datas]
    BY <1>6, <1>7
  <2> HIDE DEF now
  <2> QED
    BY ONLY <2>1, <2>2, <2>3, <2>4, CellAdded
<1> HIDE DEF now
<1>13. \A a : a \in Dom!Held(now) <=> a \in Kids(room)[b] \/ (a # 0 /\ \E r \in from : a = Dom!Block(room.slot[r]))
  <2>1. \A a : a \in CellHolds(cell) <=> a # 0 /\ \E r \in from : a = Dom!Block(room.slot[r])
    BY <1>7, <1>11 DEF CellHolds
  <2> QED
    BY <2>1, <1>6, <1>12
<1>14. from \subseteq Slots \ {s}
  BY <1>7, <1>11
<1>15. g \in [Slots -> Datas]
  BY <1>5, NullIs
<1>16. f = Put(room, g, b, now)
  BY <1>2, <1>4, <1>6 DEF cells, now, Documents, Heaped, Put, Added
<1>17. f.slot = g
  BY <1>4, <1>16 DEF Documents, Put
<1>18. \A r \in Slots : Dom!Block(g[r]) = IF r \in from THEN 0 ELSE Dom!Block(room.slot[r])
  BY NullIs
<1> HIDE DEF g
<1>19. Dom!Once(Dom!OnOwn(f))
  <2>1. \A p, q \in Slots : Dom!Block(f.slot[p]) = Dom!Block(f.slot[q]) /\ Dom!Block(f.slot[p]) # 0 => p = q
    BY <1>8, <1>17, <1>18
  <2> QED
    BY <2>1, OnceOnOwn
<1>20. \A a : a \in Tops(f) <=> a # 0 /\ \E r \in Slots : r \notin from /\ a = Dom!Block(room.slot[r])
  BY <1>17, <1>18, TopsHas
<1>21. \A a : a \in Tops(room) <=> a # 0 /\ \E r \in Slots : a = Dom!Block(room.slot[r])
  BY TopsHas
<1>22. Dom!Held(now) \subseteq all \ {b}
  BY <1>6, <1>8, <1>10, <1>13, <1>14, <1>21
<1>23. Tops(f) \subseteq all \ Dom!Held(now)
  BY <1>8, <1>10, <1>13, <1>14, <1>20, <1>21
<1>24. all \subseteq Dom!Held(now) \cup Tops(f)
  BY <1>13, <1>20, <1>21
<1>25. f.needFree = room.needFree /\ Owning(f, all \ (Dom!Held(now) \cup Tops(f)))
  <2>1. all = Tops(room) \cup Kids(room)[b]
    OBVIOUS
  <2>2. Owning(room, {}) /\ b \in Tops(room) /\ now \in DataCells /\ Dom!Once(now)
    BY <1>3, <1>6, <1>12
  <2> HIDE DEF all
  <2> QED
    BY ONLY <2>1, <2>2, <1>15, <1>16, <1>19, <1>22, <1>23, CellsPut, ZenonT(30)
<1>26. all \ (Dom!Held(now) \cup Tops(f)) = {}
  BY <1>24
<1> QED
  BY <1>3, <1>25, <1>26, Leaving DEF f

\* Swap of a slot with an item of another
LEMMA SwapItemKeeps ==
  ASSUME Owning(x, {}), NEW s \in Slots, NEW t \in Slots \ {s}, Dom!IsContainer(x.slot[s]),
         NEW k \in 1..Dom!Size(x, x.slot[s]), Dom!Leaves(Dom!SwapItem(x, s, k, t))
  PROVE  Owning(x', {})
<1> DEFINE cells == Dom!Cells(x, x.slot[s])
           b     == x.slot[s].ptr
           l     == Len(cells[k])
           item  == cells[k][l]
           g     == [x.slot EXCEPT ![t] = item]
           now   == WithItem(cells, k, l, x.slot[t])
           f     == Dom!SwapItem(x, s, k, t)
           all   == Tops(x) \cup Kids(x)[b]
<1>1. /\ x \in Documents /\ Dom!Once(Dom!OnOwn(x)) /\ Forest(Kids(x), Dom!UsedBlocks(x), Tops(x))
      /\ x.slot \in [Slots -> Datas]
  BY DEF Owning, Documents
<1>2. cells \in DataCells /\ Dom!Once(cells) /\ k \in 1..Len(cells) /\ DOMAIN cells = 1..Len(cells)
  BY CellsTyped DEF Dom!Size, DataCells
<1>3. /\ b # 0 /\ b \in HeapBlocks /\ b \in Tops(x) /\ cells = x.heap[b].cells /\ b = Dom!Block(x.slot[s])
      /\ Dom!Held(cells) = Kids(x)[b]
  BY <1>2, CellsTyped
<1>4. f = [x EXCEPT !.slot[t] = Dom!Last(cells[k]), !.heap[b].cells[k][l] = x.slot[t]]
  BY DEF Dom!SwapItem
<1> HIDE DEF cells, b, f
<1>5. cells[k] \in [1..1 -> Datas] \cup [1..2 -> Datas] /\ k \in DOMAIN cells
  BY <1>2 DEF DataCells
<1>6. l \in DOMAIN cells[k] /\ item \in Datas /\ Dom!Last(cells[k]) = item
  BY <1>5, CellLast DEF Dom!Last
<1> HIDE DEF l
<1>7. /\ f = Put(x, g, b, now) /\ g \in [Slots -> Datas]
      /\ f.slot = g /\ x.slot[t] \in Datas
  BY <1>1, <1>3, <1>4, <1>6 DEF Documents, Heaped, Put, WithItem
<1>8. Tops(x) \cap Kids(x)[b] = {} /\ b \notin Kids(x)[b]
  BY <1>1, <1>3 DEF Forest
<1>9. \A p \in Slots : Dom!Block(x.slot[p]) # 0 => Dom!Block(x.slot[p]) \in Tops(x)
  BY TopsHas
<1>10. \A p, q \in Slots : Dom!Block(x.slot[p]) = Dom!Block(x.slot[q]) /\ Dom!Block(x.slot[p]) # 0 => p = q
  BY <1>1, OnceOnOwn
<1>11. Dom!Block(item) # 0 => Dom!Block(item) \in Kids(x)[b]
  BY <1>3, <1>5, <1>6, HeldHas
<1>12. 0 \notin Kids(x)[b] /\ 0 \notin Tops(x)
  BY <1>3, HeldHas, TopsHas
<1>13. /\ now \in DataCells /\ Dom!Once(now)
       /\ Dom!Held(now) = (Kids(x)[b] \ {Dom!Block(item)}) \cup ({Dom!Block(x.slot[t])} \ {0})
  <2>1. Dom!Block(x.slot[t]) \notin Dom!Held(cells)
    BY <1>3, <1>8, <1>9, <1>12
  <2> DEFINE v == x.slot[t]
  <2>2. v \in Datas
    BY <1>7
  <2>3. now = WithItem(cells, k, l, v)
    OBVIOUS
  <2>4. l \in DOMAIN cells[k] /\ cells[k][l] = item
    BY <1>6
  <2>5. Dom!Block(v) \notin Dom!Held(cells)
    BY <2>1
  <2> HIDE DEF v, now, item
  <2>6. /\ now \in DataCells /\ Dom!Once(now)
        /\ Dom!Held(now) = (Dom!Held(cells) \ {Dom!Block(cells[k][l])}) \cup ({Dom!Block(v)} \ {0})
    BY ONLY <1>2, <1>5, <2>2, <2>3, <2>4, <2>5, ItemPut
  <2> QED
    BY <1>3, <2>4, <2>6 DEF v
<1>14. /\ Tops(f) = (Tops(x) \ {Dom!Block(x.slot[t])}) \cup ({Dom!Block(item)} \ {0})
       /\ Dom!Once(Dom!OnOwn(f))
  <2>1. Dom!Block(item) \notin Tops(x) \ {Dom!Block(x.slot[t])}
    BY <1>8, <1>11, <1>12
  <2>2. f.slot = [x.slot EXCEPT ![t] = item]
    BY <1>7
  <2> HIDE DEF item
  <2> QED
    BY ONLY <1>1, <2>1, <2>2, t \in Slots, SlotPut
<1> HIDE DEF g, now, item
<1>15. Dom!Held(now) \subseteq all \ {b}
  BY <1>3, <1>8, <1>9, <1>10, <1>13
<1>16. Tops(f) \subseteq all \ Dom!Held(now)
  BY <1>8, <1>9, <1>11, <1>13, <1>14
<1>17. all \subseteq Dom!Held(now) \cup Tops(f)
  BY <1>11, <1>12, <1>13, <1>14
<1>18. f.needFree = x.needFree /\ Owning(f, all \ (Dom!Held(now) \cup Tops(f)))
  <2>1. all = Tops(x) \cup Kids(x)[b]
    OBVIOUS
  <2> HIDE DEF all
  <2> QED
    BY ONLY <2>1, <1>3, <1>7, <1>13, <1>14, <1>15, <1>16, Owning(x, {}), CellsPut
<1>19. all \ (Dom!Held(now) \cup Tops(f)) = {}
  BY <1>17
<1> QED
  BY <1>18, <1>19, Leaving DEF f

\* operator= of an item of the value itself, with the pool
LEMMA AssignItemKeeps ==
  ASSUME Owning(x, {}), NEW s \in Slots, ~x.needFree, Dom!IsContainer(x.slot[s]),
         NEW k \in 1..Dom!Size(x, x.slot[s]), Dom!Leaves(Dom!AssignItem(x, s, k))
  PROVE  Owning(x', {})
<1> DEFINE cells == Dom!Cells(x, x.slot[s])
           b     == x.slot[s].ptr
           l     == Len(cells[k])
           item  == cells[k][l]
           g     == [x.slot EXCEPT ![s] = item]
           now   == WithItem(cells, k, l, Dom!Null)
           f     == Dom!AssignItem(x, s, k)
           all   == Tops(x) \cup Kids(x)[b]
<1>1. /\ x \in Documents /\ Dom!Once(Dom!OnOwn(x)) /\ Forest(Kids(x), Dom!UsedBlocks(x), Tops(x))
      /\ x.slot \in [Slots -> Datas]
  BY DEF Owning, Documents
<1>2. cells \in DataCells /\ Dom!Once(cells) /\ k \in 1..Len(cells) /\ DOMAIN cells = 1..Len(cells)
  BY CellsTyped DEF Dom!Size, DataCells
<1>3. /\ b # 0 /\ b \in HeapBlocks /\ b \in Tops(x) /\ cells = x.heap[b].cells /\ b = Dom!Block(x.slot[s])
      /\ Dom!Held(cells) = Kids(x)[b]
  BY <1>2, CellsTyped
<1>4. f = [x EXCEPT !.slot[s] = Dom!Last(cells[k]), !.heap[b].cells[k][l] = Dom!Null]
  BY DEF Dom!AssignItem, Dom!Destroy
<1> HIDE DEF cells, b, f
<1>5. cells[k] \in [1..1 -> Datas] \cup [1..2 -> Datas] /\ k \in DOMAIN cells
  BY <1>2 DEF DataCells
<1>6. l \in DOMAIN cells[k] /\ item \in Datas /\ Dom!Last(cells[k]) = item
  BY <1>5, CellLast DEF Dom!Last
<1> HIDE DEF l
<1>7. /\ f = Put(x, g, b, now) /\ g \in [Slots -> Datas]
      /\ f.slot = g
  BY <1>1, <1>3, <1>4, <1>6 DEF Documents, Heaped, Put, WithItem
<1>8. Tops(x) \cap Kids(x)[b] = {} /\ b \notin Kids(x)[b]
  BY <1>1, <1>3 DEF Forest
<1>9. Dom!Block(item) # 0 => Dom!Block(item) \in Kids(x)[b]
  BY <1>3, <1>5, <1>6, HeldHas
<1>10. 0 \notin Kids(x)[b] /\ 0 \notin Tops(x)
  BY <1>3, HeldHas, TopsHas
<1>11. now \in DataCells /\ Dom!Once(now) /\ Dom!Held(now) = Kids(x)[b] \ {Dom!Block(item)}
  <2>1. Dom!Block(Dom!Null) \notin Dom!Held(cells)
    BY <1>3, <1>10, NullIs
  <2> DEFINE v == Dom!Null
  <2>2. v \in Datas /\ {Dom!Block(v)} \ {0} = {}
    BY NullIs
  <2>3. now = WithItem(cells, k, l, v)
    OBVIOUS
  <2>4. l \in DOMAIN cells[k] /\ cells[k][l] = item
    BY <1>6
  <2>5. Dom!Block(v) \notin Dom!Held(cells)
    BY <2>1
  <2> HIDE DEF v, now, item
  <2>6. /\ now \in DataCells /\ Dom!Once(now)
        /\ Dom!Held(now) = (Dom!Held(cells) \ {Dom!Block(cells[k][l])}) \cup ({Dom!Block(v)} \ {0})
    BY ONLY <1>2, <1>5, <2>2, <2>3, <2>4, <2>5, ItemPut
  <2> QED
    BY <1>3, <2>2, <2>4, <2>6
<1>12. /\ Tops(f) = (Tops(x) \ {b}) \cup ({Dom!Block(item)} \ {0})
       /\ Dom!Once(Dom!OnOwn(f))
  <2>1. Dom!Block(item) \notin Tops(x) \ {Dom!Block(x.slot[s])}
    BY <1>8, <1>9, <1>10
  <2>2. f.slot = [x.slot EXCEPT ![s] = item]
    BY <1>7
  <2> HIDE DEF item
  <2>3. /\ Tops(f) = (Tops(x) \ {Dom!Block(x.slot[s])}) \cup ({Dom!Block(item)} \ {0})
        /\ Dom!Once(Dom!OnOwn(f))
    BY ONLY <1>1, <2>1, <2>2, s \in Slots, SlotPut
  <2> QED
    BY <1>3, <2>3
<1> HIDE DEF g, now, item
<1>13. Dom!Held(now) \subseteq all \ {b}
  BY <1>3, <1>8, <1>11
<1>14. Tops(f) \subseteq all \ Dom!Held(now)
  BY <1>8, <1>9, <1>11, <1>12
<1>15. f.needFree = x.needFree /\ Owning(f, all \ (Dom!Held(now) \cup Tops(f)))
  <2>1. all = Tops(x) \cup Kids(x)[b]
    OBVIOUS
  <2> HIDE DEF all
  <2> QED
    BY ONLY <2>1, <1>3, <1>7, <1>11, <1>12, <1>13, <1>14, Owning(x, {}), CellsPut
<1> QED
  BY <1>15, Leaving DEF f

\* The copy of a value owns the copy of the block, if it was copied.
LEMMA CopyValueIs ==
  ASSUME NEW copied \in SUBSET HeapBlocks, NEW to \in [copied -> HeapBlocks], NEW v \in Datas
  PROVE  /\ Dom!CopyValue(v, to) \in Datas
         /\ Dom!Block(Dom!CopyValue(v, to)) = IF Dom!Block(v) \in copied THEN to[Dom!Block(v)] ELSE 0
<1>1. /\ HeapBlocks \subseteq Nat /\ 0 \notin HeapBlocks /\ DOMAIN to = copied
      /\ \A p \in Nat : [v EXCEPT !.ptr = p] \in Datas
  BY DomAssumption DEF Datas
<1>2. CASE Dom!Block(v) = 0
  <2>1. Dom!CopyValue(v, to) = v
    BY <1>2 DEF Dom!CopyValue
  <2> QED
    BY <1>1, <1>2, <2>1
<1>3. CASE Dom!Block(v) # 0
  <2>1. v.ptr = Dom!Block(v) /\ (Dom!IsContainer(v) \/ v.flags = "copy")
    BY <1>3 DEF Dom!Block
  <2>2. \A p \in Nat : Dom!Block([v EXCEPT !.ptr = p]) = p
    BY <2>1 DEF Dom!Block, Dom!IsContainer, Datas
  <2>3. Dom!CopyValue(v, to) = [v EXCEPT !.ptr = IF v.ptr \in copied THEN to[v.ptr] ELSE 0]
    BY <1>1, <1>3 DEF Dom!CopyValue, Datas
  <2>4. (IF v.ptr \in copied THEN to[v.ptr] ELSE 0) \in Nat
    BY <1>1
  <2> QED
    BY <1>1, <2>1, <2>2, <2>3, <2>4
<1> QED
  BY <1>2, <1>3

\* The copies of cells that share no block share none.
LEMMA CopyCellsAre ==
  ASSUME NEW copied \in SUBSET HeapBlocks, NEW to \in [copied -> HeapBlocks],
         \A b, c \in copied : to[b] = to[c] => b = c, NEW cells \in DataCells, Dom!Once(cells),
         NEW now, now = Dom!CopyCells(cells, to)
  PROVE  /\ now \in DataCells /\ Dom!Once(now)
         /\ Dom!Held(now) = Images(to, Dom!Held(cells) \cap copied)
<1>1. /\ DOMAIN cells = 1..Len(cells) /\ Len(cells) \in Nat
      /\ \A i \in DOMAIN cells : cells[i] \in [1..1 -> Datas] \cup [1..2 -> Datas]
  BY DEF DataCells
<1>2. /\ DOMAIN now = DOMAIN cells
      /\ \A i \in DOMAIN cells : now[i] = [j \in DOMAIN cells[i] |-> Dom!CopyValue(cells[i][j], to)]
  BY DEF Dom!CopyCells
<1>3. \A i \in DOMAIN cells : \A j \in DOMAIN cells[i] :
        /\ Dom!CopyValue(cells[i][j], to) \in Datas
        /\ Dom!Block(Dom!CopyValue(cells[i][j], to))
             = IF Dom!Block(cells[i][j]) \in copied THEN to[Dom!Block(cells[i][j])] ELSE 0
  BY <1>1, CopyValueIs
<1>4. now \in DataCells
  <2>1. \A i \in DOMAIN cells : now[i] \in [1..1 -> Datas] \cup [1..2 -> Datas]
    BY <1>1, <1>2, <1>3
  <2>2. now = [i \in 1..Len(cells) |-> now[i]]
    BY <1>1 DEF Dom!CopyCells
  <2>3. [i \in 1..Len(cells) |-> now[i]] \in DataCells
    BY <1>1, <2>1 DEF DataCells
  <2> QED
    BY <2>2, <2>3
<1>5. \A i \in DOMAIN cells : DOMAIN now[i] = DOMAIN cells[i] /\ \A j \in DOMAIN cells[i] :
        Dom!Block(now[i][j]) = IF Dom!Block(cells[i][j]) \in copied THEN to[Dom!Block(cells[i][j])] ELSE 0
  BY <1>2, <1>3
<1>6. 0 \notin HeapBlocks /\ \A b \in copied : to[b] # 0 /\ b # 0
  BY DomAssumption
<1>7. Dom!Once(now)
  BY ONLY <1>2, <1>5, <1>6, Dom!Once(cells), \A b, c \in copied : to[b] = to[c] => b = c DEF Dom!Once
<1>8. ASSUME NEW b PROVE b \in Dom!Held(now) <=> \E c \in Dom!Held(cells) \cap copied : b = to[c]
  <2>1. b \in Dom!Held(now) <=> b # 0 /\ \E i \in DOMAIN now : \E j \in DOMAIN now[i] : b = Dom!Block(now[i][j])
    BY ONLY HeldHas
  <2>2. \A c : c \in Dom!Held(cells) <=> c # 0 /\ \E i \in DOMAIN cells : \E j \in DOMAIN cells[i] : c = Dom!Block(cells[i][j])
    BY ONLY HeldHas
  <2> QED
    BY ONLY <1>2, <1>5, <1>6, <2>1, <2>2
<1> QED
  BY <1>4, <1>7, <1>8 DEF Images

\* The copy constructor and CopyFrom
LEMMA CopyKeeps ==
  ASSUME Owning(x, {}), NEW s \in Slots, NEW t \in Slots \ {s}, Dom!Copy(s, t)
  PROVE  Owning(x', {})
<1> DEFINE d   == Dom!Destroy(x, Dom!Cell(x.slot[s]))
           v   == d.slot[t]
           put == [d EXCEPT !.slot[s] = Dom!Null]
           copied == Dom!Copied(d, v)
           tos    == Dom!Injection(copied, Dom!FreeBlocks(d))
           to     == CHOOSE to \in tos : TRUE
           f      == Dom!CopyFrom(d, s, t, to)
           from   == {Dom!Block(v)} \ {0}
           used   == Dom!UsedBlocks(d)
<1>2. tos # {} /\ Dom!Leaves(f)
  BY DEF Dom!Copy
<1>3. to \in tos
  BY <1>2
<1> HIDE DEF f, to, tos, copied, from, used
<1>1. /\ d \in Documents /\ ~d.wrong /\ d.slot = x.slot /\ d.needFree = x.needFree
      /\ \E hand : Owning(put, hand) /\ (x.needFree => hand = {})
  <2>1. s \in Slots /\ Owning(x, {}) /\ d = Dom!Destroy(x, Dom!Cell(x.slot[s]))
    OBVIOUS
  <2>2. /\ d \in Documents /\ ~d.wrong /\ d.slot = x.slot /\ d.needFree = x.needFree
        /\ \E hand : Owning([d EXCEPT !.slot[s] = Dom!Null], hand) /\ (x.needFree => hand = {})
        /\ d.heap = IF x.needFree
                    THEN [b \in HeapBlocks |-> IF b \in Least(Kids(x), {Dom!Block(x.slot[s])} \ {0})
                                               THEN Dom!Unused ELSE x.heap[b]]
                    ELSE x.heap
    BY ONLY <2>1, SlotDestroyed
  <2> QED
    BY ONLY <2>2 DEF put
<1> HIDE DEF d
<1>4. /\ put \in Documents /\ put.slot = [d.slot EXCEPT ![s] = Dom!Null]
      /\ put.heap = d.heap /\ put.wrong = d.wrong /\ put.needFree = d.needFree
  BY <1>1, NullIs, SlotTyped
<1> HIDE DEF put
<1>5. PICK hand : Owning(put, hand) /\ (x.needFree => hand = {})
  BY <1>1
<1>6. Kids(put) = Kids(d) /\ Dom!UsedBlocks(put) = used
  BY <1>4 DEF Kids, Dom!UsedBlocks, used
<1>7. /\ Forest(Kids(d), used, Tops(put) \cup hand) /\ Tops(put) \cap hand = {}
      /\ Dom!Once(Dom!OnOwn(put)) /\ \A b \in HeapBlocks : Dom!Once(d.heap[b].cells)
  BY <1>4, <1>5, <1>6 DEF Owning
<1>8. d.slot \in [Slots -> Datas] /\ d.heap \in [HeapBlocks -> Heaped] /\ v \in Datas
  BY <1>1 DEF Documents
<1>9. put.slot[s] = Dom!Null /\ put.slot[t] = v
  BY <1>4, <1>8
<1>10. from \subseteq Tops(put)
  BY <1>9, TopsHas DEF from
<1>11. copied = {b \in Least(Kids(d), from) : d.heap[b].char # 0 \/ d.heap[b].cells # << >>}
  <2>1. Dom!Held(Dom!Cell(v)) = from
    BY CellIs DEF from
  <2>2. Dom!Below(d, Dom!Held(Dom!Cell(v))) = Least(Kids(d), from)
    BY <2>1, BelowIs
  <2> QED
    BY <2>2 DEF Dom!Copied, copied
<1> HIDE DEF v
<1>12. Least(Kids(d), from) \subseteq HeapBlocks /\ used \subseteq HeapBlocks
  BY DEF Least, Dom!UsedBlocks, used
<1>13. copied \in SUBSET HeapBlocks /\ copied \in SUBSET Least(Kids(d), from)
  BY <1>11, <1>12
<1>14. to \in [copied -> HeapBlocks \ used] /\ \A b, c \in copied : to[b] = to[c] => b = c
  <2>1. Dom!FreeBlocks(d) = HeapBlocks \ used
    BY DEF Dom!FreeBlocks, Dom!UsedBlocks, used
  <2> QED
    BY <1>3, <2>1 DEF Dom!Injection, Dom!IsInjective, tos
<1>15. to \in [copied -> HeapBlocks] /\ DOMAIN to = copied
  BY <1>14
<1>16. \A c : c \in Dom!Range(to) <=> \E b \in copied : c = to[b]
  BY <1>15 DEF Dom!Range
<1> DEFINE h == [c \in HeapBlocks |-> IF c \in Dom!Range(to)
                                      THEN Dom!CopyBlock(d.heap[CHOOSE b \in DOMAIN to : to[b] = c], to)
                                      ELSE d.heap[c]]
           w == Dom!CopyValue(v, to)
<1>17. f = [d EXCEPT !.heap = h, !.slot[s] = w]
  BY DEF Dom!CopyFrom, v, f
<1>18. \A b \in copied : (CHOOSE c \in DOMAIN to : to[c] = to[b]) = b
  BY <1>14, <1>15
<1>19. /\ \A b \in copied : h[to[b]] = Dom!CopyBlock(d.heap[b], to)
       /\ \A c \in HeapBlocks : (\A b \in copied : to[b] # c) => h[c] = d.heap[c]
  BY <1>15, <1>16, <1>18
<1> HIDE DEF h
<1>20. \A b \in copied :
         /\ Dom!CopyCells(d.heap[b].cells, to) \in DataCells /\ Dom!Once(Dom!CopyCells(d.heap[b].cells, to))
         /\ Dom!Held(Dom!CopyCells(d.heap[b].cells, to)) = Images(to, Dom!Held(d.heap[b].cells) \cap copied)
  <2> TAKE b \in copied
  <2> DEFINE cells == d.heap[b].cells
  <2>1. cells \in DataCells /\ Dom!Once(cells)
    BY <1>7, <1>8, <1>13 DEF Heaped
  <2> HIDE DEF cells
  <2>2. /\ Dom!CopyCells(cells, to) \in DataCells /\ Dom!Once(Dom!CopyCells(cells, to))
        /\ Dom!Held(Dom!CopyCells(cells, to)) = Images(to, Dom!Held(cells) \cap copied)
    BY ONLY <1>13, <1>14, <1>15, <2>1, CopyCellsAre
  <2> QED
    BY <2>2 DEF cells
<1>21. \A b \in copied : /\ Dom!CopyBlock(d.heap[b], to) \in Heaped /\ Dom!CopyBlock(d.heap[b], to).used
                         /\ Dom!CopyBlock(d.heap[b], to).cells = Dom!CopyCells(d.heap[b].cells, to)
  <2> TAKE b \in copied
  <2>1. d.heap[b].char \in Nat /\ Len(d.heap[b].cells) \in Nat
    BY <1>8, <1>13 DEF Heaped, DataCells
  <2> QED
    BY <2>1, <1>20 DEF Dom!CopyBlock, Dom!Used, Heaped
<1>22. \A c \in HeapBlocks : (\E b \in copied : to[b] = c) \/ (\A b \in copied : to[b] # c)
  OBVIOUS
<1>23. h \in [HeapBlocks -> Heaped]
  <2>1. \A c \in HeapBlocks : h[c] \in Heaped
    BY <1>8, <1>19, <1>21, <1>22
  <2>2. h = [c \in HeapBlocks |-> h[c]]
    BY DEF h
  <2> QED
    BY <2>1, <2>2
<1>24. /\ w \in Datas
       /\ Dom!Block(w) = IF Dom!Block(v) \in copied THEN to[Dom!Block(v)] ELSE 0
  BY <1>8, <1>13, <1>15, CopyValueIs
<1> HIDE DEF w
<1>25. /\ f \in Documents /\ ~f.wrong /\ f.needFree = d.needFree /\ f.heap = h
       /\ f.slot = [d.slot EXCEPT ![s] = w]
  <2> DEFINE g == [d.slot EXCEPT ![s] = w]
  <2>1. g \in [Slots -> Datas] /\ d.needFree \in BOOLEAN /\ d.calls \in Nat /\ FALSE \in BOOLEAN
    BY <1>1, <1>8, <1>24 DEF Documents
  <2>2. f = [needFree |-> d.needFree, slot |-> g, heap |-> h, wrong |-> FALSE, calls |-> d.calls]
    BY <1>1, <1>17 DEF Documents
  <2> HIDE DEF g
  <2>3. [needFree |-> d.needFree, slot |-> g, heap |-> h, wrong |-> FALSE, calls |-> d.calls] \in Documents
    BY ONLY <2>1, <1>23, DocumentIs
  <2>4. f.slot = g /\ f.heap = h /\ ~f.wrong /\ f.needFree = d.needFree
    BY <2>2
  <2> QED
    BY <2>2, <2>3, <2>4 DEF g
<1>26. f.slot = [put.slot EXCEPT ![s] = w]
  BY <1>4, <1>8, <1>25
<1>27. /\ Tops(f) = Tops(put) \cup Images(to, from \cap copied)
       /\ Dom!Once(Dom!OnOwn(f))
  <2>1. {Dom!Block(w)} \ {0} = Images(to, from \cap copied)
    <3>1. 0 \notin HeapBlocks
      BY DomAssumption
    <3> QED
      BY <3>1, <1>13, <1>15, <1>24 DEF from, Images
  <2>2. Dom!Block(w) \notin Tops(put)
    <3>1. 0 \notin Tops(put)
      BY TopsHas
    <3> QED
      BY <3>1, <1>7, <1>14, <1>24 DEF Forest
  <2>3. Dom!Block(w) \notin Tops(put) \ {Dom!Block(put.slot[s])}
    BY <2>2
  <2>4. /\ Tops(f) = (Tops(put) \ {Dom!Block(put.slot[s])}) \cup ({Dom!Block(w)} \ {0})
        /\ Dom!Once(Dom!OnOwn(f))
    BY ONLY <1>4, <1>7, <1>26, <2>3, s \in Slots, SlotPut
  <2>5. Dom!Block(put.slot[s]) = 0 /\ 0 \notin Tops(put)
    BY <1>9, NullIs, TopsHas
  <2> QED
    BY <2>1, <2>4, <2>5
<1>28. /\ \A b \in HeapBlocks : (\A c \in copied : to[c] # b) => Kids(f)[b] = Kids(d)[b]
       /\ \A b \in copied : Kids(f)[to[b]] = Images(to, Kids(d)[b] \cap copied)
  <2>1. ASSUME NEW b \in HeapBlocks, \A c \in copied : to[c] # b PROVE Kids(f)[b] = Kids(d)[b]
    BY <2>1, <1>19, <1>25 DEF Kids
  <2>2. ASSUME NEW b \in copied PROVE Kids(f)[to[b]] = Images(to, Kids(d)[b] \cap copied)
    <3>1. to[b] \in HeapBlocks /\ b \in HeapBlocks
      BY <1>13, <1>15
    <3>2. f.heap[to[b]].cells = Dom!CopyCells(d.heap[b].cells, to)
      BY <1>19, <1>21, <1>25
    <3> QED
      BY <3>1, <3>2, <1>20 DEF Kids
  <2> QED
    BY <2>1, <2>2
<1>29. Kids(f) \in [HeapBlocks -> SUBSET HeapBlocks]
  <2>1. Kids(d) \in [HeapBlocks -> SUBSET HeapBlocks]
    BY <1>7 DEF Forest
  <2>2. \A b \in HeapBlocks : Kids(f)[b] \in SUBSET HeapBlocks
    BY <1>15, <1>22, <1>28, <2>1 DEF Images
  <2>3. Kids(f) = [b \in HeapBlocks |-> Kids(f)[b]]
    BY DEF Kids
  <2> QED
    BY <2>2, <2>3
<1>30. Dom!UsedBlocks(f) = used \cup Images(to, copied)
  <2>1. \A c \in HeapBlocks : f.heap[c].used <=> d.heap[c].used \/ \E b \in copied : to[b] = c
    BY <1>15, <1>19, <1>21, <1>22, <1>25
  <2> QED
    BY <1>15, <2>1 DEF Dom!UsedBlocks, used, Images
<1>31. \A b \in Least(Kids(d), from) \ copied : Kids(d)[b] = {}
  <2>1. \A b \in Least(Kids(d), from) \ copied : d.heap[b].cells = << >>
    BY <1>11
  <2>2. Dom!Held(<< >>) = {}
    BY HeldHas
  <2> QED
    BY <1>12, <2>1, <2>2 DEF Kids
<1>32. Forest(Kids(f), used \cup Images(to, copied), (Tops(put) \cup hand) \cup Images(to, from \cap copied))
  <2> DEFINE new  == Kids(f)
             kids == Kids(d)
             tops == Tops(put) \cup hand
  <2>1. Forest(kids, used, tops) /\ from \in SUBSET tops
    BY <1>7, <1>10
  <2>2. copied \in SUBSET Least(kids, from) /\ \A b \in Least(kids, from) \ copied : kids[b] = {}
    BY <1>13, <1>31
  <2>3. /\ new \in [HeapBlocks -> SUBSET HeapBlocks]
        /\ \A b \in HeapBlocks : (\A c \in copied : to[c] # b) => new[b] = kids[b]
        /\ \A b \in copied : new[to[b]] = Images(to, kids[b] \cap copied)
    BY <1>28, <1>29
  <2> HIDE DEF new, kids, tops
  <2>4. Forest(new, used \cup Images(to, copied), tops \cup Images(to, from \cap copied))
    BY ONLY <1>14, <2>1, <2>2, <2>3, ForestCopies
  <2> QED
    BY <2>4 DEF new, kids, tops
<1>33. (Tops(put) \cup hand) \cup Images(to, from \cap copied) = Tops(f) \cup hand
  BY <1>27
<1>34. Tops(f) \cap hand = {}
  BY <1>7, <1>13, <1>14, <1>27 DEF Forest, Images
<1>35. \A c \in HeapBlocks : Dom!Once(f.heap[c].cells)
  <2> TAKE c \in HeapBlocks
  <2>1. ASSUME NEW b \in copied, to[b] = c PROVE Dom!Once(f.heap[c].cells)
    BY <2>1, <1>19, <1>20, <1>21, <1>25
  <2>2. CASE \A b \in copied : to[b] # c
    BY <2>2, <1>7, <1>19, <1>25
  <2> QED
    BY <2>1, <2>2
<1>36. Owning(f, hand)
  BY <1>25, <1>27, <1>30, <1>32, <1>33, <1>34, <1>35 DEF Owning
<1> QED
  BY <1>1, <1>2, <1>5, <1>25, <1>36, Leaving

\* A member that is found is one of the members.
LEMMA FindIs ==
  ASSUME Owning(x, {}), NEW s \in Slots, Dom!IsContainer(x.slot[s]), NEW name,
         Dom!FindMember(x, x.slot[s], name) <= Dom!Size(x, x.slot[s])
  PROVE  Dom!FindMember(x, x.slot[s], name) \in 1..Dom!Size(x, x.slot[s])
<1> DEFINE size  == Dom!Size(x, x.slot[s])
           found == {k \in 1..size : Dom!StringOf(x, Dom!Cells(x, x.slot[s])[k][1]) = name}
           k     == Dom!FindMember(x, x.slot[s], name)
<1>1. size \in Nat
  BY CellsTyped DEF Dom!Size, DataCells
<1>2. k = IF found = {} THEN size + 1 ELSE CHOOSE i \in found : \A l \in found : i <= l
  BY DEF Dom!FindMember
<1> HIDE DEF size, k
<1>3. k <= size
  BY DEF size, k
<1>4. found \subseteq Nat /\ found # {}
  BY <1>1, <1>2, <1>3
<1>5. found \subseteq 1..size
  OBVIOUS
<1> HIDE DEF found
<1>6. \E i \in found : \A l \in found : i <= l
  BY <1>4, LeastNumber
<1>7. k \in found
  BY <1>2, <1>4, <1>6
<1> QED
  BY <1>5, <1>7 DEF size, k

\* Every call leaves each block with one owner.
LEMMA DomStepKeeps ==
  Owning(x, {}) /\ Dom!Next => Owning(x', {})
<1> SUFFICES ASSUME Owning(x, {}), Dom!Next PROVE Owning(x', {})
  OBVIOUS
<1>1. PICK s \in Slots :
        \/ Dom!Set(s) \/ Dom!RemoveByName(s) \/ Dom!Shrink(s) \/ Dom!Widen(s) \/ Dom!Become(s)
        \/ \E t \in Slots \ {s} : \/ Dom!PushBack(s, t)
                                  \/ Dom!Between(s, t)
                                  \/ \E n \in Slots \ {s} : Dom!AddMember(s, n, t)
  BY DEF Dom!Next
<1>2. CASE Dom!Set(s)
  BY <1>2, SetKeeps
<1>3. CASE Dom!RemoveByName(s)
  <2>1. PICK name \in 1..2 : LET k == Dom!FindMember(x, x.slot[s], name)
                             IN  k <= Dom!Size(x, x.slot[s]) /\ Dom!Leaves(Dom!RemoveMember(x, s, k))
    BY <1>3 DEF Dom!RemoveByName
  <2> DEFINE k == Dom!FindMember(x, x.slot[s], name)
  <2>2. k <= Dom!Size(x, x.slot[s]) /\ Dom!Leaves(Dom!RemoveMember(x, s, k)) /\ Dom!IsContainer(x.slot[s])
    BY <1>3, <2>1 DEF Dom!RemoveByName, Dom!IsContainer
  <2>3. k \in 1..Dom!Size(x, x.slot[s])
    BY <2>2, FindIs
  <2> HIDE DEF k
  <2> QED
    BY <2>2, <2>3, RemoveMemberKeeps
<1>4. CASE Dom!Shrink(s)
  <2>1. Dom!IsContainer(x.slot[s])
    BY <1>4 DEF Dom!Shrink, Dom!Container
  <2>2. CASE Dom!Leaves(Dom!RemoveAll(x, s))
    BY <2>1, <2>2, RemoveAllKeeps
  <2>3. CASE Dom!Size(x, x.slot[s]) > 0 /\ Dom!Leaves(Dom!PopBack(x, s))
    BY <2>1, <2>3, PopBackKeeps
  <2>4. CASE \E k \in 1..Dom!Size(x, x.slot[s]) : \E l \in k..Dom!Size(x, x.slot[s]) : Dom!Leaves(Dom!Erase(x, s, k, l))
    BY <2>1, <2>4, EraseKeeps
  <2> QED
    BY <1>4, <2>2, <2>3, <2>4 DEF Dom!Shrink
<1>5. CASE Dom!Widen(s)
  BY <1>5, WidenKeeps
<1>6. CASE Dom!Become(s)
  BY <1>6, AssignItemKeeps DEF Dom!Become, Dom!Container
<1>7. ASSUME NEW t \in Slots \ {s}, Dom!PushBack(s, t) PROVE Owning(x', {})
  <2>1. Dom!IsContainer(x.slot[s]) /\ Dom!Room /\ Dom!Leaves(Dom!AppendFrom(x, s, << t >>))
    BY <1>7 DEF Dom!PushBack, Dom!IsContainer
  <2>2. << t >> \in [1..1 -> Slots \ {s}] /\ \A i, j \in 1..1 : << t >>[i] = << t >>[j] => i = j
    OBVIOUS
  <2> QED
    BY <2>1, <2>2, AppendKeeps
<1>8. ASSUME NEW t \in Slots \ {s}, Dom!Between(s, t) PROVE Owning(x', {})
  <2>1. CASE Dom!Leaves(Dom!Assign(x, s, t))
    BY <2>1, AssignKeeps
  <2>2. CASE Dom!Leaves(Dom!Swap(x, s, t))
    BY <2>2, SwapKeeps
  <2>3. CASE Dom!Copy(s, t)
    BY <2>3, CopyKeeps
  <2>4. CASE Dom!Container(s) /\ \E k \in 1..Dom!Size(x, x.slot[s]) : Dom!Leaves(Dom!SwapItem(x, s, k, t))
    BY <2>4, SwapItemKeeps DEF Dom!Container
  <2> QED
    BY <1>8, <2>1, <2>2, <2>3, <2>4 DEF Dom!Between
<1>9. ASSUME NEW t \in Slots \ {s}, NEW n \in Slots \ {s}, Dom!AddMember(s, n, t) PROVE Owning(x', {})
  <2>1. Dom!IsContainer(x.slot[s]) /\ Dom!Room /\ n # t /\ Dom!Leaves(Dom!AppendFrom(x, s, << n, t >>))
    BY <1>9 DEF Dom!AddMember, Dom!IsContainer
  <2>2. << n, t >> \in [1..2 -> Slots \ {s}] /\ \A i, j \in 1..2 : << n, t >>[i] = << n, t >>[j] => i = j
    BY <2>1
  <2> QED
    BY <2>1, <2>2, AppendKeeps
<1> QED
  BY <1>1, <1>2, <1>3, <1>4, <1>5, <1>6, <1>7, <1>8, <1>9

=============================================================================
