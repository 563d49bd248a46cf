---------------------------- MODULE JsonPartsProofs ----------------------------
(***************************************************************************)
(* Proofs about the functions of JsonParts.  The scanning loops of module  *)
(* JsonScan, for every width of a block, every text and every address: one *)
(* induction over the turns of a loop (Looped of JsonDomProofs) each.  The *)
(* encodings of module JsonEncodings, for every scalar value and all bytes *)
(* there are: what Decode does is found for each kind of first byte, what  *)
(* Encode does for each length, and the two are inverse by arithmetic on   *)
(* six bits at a time.                                                     *)
(***************************************************************************)
EXTENDS JsonParts, JsonDomProofs, SequenceTheorems

-----------------------------------------------------------------------------
(* The loop over single characters                                         *)

\* From p on nothing stops before q.
Clear(m, p, q, stop) == \A a \in p..q - 1 : Scan!At(m, a) \notin stop

\* q is where the loop from p to end stops.
Stands(m, p, end, stop, q) ==
  q \in p..end /\ Clear(m, p, q, stop) /\ (q = end \/ Scan!At(m, q) \in stop)

\* The least element of a set is what Min finds.
LEMMA MinIs ==
  ASSUME NEW T \in SUBSET Int, NEW e \in T, \A y \in T : e <= y
  PROVE  Scan!Min(T) = e
<1> DEFINE chosen == CHOOSE a \in T : \A b \in T : a <= b
<1>1. chosen \in T /\ \A b \in T : chosen <= b
  <2>1. \E a \in T : \A b \in T : a <= b
    OBVIOUS
  <2> QED
    BY <2>1
<1>2. Scan!Min(T) = chosen
  BY DEF Scan!Min
<1> HIDE DEF chosen
<1>3. chosen = e
  BY <1>1
<1> QED
  BY <1>2, <1>3

\* The greatest element of a set is what Max finds.
LEMMA MaxIs ==
  ASSUME NEW T \in SUBSET Int, NEW e \in T, \A y \in T : e >= y
  PROVE  Scan!Max(T) = e
<1> DEFINE chosen == CHOOSE a \in T : \A b \in T : a >= b
<1>1. chosen \in T /\ \A b \in T : chosen >= b
  <2>1. \E a \in T : \A b \in T : a >= b
    OBVIOUS
  <2> QED
    BY <2>1
<1>2. Scan!Max(T) = chosen
  BY DEF Scan!Max
<1> HIDE DEF chosen
<1>3. chosen = e
  BY <1>1
<1> QED
  BY <1>2, <1>3

\* There is one place where the loop stops, ...
LEMMA ScalarIs ==
  ASSUME NEW m, NEW stop, NEW p \in Nat, NEW end \in Nat, NEW q, Stands(m, p, end, stop, q)
  PROVE  Scan!Scalar(m, p, end, stop) = q
<1> DEFINE T == {a \in p..end - 1 : Scan!At(m, a) \in stop} \cup {end}
<1>1. T \in SUBSET Int /\ q \in T
  BY DEF Stands
<1>2. \A y \in T : q <= y
  BY DEF Stands, Clear
<1>3. Scan!Min(T) = q
  <2> HIDE DEF T
  <2> QED
    BY <1>1, <1>2, MinIs
<1> QED
  BY <1>3 DEF Scan!Scalar

\* ... and it stops there.
LEMMA ScalarStands ==
  ASSUME NEW m, NEW stop, NEW p \in Nat, NEW end \in Nat, p <= end
  PROVE  Stands(m, p, end, stop, Scan!Scalar(m, p, end, stop))
<1> DEFINE T == {a \in p..end - 1 : Scan!At(m, a) \in stop} \cup {end}
<1>1. T \in SUBSET Nat /\ T # {}
  OBVIOUS
<1>2. PICK q \in T : \A y \in T : q <= y
  <2> HIDE DEF T
  <2> QED
    BY <1>1, LeastNumber
<1>3. Stands(m, p, end, stop, q)
  <2>1. q \in p..end /\ (q = end \/ Scan!At(m, q) \in stop)
    BY <1>2
  <2>2. ASSUME NEW a \in p..q - 1, Scan!At(m, a) \in stop PROVE FALSE
    <3>1. a \in T /\ a < q
      BY <2>1, <2>2
    <3> QED
      BY <1>2, <2>1, <3>1
  <2> QED
    BY <2>1, <2>2 DEF Stands, Clear
<1> QED
  BY <1>3, ScalarIs

\* Where the text ends at a stop, it does not matter how far behind it the loop would go.
LEMMA StandsBefore ==
  ASSUME NEW m, NEW stop, NEW p \in Nat, NEW last \in Nat, p <= last, Scan!At(m, last) \in stop,
         NEW q \in Nat, p <= q, Clear(m, p, q, stop), Scan!At(m, q) \in stop
  PROVE  Stands(m, p, last, stop, q)
BY DEF Stands, Clear

-----------------------------------------------------------------------------
(* A block                                                                 *)

\* A block is a whole number of characters, and so is its half.
LEMMA WidthIs == Width \in Nat /\ Width > 0 /\ Width \div 2 \in Nat /\ 2 * (Width \div 2) = Width
BY ScanAssumption

\* r is the index of the first character of a block b that stops, or Width.
First(b, stop, r) == /\ r \in 0..Width
                     /\ \A i \in 0..r - 1 : b[i] \notin stop
                     /\ r < Width => b[r] \in stop

\* pcmpistri counts a nul as different, which is right as a nul stops.
LEMMA CmpistriIsFirst ==
  ASSUME NEW b, DOMAIN b = 0..Width - 1, NEW stop, "nul" \in stop
  PROVE  First(b, stop, Scan!Cmpistri(b, stop))
<1> DEFINE same == {i \in DOMAIN b : b[i] \notin stop /\ \A j \in 0..i : b[j] # "nul"}
           T == (DOMAIN b \ same) \cup {Width}
<1>1. T \in SUBSET Nat /\ T # {}
  BY WidthIs
<1>2. PICK r \in T : \A y \in T : r <= y
  <2> HIDE DEF T
  <2> QED
    BY <1>1, LeastNumber
<1>3. r \in 0..Width
  BY <1>2, WidthIs
<1>4. ASSUME NEW i \in 0..r - 1 PROVE i \in same
  <2>1. i \in DOMAIN b /\ i < r
    BY <1>3, WidthIs
  <2>2. i \notin T
    <3> HIDE DEF T
    <3> QED
      BY <1>2, <1>3, <2>1, WidthIs
  <2> QED
    BY <2>1, <2>2
<1>5. ASSUME r < Width PROVE b[r] \in stop
  <2>1. r \in DOMAIN b /\ r \notin same
    BY <1>2, <1>3, <1>5, WidthIs
  <2>2. ASSUME b[r] \notin stop PROVE FALSE
    <3>1. PICK j \in 0..r : b[j] = "nul"
      BY <2>1, <2>2
    <3>2. j # r
      BY <2>2, <3>1
    <3>3. j \in 0..r - 1
      BY <1>3, <3>2
    <3>4. j \in same
      BY <1>4, <3>3
    <3> QED
      BY <3>1, <3>4
  <2> QED
    BY <2>2
<1>6. Scan!Cmpistri(b, stop) = r
  <2>1. Scan!Min(T) = r
    <3> HIDE DEF T
    <3>1. T \in SUBSET Int
      BY <1>1
    <3> QED
      BY <1>2, <3>1, MinIs
  <2> QED
    BY <2>1 DEF Scan!Cmpistri
<1> QED
  BY <1>3, <1>4, <1>5, <1>6 DEF First

\* ffs counts the bits of the mask from 1.
LEMMA FfsIsFirst ==
  ASSUME NEW b, DOMAIN b = 0..Width - 1, NEW stop
  PROVE  /\ Scan!Ffs(b, stop) = 0 => First(b, stop, Width)
         /\ Scan!Ffs(b, stop) # 0 => First(b, stop, Scan!Ffs(b, stop) - 1)
<1> DEFINE mask == {i \in DOMAIN b : b[i] \in stop}
<1>1. mask \in SUBSET Nat /\ mask \in SUBSET Int
  BY WidthIs
<1>2. CASE mask = {}
  <2>1. Scan!Ffs(b, stop) = 0
    BY <1>2 DEF Scan!Ffs
  <2>2. First(b, stop, Width)
    BY <1>2, WidthIs DEF First
  <2> QED
    BY <2>1, <2>2
<1>3. CASE mask # {}
  <2>1. PICK r \in mask : \A y \in mask : r <= y
    <3> HIDE DEF mask
    <3> QED
      BY <1>1, <1>3, LeastNumber
  <2>2. Scan!Min(mask) = r
    <3> HIDE DEF mask
    <3> QED
      BY <1>1, <2>1, MinIs
  <2>3. Scan!Ffs(b, stop) = r + 1
    BY <1>3, <2>2 DEF Scan!Ffs
  <2>4. r \in 0..Width - 1 /\ b[r] \in stop
    BY <2>1
  <2>5. ASSUME NEW i \in 0..r - 1 PROVE b[i] \notin stop
    <3>1. i \in DOMAIN b /\ ~(r <= i)
      BY <2>4, WidthIs
    <3>2. i \notin mask
      BY <2>1, <3>1
    <3> QED
      BY <3>1, <3>2
  <2>6. First(b, stop, r) /\ (r + 1) - 1 = r /\ r + 1 # 0
    BY <2>4, <2>5, WidthIs DEF First
  <2> QED
    BY <2>3, <2>6
<1> QED
  BY <1>2, <1>3

\* In the mask of a lane the bits are reversed; the chosen significant one is that of the first
\* character that stops.
LEMMA LaneIsFirst ==
  ASSUME NEW b, NEW stop, NEW from \in Nat
  PROVE  LET lane == Scan!Reversed(b, stop, from)
             r    == Scan!Clz(lane)
         IN  /\ lane = {} => \A j \in 0..Width \div 2 - 1 : b[from + j] \notin stop
             /\ lane # {} => /\ r \in 0..Width \div 2 - 1 /\ b[from + r] \in stop
                             /\ \A j \in 0..r - 1 : b[from + j] \notin stop
<1> DEFINE half == Width \div 2
           hit  == {j \in 0..half - 1 : b[from + j] \in stop}
           lane == Scan!Reversed(b, stop, from)
<1>0. half \in Nat
  BY WidthIs
<1>1. lane = {half - 1 - i : i \in hit}
  BY DEF Scan!Reversed
<1>2. lane = {} => \A j \in 0..half - 1 : b[from + j] \notin stop
  BY <1>1
<1>3. ASSUME lane # {}
      PROVE  LET r == Scan!Clz(lane)
             IN  r \in 0..half - 1 /\ b[from + r] \in stop /\ \A j \in 0..r - 1 : b[from + j] \notin stop
  <2> HIDE DEF lane, half
  <2>1. hit \in SUBSET Nat /\ hit # {}
    BY <1>1, <1>3
  <2>2. PICK r \in hit : \A j \in hit : r <= j
    <3> HIDE DEF hit
    <3> QED
      BY <2>1, LeastNumber
  <2>3. r \in 0..half - 1
    BY <2>2
  <2>4. half - 1 - r \in lane /\ lane \in SUBSET Int
    BY <1>0, <1>1, <2>2
  <2>5. ASSUME NEW y \in lane PROVE half - 1 - r >= y
    <3>1. PICK i \in hit : y = half - 1 - i
      BY <1>1
    <3>2. r <= i /\ i \in Nat
      BY <2>2
    <3> QED
      BY <1>0, <2>3, <3>1, <3>2
  <2>6. Scan!Max(lane) = half - 1 - r
    BY <2>4, <2>5, MaxIs
  <2>7. Scan!Clz(lane) = r
    <3>1. half - 1 - (half - 1 - r) = r
      BY <1>0, <2>3
    <3> QED
      BY <2>6, <3>1 DEF Scan!Clz, half
  <2>8. ASSUME NEW j \in 0..r - 1 PROVE b[from + j] \notin stop
    <3>1. j \in 0..half - 1 /\ ~(r <= j)
      BY <1>0, <2>3
    <3>2. j \notin hit
      BY <2>2, <3>1
    <3> QED
      BY <3>1, <3>2
  <2> QED
    BY <2>2, <2>3, <2>7, <2>8
<1> QED
  BY <1>2, <1>3 DEF half

\* The leading zeros of two reversed halves (NEON) give the first character that stops.
LEMMA LanesAreFirst ==
  ASSUME NEW b, NEW stop
  PROVE  First(b, stop, Scan!Lanes(b, stop))
<1> DEFINE half == Width \div 2
           low  == Scan!Reversed(b, stop, 0)
           high == Scan!Reversed(b, stop, half)
           r == Scan!Lanes(b, stop)
<1>1. half \in Nat /\ Width = half + half /\ Width > 0
  BY WidthIs
<1>2. r = IF low # {} THEN Scan!Clz(low) ELSE IF high # {} THEN half + Scan!Clz(high) ELSE Width
  BY DEF Scan!Lanes
<1>3. /\ low = {} => \A j \in 0..half - 1 : b[0 + j] \notin stop
      /\ low # {} => /\ Scan!Clz(low) \in 0..half - 1 /\ b[0 + Scan!Clz(low)] \in stop
                     /\ \A j \in 0..Scan!Clz(low) - 1 : b[0 + j] \notin stop
  <2>1. 0 \in Nat
    OBVIOUS
  <2> QED
    BY <2>1, LaneIsFirst
<1>4. /\ high = {} => \A j \in 0..half - 1 : b[half + j] \notin stop
      /\ high # {} => /\ Scan!Clz(high) \in 0..half - 1 /\ b[half + Scan!Clz(high)] \in stop
                      /\ \A j \in 0..Scan!Clz(high) - 1 : b[half + j] \notin stop
  BY <1>1, LaneIsFirst
<1> HIDE DEF half, low, high, r
<1>5. CASE low # {}
  BY <1>1, <1>2, <1>3, <1>5 DEF First, r
<1>6. CASE low = {}
  <2>1. \A i \in 0..half - 1 : b[i] \notin stop
    BY <1>1, <1>3, <1>6
  <2>2. CASE high # {}
    <3>1. r = half + Scan!Clz(high) /\ r \in 0..Width /\ r < Width
      BY <1>1, <1>2, <1>4, <1>6, <2>2
    <3>2. ASSUME NEW i \in 0..r - 1 PROVE b[i] \notin stop
      <4>1. CASE i < half
        BY <1>1, <2>1, <3>1, <4>1
      <4>2. CASE i >= half
        <5>1. i - half \in 0..Scan!Clz(high) - 1 /\ half + (i - half) = i
          BY <1>1, <1>4, <2>2, <3>1, <4>2
        <5> QED
          BY <1>4, <2>2, <5>1
      <4> QED
        BY <1>1, <4>1, <4>2
    <3> QED
      BY <1>4, <2>2, <3>1, <3>2 DEF First, r
  <2>3. CASE high = {}
    <3>1. r = Width
      BY <1>2, <1>6, <2>3
    <3>2. ASSUME NEW i \in 0..Width - 1 PROVE b[i] \notin stop
      <4>1. CASE i < half
        BY <1>1, <2>1, <4>1
      <4>2. CASE i >= half
        <5>1. i - half \in 0..half - 1 /\ half + (i - half) = i
          BY <1>1, <4>2
        <5> QED
          BY <1>4, <2>3, <5>1
      <4> QED
        BY <1>1, <4>1, <4>2
    <3> QED
      BY <1>1, <3>1, <3>2 DEF First, r
  <2> QED
    BY <2>2, <2>3
<1> QED
  BY <1>5, <1>6

\* All three instruction sets find the first character that stops.
LEMMA IndexIsFirst ==
  ASSUME NEW isa \in Scan!Isa, NEW b, DOMAIN b = 0..Width - 1, NEW stop, "nul" \in stop
  PROVE  First(b, stop, Scan!Index(isa, b, stop))
<1>1. CASE isa = "NEON"
  BY <1>1, LanesAreFirst DEF Scan!Index
<1>2. CASE isa = "SSE42" /\ stop = Scan!Kind \ Scan!Whitespace
  BY <1>2, CmpistriIsFirst DEF Scan!Index
<1>3. CASE ~(isa = "SSE42" /\ stop = Scan!Kind \ Scan!Whitespace) /\ isa # "NEON"
  <2>1. Scan!Index(isa, b, stop) = IF Scan!Ffs(b, stop) # 0 THEN Scan!Ffs(b, stop) - 1 ELSE Width
    BY <1>3 DEF Scan!Index
  <2> QED
    BY <2>1, FfsIsFirst
<1> QED
  BY <1>1, <1>2, <1>3

\* The block at p says how far from p on nothing stops.
LEMMA BlockSays ==
  ASSUME NEW isa \in Scan!Isa, NEW m, NEW p \in Nat, NEW stop, "nul" \in stop,
         NEW r, r = Scan!Index(isa, Scan!Load(m, p), stop)
  PROVE  /\ r \in 0..Width /\ Clear(m, p, p + r, stop)
         /\ r # Width => Scan!At(m, p + r) \in stop
<1> DEFINE b == Scan!Load(m, p)
<1>1. DOMAIN b = 0..Width - 1 /\ \A i \in 0..Width - 1 : b[i] = Scan!At(m, p + i)
  BY DEF Scan!Load
<1> HIDE DEF b
<1>2. First(b, stop, r)
  BY <1>1, IndexIsFirst DEF b
<1>3. r \in 0..Width /\ r \in Nat
  BY <1>2, WidthIs DEF First
<1>4. ASSUME NEW a \in p..p + r - 1 PROVE Scan!At(m, a) \notin stop
  <2>1. a - p \in 0..r - 1 /\ a - p \in 0..Width - 1 /\ p + (a - p) = a
    BY <1>3, WidthIs
  <2>2. b[a - p] \notin stop
    BY <1>2, <2>1 DEF First
  <2> QED
    BY <1>1, <2>1, <2>2
<1>5. ASSUME r # Width PROVE Scan!At(m, p + r) \in stop
  <2>1. r \in 0..Width - 1 /\ r < Width
    BY <1>3, <1>5, WidthIs
  <2> QED
    BY <1>1, <1>2, <2>1 DEF First
<1> QED
  BY <1>3, <1>4, <1>5 DEF Clear

-----------------------------------------------------------------------------
(* The loop over blocks                                                    *)

\* After k turns from p on: nothing stops before the place that is reached, and every turn
\* passed a character, unless the loop has ended.
Reached(m, p, end, stop, k, t) ==
  /\ t \in [at : Nat, found : BOOLEAN]
  /\ p <= t.at /\ (t.at <= p \/ t.at <= end)
  /\ Clear(m, p, t.at, stop)
  /\ t.found => Scan!At(m, t.at) \in stop
  /\ t.found \/ t.at > end - Width \/ t.at >= p + k

\* Two stretches where nothing stops make one.
LEMMA ClearJoins ==
  ASSUME NEW m, NEW stop, NEW p \in Nat, NEW q \in Nat, NEW r \in Nat,
         Clear(m, p, q, stop), Clear(m, q, r, stop)
  PROVE  Clear(m, p, r, stop)
BY DEF Clear

\* A turn of the block loop, with any instruction set, keeps what the loop has reached.
LEMMA TurnReaches ==
  ASSUME NEW isa \in Scan!Isa, NEW m, NEW stop, "nul" \in stop, NEW p \in Nat, NEW end \in Nat,
         NEW k \in Nat, NEW t, Reached(m, p, end, stop, k, t)
  PROVE  Reached(m, p, end, stop, k + 1, Scan!BlockTurn(isa, m, end, stop, t))
<1>1. t.at \in Nat /\ t.found \in BOOLEAN
  BY DEF Reached
<1>2. CASE t.found \/ t.at > end - Width
  <2>1. Scan!BlockTurn(isa, m, end, stop, t) = t
    BY <1>2 DEF Scan!BlockTurn
  <2> QED
    BY <1>2, <2>1 DEF Reached
<1>3. CASE ~t.found /\ ~(t.at > end - Width)
  <2> DEFINE r == Scan!Index(isa, Scan!Load(m, t.at), stop)
             u == [at |-> t.at + r, found |-> r # Width]
  <2>1. Scan!BlockTurn(isa, m, end, stop, t) = u
    BY <1>3 DEF Scan!BlockTurn
  <2>2. /\ r \in 0..Width /\ Clear(m, t.at, t.at + r, stop)
        /\ r # Width => Scan!At(m, t.at + r) \in stop
    BY <1>1, BlockSays
  <2> HIDE DEF r
  <2>3. t.at + r \in Nat /\ r \in Nat
    BY <1>1, <2>2, WidthIs
  <2>4. Clear(m, p, t.at + r, stop)
    BY <1>1, <2>2, <2>3, ClearJoins DEF Reached
  <2>5. u \in [at : Nat, found : BOOLEAN] /\ u.at = t.at + r /\ u.found = (r # Width)
    BY <2>3
  <2>6. t.at + r <= end
    BY <1>1, <1>3, <2>2, <2>3, WidthIs
  <2>7. p <= t.at + r /\ (r = Width => t.at + r >= p + (k + 1))
    BY <1>1, <1>3, <2>3, WidthIs DEF Reached
  <2> HIDE DEF u
  <2>8. Reached(m, p, end, stop, k + 1, u)
    BY <2>2, <2>4, <2>5, <2>6, <2>7 DEF Reached
  <2> QED
    BY <2>1, <2>8
<1> QED
  BY <1>2, <1>3

\* The loop over blocks stops where a character stops, or when less than a block is left.
LEMMA BlocksStand ==
  ASSUME NEW isa \in Scan!Isa, NEW m, NEW stop, "nul" \in stop, NEW p \in Nat, NEW end \in Nat,
         NEW q, q = Scan!Blocks(isa, m, p, end, stop)
  PROVE  /\ q \in Nat /\ p <= q /\ (q <= p \/ q <= end) /\ Clear(m, p, q, stop)
         /\ Scan!At(m, q) \in stop \/ q > end - Width
<1> DEFINE n == IF p < end THEN end - p ELSE 0
           first == [at |-> p, found |-> FALSE]
           Turn(t) == Scan!BlockTurn(isa, m, end, stop, t)
           Is(g) == g = [k \in 0..n |-> IF k = 0 THEN first ELSE Turn(g[k - 1])]
           turn == CHOOSE g : Is(g)
           S == [at : Nat, found : BOOLEAN]
           J == {w \in Nat \X S : Reached(m, p, end, stop, w[1], w[2])}
           B == [w \in J |-> Turn(w[2])]
<1>0. n \in Nat /\ p + n >= end /\ n >= 0
  OBVIOUS
<1>1. q = turn[n].at
  BY DEF Scan!Blocks
<1>2. Reached(m, p, end, stop, 0, first)
  BY DEF Reached, Clear
<1> HIDE DEF first, Turn, n
<1>3. \A k \in Nat : \A t : <<k, t>> \in J <=> Reached(m, p, end, stop, k, t)
  BY DEF Reached
<1>4. \A k \in Nat : \A t : Reached(m, p, end, stop, k, t) => Reached(m, p, end, stop, k + 1, Turn(t))
  BY TurnReaches DEF Turn
<1>5. \A w \in J : \E k \in Nat : \E t : w = <<k, t>>
  OBVIOUS
<1> HIDE DEF J
<1>6. \A k \in Nat : \A t : <<k, t>> \in J => B[<<k, t>>] = Turn(t)
  OBVIOUS
<1> HIDE DEF B
<1>7. \A k \in Nat : \A t : <<k, t>> \in J => <<k + 1, B[<<k, t>>]>> \in J
  BY <1>3, <1>4, <1>6
<1>8. << 0, first >> \in J
  BY <1>2, <1>3
<1>9. PICK g : Loops(B, first, n, g) /\ \A k \in 0..n : <<k, g[k]>> \in J
  BY ONLY <1>0, <1>5, <1>7, <1>8, Looped
<1>10. Is(g)
  <2>1. ASSUME NEW k \in 0..n, k # 0 PROVE B[<<k - 1, g[k - 1]>>] = Turn(g[k - 1])
    <3>1. k - 1 \in 0..n /\ k - 1 \in Nat
      BY <1>0, <2>1
    <3> QED
      BY <1>6, <1>9, <3>1
  <2> QED
    BY ONLY <1>9, <2>1 DEF Loops
<1>11. Is(turn)
  BY <1>10
<1> HIDE DEF turn
<1>12. \A k \in 0..n : <<k, turn[k]>> \in J
  <2> DEFINE P == {k \in 0..n : <<k, turn[k]>> \in J}
  <2>1. 0 \in P
    BY <1>0, <1>8, <1>11
  <2>2. ASSUME NEW k \in 0..n, k < n, k \in P PROVE k + 1 \in P
    <3>1. k + 1 \in 0..n /\ k + 1 # 0 /\ (k + 1) - 1 = k /\ k \in Nat
      BY <1>0, <2>2
    <3>2. turn[k + 1] = Turn(turn[k])
      BY <1>11, <3>1
    <3> QED
      BY <1>6, <1>7, <2>2, <3>1, <3>2
  <2>3. \A k \in 0..n : k < n /\ k \in P => k + 1 \in P
    BY <2>2
  <2> HIDE DEF P
  <2>4. \A k \in 0..n : k \in P
    BY ONLY <1>0, <2>1, <2>3, CountTo
  <2> QED
    BY <2>4 DEF P
<1>13. Reached(m, p, end, stop, n, turn[n])
  <2>1. n \in 0..n
    BY <1>0
  <2> QED
    BY <1>0, <1>3, <1>12, <2>1
<1>14. q \in Nat
  BY <1>1, <1>13 DEF Reached
<1> QED
  BY <1>0, <1>1, <1>13, <1>14, WidthIs DEF Reached

-----------------------------------------------------------------------------
(* Reading                                                                 *)

\* A number is a multiple of the width and a rest.
LEMMA Divided ==
  ASSUME NEW a \in Nat
  PROVE  /\ a \div Width \in Nat /\ a % Width \in 0..Width - 1
         /\ a = Width * (a \div Width) + (a % Width)
BY WidthIs

\* Rounding down to a block does not go up.
LEMMA RoundDownIs ==
  ASSUME NEW a \in Nat
  PROVE  Scan!RoundDown(a) \in Nat /\ Scan!RoundDown(a) <= a
<1>1. (a \div Width) * Width = Width * (a \div Width) /\ Width * (a \div Width) \in Nat
  BY Divided, WidthIs
<1> QED
  BY <1>1, Divided, WidthIs DEF Scan!RoundDown

\* A multiple has no remainder.
LEMMA Multiple ==
  ASSUME NEW k \in Nat
  PROVE  (k * Width) % Width = 0
<1> DEFINE d == (k * Width) \div Width
           r == (k * Width) % Width
<1>1. k * Width \in Nat
  BY WidthIs
<1>2. d \in Nat /\ r \in 0..Width - 1 /\ k * Width = Width * d + r
  BY <1>1, Divided
<1> HIDE DEF d, r
<1>3. Width * (k - d) = r
  <2>1. Width * (k - d) = Width * k - Width * d /\ Width * k = k * Width /\ Width * d \in Int /\ k * Width \in Int
    BY <1>2, WidthIs
  <2> QED
    BY <1>2, <2>1, WidthIs
<1>4. k - d \in Int /\ (k - d >= 1 => Width * (k - d) >= Width) /\ (k - d <= -1 => Width * (k - d) < 0)
  BY <1>2, WidthIs
<1>5. k - d = 0
  BY <1>2, <1>3, <1>4, WidthIs
<1> QED
  BY <1>2, <1>3, <1>5, WidthIs DEF r

\* Rounding up to a block does not go down, and ends at a block.
LEMMA RoundUpIs ==
  ASSUME NEW a \in Nat
  PROVE  Scan!RoundUp(a) \in Nat /\ a <= Scan!RoundUp(a) /\ Scan!RoundUp(a) % Width = 0
<1> DEFINE b == a + Width - 1
<1>1. b \in Nat
  BY WidthIs
<1>2. b \div Width \in Nat /\ b % Width \in 0..Width - 1 /\ b = Width * (b \div Width) + (b % Width)
  BY <1>1, Divided
<1>3. Scan!RoundUp(a) = (b \div Width) * Width
  BY DEF Scan!RoundUp
<1> HIDE DEF b
<1>4. (b \div Width) * Width = Width * (b \div Width) /\ Width * (b \div Width) \in Nat
  BY <1>2, WidthIs
<1>5. a <= (b \div Width) * Width
  BY <1>2, <1>4, WidthIs DEF b
<1> QED
  BY <1>2, <1>3, <1>4, <1>5, Multiple

\* The part in front of the first whole block, and then the blocks, stop where the text does.
LEMMA TerminatedIs ==
  ASSUME NEW isa \in Scan!Isa, NEW m, NEW stop, "nul" \in stop,
         NEW p \in Nat, NEW last \in Nat, p <= last, Scan!At(m, last) = "nul"
  PROVE  Scan!Terminated(isa, m, p, last, stop) = Scan!Scalar(m, p, last, stop)
<1> DEFINE a == Scan!RoundUp(p)
           s == Scan!Scalar(m, p, a, stop)
<1>1. a \in Nat /\ p <= a
  BY RoundUpIs
<1>2. Stands(m, p, a, stop, s) /\ s \in Nat
  <2>1. Stands(m, p, a, stop, s)
    BY <1>1, ScalarStands
  <2> QED
    BY <1>1, <2>1 DEF Stands
<1>3. Scan!Aligned(m, p, stop) = IF s = a THEN {s} ELSE {}
  BY DEF Scan!Aligned
<1>4. Scan!Terminated(isa, m, p, last, stop)
        = IF s = a THEN Scan!Blocks(isa, m, a, last + 2 * Width, stop) ELSE s
  BY <1>3 DEF Scan!Terminated
<1> HIDE DEF a, s
<1>5. CASE s # a
  <2>1. Stands(m, p, last, stop, s)
    BY <1>1, <1>2, <1>5, StandsBefore DEF Stands
  <2> QED
    BY <1>4, <1>5, <2>1, ScalarIs
<1>6. CASE s = a
  <2> DEFINE end == last + 2 * Width
             q == Scan!Blocks(isa, m, a, end, stop)
  <2>1. end \in Nat
    BY WidthIs
  <2>2. /\ q \in Nat /\ a <= q /\ Clear(m, a, q, stop)
        /\ Scan!At(m, q) \in stop \/ q > end - Width
    BY <1>1, <2>1, BlocksStand
  <2>3. Scan!Terminated(isa, m, p, last, stop) = q
    BY <1>4, <1>6
  <2> HIDE DEF q
  <2>4. Clear(m, p, q, stop) /\ p <= q
    BY <1>1, <1>2, <1>6, <2>2, ClearJoins DEF Stands
  <2>5. q <= last
    BY <2>2, <2>4 DEF Clear
  <2>6. Scan!At(m, q) \in stop
    BY <2>2, <2>5, WidthIs
  <2>7. Stands(m, p, last, stop, q)
    BY <2>2, <2>4, <2>6, StandsBefore
  <2> QED
    BY <2>3, <2>7, ScalarIs
<1> QED
  BY <1>5, <1>6

\* A text in memory, with the nul behind it and with what is further behind.
Inputs == [mem : UNION {[0..n -> Scan!Kind] : n \in Nat}, from : Nat, last : Nat, before : Nat]

Sound(in) == /\ in \in Inputs
             /\ in.from <= in.last /\ in.last + 1 \in DOMAIN in.mem
             /\ in.mem[in.last] = "nul"
             /\ in.before <= in.from

\* What an input that is sound says of its memory and addresses.
LEMMA SoundHolds ==
  ASSUME NEW in, Sound(in)
  PROVE  /\ in.from \in Nat /\ in.last \in Nat /\ in.before \in Nat
         /\ in.from <= in.last /\ in.before <= in.from
         /\ \E n \in Nat : n > in.last /\ in.mem \in [0..n -> Scan!Kind]
         /\ \A a \in 0..in.last + 1 : a \in DOMAIN in.mem /\ Scan!At(in.mem, a) = in.mem[a] /\ in.mem[a] \in Scan!Kind
         /\ Scan!At(in.mem, in.last) = "nul"
<1>1. in.from \in Nat /\ in.last \in Nat /\ in.before \in Nat
  BY DEF Sound, Inputs
<1>2. PICK n \in Nat : in.mem \in [0..n -> Scan!Kind]
  BY DEF Sound, Inputs
<1>3. DOMAIN in.mem = 0..n
  BY <1>2
<1>4. n > in.last
  BY <1>1, <1>3 DEF Sound
<1>5. \A a \in 0..in.last + 1 : a \in DOMAIN in.mem /\ Scan!At(in.mem, a) = in.mem[a] /\ in.mem[a] \in Scan!Kind
  BY <1>1, <1>2, <1>3, <1>4 DEF Scan!At
<1>6. Scan!At(in.mem, in.last) = "nul"
  BY <1>1, <1>5 DEF Sound
<1> QED
  BY <1>1, <1>2, <1>4, <1>5, <1>6 DEF Sound

\* White space is skipped as the loop over single characters does.
LEMMA WhitespaceIsSkipped ==
  ASSUME NEW isa \in Scan!Isa, NEW in, Sound(in)
  PROVE  Scan!SkipWhitespace(isa, in.mem, in.from, in.last)
           = Scan!SkipWhitespaceScalar(in.mem, in.from, Scan!Terminator(in))
<1> DEFINE m == in.mem
           p == in.from
           last == in.last
           stop == Scan!Kind \ Scan!Whitespace
           end == Scan!Terminator(in)
           q == Scan!Scalar(m, p, last, stop)
<1>1. /\ p \in Nat /\ last \in Nat /\ p <= last /\ Scan!At(m, last) = "nul"
      /\ \A a \in 0..last + 1 : Scan!At(m, a) \in Scan!Kind
  BY SoundHolds
<1>2. "nul" \in stop /\ stop \cup Scan!Whitespace = Scan!Kind /\ \A c \in stop : c \notin Scan!Whitespace
  BY DEF Scan!Kind, Scan!Whitespace
<1>3. end = Scan!Scalar(m, p, last, {"nul"})
  BY DEF Scan!Terminator
<1> HIDE DEF m, p, last, stop, end
<1>4. Stands(m, p, last, {"nul"}, end)
  BY <1>1, <1>3, ScalarStands
<1>5. Stands(m, p, last, stop, q)
  BY <1>1, ScalarStands
<1> HIDE DEF q
<1>6. end \in Nat /\ q \in Nat /\ p <= q /\ p <= end /\ end <= last
  BY <1>1, <1>4, <1>5 DEF Stands
<1>7. Scan!At(m, end) \in stop
  BY <1>1, <1>2, <1>4 DEF Stands
<1>8. q <= end
  BY <1>5, <1>6, <1>7 DEF Stands, Clear
<1>9. Stands(m, p, end, stop, q)
  BY <1>5, <1>6, <1>8 DEF Stands
<1>10. Scan!Scalar(m, p, end, stop) = q
  BY <1>1, <1>6, <1>9, ScalarIs
<1>11. Scan!SkipWhitespace(isa, m, p, last) = q
  <2>1. CASE Scan!At(m, p) \notin Scan!Whitespace
    <3>1. Scan!At(m, p) \in stop
      BY <1>1, <1>2, <2>1
    <3>2. q = p
      BY <1>1, <1>5, <1>6, <3>1 DEF Stands, Clear
    <3> QED
      BY <2>1, <3>2 DEF Scan!SkipWhitespace
  <2>2. CASE Scan!At(m, p) \in Scan!Whitespace
    <3>1. p # last /\ p + 1 <= last /\ p + 1 \in Nat
      BY <1>1, <1>2, <2>2
    <3>2. Scan!Terminated(isa, m, p + 1, last, stop) = Scan!Scalar(m, p + 1, last, stop)
      BY <1>1, <1>2, <3>1, TerminatedIs
    <3>3. Scan!At(m, p) \notin stop
      BY <1>2, <2>2
    <3>4. q # p
      BY <1>5, <3>1, <3>3 DEF Stands
    <3>5. Stands(m, p + 1, last, stop, q)
      BY <1>1, <1>5, <1>6, <3>4 DEF Stands, Clear
    <3>6. Scan!Scalar(m, p + 1, last, stop) = q
      BY <1>1, <3>1, <3>5, ScalarIs
    <3> QED
      BY <2>2, <3>2, <3>6 DEF Scan!SkipWhitespace, stop
  <2> QED
    BY <2>1, <2>2
<1> QED
  BY <1>10, <1>11 DEF Scan!SkipWhitespaceScalar, m, p, last, end, stop

\* So it is up to a given end.
LEMMA BoundedIsSkipped ==
  ASSUME NEW isa \in Scan!Isa, NEW in, Sound(in)
  PROVE  Scan!SkipWhitespaceBounded(isa, in.mem, in.from, in.last)
           = Scan!SkipWhitespaceScalar(in.mem, in.from, in.last)
<1> DEFINE m == in.mem
           p == in.from
           end == in.last
           stop == Scan!Kind \ Scan!Whitespace
           s == Scan!Scalar(m, p, end, stop)
<1>1. /\ p \in Nat /\ end \in Nat /\ p <= end
      /\ \A a \in 0..end + 1 : Scan!At(m, a) \in Scan!Kind
  BY SoundHolds
<1>2. "nul" \in stop /\ stop \cup Scan!Whitespace = Scan!Kind /\ \A c \in stop : c \notin Scan!Whitespace
  BY DEF Scan!Kind, Scan!Whitespace
<1> HIDE DEF m, p, end, stop
<1>3. Stands(m, p, end, stop, s)
  BY <1>1, ScalarStands
<1> HIDE DEF s
<1>4. Scan!SkipWhitespaceBounded(isa, m, p, end) = s
  <2>1. CASE p = end
    <3>1. s = p
      BY <1>1, <1>3, <2>1 DEF Stands
    <3> QED
      BY <2>1, <3>1 DEF Scan!SkipWhitespaceBounded
  <2>2. CASE p # end /\ Scan!At(m, p) \notin Scan!Whitespace
    <3>1. Scan!At(m, p) \in stop
      BY <1>1, <1>2, <2>2
    <3>2. s = p
      BY <1>1, <1>3, <3>1 DEF Stands, Clear
    <3> QED
      BY <2>2, <3>2 DEF Scan!SkipWhitespaceBounded
  <2>3. CASE p # end /\ Scan!At(m, p) \in Scan!Whitespace
    <3> DEFINE q == Scan!Blocks(isa, m, p + 1, end, stop)
               r == Scan!Scalar(m, q, end, stop)
    <3>1. p + 1 \in Nat /\ p + 1 <= end
      BY <1>1, <2>3
    <3>2. q \in Nat /\ p + 1 <= q /\ (q <= p + 1 \/ q <= end) /\ Clear(m, p + 1, q, stop)
      BY <1>1, <1>2, <3>1, BlocksStand
    <3>3. Scan!SkipWhitespaceBounded(isa, m, p, end) = r
      BY <2>3 DEF Scan!SkipWhitespaceBounded, Scan!SkipWhitespaceScalar, stop
    <3> HIDE DEF q
    <3>4. Stands(m, q, end, stop, r)
      BY <1>1, <3>1, <3>2, ScalarStands
    <3> HIDE DEF r
    <3>5. r \in Nat /\ q <= r
      BY <1>1, <3>2, <3>4 DEF Stands
    <3>6. Scan!At(m, p) \notin stop
      BY <1>2, <2>3
    <3>7. Clear(m, p, r, stop)
      BY <1>1, <3>1, <3>2, <3>4, <3>5, <3>6 DEF Stands, Clear
    <3>8. Stands(m, p, end, stop, r)
      BY <1>1, <3>1, <3>2, <3>4, <3>5, <3>7 DEF Stands
    <3>9. s = r
      BY <1>1, <3>8, ScalarIs DEF s
    <3> QED
      BY <3>3, <3>9
  <2> QED
    BY <2>1, <2>2, <2>3
<1> QED
  BY <1>4 DEF Scan!SkipWhitespaceScalar, m, p, end, stop, s

\* The loops over blocks stop where the loop over single characters does (reader.h).
LEMMA ScanIsAgreed ==
  ASSUME NEW in, Sound(in)
  PROVE  Scan!ScansAgree(in)
<1> SUFFICES ASSUME NEW isa \in Scan!Isa
             PROVE  LET stop == Scan!Scalar(in.mem, in.from, in.last, Scan!Escaped)
                    IN  Scan!ScanCopy(isa, in.mem, in.from, in.last)
                          = [copied |-> Scan!Slice(in.mem, in.from, stop), src |-> stop]
  BY WhitespaceIsSkipped, BoundedIsSkipped DEF Scan!ScansAgree
<1>1. Scan!Terminated(isa, in.mem, in.from, in.last, Scan!Escaped)
        = Scan!Scalar(in.mem, in.from, in.last, Scan!Escaped)
  <2>1. "nul" \in Scan!Escaped
    BY DEF Scan!Escaped
  <2> QED
    BY <2>1, SoundHolds, TerminatedIs
<1> QED
  BY <1>1 DEF Scan!ScanCopy

\* No block is loaded from a page that the text is not on (reader.h, SkipWhitespace_SIMD).
LEMMA LoadsAreOnPage ==
  ASSUME NEW in, Sound(in)
  PROVE  Scan!LoadsStayOnPage(in)
<1> SUFFICES ASSUME NEW stop \in {Scan!Escaped, Scan!Kind \ Scan!Whitespace}, NEW p \in in.from..in.last,
                    NEW a \in Scan!Aligned(in.mem, p, stop)
             PROVE  a % Width = 0 /\ a <= in.last
  BY DEF Scan!LoadsStayOnPage
<1> DEFINE s == Scan!Scalar(in.mem, p, Scan!RoundUp(p), stop)
<1>1. in.from \in Nat /\ in.last \in Nat /\ Scan!At(in.mem, in.last) = "nul" /\ p \in Nat /\ p <= in.last
  BY SoundHolds
<1>2. "nul" \in stop
  BY DEF Scan!Escaped, Scan!Kind, Scan!Whitespace
<1>3. Scan!RoundUp(p) \in Nat /\ p <= Scan!RoundUp(p) /\ Scan!RoundUp(p) % Width = 0
  BY <1>1, RoundUpIs
<1>4. a = s /\ s = Scan!RoundUp(p)
  BY DEF Scan!Aligned
<1>5. Stands(in.mem, p, Scan!RoundUp(p), stop, s)
  BY <1>1, <1>3, ScalarStands
<1> HIDE DEF s
<1>6. s <= in.last
  BY <1>1, <1>2, <1>3, <1>4, <1>5 DEF Stands, Clear
<1> QED
  BY <1>3, <1>4, <1>6

-----------------------------------------------------------------------------
(* Reading in place                                                        *)

\* A nul is a character that stops.
LEMMA NulStops == "nul" \in Scan!Escaped
BY DEF Scan!Escaped

\* s is m after a copy of p..q-1 to d.
Stored(n, m, d, p, q, s) ==
  /\ s \in [0..n -> Scan!Kind]
  /\ \A a \in 0..n : d <= a /\ a < d + (q - p) => s[a] = Scan!At(m, p + (a - d))
  /\ \A a \in 0..n : a < d \/ a >= d + (q - p) => s[a] = m[a]

\* Characters that are stored stand at their place, and nothing else changes.
LEMMA StoreIs ==
  ASSUME NEW n \in Nat, NEW m \in [0..n -> Scan!Kind], NEW d \in Nat, NEW p \in Nat, NEW q \in Nat, p <= q
  PROVE  Stored(n, m, d, p, q, Scan!Store(m, d, Scan!Slice(m, p, q)))
<1> DEFINE chars == Scan!Slice(m, p, q)
           s == Scan!Store(m, d, chars)
<1>1. DOMAIN m = 0..n /\ \A a \in 0..n : m[a] \in Scan!Kind
  OBVIOUS
<1>2. \A a : Scan!At(m, a) \in Scan!Kind
  BY <1>1 DEF Scan!At, Scan!Kind
<1>3. q - p \in Nat /\ chars = [i \in 1..q - p |-> Scan!At(m, p + i - 1)]
  BY DEF Scan!Slice
<1>4. chars \in Seq(Scan!Kind) /\ Len(chars) = q - p
  BY <1>2, <1>3
<1>5. \A i \in 1..q - p : chars[i] = Scan!At(m, p + i - 1)
  BY <1>3
<1> HIDE DEF chars
<1>6. s = [a \in 0..n |-> IF a \in d..d + (q - p) - 1 THEN chars[a - d + 1] ELSE m[a]]
  BY <1>1, <1>4 DEF Scan!Store
<1>7. ASSUME NEW a \in 0..n, d <= a, a < d + (q - p) PROVE s[a] = Scan!At(m, p + (a - d))
  <2>1. a \in d..d + (q - p) - 1 /\ a - d + 1 \in 1..q - p /\ p + (a - d + 1) - 1 = p + (a - d)
    BY <1>3, <1>7
  <2>2. s[a] = chars[a - d + 1]
    BY <1>6, <2>1
  <2>3. chars[a - d + 1] = Scan!At(m, p + (a - d + 1) - 1)
    BY <1>5, <2>1
  <2> QED
    BY <2>1, <2>2, <2>3
<1>8. ASSUME NEW a \in 0..n, a < d \/ a >= d + (q - p) PROVE s[a] = m[a]
  <2>1. a \notin d..d + (q - p) - 1
    BY <1>3, <1>8
  <2> QED
    BY <1>6, <2>1
<1>9. s \in [0..n -> Scan!Kind]
  <2>1. ASSUME NEW a \in 0..n PROVE s[a] \in Scan!Kind
    <3>1. CASE d <= a /\ a < d + (q - p)
      BY <1>2, <1>7, <3>1
    <3>2. CASE a < d \/ a >= d + (q - p)
      BY <1>1, <1>8, <3>2
    <3> QED
      BY <1>3, <3>1, <3>2
  <2> QED
    BY <1>6, <2>1
<1> QED
  BY <1>7, <1>8, <1>9 DEF Stored, chars

\* What is read of a text has been moved down, and nothing else has changed but what was moved over.
Shifted(in, n, t) ==
  /\ t.mem \in [0..n -> Scan!Kind] /\ t.src \in Nat /\ t.dst \in Nat
  /\ t.dst + in.before = t.src /\ in.from <= t.src
  /\ Clear(in.mem, in.from, t.src, Scan!Escaped)
  /\ \A a \in 0..n : a < in.from - in.before \/ a >= t.src => t.mem[a] = in.mem[a]
  /\ \A a \in in.from..t.src - 1 : t.mem[a - in.before] = in.mem[a]

\* Moving a stretch without an escape down keeps what was moved before.
LEMMA ShiftedOn ==
  ASSUME NEW in, Sound(in), NEW n \in Nat, n > in.last, in.mem \in [0..n -> Scan!Kind],
         NEW t, Shifted(in, n, t),
         NEW q \in Nat, t.src <= q, Clear(in.mem, t.src, q, Scan!Escaped),
         NEW u, u.mem = Scan!Store(t.mem, t.dst, Scan!Slice(t.mem, t.src, q)),
         u.src = q, u.dst = t.dst + (q - t.src)
  PROVE  Shifted(in, n, u)
<1> DEFINE from == in.from
           last == in.last
           before == in.before
           m == in.mem
<1>1. /\ from \in Nat /\ last \in Nat /\ before \in Nat /\ before <= from /\ from <= last
      /\ Scan!At(m, last) = "nul"
  BY SoundHolds
<1>2. DOMAIN m = 0..n
  OBVIOUS
<1> HIDE DEF from, last, before, m
<1>3. /\ t.mem \in [0..n -> Scan!Kind] /\ t.src \in Nat /\ t.dst \in Nat
      /\ t.dst + before = t.src /\ from <= t.src
      /\ Clear(m, from, t.src, Scan!Escaped)
      /\ \A a \in 0..n : a < from - before \/ a >= t.src => t.mem[a] = m[a]
      /\ \A a \in from..t.src - 1 : t.mem[a - before] = m[a]
  BY DEF Shifted, from, last, before, m
<1>4. Clear(m, from, q, Scan!Escaped)
  BY <1>1, <1>3, ClearJoins DEF m
<1>5. q <= last
  BY <1>1, <1>3, <1>4, NulStops DEF Clear
<1>6. n > last
  BY DEF last
<1> DEFINE s == u.mem
<1>7. /\ s \in [0..n -> Scan!Kind]
      /\ \A a \in 0..n : t.dst <= a /\ a < t.dst + (q - t.src) => s[a] = Scan!At(t.mem, t.src + (a - t.dst))
      /\ \A a \in 0..n : a < t.dst \/ a >= t.dst + (q - t.src) => s[a] = t.mem[a]
  <2>1. s = Scan!Store(t.mem, t.dst, Scan!Slice(t.mem, t.src, q))
    OBVIOUS
  <2>2. t.mem \in [0..n -> Scan!Kind] /\ t.src \in Nat /\ t.dst \in Nat
    BY <1>3
  <2>3. Stored(n, t.mem, t.dst, t.src, q, Scan!Store(t.mem, t.dst, Scan!Slice(t.mem, t.src, q)))
    BY ONLY <2>2, n \in Nat, q \in Nat, t.src <= q, StoreIs
  <2> HIDE DEF s
  <2> QED
    BY ONLY <2>1, <2>3 DEF Stored
<1> HIDE DEF s
<1>8. ASSUME NEW a \in 0..n, a < from - before \/ a >= q PROVE s[a] = m[a]
  <2>1. a < t.dst \/ a >= t.dst + (q - t.src)
    BY <1>1, <1>3, <1>8
  <2>2. a < from - before \/ a >= t.src
    BY <1>1, <1>3, <1>8
  <2> QED
    BY <1>3, <1>7, <2>1, <2>2
<1>9. ASSUME NEW a \in from..q - 1 PROVE s[a - before] = m[a]
  <2>1. a - before \in 0..n /\ a \in 0..n
    BY <1>1, <1>5, <1>6
  <2>2. CASE a < t.src
    <3>0. a \in Nat /\ from <= a /\ before \in Nat /\ t.src \in Nat /\ t.dst + before = t.src /\ t.dst \in Nat /\ from \in Nat
      BY <1>1, <1>3
    <3>1. a - before < t.dst /\ a \in from..t.src - 1
      BY ONLY <3>0, <2>2
    <3>2. s[a - before] = t.mem[a - before]
      BY <1>7, <2>1, <3>1
    <3> QED
      BY <1>3, <3>1, <3>2
  <2>3. CASE a >= t.src
    <3>1. t.dst <= a - before /\ a - before < t.dst + (q - t.src) /\ t.src + ((a - before) - t.dst) = a
      <4>1. /\ t.src \in Nat /\ t.dst \in Nat /\ before \in Nat /\ a \in Nat /\ t.dst + before = t.src
            /\ a >= t.src /\ a < q
        BY <1>1, <1>3, <2>3
      <4> QED
        BY ONLY <4>1, q \in Nat
    <3>2. s[a - before] = Scan!At(t.mem, a)
      BY <1>7, <2>1, <3>1
    <3>3. Scan!At(t.mem, a) = t.mem[a]
      BY <1>3, <2>1 DEF Scan!At
    <3> QED
      BY <1>3, <2>1, <2>3, <3>2, <3>3
  <2> QED
    BY <1>1, <1>3, <2>2, <2>3
<1>10. u.src \in Nat /\ u.dst \in Nat /\ u.dst + before = u.src /\ from <= u.src /\ u.src = q
  <2>1. u.src = q /\ u.dst = t.dst + (q - t.src) /\ t.src <= q /\ q \in Nat
    OBVIOUS
  <2>2. from \in Nat /\ before \in Nat /\ t.src \in Nat /\ t.dst \in Nat /\ t.dst + before = t.src /\ from <= t.src
    BY ONLY <1>1, <1>3
  <2> QED
    BY ONLY <2>1, <2>2
<1> QED
  BY <1>4, <1>7, <1>8, <1>9, <1>10 DEF Shifted, s, from, before, m

\* After k turns of the copying loop from p on.
Copied(in, n, p, k, t) ==
  /\ t \in [mem : [0..n -> Scan!Kind], src : Nat, dst : Nat, found : BOOLEAN]
  /\ Shifted(in, n, t)
  /\ t.found => Scan!At(in.mem, t.src) \in Scan!Escaped
  /\ t.found \/ t.src >= p + k

\* A turn of the loop that copies in place keeps what was copied before.
LEMMA TurnCopies ==
  ASSUME NEW isa \in Scan!Isa, NEW in, Sound(in), NEW n \in Nat, n > in.last,
         in.mem \in [0..n -> Scan!Kind], NEW p \in Nat, NEW k \in Nat, NEW t, Copied(in, n, p, k, t)
  PROVE  Copied(in, n, p, k + 1, Scan!CopyTurn(isa, t))
<1>1. /\ t.mem \in [0..n -> Scan!Kind] /\ t.src \in Nat /\ t.dst \in Nat /\ t.found \in BOOLEAN
      /\ Shifted(in, n, t)
  BY DEF Copied
<1>2. CASE t.found
  <2>1. Scan!CopyTurn(isa, t) = t
    BY <1>2 DEF Scan!CopyTurn
  <2> QED
    BY <1>2, <2>1 DEF Copied
<1>3. CASE ~t.found
  <2> DEFINE r == Scan!Index(isa, Scan!Load(t.mem, t.src), Scan!Escaped)
             u == [mem |-> Scan!Store(t.mem, t.dst, Scan!Slice(t.mem, t.src, t.src + r)),
                   src |-> t.src + r, dst |-> t.dst + r, found |-> r # Width]
  <2>1. Scan!CopyTurn(isa, t) = u
    BY <1>3 DEF Scan!CopyTurn
  <2>2. /\ r \in 0..Width /\ Clear(t.mem, t.src, t.src + r, Scan!Escaped)
        /\ r # Width => Scan!At(t.mem, t.src + r) \in Scan!Escaped
    BY <1>1, BlockSays, NulStops
  <2> HIDE DEF r
  <2>3. r \in Nat /\ t.src + r \in Nat /\ t.dst + r \in Nat
    BY <1>1, <2>2, WidthIs
  <2>4. \A a \in Nat : a >= t.src => Scan!At(t.mem, a) = Scan!At(in.mem, a)
    BY ONLY <1>1, n \in Nat, in.mem \in [0..n -> Scan!Kind] DEF Shifted, Scan!At
  <2>5. Clear(in.mem, t.src, t.src + r, Scan!Escaped)
    BY <1>1, <2>2, <2>3, <2>4 DEF Clear
  <2>6. /\ u.mem = Scan!Store(t.mem, t.dst, Scan!Slice(t.mem, t.src, t.src + r))
        /\ u.src = t.src + r /\ u.dst = t.dst + r /\ u.found = (r # Width)
    OBVIOUS
  <2>7. u.mem \in [0..n -> Scan!Kind]
    <3>1. t.src <= t.src + r
      BY <1>1, <2>3
    <3> QED
      BY ONLY <1>1, <2>3, <2>6, <3>1, n \in Nat, StoreIs DEF Stored
  <2>8. u \in [mem : [0..n -> Scan!Kind], src : Nat, dst : Nat, found : BOOLEAN]
    BY <2>3, <2>6, <2>7
  <2> HIDE DEF u
  <2>9. Shifted(in, n, u)
    <3>1. u.dst = t.dst + ((t.src + r) - t.src) /\ t.src <= t.src + r
      BY <1>1, <2>3, <2>6
    <3> QED
      BY <1>1, <2>3, <2>5, <2>6, <3>1, ShiftedOn
  <2>10. r # Width => Scan!At(in.mem, u.src) \in Scan!Escaped
    BY <1>1, <2>2, <2>3, <2>4, <2>6
  <2>11. u.found \/ u.src >= p + (k + 1)
    <3>1. t.src >= p + k
      BY <1>3 DEF Copied
    <3>2. CASE r = Width
      BY ONLY <1>1, <2>3, <2>6, <3>1, <3>2, WidthIs, p \in Nat, k \in Nat
    <3>3. CASE r # Width
      BY ONLY <2>6, <3>3
    <3> QED
      BY ONLY <3>2, <3>3
  <2> QED
    BY <2>1, <2>6, <2>8, <2>9, <2>10, <2>11 DEF Copied
<1> QED
  BY <1>1, <1>2, <1>3

\* The copying loop moves everything up to the first character that stops.
LEMMA BlocksCopy ==
  ASSUME NEW isa \in Scan!Isa, NEW in, Sound(in), NEW n \in Nat, n > in.last,
         in.mem \in [0..n -> Scan!Kind],
         NEW m, NEW p, NEW d, Copied(in, n, p, 0, [mem |-> m, src |-> p, dst |-> d, found |-> FALSE])
  PROVE  LET u == Scan!CopyBlocks(isa, m, p, d, in.last)
         IN  Shifted(in, n, u) /\ Scan!At(in.mem, u.src) \in Scan!Escaped
<1> DEFINE first == [mem |-> m, src |-> p, dst |-> d, found |-> FALSE]
           turns == in.last + 1 - p
           Turn(t) == Scan!CopyTurn(isa, t)
           Is(g) == g = [k \in 0..turns |-> IF k = 0 THEN first ELSE Turn(g[k - 1])]
           turn == CHOOSE g : Is(g)
           S == [mem : [0..n -> Scan!Kind], src : Nat, dst : Nat, found : BOOLEAN]
           J == {w \in Nat \X S : Copied(in, n, p, w[1], w[2])}
           B == [w \in J |-> Turn(w[2])]
<1>0. p \in Nat /\ turns \in Nat /\ p + turns > in.last /\ in.last \in Nat /\ Scan!At(in.mem, in.last) = "nul"
  <2>1. first.src = p /\ Shifted(in, n, first) /\ p \in Nat
    BY DEF Copied
  <2>2. Clear(in.mem, in.from, p, Scan!Escaped) /\ in.from <= p
    BY <2>1 DEF Shifted
  <2>3. in.last \in Nat /\ in.from \in Nat /\ in.from <= in.last /\ Scan!At(in.mem, in.last) = "nul"
    BY SoundHolds
  <2>4. p <= in.last
    BY <2>1, <2>2, <2>3, NulStops DEF Clear
  <2> QED
    BY <2>1, <2>3, <2>4
<1>1. Scan!CopyBlocks(isa, m, p, d, in.last) = turn[turns]
  BY DEF Scan!CopyBlocks
<1>2. Copied(in, n, p, 0, first)
  OBVIOUS
<1> HIDE DEF first, Turn, turns
<1>3. \A k \in Nat : \A t : <<k, t>> \in J <=> Copied(in, n, p, k, t)
  BY DEF Copied
<1>4. \A k \in Nat : \A t : Copied(in, n, p, k, t) => Copied(in, n, p, k + 1, Turn(t))
  BY <1>0, TurnCopies DEF Turn
<1>5. \A w \in J : \E k \in Nat : \E t : w = <<k, t>>
  OBVIOUS
<1> HIDE DEF J
<1>6. \A k \in Nat : \A t : <<k, t>> \in J => B[<<k, t>>] = Turn(t)
  OBVIOUS
<1> HIDE DEF B
<1>7. \A k \in Nat : \A t : <<k, t>> \in J => <<k + 1, B[<<k, t>>]>> \in J
  BY <1>3, <1>4, <1>6
<1>8. << 0, first >> \in J
  BY <1>2, <1>3
<1>9. PICK g : Loops(B, first, turns, g) /\ \A k \in 0..turns : <<k, g[k]>> \in J
  BY ONLY <1>0, <1>5, <1>7, <1>8, Looped
<1>10. Is(g)
  <2>1. ASSUME NEW k \in 0..turns, k # 0 PROVE B[<<k - 1, g[k - 1]>>] = Turn(g[k - 1])
    <3>1. k - 1 \in 0..turns /\ k - 1 \in Nat
      BY <1>0, <2>1
    <3> QED
      BY <1>6, <1>9, <3>1
  <2> QED
    BY ONLY <1>9, <2>1 DEF Loops
<1>11. Is(turn)
  BY <1>10
<1> HIDE DEF turn
<1>12. \A k \in 0..turns : <<k, turn[k]>> \in J
  <2> DEFINE P == {k \in 0..turns : <<k, turn[k]>> \in J}
  <2>1. 0 \in P
    BY <1>0, <1>8, <1>11
  <2>2. ASSUME NEW k \in 0..turns, k < turns, k \in P PROVE k + 1 \in P
    <3>1. k + 1 \in 0..turns /\ k + 1 # 0 /\ (k + 1) - 1 = k /\ k \in Nat
      BY <1>0, <2>2
    <3>2. turn[k + 1] = Turn(turn[k])
      BY <1>11, <3>1
    <3> QED
      BY <1>6, <1>7, <2>2, <3>1, <3>2
  <2>3. \A k \in 0..turns : k < turns /\ k \in P => k + 1 \in P
    BY <2>2
  <2> HIDE DEF P
  <2>4. \A k \in 0..turns : k \in P
    BY ONLY <1>0, <2>1, <2>3, CountTo
  <2> QED
    BY <2>4 DEF P
<1> DEFINE u == turn[turns]
<1>13. Copied(in, n, p, turns, u)
  <2>1. turns \in 0..turns
    BY <1>0
  <2> QED
    BY <1>0, <1>3, <1>12, <2>1
<1> HIDE DEF u
<1>14. u.found
  <2> SUFFICES ASSUME ~u.found PROVE FALSE
    OBVIOUS
  <2>1. u.src > in.last /\ u.src \in Nat /\ Clear(in.mem, in.from, u.src, Scan!Escaped) /\ in.from \in Nat /\ in.from <= in.last
    BY <1>0, <1>13, SoundHolds DEF Copied, Shifted
  <2> QED
    BY <1>0, <2>1, NulStops DEF Clear
<1> QED
  BY <1>1, <1>13, <1>14 DEF Copied, u

\* In place a string is moved down whole (reader.h, SkipUnescapedString).
LEMMA InsituIsMoved ==
  ASSUME NEW in, Sound(in)
  PROVE  Scan!InsituMoves(in)
<1> DEFINE m == in.mem
           from == in.from
           last == in.last
           dst  == in.from - in.before
           stop == Scan!Scalar(in.mem, in.from, in.last, Scan!Escaped)
<1>1. /\ from \in Nat /\ last \in Nat /\ in.before \in Nat /\ from <= last /\ in.before <= from
      /\ Scan!At(m, last) = "nul" /\ dst \in Nat /\ dst + in.before = from
  BY SoundHolds
<1>2. PICK n \in Nat : n > last /\ m \in [0..n -> Scan!Kind]
  BY SoundHolds
<1>3. Stands(m, from, last, Scan!Escaped, stop)
  BY <1>1, ScalarStands
<1>4. stop \in Nat /\ from <= stop /\ stop <= last
  BY <1>1, <1>3 DEF Stands
<1> HIDE DEF m, from, last, dst, stop
<1> SUFFICES ASSUME NEW isa \in Scan!Isa, NEW r, r = Scan!ScanCopyInsitu(isa, m, from, dst, last)
             PROVE  /\ r.src = stop /\ r.dst = stop - in.before
                    /\ Scan!Slice(r.mem, dst, r.dst) = Scan!Slice(m, from, stop)
                    /\ \A a \in DOMAIN m : a >= stop \/ a < dst => r.mem[a] = m[a]
  BY DEF Scan!InsituMoves, m, from, last, dst, stop
<1>5. CASE from = dst
  <2>1. Scan!Terminated(isa, m, from, last, Scan!Escaped) = stop
    BY <1>1, NulStops, TerminatedIs DEF stop, m, from, last
  <2>2. r = [mem |-> m, src |-> stop, dst |-> stop]
    BY <1>5, <2>1 DEF Scan!ScanCopyInsitu
  <2>3. in.before = 0
    BY <1>1, <1>5
  <2> QED
    BY <1>4, <1>5, <2>2, <2>3
<1>6. ASSUME from # dst
      PROVE  Shifted(in, n, r) /\ Scan!At(m, r.src) \in Scan!Escaped
  <2> DEFINE p == Scan!Scalar(m, from, Scan!RoundUp(from), Scan!Escaped)
             moved == Scan!Store(m, dst, Scan!Slice(m, from, p))
             start == [mem |-> m, src |-> from, dst |-> dst]
             t == [mem |-> moved, src |-> p, dst |-> dst + (p - from), found |-> FALSE]
  <2>1. Scan!RoundUp(from) \in Nat /\ from <= Scan!RoundUp(from)
    BY <1>1, RoundUpIs
  <2>2. Stands(m, from, Scan!RoundUp(from), Scan!Escaped, p)
    BY <1>1, <2>1, ScalarStands
  <2>3. r = IF p # Scan!RoundUp(from) THEN [mem |-> moved, src |-> p, dst |-> dst + (p - from)]
            ELSE Scan!CopyBlocks(isa, moved, p, dst + (p - from), last)
    BY <1>6 DEF Scan!ScanCopyInsitu
  <2> HIDE DEF p
  <2>4. p \in Nat /\ from <= p /\ Clear(m, from, p, Scan!Escaped)
    BY <1>1, <2>1, <2>2 DEF Stands
  <2>5. Shifted(in, n, start)
    <3>1. start.mem = m /\ start.src = from /\ start.dst = dst
      OBVIOUS
    <3>2. Clear(m, from, from, Scan!Escaped)
      BY <1>1 DEF Clear
    <3> HIDE DEF start
    <3> QED
      BY <1>1, <1>2, <3>1, <3>2 DEF Shifted, m, from
  <2>6. /\ t.mem = Scan!Store(start.mem, start.dst, Scan!Slice(start.mem, start.src, p))
        /\ t.src = p /\ t.dst = start.dst + (p - start.src)
        /\ start.src = from /\ t.found = FALSE
    OBVIOUS
  <2>7. Shifted(in, n, t)
    <3> HIDE DEF t, start
    <3> QED
      BY <1>2, <2>4, <2>5, <2>6, ShiftedOn DEF m, last
  <2>8. CASE p # Scan!RoundUp(from)
    <3>1. r = [mem |-> moved, src |-> p, dst |-> dst + (p - from)]
      BY <2>3, <2>8
    <3>2. r.mem = t.mem /\ r.src = t.src /\ r.dst = t.dst
      BY <3>1
    <3>3. Shifted(in, n, r)
      BY ONLY <2>7, <3>2 DEF Shifted
    <3>4. Scan!At(m, p) \in Scan!Escaped
      BY <2>2, <2>8 DEF Stands
    <3> QED
      BY <3>1, <3>3, <3>4
  <2>9. CASE p = Scan!RoundUp(from)
    <3>1. r = Scan!CopyBlocks(isa, moved, p, dst + (p - from), last)
      BY <2>3, <2>9
    <3>2. t.mem \in [0..n -> Scan!Kind] /\ t.src \in Nat /\ t.dst \in Nat /\ t.src = p + 0
      BY <2>4, <2>7 DEF Shifted
    <3>3. Copied(in, n, p, 0, t)
      BY <2>4, <2>7, <3>2 DEF Copied
    <3> QED
      BY <1>2, <3>1, <3>3, BlocksCopy DEF m, last
  <2> QED
    BY <2>8, <2>9
<1>7. CASE from # dst
  <2>1. Shifted(in, n, r) /\ Scan!At(m, r.src) \in Scan!Escaped
    BY <1>6, <1>7
  <2>2. /\ r.mem \in [0..n -> Scan!Kind] /\ r.src \in Nat /\ r.dst \in Nat
        /\ r.dst + in.before = r.src /\ from <= r.src
        /\ Clear(m, from, r.src, Scan!Escaped)
        /\ \A a \in 0..n : a < dst \/ a >= r.src => r.mem[a] = m[a]
        /\ \A a \in from..r.src - 1 : r.mem[a - in.before] = m[a]
    BY <2>1 DEF Shifted, m, from, dst
  <2>3. r.src = stop
    <3>1. Stands(m, from, last, Scan!Escaped, r.src)
      BY <1>1, <2>1, <2>2, NulStops, StandsBefore
    <3> QED
      BY <1>1, <3>1, ScalarIs DEF stop, m, from, last
  <2>4. r.dst = stop - in.before /\ r.dst - dst = stop - from
    BY <1>1, <1>4, <2>2, <2>3
  <2>5. ASSUME NEW i \in 1..stop - from
        PROVE  Scan!At(r.mem, dst + i - 1) = Scan!At(m, from + i - 1)
    <3>1. /\ from + i - 1 \in from..stop - 1 /\ (from + i - 1) - in.before = dst + i - 1
          /\ dst + i - 1 \in 0..n /\ from + i - 1 \in 0..n
      BY <1>1, <1>2, <1>4
    <3>2. r.mem[dst + i - 1] = m[from + i - 1]
      BY <2>2, <2>3, <3>1
    <3> QED
      BY <1>2, <2>2, <3>1, <3>2 DEF Scan!At
  <2>6. Scan!Slice(r.mem, dst, r.dst) = Scan!Slice(m, from, stop)
    BY <2>4, <2>5 DEF Scan!Slice
  <2>7. DOMAIN m = 0..n
    BY <1>2
  <2> QED
    BY <2>2, <2>3, <2>4, <2>6, <2>7
<1> QED
  BY <1>5, <1>7

-----------------------------------------------------------------------------
(* Writing                                                                 *)

Chars == Scan!Kind \cup {"backslash"}

\* e[k] is the text of the first k characters of a string at head.
Escapes(m, head, length, e) ==
  /\ e[0] = <<>>
  /\ \A k \in 0..length : e[k] \in Seq(Chars)
  /\ \A k \in 0..length : k < length => e[k + 1] = e[k] \o Scan!Escape(Scan!At(m, head + k))

\* The text that EscapedText ends with.
TextOf(m, head, length) ==
  CHOOSE text : text = [k \in 0..length |-> IF k = 0 THEN <<>> ELSE text[k - 1] \o Scan!Escape(Scan!At(m, head + k - 1))]

\* What is read from memory is a character, behind its end a nul.
LEMMA AtIsKind ==
  ASSUME NEW n, NEW m \in [0..n -> Scan!Kind], NEW a
  PROVE  Scan!At(m, a) \in Scan!Kind
BY DEF Scan!At, Scan!Kind

\* A character is escaped as a text; one that need not be stays as it is.
LEMMA EscapeIs ==
  ASSUME NEW c \in Scan!Kind
  PROVE  Scan!Escape(c) \in Seq(Chars) /\ (c \notin Scan!Escaped => Scan!Escape(c) = <<c>>)
<1>1. CASE c \in Scan!Escaped
  <2>1. Scan!Escape(c) = <<"backslash", c>> /\ "backslash" \in Chars /\ c \in Chars
    BY <1>1 DEF Scan!Escape, Chars
  <2> QED
    BY <1>1, <2>1
<1>2. CASE c \notin Scan!Escaped
  <2>1. Scan!Escape(c) = <<c>> /\ c \in Chars
    BY <1>2 DEF Scan!Escape, Chars
  <2> QED
    BY <2>1
<1> QED
  BY <1>1, <1>2

\* Two texts joined are a text.
LEMMA JoinedText ==
  ASSUME NEW s \in Seq(Chars), NEW t \in Seq(Chars)
  PROVE  s \o t \in Seq(Chars)
OBVIOUS

\* The recursive function of EscapedText exists.
LEMMA EscapedTextIs ==
  ASSUME NEW n, NEW m \in [0..n -> Scan!Kind], NEW head \in Nat, NEW length \in Nat
  PROVE  /\ Escapes(m, head, length, TextOf(m, head, length))
         /\ Scan!EscapedText(m, head, length) = TextOf(m, head, length)[length]
<1> DEFINE Is(g) == g = [k \in 0..length |-> IF k = 0 THEN <<>> ELSE g[k - 1] \o Scan!Escape(Scan!At(m, head + k - 1))]
           e == TextOf(m, head, length)
           S == Seq(Chars)
           J == Nat \X S
           B == [w \in J |-> w[2] \o Scan!Escape(Scan!At(m, head + (w[1] + 1) - 1))]
           first == <<>>
<1>1. first \in S
  OBVIOUS
<1>2. \A k \in Nat : Scan!Escape(Scan!At(m, head + k)) \in S
  BY AtIsKind, EscapeIs
<1>3. ASSUME NEW k \in Nat, NEW t \in S PROVE B[<<k, t>>] = t \o Scan!Escape(Scan!At(m, head + k)) /\ B[<<k, t>>] \in S
  <2>1. <<k, t>> \in J /\ head + (k + 1) - 1 = head + k
    OBVIOUS
  <2>2. B[<<k, t>>] = t \o Scan!Escape(Scan!At(m, head + k))
    BY <2>1
  <2>3. Scan!Escape(Scan!At(m, head + k)) \in S
    BY <1>2
  <2> QED
    BY ONLY <2>2, <2>3, t \in S, JoinedText DEF S
<1> HIDE DEF B, S, first
<1>4. \A k \in Nat : \A t : <<k, t>> \in J => <<k + 1, B[<<k, t>>]>> \in J
  BY <1>3
<1>5. \A w \in J : \E k \in Nat : \E t : w = <<k, t>>
  OBVIOUS
<1>6. << 0, first >> \in J
  BY <1>1
<1>7. PICK g : Loops(B, first, length, g) /\ \A k \in 0..length : <<k, g[k]>> \in J
  <2> HIDE DEF J
  <2> QED
    BY ONLY <1>4, <1>5, <1>6, length \in Nat, Looped
<1>8. Is(g)
  <2>1. ASSUME NEW k \in 0..length, k # 0
        PROVE  B[<<k - 1, g[k - 1]>>] = g[k - 1] \o Scan!Escape(Scan!At(m, head + k - 1))
    <3>1. k - 1 \in 0..length /\ k - 1 \in Nat /\ head + (k - 1) = head + k - 1
      BY <2>1
    <3>2. g[k - 1] \in S
      BY <1>7, <3>1
    <3> QED
      BY <1>3, <3>1, <3>2
  <2> QED
    BY ONLY <1>7, <2>1 DEF Loops, first
<1>9. Is(e)
  BY <1>8 DEF TextOf
<1> HIDE DEF e
<1>10. ASSUME NEW k \in 0..length, k < length PROVE e[k + 1] = e[k] \o Scan!Escape(Scan!At(m, head + k))
  <2>1. k + 1 \in 0..length /\ k + 1 # 0 /\ (k + 1) - 1 = k /\ head + (k + 1) - 1 = head + k
    BY <1>10
  <2> QED
    BY <1>9, <2>1
<1>11. \A k \in 0..length : e[k] \in S
  <2> DEFINE P == {k \in 0..length : e[k] \in S}
  <2>1. 0 \in P
    BY <1>1, <1>9 DEF first
  <2>2. \A k \in 0..length : k < length /\ k \in P => k + 1 \in P
    <3> SUFFICES ASSUME NEW k \in 0..length, k < length, e[k] \in S PROVE k + 1 \in 0..length /\ e[k + 1] \in S
      OBVIOUS
    <3>1. e[k + 1] = e[k] \o Scan!Escape(Scan!At(m, head + k)) /\ Scan!Escape(Scan!At(m, head + k)) \in S
      <4>1. k \in Nat
        OBVIOUS
      <4> QED
        BY <1>2, <1>10, <4>1
    <3>2. e[k + 1] \in S
      BY ONLY <3>1, e[k] \in S, JoinedText DEF S
    <3> QED
      BY <3>2
  <2> HIDE DEF P
  <2>3. \A k \in 0..length : k \in P
    BY ONLY <2>1, <2>2, length \in Nat, CountTo
  <2> QED
    BY <2>3 DEF P
<1>12. e[0] = <<>>
  BY <1>9
<1>13. Scan!EscapedText(m, head, length) = e[length]
  BY DEF Scan!EscapedText, TextOf, e
<1> QED
  BY <1>10, <1>11, <1>12, <1>13 DEF Escapes, S, e

\* A slice of memory grows by the character behind it.
LEMMA SliceGrows ==
  ASSUME NEW n, NEW m \in [0..n -> Scan!Kind], NEW p \in Nat, NEW q \in Nat, p <= q
  PROVE  /\ Scan!Slice(m, p, q) \in Seq(Chars)
         /\ Scan!Slice(m, p, q + 1) = Scan!Slice(m, p, q) \o <<Scan!At(m, q)>>
         /\ Scan!Slice(m, p, p) = <<>>
<1> DEFINE s == Scan!Slice(m, p, q)
           l == q - p
<1>1. l \in Nat /\ (q + 1) - p = l + 1 /\ p - p = 0
  OBVIOUS
<1>2. s = [i \in 1..l |-> Scan!At(m, p + i - 1)] /\ Scan!Slice(m, p, q + 1) = [i \in 1..l + 1 |-> Scan!At(m, p + i - 1)]
  BY <1>1 DEF Scan!Slice
<1>3. \A a : Scan!At(m, a) \in Chars
  BY AtIsKind DEF Chars
<1>4. s \in Seq(Chars) /\ Len(s) = l
  BY <1>1, <1>2, <1>3
<1>5. Scan!Slice(m, p, p) = <<>>
  BY <1>1 DEF Scan!Slice
<1> DEFINE r == s \o <<Scan!At(m, q)>>
<1>6. r = [i \in 1..l + 1 |-> IF i <= l THEN s[i] ELSE Scan!At(m, q)]
  <2> HIDE DEF s, l
  <2>1. <<Scan!At(m, q)>> \in Seq(Chars) /\ Len(<<Scan!At(m, q)>>) = 1
    BY <1>3
  <2>2. r \in Seq(Chars) /\ Len(r) = l + 1
    BY <1>1, <1>4, <2>1
  <2>3. \A i \in 1..l + 1 : r[i] = IF i <= l THEN s[i] ELSE Scan!At(m, q)
    BY <1>1, <1>4, <2>1
  <2> QED
    BY <2>2, <2>3
<1>7. \A i \in 1..l + 1 : (IF i <= l THEN s[i] ELSE Scan!At(m, q)) = Scan!At(m, p + i - 1)
  <2> SUFFICES ASSUME NEW i \in 1..l + 1 PROVE (IF i <= l THEN s[i] ELSE Scan!At(m, q)) = Scan!At(m, p + i - 1)
    OBVIOUS
  <2>1. CASE i <= l
    BY <1>1, <1>2, <2>1
  <2>2. CASE i = l + 1
    <3>1. p + i - 1 = q /\ ~(i <= l)
      BY <1>1, <2>2
    <3> QED
      BY <3>1
  <2> QED
    BY <1>1, <2>1, <2>2
<1> HIDE DEF s, l, r
<1>8. Scan!Slice(m, p, q + 1) = r
  BY ONLY <1>2, <1>6, <1>7
<1> QED
  BY ONLY <1>4, <1>5, <1>8 DEF s, r

\* The text up to q is the text up to p and what stands between.
PutUpTo(m, head, e, p, q) == e[q - head] = e[p - head] \o Scan!Slice(m, p, q)

\* Characters that need no escape are put as they are.
LEMMA PlainIsPut ==
  ASSUME NEW n, NEW m \in [0..n -> Scan!Kind], NEW head \in Nat, NEW length \in Nat, NEW e,
         Escapes(m, head, length, e),
         NEW p \in Nat, NEW q \in Nat, head <= p, p <= q, q <= head + length, Clear(m, p, q, Scan!Escaped)
  PROVE  PutUpTo(m, head, e, p, q)
<1> DEFINE P == {d \in 0..q - p : PutUpTo(m, head, e, p, p + d)}
<1>1. q - p \in Nat /\ p + (q - p) = q /\ p - head \in 0..length
  OBVIOUS
<1>2. e[p - head] \in Seq(Chars)
  BY <1>1 DEF Escapes
<1>3. 0 \in P
  <2>1. p + 0 = p
    OBVIOUS
  <2>2. Scan!Slice(m, p, p) = <<>>
    BY SliceGrows
  <2> QED
    BY <1>1, <1>2, <2>1, <2>2 DEF PutUpTo
<1>4. ASSUME NEW d \in 0..q - p, d < q - p, d \in P PROVE d + 1 \in P
  <2> DEFINE a == p + d
             c == Scan!At(m, a)
  <2>1. /\ d \in Nat /\ a \in Nat /\ p <= a /\ a \in p..q - 1 /\ p + (d + 1) = a + 1
        /\ a - head \in 0..length /\ a - head < length /\ head + (a - head) = a
        /\ (a + 1) - head = (a - head) + 1 /\ d + 1 \in 0..q - p
    BY <1>4
  <2>2. e[a - head] = e[p - head] \o Scan!Slice(m, p, a)
    BY <1>4 DEF PutUpTo
  <2> HIDE DEF a
  <2>3. e[(a - head) + 1] = e[a - head] \o Scan!Escape(c)
    BY <2>1 DEF Escapes
  <2>4. c \notin Scan!Escaped /\ c \in Scan!Kind
    BY <2>1, AtIsKind DEF Clear
  <2>5. Scan!Escape(c) = <<c>> /\ c \in Chars
    BY <2>4, EscapeIs DEF Chars
  <2>6. Scan!Slice(m, p, a) \in Seq(Chars) /\ Scan!Slice(m, p, a + 1) = Scan!Slice(m, p, a) \o <<c>>
    BY <2>1, SliceGrows
  <2> HIDE DEF c
  <2>7. <<c>> \in Seq(Chars)
    BY <2>5
  <2>8. (e[p - head] \o Scan!Slice(m, p, a)) \o <<c>> = e[p - head] \o (Scan!Slice(m, p, a) \o <<c>>)
    <3> DEFINE text == e[p - head]
               slice == Scan!Slice(m, p, a)
               one == <<c>>
    <3>1. text \in Seq(Chars) /\ slice \in Seq(Chars) /\ one \in Seq(Chars)
      BY <1>2, <2>6, <2>7
    <3> HIDE DEF text, slice, one
    <3>2. (text \o slice) \o one = text \o (slice \o one)
      BY ONLY <3>1, ConcatAssociative, SMTT(40)
    <3> QED
      BY <3>2 DEF text, slice, one
  <2>9. PutUpTo(m, head, e, p, a + 1)
    BY ONLY <2>1, <2>2, <2>3, <2>5, <2>6, <2>8 DEF PutUpTo
  <2> QED
    BY ONLY <2>1, <2>9
<1>5. q - p \in P
  <2>1. \A d \in 0..q - p : d < q - p /\ d \in P => d + 1 \in P
    BY <1>4
  <2> HIDE DEF P
  <2>2. \A d \in 0..q - p : d \in P
    BY ONLY <1>1, <1>3, <2>1, CountTo
  <2> QED
    BY <1>1, <2>2
<1> QED
  BY <1>1, <1>5

\* A scan of the writer puts characters that need no escape, and no more than the string has.
LEMMA ScanWriteIs ==
  ASSUME NEW isa \in Scan!Isa, NEW m, NEW head \in Nat, NEW length \in Nat, NEW src \in Nat,
         src <= head + length
  PROVE  LET scan == Scan!ScanWrite(isa, m, head, src, length)
         IN  /\ scan.src \in Nat /\ src <= scan.src /\ scan.src <= head + length
             /\ Clear(m, src, scan.src, Scan!Escaped)
             /\ scan.put = Scan!Slice(m, src, scan.src)
             /\ scan.more <=> scan.src < head + length
<1> DEFINE end   == head + length
           up    == Scan!RoundUp(src)
           first == Scan!Scalar(m, src, up, Scan!Refused(isa))
           down  == Scan!RoundDown(end)
           q     == IF length < Width \/ src >= end \/ up > end THEN src
                    ELSE IF first # up THEN first
                    ELSE Scan!Blocks(isa, m, first, down, Scan!Escaped)
           scan  == Scan!ScanWrite(isa, m, head, src, length)
<1>1. scan = [put |-> Scan!Slice(m, src, q), src |-> q, more |-> q < end]
  BY DEF Scan!ScanWrite
<1>2. end \in Nat /\ up \in Nat /\ src <= up /\ down \in Nat /\ down <= end
  BY RoundUpIs, RoundDownIs
<1>3. Stands(m, src, up, Scan!Refused(isa), first)
  BY <1>2, ScalarStands
<1>4. first \in Nat /\ src <= first /\ first <= up /\ Clear(m, src, first, Scan!Escaped)
  <2>1. Scan!Escaped \subseteq Scan!Refused(isa)
    BY DEF Scan!Refused
  <2> QED
    BY <1>2, <1>3, <2>1 DEF Stands, Clear
<1> HIDE DEF first, up, down, scan
<1>5. q \in Nat /\ src <= q /\ q <= end /\ Clear(m, src, q, Scan!Escaped)
  <2>1. CASE length < Width \/ src >= end \/ up > end
    <3>1. q = src
      BY <2>1
    <3> QED
      BY <3>1 DEF Clear
  <2>2. CASE ~(length < Width \/ src >= end \/ up > end) /\ first # up
    <3>1. q = first
      BY <2>2
    <3> QED
      BY <1>2, <1>4, <2>2, <3>1
  <2>3. CASE ~(length < Width \/ src >= end \/ up > end) /\ first = up
    <3>1. q = Scan!Blocks(isa, m, first, down, Scan!Escaped)
      BY <2>3
    <3>2. q \in Nat /\ first <= q /\ (q <= first \/ q <= down) /\ Clear(m, first, q, Scan!Escaped)
      BY <1>2, <1>4, <3>1, NulStops, BlocksStand
    <3> HIDE DEF q
    <3> QED
      BY <1>2, <1>4, <2>3, <3>2, ClearJoins
  <2> QED
    BY <2>1, <2>2, <2>3
<1> HIDE DEF q
<1>6. scan.src = q /\ scan.put = Scan!Slice(m, src, q) /\ scan.more = (q < end)
  BY ONLY <1>1
<1> QED
  BY ONLY <1>5, <1>6 DEF scan

\* After k turns of WriteString.
Wrote(m, head, length, k, t) ==
  /\ t \in [out : Seq(Chars), src : Nat, done : BOOLEAN]
  /\ head <= t.src /\ t.src <= head + length
  /\ t.out = TextOf(m, head, length)[t.src - head]
  /\ t.done => t.src = head + length
  /\ t.done \/ t.src >= head + k

\* A turn of the loop that writes keeps what was written before.
LEMMA TurnWrites ==
  ASSUME NEW isa \in Scan!Isa, NEW n, NEW m \in [0..n -> Scan!Kind], NEW head \in Nat, NEW length \in Nat,
         NEW k \in Nat, NEW t, Wrote(m, head, length, k, t)
  PROVE  Wrote(m, head, length, k + 1, Scan!WriteTurn(isa, m, head, length, t))
<1> DEFINE e == TextOf(m, head, length)
           end == head + length
           scan == Scan!ScanWrite(isa, m, head, t.src, length)
           c == Scan!At(m, scan.src)
           u == Scan!WriteTurn(isa, m, head, length, t)
<1>1. /\ t.out \in Seq(Chars) /\ t.src \in Nat /\ t.done \in BOOLEAN
      /\ head <= t.src /\ t.src <= end /\ t.out = e[t.src - head] /\ end \in Nat
  BY DEF Wrote
<1>2. Escapes(m, head, length, e)
  BY EscapedTextIs
<1>3. /\ scan.src \in Nat /\ t.src <= scan.src /\ scan.src <= end
      /\ Clear(m, t.src, scan.src, Scan!Escaped)
      /\ scan.put = Scan!Slice(m, t.src, scan.src)
      /\ scan.more <=> scan.src < end
  BY <1>1, ScanWriteIs
<1>4. u = CASE t.done                -> t
            [] ~t.done /\ ~scan.more -> [out |-> t.out \o scan.put, src |-> scan.src, done |-> TRUE]
            [] ~t.done /\ scan.more  -> [out |-> t.out \o scan.put \o Scan!Escape(c), src |-> scan.src + 1, done |-> FALSE]
  BY DEF Scan!WriteTurn
<1> HIDE DEF e, scan, u
<1>5. e[scan.src - head] = t.out \o scan.put
  <2>1. t.src \in Nat /\ scan.src \in Nat /\ head <= t.src /\ t.src <= scan.src /\ scan.src <= head + length
    BY <1>1, <1>3
  <2>2. PutUpTo(m, head, e, t.src, scan.src)
    BY ONLY <1>2, <1>3, <2>1, m \in [0..n -> Scan!Kind], head \in Nat, length \in Nat, PlainIsPut
  <2> QED
    BY ONLY <1>1, <1>3, <2>2 DEF PutUpTo
<1>6. scan.src - head \in 0..length /\ e[scan.src - head] \in Seq(Chars)
  <2>1. head <= scan.src /\ scan.src <= head + length /\ scan.src \in Nat
    BY <1>1, <1>3
  <2>2. scan.src - head \in 0..length
    BY ONLY <2>1, head \in Nat, length \in Nat
  <2> QED
    BY ONLY <1>2, <2>2 DEF Escapes
<1>7. CASE t.done
  <2>1. u = t
    BY <1>4, <1>7
  <2> QED
    BY <1>7, <2>1 DEF Wrote, u
<1>8. CASE ~t.done /\ ~scan.more
  <2>1. u = [out |-> t.out \o scan.put, src |-> scan.src, done |-> TRUE]
    BY <1>4, <1>8
  <2>2. scan.src = end
    BY <1>1, <1>3, <1>8
  <2>3. u.out = e[u.src - head] /\ u.src = end /\ u.done = TRUE /\ u.out \in Seq(Chars)
    BY <1>5, <1>6, <2>1, <2>2
  <2>4. u \in [out : Seq(Chars), src : Nat, done : BOOLEAN]
    BY <1>1, <2>1, <2>2, <2>3
  <2> QED
    BY <1>1, <2>3, <2>4 DEF Wrote, u, e
<1>9. CASE ~t.done /\ scan.more
  <2>1. u = [out |-> t.out \o scan.put \o Scan!Escape(c), src |-> scan.src + 1, done |-> FALSE]
    BY <1>4, <1>9
  <2>2. scan.src < end /\ head + (scan.src - head) = scan.src /\ scan.src - head < length
        /\ (scan.src - head) + 1 = (scan.src + 1) - head
    BY <1>1, <1>3, <1>9
  <2>3. e[(scan.src - head) + 1] = e[scan.src - head] \o Scan!Escape(c)
    BY <1>2, <1>6, <2>2 DEF Escapes
  <2>4. e[(scan.src - head) + 1] \in Seq(Chars)
    <3>1. (scan.src - head) + 1 \in 0..length
      BY <1>6, <2>2
    <3> QED
      BY <1>2, <3>1 DEF Escapes
  <2>5. u.out = e[u.src - head] /\ u.src = scan.src + 1 /\ u.done = FALSE /\ u.out \in Seq(Chars)
    BY ONLY <1>5, <2>1, <2>2, <2>3, <2>4
  <2>6. u \in [out : Seq(Chars), src : Nat, done : BOOLEAN]
    BY ONLY <1>3, <2>1, <2>5
  <2>7. u.src \in Nat /\ head <= u.src /\ u.src <= end /\ u.src >= head + (k + 1)
    <3>1. t.src >= head + k
      BY <1>9 DEF Wrote
    <3>2. t.src \in Nat /\ scan.src \in Nat /\ head <= t.src /\ t.src <= scan.src /\ scan.src < end /\ u.src = scan.src + 1
      BY ONLY <1>1, <1>3, <2>2, <2>5
    <3> QED
      BY ONLY <3>1, <3>2, head \in Nat, length \in Nat, k \in Nat
  <2> QED
    BY <2>5, <2>6, <2>7 DEF Wrote, u, e
<1> QED
  BY <1>1, <1>7, <1>8, <1>9

\* The writer writes the escaped text, with any instruction set (writer.h, WriteString).
LEMMA StringIsWritten ==
  ASSUME NEW isa \in Scan!Isa, NEW n, NEW m \in [0..n -> Scan!Kind], NEW head \in Nat, NEW length \in Nat
  PROVE  Scan!WriteString(isa, m, head, length) = Scan!EscapedText(m, head, length)
<1> DEFINE first == [out |-> <<>>, src |-> head, done |-> FALSE]
           turns == length + 1
           Turn(t) == Scan!WriteTurn(isa, m, head, length, t)
           Is(g) == g = [k \in 0..turns |-> IF k = 0 THEN first ELSE Turn(g[k - 1])]
           turn == CHOOSE g : Is(g)
           S == [out : Seq(Chars), src : Nat, done : BOOLEAN]
           J == {w \in Nat \X S : Wrote(m, head, length, w[1], w[2])}
           B == [w \in J |-> Turn(w[2])]
           e == TextOf(m, head, length)
<1>0. turns \in Nat /\ turns = length + 1
  OBVIOUS
<1>1. Scan!WriteString(isa, m, head, length) = turn[turns].out
  BY DEF Scan!WriteString
<1>2. Escapes(m, head, length, e) /\ Scan!EscapedText(m, head, length) = e[length]
  BY EscapedTextIs
<1>3. Wrote(m, head, length, 0, first)
  <2>1. first.src = head /\ first.out = <<>> /\ first.done = FALSE /\ head - head = 0
        /\ first \in [out : Seq(Chars), src : Nat, done : BOOLEAN]
    OBVIOUS
  <2>2. e[0] = <<>>
    BY <1>2 DEF Escapes
  <2> HIDE DEF first
  <2> QED
    BY <2>1, <2>2 DEF Wrote
<1> HIDE DEF first, Turn, turns, e
<1>4. \A k \in Nat : \A t : <<k, t>> \in J <=> Wrote(m, head, length, k, t)
  BY DEF Wrote
<1>5. \A k \in Nat : \A t : Wrote(m, head, length, k, t) => Wrote(m, head, length, k + 1, Turn(t))
  BY TurnWrites DEF Turn
<1>6. \A w \in J : \E k \in Nat : \E t : w = <<k, t>>
  OBVIOUS
<1> HIDE DEF J
<1>7. \A k \in Nat : \A t : <<k, t>> \in J => B[<<k, t>>] = Turn(t)
  OBVIOUS
<1> HIDE DEF B
<1>8. \A k \in Nat : \A t : <<k, t>> \in J => <<k + 1, B[<<k, t>>]>> \in J
  BY <1>4, <1>5, <1>7
<1>9. << 0, first >> \in J
  BY <1>3, <1>4
<1>10. PICK g : Loops(B, first, turns, g) /\ \A k \in 0..turns : <<k, g[k]>> \in J
  BY ONLY <1>0, <1>6, <1>8, <1>9, Looped
<1>11. Is(g)
  <2>1. ASSUME NEW k \in 0..turns, k # 0 PROVE B[<<k - 1, g[k - 1]>>] = Turn(g[k - 1])
    <3>1. k - 1 \in 0..turns /\ k - 1 \in Nat
      BY <1>0, <2>1
    <3> QED
      BY <1>7, <1>10, <3>1
  <2> QED
    BY ONLY <1>10, <2>1 DEF Loops
<1>12. Is(turn)
  BY <1>11
<1> HIDE DEF turn
<1>13. \A k \in 0..turns : <<k, turn[k]>> \in J
  <2> DEFINE P == {k \in 0..turns : <<k, turn[k]>> \in J}
  <2>1. 0 \in P
    BY <1>0, <1>9, <1>12
  <2>2. ASSUME NEW k \in 0..turns, k < turns, k \in P PROVE k + 1 \in P
    <3>1. k + 1 \in 0..turns /\ k + 1 # 0 /\ (k + 1) - 1 = k /\ k \in Nat
      BY <1>0, <2>2
    <3>2. turn[k + 1] = Turn(turn[k])
      BY <1>12, <3>1
    <3> QED
      BY <1>7, <1>8, <2>2, <3>1, <3>2
  <2>3. \A k \in 0..turns : k < turns /\ k \in P => k + 1 \in P
    BY <2>2
  <2> HIDE DEF P
  <2>4. \A k \in 0..turns : k \in P
    BY ONLY <1>0, <2>1, <2>3, CountTo
  <2> QED
    BY <2>4 DEF P
<1> DEFINE u == turn[turns]
<1>14. Wrote(m, head, length, turns, u)
  <2>1. turns \in 0..turns
    BY <1>0
  <2> QED
    BY <1>0, <1>4, <1>13, <2>1
<1> HIDE DEF u
<1>15. u.src \in Nat /\ u.src <= head + length /\ u.out = e[u.src - head]
       /\ (u.done => u.src = head + length) /\ (u.done \/ u.src >= head + turns)
  BY <1>14 DEF Wrote, e
<1>16. u.src = head + length /\ u.src - head = length
  BY <1>0, <1>15
<1> QED
  BY <1>1, <1>2, <1>15, <1>16 DEF u

\* Of every sound input the writer writes each character, escaped if it must be.
LEMMA WriterDoesEscape ==
  ASSUME NEW in, Sound(in)
  PROVE  Scan!WriterEscapes(in)
<1>1. PICK n \in Nat : n > in.last /\ in.mem \in [0..n -> Scan!Kind]
  BY SoundHolds
<1>2. in.from \in Nat /\ in.last \in Nat /\ in.from <= in.last
  BY SoundHolds
<1>3. in.last + 1 \in 0..n /\ in.last - in.from \in Nat
  BY <1>1, <1>2
<1>4. Scan!WithoutEnd(in) \in [0..n -> Scan!Kind]
  BY <1>1, <1>3 DEF Scan!WithoutEnd
<1> QED
  BY <1>2, <1>3, <1>4, StringIsWritten DEF Scan!WriterEscapes

-----------------------------------------------------------------------------
(* The loops: theorem                                                      *)

\* The text of an input stands in memory as Sound says.
LEMMA InputIsSound ==
  ASSUME NEW in \in Rows
  PROVE  Sound(in)
<1>1. PICK t \in TextsOfKinds, from \in Starts, beyond \in Beyond, before \in Gaps : in = Scan!Input(t, from, beyond, before)
  BY DEF Rows
<1>2. t \in Seq(Scan!Kind) /\ from \in Nat /\ beyond \in Scan!Kind /\ before \in Nat /\ before <= from
  BY ScanAssumption
<1> DEFINE l == Len(t)
           last == from + l
           n == from + l + 2 * Width
           mem == [a \in 0..n |-> IF a \in from..from + l - 1 THEN t[a - from + 1] ELSE IF a = from + l THEN "nul" ELSE beyond]
<1>3. l \in Nat /\ last \in Nat /\ n \in Nat /\ last + 1 <= n /\ \A i \in 1..l : t[i] \in Scan!Kind
  BY <1>2, WidthIs
<1>4. in = [mem |-> mem, from |-> from, last |-> last, before |-> before]
  BY <1>1 DEF Scan!Input
<1>5. "nul" \in Scan!Kind
  BY DEF Scan!Kind
<1>6. ASSUME NEW a \in 0..n PROVE mem[a] \in Scan!Kind
  <2>1. CASE a \in from..from + l - 1
    <3>1. a - from + 1 \in 1..l
      BY <1>2, <1>3, <2>1
    <3>2. mem[a] = t[a - from + 1]
      BY <2>1
    <3> QED
      BY <1>3, <3>1, <3>2
  <2>2. CASE a \notin from..from + l - 1
    BY <1>2, <1>5, <2>2
  <2> QED
    BY <2>1, <2>2
<1>7. mem \in [0..n -> Scan!Kind]
  BY <1>6
<1>8. mem[last] = "nul"
  <2>1. last \in 0..n /\ last \notin from..from + l - 1
    BY <1>2, <1>3
  <2> QED
    BY <2>1
<1> HIDE DEF mem, n, last
<1>9. in.mem = mem /\ in.from = from /\ in.last = last /\ in.before = before
  BY <1>4
<1>10. in \in Inputs
  BY <1>2, <1>3, <1>4, <1>7 DEF Inputs
<1>11. from <= last /\ last + 1 \in DOMAIN mem
  <2>1. from <= last
    BY <1>2, <1>3 DEF last
  <2> QED
    BY <1>3, <1>7, <2>1
<1> QED
  BY <1>2, <1>8, <1>9, <1>10, <1>11 DEF Sound

ScanIsSound == Of("scan") => Sound(x[1])

\* The input of the unit stays as it was put.
LEMMA ScanSoundness == PartsSpec => []ScanIsSound
<1>1. PartsInit => ScanIsSound
  BY DEF PartsInit, MemoryInit, ScanIsSound, Of
<1>2. ScanIsSound /\ [PartsNext]_<<unit, x>> => ScanIsSound'
  <2> SUFFICES ASSUME ScanIsSound, [PartsNext]_<<unit, x>>, unit' = "scan", x' # <<>> PROVE Sound(x'[1])
    BY DEF ScanIsSound, Of
  <2>1. CASE UNCHANGED <<unit, x>>
    BY <2>1 DEF ScanIsSound, Of
  <2>2. CASE MemoryNext
    BY <2>2 DEF MemoryNext
  <2>3. CASE unit' = unit /\ \E i \in InputsOf[unit] : x' = <<i>>
    <3>1. PICK i \in Rows : x' = <<i>>
      BY <2>3 DEF InputsOf
    <3> QED
      BY <3>1, InputIsSound
  <2> QED
    BY <2>1, <2>2, <2>3 DEF PartsNext
<1> QED
  BY <1>1, <1>2, PTL DEF PartsSpec

\* For every width of a block, every text, wherever it begins, and whatever stands behind it, the
\* loops over blocks do what the loops over single characters do.
THEOREM BlocksAreAlwaysLoops == PartsSpec => []BlocksAreLoops
<1>1. ScanIsSound => BlocksAreLoops
  BY ScanIsAgreed, LoadsAreOnPage, InsituIsMoved, WriterDoesEscape
     DEF ScanIsSound, BlocksAreLoops, ScansAgree, LoadsStay, InsituMoves, WriterEscapes
<1> QED
  BY ScanSoundness, <1>1, PTL

-----------------------------------------------------------------------------
(* Units of a source                                                       *)

\* The unit at k, or the nul behind the end.
UnitAt(src, k) == IF k <= Len(src) THEN src[k] ELSE 0

\* Where a stream stands after j units were skipped, and what it gives next.
LEMMA StreamIs ==
  ASSUME NEW src \in Seq(Nat), NEW j \in Nat
  PROVE  LET in == Codes!Skip(Codes!Stream(src), j)
         IN  /\ in = [src |-> src, at |-> IF j <= Len(src) THEN j + 1 ELSE Len(src) + 1]
             /\ Codes!Peek(in) = UnitAt(src, j + 1)
BY DEF Codes!Skip, Codes!Stream, Codes!Peek, UnitAt

\* A stream gives its first unit first.
LEMMA PeekIs ==
  ASSUME NEW src \in Seq(Nat)
  PROVE  Codes!Peek(Codes!Stream(src)) = UnitAt(src, 1)
BY DEF Codes!Stream, Codes!Peek, UnitAt

\* Skipping twice is skipping as many units as both times together.
LEMMA SkipTwice ==
  ASSUME NEW src \in Seq(Nat), NEW j \in Nat, NEW k \in Nat
  PROVE  Codes!Skip(Codes!Skip(Codes!Stream(src), j), k) = Codes!Skip(Codes!Stream(src), j + k)
<1> DEFINE l == Len(src)
           at == IF j <= l THEN j + 1 ELSE l + 1
           in == Codes!Skip(Codes!Stream(src), j)
<1>1. in = [src |-> src, at |-> at] /\ l \in Nat
  BY StreamIs
<1>2. Codes!Skip(Codes!Stream(src), j + k) = [src |-> src, at |-> IF j + k <= l THEN (j + k) + 1 ELSE l + 1]
  <2>1. j + k \in Nat
    OBVIOUS
  <2> QED
    BY <2>1, StreamIs
<1> HIDE DEF in
<1>3. Codes!Skip(in, k) = [src |-> src, at |-> IF at + k > l + 1 THEN l + 1 ELSE at + k]
  BY <1>1 DEF Codes!Skip
<1> QED
  BY <1>1, <1>2, <1>3 DEF in

\* What is taken from j on.
LEMMA TakenIs ==
  ASSUME NEW src \in Seq(Nat), NEW j \in Nat, NEW n \in Nat
  PROVE  Codes!Taken(Codes!Skip(Codes!Stream(src), j), n) = [i \in 1..n |-> UnitAt(src, j + i)]
<1>1. ASSUME NEW i \in 1..n
      PROVE  Codes!Peek(Codes!Skip(Codes!Skip(Codes!Stream(src), j), i - 1)) = UnitAt(src, j + i)
  <2>1. i - 1 \in Nat /\ j + (i - 1) \in Nat /\ (j + (i - 1)) + 1 = j + i
    OBVIOUS
  <2>2. Codes!Skip(Codes!Skip(Codes!Stream(src), j), i - 1) = Codes!Skip(Codes!Stream(src), j + (i - 1))
    BY <2>1, SkipTwice
  <2>3. Codes!Peek(Codes!Skip(Codes!Stream(src), j + (i - 1))) = UnitAt(src, (j + (i - 1)) + 1)
    BY <2>1, StreamIs
  <2> QED
    BY <2>1, <2>2, <2>3
<1> QED
  BY <1>1 DEF Codes!Taken

\* The first n units that are taken are those of the source, then nuls.
LEMMA TakenFirst ==
  ASSUME NEW src \in Seq(Nat), NEW n \in Nat
  PROVE  Codes!Taken(Codes!Stream(src), n) = [i \in 1..n |-> UnitAt(src, i)]
<1>1. ASSUME NEW i \in 1..n
      PROVE  Codes!Peek(Codes!Skip(Codes!Stream(src), i - 1)) = UnitAt(src, i)
  <2>1. i - 1 \in Nat /\ (i - 1) + 1 = i
    OBVIOUS
  <2>2. Codes!Peek(Codes!Skip(Codes!Stream(src), i - 1)) = UnitAt(src, (i - 1) + 1)
    BY <2>1, StreamIs
  <2> QED
    BY <2>1, <2>2
<1> QED
  BY <1>1 DEF Codes!Taken

-----------------------------------------------------------------------------
(* UTF-8                                                                   *)

Byte   == 0..255
Octets == {s \in Seq(Nat) : \A i \in 1..Len(s) : s[i] \in Byte}

\* What may follow a first byte a.
SecondByte(a, b) == /\ b \in 128..191
                    /\ a = 224 => b >= 160
                    /\ a = 237 => b <= 159
                    /\ a = 240 => b >= 144
                    /\ a = 244 => b <= 143

\* The table of ranges on the bytes that may follow a first one.
LEMMA RangeOfTail ==
  ASSUME NEW c \in Byte
  PROVE  /\ Codes!GetRange(c) \in {16, 32, 64} <=> c \in 128..191
         /\ Codes!GetRange(c) \in {16, 64} <=> c \in 128..159
         /\ Codes!GetRange(c) \in {32, 64} <=> c \in 144..191
         /\ Codes!GetRange(c) = 16 <=> c \in 128..143
         /\ Codes!GetRange(c) = 32 <=> c \in 160..191
BY DEF Codes!GetRange, Byte

\* The table of ranges on the bytes that may be first ones.
LEMMA RangeOfLead ==
  ASSUME NEW c \in Byte
  PROVE  /\ c \in 194..223 => Codes!GetRange(c) = 2
         /\ c \in 225..239 /\ c # 237 => Codes!GetRange(c) = 3
         /\ c = 237 => Codes!GetRange(c) = 4
         /\ c = 244 => Codes!GetRange(c) = 5
         /\ c \in 241..243 => Codes!GetRange(c) = 6
         /\ c = 224 => Codes!GetRange(c) = 10
         /\ c = 240 => Codes!GetRange(c) = 11
<1> USE DEF Codes!GetRange, Byte
<1>1. c \in 194..223 => Codes!GetRange(c) = 2
  OBVIOUS
<1>2. c \in 225..239 /\ c # 237 => Codes!GetRange(c) = 3
  OBVIOUS
<1>3. c = 237 => Codes!GetRange(c) = 4
  OBVIOUS
<1>4. c = 244 => Codes!GetRange(c) = 5
  OBVIOUS
<1>5. c \in 241..243 => Codes!GetRange(c) = 6
  OBVIOUS
<1>6. c = 224 => Codes!GetRange(c) = 10
  OBVIOUS
<1>7. c = 240 => Codes!GetRange(c) = 11
  OBVIOUS
<1> QED
  BY ONLY <1>1, <1>2, <1>3, <1>4, <1>5, <1>6, <1>7

\* The table of ranges on all other bytes.
LEMMA RangeOfOther ==
  ASSUME NEW c \in Byte, c \notin 194..244
  PROVE  Codes!GetRange(c) \in {0, 8, 16, 32, 64}
BY DEF Codes!GetRange, Byte

\* A first byte with n bytes behind it that may be any of `tails`.
LEMMA TailsDecode ==
  ASSUME NEW src \in Octets, NEW type \in Nat, NEW n \in 1..3, NEW tails,
         tails = Codes!Tails(type), tails \in [1..n -> SUBSET Nat]
  PROVE  LET d    == Codes!DecodeTails(Codes!Stream(src), type, tails)
             lead == UnitAt(src, 1) % Codes!LeadBits(type)
         IN  /\ d.ok <=> \A i \in 1..n : Codes!GetRange(UnitAt(src, 1 + i)) \in tails[i]
             /\ d.cp = Codes!Joined(lead, [i \in 1..n |-> UnitAt(src, 1 + i)])
             /\ d.in = Codes!Skip(Codes!Stream(src), 1 + n)
<1> DEFINE in    == Codes!Stream(src)
           bytes == [i \in 1..n |-> UnitAt(src, 1 + i)]
           d     == Codes!DecodeTails(in, type, tails)
<1>1. src \in Seq(Nat)
  BY DEF Octets
<1>2. Codes!Taken(Codes!Skip(in, 1), n) = bytes
  <2>1. 1 \in Nat /\ n \in Nat
    OBVIOUS
  <2> QED
    BY <1>1, <2>1, TakenIs
<1>3. Codes!Peek(in) = UnitAt(src, 1)
  BY <1>1, PeekIs
<1>4. Len(tails) = n /\ tails # <<>> /\ DOMAIN tails = 1..n
  OBVIOUS
<1> HIDE DEF in
<1>5. d = Codes!Decoded(tails # <<>> /\ \A i \in DOMAIN tails : Codes!GetRange(bytes[i]) \in tails[i],
                        Codes!Joined(UnitAt(src, 1) % Codes!LeadBits(type), bytes), Codes!Skip(in, 1 + n))
  BY <1>2, <1>3, <1>4 DEF Codes!DecodeTails
<1>6. \A i \in 1..n : bytes[i] = UnitAt(src, 1 + i)
  OBVIOUS
<1> HIDE DEF d, bytes
<1>7. d.ok = (tails # <<>> /\ \A i \in DOMAIN tails : Codes!GetRange(bytes[i]) \in tails[i])
  BY ONLY <1>5 DEF Codes!Decoded
<1>8. d.ok <=> \A i \in 1..n : Codes!GetRange(UnitAt(src, 1 + i)) \in tails[i]
  BY ONLY <1>4, <1>6, <1>7
<1>9. d.cp = Codes!Joined(UnitAt(src, 1) % Codes!LeadBits(type), bytes) /\ d.in = Codes!Skip(in, 1 + n)
  BY ONLY <1>5 DEF Codes!Decoded
<1> QED
  BY <1>8, <1>9 DEF d, in, bytes

\* A tail byte.
TailByte(b) == b \in 128..191

\* What a stream of bytes gives is a byte.
LEMMA UnitIsByte ==
  ASSUME NEW src \in Octets, NEW k \in Nat \ {0}
  PROVE  UnitAt(src, k) \in Byte /\ UnitAt(src, k) \in Nat
<1>1. CASE k <= Len(src)
  <2>1. k \in 1..Len(src)
    BY <1>1 DEF Octets
  <2> QED
    BY <1>1, <2>1 DEF UnitAt, Octets, Byte
<1>2. CASE ~(k <= Len(src))
  BY <1>2 DEF UnitAt, Byte
<1> QED
  BY <1>1, <1>2

\* Decode is one byte, or tails by the range of the first (encodings.h, UTF8::Decode).
LEMMA DecodeIs ==
  ASSUME NEW src \in Octets
  PROVE  Codes!DecodeUTF8(Codes!Stream(src))
           = IF UnitAt(src, 1) < 128 THEN Codes!Decoded(TRUE, UnitAt(src, 1), Codes!Skip(Codes!Stream(src), 1))
             ELSE LET type == Codes!GetRange(UnitAt(src, 1))
                  IN  Codes!DecodeTails(Codes!Stream(src), type, Codes!Tails(type))
<1>1. src \in Seq(Nat)
  BY DEF Octets
<1>2. Codes!Peek(Codes!Stream(src)) = UnitAt(src, 1)
  BY <1>1, PeekIs
<1> QED
  BY <1>2 DEF Codes!DecodeUTF8

\* A first byte below 128 is its own code.
LEMMA DecodeOne ==
  ASSUME NEW src \in Octets, UnitAt(src, 1) < 128
  PROVE  LET d == Codes!DecodeUTF8(Codes!Stream(src))
         IN  d.ok = TRUE /\ d.cp = UnitAt(src, 1) /\ d.in = Codes!Skip(Codes!Stream(src), 1)
BY DecodeIs DEF Codes!Decoded

\* The same of a first byte of the type.
LEMMA DecodeTyped ==
  ASSUME NEW src \in Octets, NEW type \in Nat, ~(UnitAt(src, 1) < 128), Codes!GetRange(UnitAt(src, 1)) = type,
         NEW n \in 1..3, NEW tails, tails = Codes!Tails(type), tails \in [1..n -> SUBSET Nat]
  PROVE  LET d    == Codes!DecodeUTF8(Codes!Stream(src))
             lead == UnitAt(src, 1) % Codes!LeadBits(type)
         IN  /\ d.ok <=> \A i \in 1..n : Codes!GetRange(UnitAt(src, 1 + i)) \in tails[i]
             /\ d.cp = Codes!Joined(lead, [i \in 1..n |-> UnitAt(src, 1 + i)])
             /\ d.in = Codes!Skip(Codes!Stream(src), 1 + n)
<1>1. Codes!DecodeUTF8(Codes!Stream(src)) = Codes!DecodeTails(Codes!Stream(src), type, tails)
  <2>1. Codes!DecodeUTF8(Codes!Stream(src))
          = IF UnitAt(src, 1) < 128 THEN Codes!Decoded(TRUE, UnitAt(src, 1), Codes!Skip(Codes!Stream(src), 1))
            ELSE Codes!DecodeTails(Codes!Stream(src), Codes!GetRange(UnitAt(src, 1)), Codes!Tails(Codes!GetRange(UnitAt(src, 1))))
    BY DecodeIs
  <2> QED
    BY ONLY <2>1, ~(UnitAt(src, 1) < 128), Codes!GetRange(UnitAt(src, 1)) = type, tails = Codes!Tails(type)
<1> DEFINE d == Codes!DecodeTails(Codes!Stream(src), type, tails)
<1>2. /\ d.ok <=> \A i \in 1..n : Codes!GetRange(UnitAt(src, 1 + i)) \in tails[i]
      /\ d.cp = Codes!Joined(UnitAt(src, 1) % Codes!LeadBits(type), [i \in 1..n |-> UnitAt(src, 1 + i)])
      /\ d.in = Codes!Skip(Codes!Stream(src), 1 + n)
  BY TailsDecode
<1> HIDE DEF d
<1>3. Codes!DecodeUTF8(Codes!Stream(src)) = d
  BY <1>1 DEF d
<1> QED
  BY ONLY <1>2, <1>3

\* No character begins with a tail byte or with C0, C1, F5 or more.
LEMMA DecodeNone ==
  ASSUME NEW src \in Octets, ~(UnitAt(src, 1) < 128), UnitAt(src, 1) \notin 194..244
  PROVE  LET d == Codes!DecodeUTF8(Codes!Stream(src))
         IN  d.ok = FALSE /\ d.in = Codes!Skip(Codes!Stream(src), 1)
<1> DEFINE a == UnitAt(src, 1)
           type == Codes!GetRange(a)
           in == Codes!Stream(src)
           d == Codes!DecodeUTF8(in)
<1>1. a \in Byte /\ a \in Nat
  <2>1. 1 \in Nat \ {0}
    OBVIOUS
  <2> QED
    BY <2>1, UnitIsByte
<1>2. type \in {0, 8, 16, 32, 64}
  BY <1>1, RangeOfOther
<1>3. Codes!Tails(type) = <<>>
  <2> HIDE DEF type
  <2> QED
    BY <1>2 DEF Codes!Tails
<1>4. d = Codes!DecodeTails(in, type, <<>>)
  <2>1. d = IF a < 128 THEN Codes!Decoded(TRUE, a, Codes!Skip(in, 1))
            ELSE Codes!DecodeTails(in, type, Codes!Tails(type))
    BY DecodeIs
  <2>2. ~(a < 128)
    OBVIOUS
  <2> QED
    BY ONLY <2>1, <2>2, <1>3
<1> HIDE DEF d, in, type
<1>5. Len(<<>>) = 0 /\ 1 + 0 = 1
  OBVIOUS
<1>6. d.in = Codes!Skip(in, 1)
  BY ONLY <1>4, <1>5 DEF Codes!DecodeTails, Codes!Decoded
<1>7. d.ok = FALSE
  BY ONLY <1>4 DEF Codes!DecodeTails, Codes!Decoded
<1> QED
  BY <1>6, <1>7 DEF d, in

\* What Decode makes of a first byte of two.
LEMMA DecodeTwo ==
  ASSUME NEW src \in Octets, NEW a, a = UnitAt(src, 1), NEW b, b = UnitAt(src, 2), a \in 194..223
  PROVE  LET d == Codes!DecodeUTF8(Codes!Stream(src))
         IN  /\ d.ok <=> TailByte(b)
             /\ d.cp = ((a - 192) * 64) + (b % 64)
             /\ d.in = Codes!Skip(Codes!Stream(src), 2)
<1> DEFINE in == Codes!Stream(src)
           d == Codes!DecodeUTF8(in)
           tails == Codes!Tails(2)
           bytes == [i \in 1..1 |-> UnitAt(src, 1 + i)]
<1>1. b \in Byte /\ b \in Nat /\ a \in Byte /\ ~(a < 128)
  <2>1. 2 \in Nat \ {0}
    OBVIOUS
  <2> QED
    BY <2>1, UnitIsByte DEF Byte
<1>2. Codes!GetRange(a) = 2
  BY <1>1, RangeOfLead
<1>3. tails = <<{16, 32, 64}>> /\ tails \in [1..1 -> SUBSET Nat] /\ tails[1] = {16, 32, 64}
  BY DEF Codes!Tails, Codes!AnyTail
<1>4. 2 \in Nat /\ 1 \in 1..3 /\ 1 + 1 = 2
  OBVIOUS
<1> HIDE DEF d, tails, in
<1>5. /\ d.ok <=> \A i \in 1..1 : Codes!GetRange(UnitAt(src, 1 + i)) \in tails[i]
      /\ d.cp = Codes!Joined(a % Codes!LeadBits(2), bytes)
      /\ d.in = Codes!Skip(in, 1 + 1)
  BY ONLY <1>1, <1>2, <1>3, <1>4, src \in Octets, a = UnitAt(src, 1), DecodeTyped DEF in, d, tails
<1>6. d.ok <=> Codes!GetRange(b) \in {16, 32, 64}
  BY ONLY <1>3, <1>4, <1>5, b = UnitAt(src, 2)
<1>7. bytes[1] = b /\ Len(bytes) = 1
  BY <1>4
<1> HIDE DEF bytes
<1>8. d.cp = ((a % 64) * 64) + (b % 64)
  BY <1>5, <1>7 DEF Codes!Joined, Codes!LeadBits
<1>9. a % 64 = a - 192
  BY ONLY a \in 194..223
<1> QED
  BY <1>1, <1>4, <1>5, <1>6, <1>8, <1>9, RangeOfTail DEF TailByte, d, in

\* A pair is a function on 1..2.
LEMMA PairOf ==
  ASSUME NEW S, NEW u \in S, NEW v \in S
  PROVE  LET p == <<u, v>> IN p \in [1..2 -> S] /\ p[1] = u /\ p[2] = v
OBVIOUS

\* A triple is a function on 1..3.
LEMMA TripleOf ==
  ASSUME NEW S, NEW u \in S, NEW v \in S, NEW w \in S
  PROVE  LET p == <<u, v, w>> IN p \in [1..3 -> S] /\ p[1] = u /\ p[2] = v /\ p[3] = w
OBVIOUS

\* Three bytes, of a type whose second byte is one of a set.
LEMMA DecodeThreeOf ==
  ASSUME NEW src \in Octets, NEW a, a = UnitAt(src, 1), NEW b, b = UnitAt(src, 2), NEW c, c = UnitAt(src, 3),
         ~(a < 128), NEW type \in Nat, Codes!GetRange(a) = type, NEW second \in SUBSET Nat,
         Codes!Tails(type) = <<second, {16, 32, 64}>>
  PROVE  LET d == Codes!DecodeUTF8(Codes!Stream(src))
         IN  /\ d.ok <=> Codes!GetRange(b) \in second /\ TailByte(c)
             /\ d.cp = ((((a % Codes!LeadBits(type)) * 64) + (b % 64)) * 64) + (c % 64)
             /\ d.in = Codes!Skip(Codes!Stream(src), 3)
<1> DEFINE in == Codes!Stream(src)
           d == Codes!DecodeUTF8(in)
           tails == Codes!Tails(type)
           bytes == [i \in 1..2 |-> UnitAt(src, 1 + i)]
<1>1. c \in Byte
  <2>1. 3 \in Nat \ {0}
    OBVIOUS
  <2> QED
    BY <2>1, UnitIsByte
<1>2. tails \in [1..2 -> SUBSET Nat] /\ tails[1] = second /\ tails[2] = {16, 32, 64}
  <2> DEFINE any == {16, 32, 64}
  <2>1. any \in SUBSET Nat /\ tails = <<second, any>>
    OBVIOUS
  <2> HIDE DEF any, tails
  <2>2. tails \in [1..2 -> SUBSET Nat] /\ tails[1] = second /\ tails[2] = any
    BY ONLY <2>1, second \in SUBSET Nat, PairOf
  <2> QED
    BY ONLY <2>2 DEF any
<1>3. 2 \in 1..3 /\ 1 + 1 = 2 /\ 1 + 2 = 3 /\ \A i : i \in 1..2 <=> i = 1 \/ i = 2
  OBVIOUS
<1> HIDE DEF d, tails, in
<1>4. /\ d.ok <=> \A i \in 1..2 : Codes!GetRange(UnitAt(src, 1 + i)) \in tails[i]
      /\ d.cp = Codes!Joined(a % Codes!LeadBits(type), bytes)
      /\ d.in = Codes!Skip(in, 1 + 2)
  BY ONLY <1>2, <1>3, src \in Octets, type \in Nat, ~(a < 128), Codes!GetRange(a) = type, a = UnitAt(src, 1), DecodeTyped
     DEF in, d, tails
<1>5. d.ok <=> Codes!GetRange(b) \in second /\ Codes!GetRange(c) \in {16, 32, 64}
  BY ONLY <1>2, <1>3, <1>4, b = UnitAt(src, 2), c = UnitAt(src, 3)
<1>6. bytes[1] = b /\ bytes[2] = c /\ Len(bytes) = 2
  BY <1>3
<1> HIDE DEF bytes
<1>7. d.cp = ((((a % Codes!LeadBits(type)) * 64) + (b % 64)) * 64) + (c % 64)
  BY ONLY <1>4, <1>6 DEF Codes!Joined
<1>8. Codes!GetRange(c) \in {16, 32, 64} <=> TailByte(c)
  BY <1>1, RangeOfTail DEF TailByte
<1> QED
  BY ONLY <1>3, <1>4, <1>5, <1>7, <1>8 DEF d, in

\* What Decode makes of a first byte of three.
LEMMA DecodeThree ==
  ASSUME NEW src \in Octets, NEW a, a = UnitAt(src, 1), NEW b, b = UnitAt(src, 2), NEW c, c = UnitAt(src, 3),
         a \in 224..239
  PROVE  LET d == Codes!DecodeUTF8(Codes!Stream(src))
         IN  /\ d.ok <=> SecondByte(a, b) /\ TailByte(c)
             /\ d.cp = ((((a - 224) * 64) + (b % 64)) * 64) + (c % 64)
             /\ d.in = Codes!Skip(Codes!Stream(src), 3)
<1> DEFINE d == Codes!DecodeUTF8(Codes!Stream(src))
           Said(type, second) ==
             /\ d.ok <=> Codes!GetRange(b) \in second /\ TailByte(c)
             /\ d.cp = ((((a % Codes!LeadBits(type)) * 64) + (b % 64)) * 64) + (c % 64)
             /\ d.in = Codes!Skip(Codes!Stream(src), 3)
<1>1. b \in Byte /\ a \in Byte /\ ~(a < 128)
  <2>1. 2 \in Nat \ {0}
    OBVIOUS
  <2> QED
    BY <2>1, UnitIsByte DEF Byte
<1>2. ASSUME NEW type \in Nat, Codes!GetRange(a) = type, NEW second \in SUBSET Nat,
             Codes!Tails(type) = <<second, {16, 32, 64}>>
      PROVE  Said(type, second)
  BY ONLY <1>1, <1>2, src \in Octets, a = UnitAt(src, 1), b = UnitAt(src, 2), c = UnitAt(src, 3), DecodeThreeOf
<1> HIDE DEF d
<1>3. CASE a = 224
  <2>1. Said(10, {32})
    <3>1. Codes!GetRange(a) = 10 /\ 10 \in Nat /\ {32} \in SUBSET Nat
      BY <1>1, <1>3, RangeOfLead
    <3>2. Codes!Tails(10) = <<{32}, {16, 32, 64}>>
      BY DEF Codes!Tails, Codes!AnyTail
    <3> QED
      BY ONLY <1>2, <3>1, <3>2
  <2>2. Codes!GetRange(b) \in {32} <=> SecondByte(a, b)
    BY <1>1, <1>3, RangeOfTail DEF SecondByte, Byte
  <2>3. a % Codes!LeadBits(10) = a - 224
    BY <1>3 DEF Codes!LeadBits
  <2> QED
    BY ONLY <2>1, <2>2, <2>3 DEF d
<1>4. CASE a = 237
  <2>1. Said(4, {16, 64})
    <3>1. Codes!GetRange(a) = 4 /\ 4 \in Nat /\ {16, 64} \in SUBSET Nat
      BY <1>1, <1>4, RangeOfLead
    <3>2. Codes!Tails(4) = <<{16, 64}, {16, 32, 64}>>
      BY DEF Codes!Tails, Codes!AnyTail
    <3> QED
      BY ONLY <1>2, <3>1, <3>2
  <2>2. Codes!GetRange(b) \in {16, 64} <=> SecondByte(a, b)
    BY <1>1, <1>4, RangeOfTail DEF SecondByte, Byte
  <2>3. a % Codes!LeadBits(4) = a - 224
    BY <1>4 DEF Codes!LeadBits
  <2> QED
    BY ONLY <2>1, <2>2, <2>3 DEF d
<1>5. CASE a # 224 /\ a # 237
  <2>1. Said(3, {16, 32, 64})
    <3>1. Codes!GetRange(a) = 3 /\ 3 \in Nat /\ {16, 32, 64} \in SUBSET Nat
      BY <1>1, <1>5, RangeOfLead
    <3>2. Codes!Tails(3) = <<{16, 32, 64}, {16, 32, 64}>>
      BY DEF Codes!Tails, Codes!AnyTail
    <3> QED
      BY ONLY <1>2, <3>1, <3>2
  <2>2. Codes!GetRange(b) \in {16, 32, 64} <=> SecondByte(a, b)
    BY <1>1, <1>5, RangeOfTail DEF SecondByte, Byte
  <2>3. a % Codes!LeadBits(3) = a - 224
    BY <1>5 DEF Codes!LeadBits
  <2> QED
    BY ONLY <2>1, <2>2, <2>3 DEF d
<1> QED
  BY <1>3, <1>4, <1>5

\* Four bytes.
LEMMA DecodeFourOf ==
  ASSUME NEW src \in Octets, NEW a, a = UnitAt(src, 1), NEW b, b = UnitAt(src, 2), NEW c, c = UnitAt(src, 3),
         NEW e, e = UnitAt(src, 4),
         ~(a < 128), NEW type \in Nat, Codes!GetRange(a) = type, NEW second \in SUBSET Nat,
         Codes!Tails(type) = <<second, {16, 32, 64}, {16, 32, 64}>>
  PROVE  LET d == Codes!DecodeUTF8(Codes!Stream(src))
         IN  /\ d.ok <=> Codes!GetRange(b) \in second /\ TailByte(c) /\ TailByte(e)
             /\ d.cp = ((((((a % Codes!LeadBits(type)) * 64) + (b % 64)) * 64) + (c % 64)) * 64) + (e % 64)
             /\ d.in = Codes!Skip(Codes!Stream(src), 4)
<1> DEFINE in == Codes!Stream(src)
           d == Codes!DecodeUTF8(in)
           tails == Codes!Tails(type)
           bytes == [i \in 1..3 |-> UnitAt(src, 1 + i)]
<1>1. c \in Byte /\ e \in Byte
  <2>1. 3 \in Nat \ {0} /\ 4 \in Nat \ {0}
    OBVIOUS
  <2> QED
    BY <2>1, UnitIsByte
<1>2. tails \in [1..3 -> SUBSET Nat] /\ tails[1] = second /\ tails[2] = {16, 32, 64} /\ tails[3] = {16, 32, 64}
  <2> DEFINE any == {16, 32, 64}
  <2>1. any \in SUBSET Nat /\ tails = <<second, any, any>>
    OBVIOUS
  <2> HIDE DEF any, tails
  <2>2. tails \in [1..3 -> SUBSET Nat] /\ tails[1] = second /\ tails[2] = any /\ tails[3] = any
    BY ONLY <2>1, second \in SUBSET Nat, TripleOf
  <2> QED
    BY ONLY <2>2 DEF any
<1>3. 3 \in 1..3 /\ 1 + 1 = 2 /\ 1 + 2 = 3 /\ 1 + 3 = 4 /\ \A i : i \in 1..3 <=> i = 1 \/ i = 2 \/ i = 3
  OBVIOUS
<1> HIDE DEF d, tails, in
<1>4. /\ d.ok <=> \A i \in 1..3 : Codes!GetRange(UnitAt(src, 1 + i)) \in tails[i]
      /\ d.cp = Codes!Joined(a % Codes!LeadBits(type), bytes)
      /\ d.in = Codes!Skip(in, 1 + 3)
  BY ONLY <1>2, <1>3, src \in Octets, type \in Nat, ~(a < 128), Codes!GetRange(a) = type, a = UnitAt(src, 1), DecodeTyped
     DEF in, d, tails
<1>5. d.ok <=> Codes!GetRange(b) \in second /\ Codes!GetRange(c) \in {16, 32, 64} /\ Codes!GetRange(e) \in {16, 32, 64}
  BY ONLY <1>2, <1>3, <1>4, b = UnitAt(src, 2), c = UnitAt(src, 3), e = UnitAt(src, 4)
<1>6. bytes[1] = b /\ bytes[2] = c /\ bytes[3] = e /\ Len(bytes) = 3
  BY <1>3
<1> HIDE DEF bytes
<1>7. d.cp = ((((((a % Codes!LeadBits(type)) * 64) + (b % 64)) * 64) + (c % 64)) * 64) + (e % 64)
  BY ONLY <1>4, <1>6 DEF Codes!Joined
<1>8. (Codes!GetRange(c) \in {16, 32, 64} <=> TailByte(c)) /\ (Codes!GetRange(e) \in {16, 32, 64} <=> TailByte(e))
  BY <1>1, RangeOfTail DEF TailByte
<1> QED
  BY ONLY <1>3, <1>4, <1>5, <1>7, <1>8 DEF d, in

\* What Decode makes of a first byte of four.
LEMMA DecodeFour ==
  ASSUME NEW src \in Octets, NEW a, a = UnitAt(src, 1), NEW b, b = UnitAt(src, 2), NEW c, c = UnitAt(src, 3),
         NEW e, e = UnitAt(src, 4), a \in 240..244
  PROVE  LET d == Codes!DecodeUTF8(Codes!Stream(src))
         IN  /\ d.ok <=> SecondByte(a, b) /\ TailByte(c) /\ TailByte(e)
             /\ d.cp = ((((((a - 240) * 64) + (b % 64)) * 64) + (c % 64)) * 64) + (e % 64)
             /\ d.in = Codes!Skip(Codes!Stream(src), 4)
<1> DEFINE d == Codes!DecodeUTF8(Codes!Stream(src))
           Said(type, second) ==
             /\ d.ok <=> Codes!GetRange(b) \in second /\ TailByte(c) /\ TailByte(e)
             /\ d.cp = ((((((a % Codes!LeadBits(type)) * 64) + (b % 64)) * 64) + (c % 64)) * 64) + (e % 64)
             /\ d.in = Codes!Skip(Codes!Stream(src), 4)
<1>1. b \in Byte /\ a \in Byte /\ ~(a < 128)
  <2>1. 2 \in Nat \ {0}
    OBVIOUS
  <2> QED
    BY <2>1, UnitIsByte DEF Byte
<1>2. ASSUME NEW type \in Nat, Codes!GetRange(a) = type, NEW second \in SUBSET Nat,
             Codes!Tails(type) = <<second, {16, 32, 64}, {16, 32, 64}>>
      PROVE  Said(type, second)
  BY ONLY <1>1, <1>2, src \in Octets, a = UnitAt(src, 1), b = UnitAt(src, 2), c = UnitAt(src, 3), e = UnitAt(src, 4),
     DecodeFourOf
<1> HIDE DEF d
<1>3. CASE a = 240
  <2>1. Said(11, {32, 64})
    <3>1. Codes!GetRange(a) = 11 /\ 11 \in Nat /\ {32, 64} \in SUBSET Nat
      BY <1>1, <1>3, RangeOfLead
    <3>2. Codes!Tails(11) = <<{32, 64}, {16, 32, 64}, {16, 32, 64}>>
      BY DEF Codes!Tails, Codes!AnyTail
    <3> QED
      BY ONLY <1>2, <3>1, <3>2
  <2>2. Codes!GetRange(b) \in {32, 64} <=> SecondByte(a, b)
    BY <1>1, <1>3, RangeOfTail DEF SecondByte, Byte
  <2>3. a % Codes!LeadBits(11) = a - 240
    BY <1>3 DEF Codes!LeadBits
  <2> QED
    BY ONLY <2>1, <2>2, <2>3 DEF d
<1>4. CASE a = 244
  <2>1. Said(5, {16})
    <3>1. Codes!GetRange(a) = 5 /\ 5 \in Nat /\ {16} \in SUBSET Nat
      BY <1>1, <1>4, RangeOfLead
    <3>2. Codes!Tails(5) = <<{16}, {16, 32, 64}, {16, 32, 64}>>
      BY DEF Codes!Tails, Codes!AnyTail
    <3> QED
      BY ONLY <1>2, <3>1, <3>2
  <2>2. Codes!GetRange(b) \in {16} <=> SecondByte(a, b)
    BY <1>1, <1>4, RangeOfTail DEF SecondByte, Byte
  <2>3. a % Codes!LeadBits(5) = a - 240
    BY <1>4 DEF Codes!LeadBits
  <2> QED
    BY ONLY <2>1, <2>2, <2>3 DEF d
<1>5. CASE a \in 241..243
  <2>1. Said(6, {16, 32, 64})
    <3>1. Codes!GetRange(a) = 6 /\ 6 \in Nat /\ {16, 32, 64} \in SUBSET Nat
      BY <1>1, <1>5, RangeOfLead
    <3>2. Codes!Tails(6) = <<{16, 32, 64}, {16, 32, 64}, {16, 32, 64}>>
      BY DEF Codes!Tails, Codes!AnyTail
    <3> QED
      BY ONLY <1>2, <3>1, <3>2
  <2>2. Codes!GetRange(b) \in {16, 32, 64} <=> SecondByte(a, b)
    BY <1>1, <1>5, RangeOfTail DEF SecondByte, Byte
  <2>3. a % Codes!LeadBits(6) = a - 240
    BY <1>5 DEF Codes!LeadBits
  <2> QED
    BY ONLY <2>1, <2>2, <2>3 DEF d
<1> QED
  BY <1>3, <1>4, <1>5

-----------------------------------------------------------------------------
(* Code points, six bits at a time                                         *)

\* Six bits put behind a number are taken off again.
LEMMA Sixes ==
  ASSUME NEW q \in Nat, NEW r \in 0..63
  PROVE  LET v == (q * 64) + r IN v \in Nat /\ v \div 64 = q /\ v % 64 = r
OBVIOUS

\* A number is put together from its last six bits and those before.
LEMMA Split ==
  ASSUME NEW v \in Nat
  PROVE  /\ v = ((v \div 64) * 64) + (v % 64)
         /\ v % 64 \in 0..63 /\ v \div 64 \in Nat
OBVIOUS

\* Six bits twice are twelve, and three times eighteen.
LEMMA SplitTwice ==
  ASSUME NEW v \in Nat
  PROVE  /\ v \div 4096 = (v \div 64) \div 64
         /\ v \div 262144 = ((v \div 64) \div 64) \div 64
OBVIOUS

\* The code of one byte (encodings.h, UTF8::Encode).
LEMMA EncodeOne ==
  ASSUME NEW v \in Nat, v <= 127
  PROVE  Codes!EncodeUTF8(v) = <<v>>
BY DEF Codes!EncodeUTF8

\* The code of two bytes.
LEMMA EncodeTwo ==
  ASSUME NEW v \in Nat, 128 <= v, v <= 2047
  PROVE  Codes!EncodeUTF8(v) = <<192 + v \div 64, Codes!Trail(v)>>
BY SMT DEF Codes!EncodeUTF8

\* The code of three bytes.
LEMMA EncodeThree ==
  ASSUME NEW v \in Nat, 2048 <= v, v <= 65535
  PROVE  Codes!EncodeUTF8(v) = <<224 + v \div 4096, Codes!Trail(v \div 64), Codes!Trail(v)>>
BY SMT DEF Codes!EncodeUTF8

\* The code of four bytes.
LEMMA EncodeFour ==
  ASSUME NEW v \in Nat, 65536 <= v
  PROVE  Codes!EncodeUTF8(v) = <<240 + v \div 262144, Codes!Trail(v \div 4096), Codes!Trail(v \div 64), Codes!Trail(v)>>
BY SMT DEF Codes!EncodeUTF8

\* The bytes of a scalar value, of each length.
LEMMA TwoBytes ==
  ASSUME NEW v \in Nat, 128 <= v, v <= 2047
  PROVE  LET w == v \div 64
         IN  /\ Codes!EncodeUTF8(v) = <<192 + w, 128 + (v % 64)>>
             /\ 192 + w \in 194..223 /\ 128 + (v % 64) \in 128..191
             /\ v = (w * 64) + (v % 64)
<1>1. /\ v \div 64 \in 2..31 /\ v % 64 \in 0..63
      /\ v = ((v \div 64) * 64) + (v % 64)
  OBVIOUS
<1>2. Codes!EncodeUTF8(v) = <<192 + (v \div 64), 128 + (v % 64)>>
  BY EncodeTwo DEF Codes!Trail
<1> QED
  BY <1>1, <1>2

\* The three bytes are such as Decode accepts, and have the bits of the value.
LEMMA ThreeBytes ==
  ASSUME NEW v \in Nat, 2048 <= v, v <= 65535, ~Codes!Surrogate(v)
  PROVE  LET w == v \div 64
             q == w \div 64
         IN  /\ Codes!EncodeUTF8(v) = <<224 + q, 128 + (w % 64), 128 + (v % 64)>>
             /\ 224 + q \in 224..239 /\ SecondByte(224 + q, 128 + (w % 64)) /\ TailByte(128 + (v % 64))
             /\ v = (((q * 64) + (w % 64)) * 64) + (v % 64)
             /\ w % 64 \in 0..63 /\ v % 64 \in 0..63
<1> DEFINE w == v \div 64
           s == v % 64
           q == w \div 64
           r == w % 64
<1>1. w \in Nat /\ s \in 0..63 /\ v = (w * 64) + s
  BY SMT
<1>2. Codes!EncodeUTF8(v) = <<224 + (v \div 4096), 128 + (w % 64), 128 + (v % 64)>>
  BY SMT, EncodeThree DEF Codes!Trail
<1>3. v \div 4096 = q
  BY SMT, SplitTwice
<1>4. v < 55296 \/ v > 57343
  BY SMT DEF Codes!Surrogate
<1> HIDE DEF w, s
<1>5. q \in Nat /\ r \in 0..63 /\ w = (q * 64) + r
  BY ONLY SMT, <1>1
<1> HIDE DEF q, r
<1>6. q \in 0..15 /\ (q = 0 => r >= 32) /\ (q = 13 => r <= 31)
  BY ONLY SMT, <1>1, <1>4, <1>5, 2048 <= v, v <= 65535
<1>7. 224 + q \in 224..239 /\ SecondByte(224 + q, 128 + r) /\ TailByte(128 + s)
  BY ONLY SMT, <1>1, <1>5, <1>6 DEF SecondByte, TailByte
<1> QED
  BY ONLY SMT, <1>1, <1>2, <1>3, <1>5, <1>7 DEF w, s, q, r

\* The four bytes are such as Decode accepts, and have the bits of the value.
LEMMA FourBytes ==
  ASSUME NEW v \in Nat, 65536 <= v, v <= 1114111
  PROVE  LET w == v \div 64
             u == w \div 64
             q == u \div 64
         IN  /\ Codes!EncodeUTF8(v) = <<240 + q, 128 + (u % 64), 128 + (w % 64), 128 + (v % 64)>>
             /\ 240 + q \in 240..244 /\ SecondByte(240 + q, 128 + (u % 64))
             /\ TailByte(128 + (w % 64)) /\ TailByte(128 + (v % 64))
             /\ v = (((((q * 64) + (u % 64)) * 64) + (w % 64)) * 64) + (v % 64)
             /\ u % 64 \in 0..63 /\ w % 64 \in 0..63 /\ v % 64 \in 0..63
<1> DEFINE w == v \div 64
           s == v % 64
           u == w \div 64
           t == w % 64
           q == u \div 64
           r == u % 64
<1>1. w \in Nat /\ s \in 0..63 /\ v = (w * 64) + s
  BY SMT
<1>2. Codes!EncodeUTF8(v) = <<240 + (v \div 262144), 128 + ((v \div 4096) % 64), 128 + (w % 64), 128 + (v % 64)>>
  BY SMT, EncodeFour DEF Codes!Trail
<1>3. v \div 4096 = u /\ v \div 262144 = q
  BY SMT, SplitTwice
<1> HIDE DEF w, s
<1>4. u \in Nat /\ t \in 0..63 /\ w = (u * 64) + t
  BY ONLY SMT, <1>1
<1> HIDE DEF u, t
<1>5. q \in Nat /\ r \in 0..63 /\ u = (q * 64) + r
  BY ONLY SMT, <1>4
<1> HIDE DEF q, r
<1>6. q \in 0..4 /\ (q = 0 => r >= 16) /\ (q = 4 => r <= 15)
  BY ONLY SMT, <1>1, <1>4, <1>5, 65536 <= v, v <= 1114111
<1>7. 240 + q \in 240..244 /\ SecondByte(240 + q, 128 + r) /\ TailByte(128 + s) /\ TailByte(128 + t)
  BY ONLY SMT, <1>1, <1>4, <1>5, <1>6 DEF SecondByte, TailByte
<1> QED
  BY ONLY SMT, <1>1, <1>2, <1>3, <1>4, <1>5, <1>7 DEF w, s, u, t, q, r

-----------------------------------------------------------------------------
(* A source that begins with the bytes of a scalar value                   *)

\* What Decode returns is a verdict, a code and where the stream stands.
LEMMA DecodedIs ==
  ASSUME NEW src \in Octets
  PROVE  LET d == Codes!DecodeUTF8(Codes!Stream(src))
         IN  d.ok \in BOOLEAN /\ d = Codes!Decoded(d.ok, d.cp, d.in)
<1> DEFINE d == Codes!DecodeUTF8(Codes!Stream(src))
<1>1. ASSUME NEW ok \in BOOLEAN, NEW c, NEW in, d = Codes!Decoded(ok, c, in)
      PROVE  d.ok \in BOOLEAN /\ d = Codes!Decoded(d.ok, d.cp, d.in)
  <2> HIDE DEF d
  <2> QED
    BY ONLY <1>1 DEF Codes!Decoded
<1>2. CASE UnitAt(src, 1) < 128
  BY <1>1, <1>2, DecodeIs
<1>3. CASE ~(UnitAt(src, 1) < 128)
  <2> DEFINE type == Codes!GetRange(UnitAt(src, 1))
             tails == Codes!Tails(type)
             in == Codes!Stream(src)
             bytes == Codes!Taken(Codes!Skip(in, 1), Len(tails))
             ok == tails # <<>> /\ \A i \in DOMAIN tails : Codes!GetRange(bytes[i]) \in tails[i]
  <2>1. d = Codes!DecodeTails(in, type, tails)
    <3>1. d = IF UnitAt(src, 1) < 128 THEN Codes!Decoded(TRUE, UnitAt(src, 1), Codes!Skip(in, 1))
              ELSE Codes!DecodeTails(in, type, tails)
      BY DecodeIs
    <3> QED
      BY ONLY <1>3, <3>1
  <2>2. d = Codes!Decoded(ok, Codes!Joined(Codes!Peek(in) % Codes!LeadBits(type), bytes), Codes!Skip(in, 1 + Len(tails)))
    <3> HIDE DEF d, in, type, tails
    <3> QED
      BY ONLY <2>1 DEF Codes!DecodeTails
  <2>3. ok \in BOOLEAN
    OBVIOUS
  <2> DEFINE cp == Codes!Joined(Codes!Peek(in) % Codes!LeadBits(type), bytes)
             to == Codes!Skip(in, 1 + Len(tails))
  <2>4. d = Codes!Decoded(ok, cp, to)
    BY <2>2
  <2> HIDE DEF ok, d, cp, to
  <2>5. d.ok \in BOOLEAN /\ d = Codes!Decoded(d.ok, d.cp, d.in)
    BY ONLY <1>1, <2>3, <2>4
  <2> QED
    BY ONLY <2>5 DEF d
<1> QED
  BY <1>2, <1>3

\* The six bits of a byte that follows are its rest.
LEMMA LowBits ==
  ASSUME NEW r \in 0..63
  PROVE  (128 + r) % 64 = r /\ 128 + r \in Nat
OBVIOUS

\* The bytes at the front of a source.
Begins(src, bytes) == Len(bytes) <= Len(src) /\ \A i \in 1..Len(bytes) : src[i] = bytes[i]

\* The units of a source that begins with some bytes are these bytes.
LEMMA BeginsWith ==
  ASSUME NEW src \in Octets, NEW bytes \in Seq(Nat), Begins(src, bytes), NEW i \in 1..Len(bytes)
  PROVE  UnitAt(src, i) = bytes[i]
<1>1. Len(src) \in Nat /\ Len(bytes) \in Nat
  BY DEF Octets
<1> QED
  BY <1>1 DEF Begins, UnitAt

\* What a source is decoded to that begins with the bytes of v.
DecodesTo(src, v, k) == /\ Len(Codes!EncodeUTF8(v)) = k
                        /\ Codes!DecodeUTF8(Codes!Stream(src)) = Codes!Decoded(TRUE, v, Codes!Skip(Codes!Stream(src), k))

\* Decode gives back a code of one byte.
LEMMA DecodesToOne ==
  ASSUME NEW src \in Octets, NEW v \in Nat, v <= 127, Begins(src, Codes!EncodeUTF8(v))
  PROVE  DecodesTo(src, v, 1)
<1>1. Codes!EncodeUTF8(v) = <<v>>
  BY EncodeOne
<1>2. <<v>> \in Seq(Nat) /\ Len(<<v>>) = 1 /\ <<v>>[1] = v /\ 1 \in 1..1
  OBVIOUS
<1>3. UnitAt(src, 1) = v
  BY <1>1, <1>2, BeginsWith
<1>4. UnitAt(src, 1) < 128
  BY ONLY <1>3, v \in Nat, v <= 127
<1> QED
  BY <1>1, <1>2, <1>3, <1>4, DecodeIs DEF DecodesTo

\* Decode gives back a code of two bytes.
LEMMA DecodesToTwo ==
  ASSUME NEW src \in Octets, NEW v \in Nat, 128 <= v, v <= 2047, Begins(src, Codes!EncodeUTF8(v))
  PROVE  DecodesTo(src, v, 2)
<1> DEFINE d == Codes!DecodeUTF8(Codes!Stream(src))
           w == v \div 64
           a == 192 + w
           b == 128 + (v % 64)
<1>1. Codes!EncodeUTF8(v) = <<a, b>> /\ a \in 194..223 /\ b \in 128..191 /\ v = (w * 64) + (v % 64)
  BY TwoBytes
<1>2. w \in Nat /\ v % 64 \in 0..63
  OBVIOUS
<1> HIDE DEF w
<1>3. ((a - 192) * 64) + (b % 64) = v /\ TailByte(b) /\ a \in Nat /\ b \in Nat
  BY ONLY <1>1, <1>2 DEF TailByte
<1> HIDE DEF a, b
<1>4. <<a, b>> \in Seq(Nat) /\ Len(<<a, b>>) = 2 /\ <<a, b>>[1] = a /\ <<a, b>>[2] = b /\ 1 \in 1..2 /\ 2 \in 1..2
  BY <1>3
<1>5. UnitAt(src, 1) = a /\ UnitAt(src, 2) = b
  BY ONLY <1>1, <1>4, src \in Octets, Begins(src, Codes!EncodeUTF8(v)), BeginsWith
<1>6. d.ok \in BOOLEAN /\ d = Codes!Decoded(d.ok, d.cp, d.in)
  BY DecodedIs
<1>7. (d.ok <=> TailByte(b)) /\ d.cp = ((a - 192) * 64) + (b % 64) /\ d.in = Codes!Skip(Codes!Stream(src), 2)
  BY <1>1, <1>5, DecodeTwo
<1> HIDE DEF d
<1>8. d.ok = TRUE /\ d.cp = v
  BY ONLY <1>3, <1>6, <1>7
<1> QED
  BY ONLY <1>1, <1>4, <1>6, <1>7, <1>8 DEF DecodesTo, d

\* Decode gives back a code of three bytes.
LEMMA DecodesToThree ==
  ASSUME NEW src \in Octets, NEW v \in Nat, 2048 <= v, v <= 65535, ~Codes!Surrogate(v),
         Begins(src, Codes!EncodeUTF8(v))
  PROVE  DecodesTo(src, v, 3)
<1> DEFINE d == Codes!DecodeUTF8(Codes!Stream(src))
           w == v \div 64
           q == w \div 64
           a == 224 + q
           b == 128 + (w % 64)
           c == 128 + (v % 64)
<1>1. /\ Codes!EncodeUTF8(v) = <<a, b, c>> /\ a \in 224..239 /\ SecondByte(a, b) /\ TailByte(c)
      /\ v = (((q * 64) + (w % 64)) * 64) + (v % 64) /\ w % 64 \in 0..63 /\ v % 64 \in 0..63
  BY ThreeBytes
<1>2. a - 224 = q /\ b % 64 = w % 64 /\ c % 64 = v % 64 /\ a \in Nat /\ b \in Nat /\ c \in Nat
  <2>1. q \in Nat
    <3>1. w \in Nat
      OBVIOUS
    <3> HIDE DEF w
    <3> QED
      BY ONLY <3>1
  <2> HIDE DEF q, w
  <2> QED
    BY ONLY <1>1, <2>1, LowBits
<1>3. ((((a - 224) * 64) + (b % 64)) * 64) + (c % 64) = v
  <2> HIDE DEF a, b, c, q, w
  <2> QED
    BY ONLY <1>1, <1>2
<1> HIDE DEF a, b, c, d
<1>4. /\ <<a, b, c>> \in Seq(Nat) /\ Len(<<a, b, c>>) = 3
      /\ <<a, b, c>>[1] = a /\ <<a, b, c>>[2] = b /\ <<a, b, c>>[3] = c /\ 1 \in 1..3 /\ 2 \in 1..3 /\ 3 \in 1..3
  BY <1>2
<1>5. UnitAt(src, 1) = a /\ UnitAt(src, 2) = b /\ UnitAt(src, 3) = c
  BY ONLY <1>1, <1>4, src \in Octets, Begins(src, Codes!EncodeUTF8(v)), BeginsWith
<1>6. d.ok \in BOOLEAN /\ d = Codes!Decoded(d.ok, d.cp, d.in)
  BY DecodedIs DEF d
<1>7. /\ d.ok <=> SecondByte(a, b) /\ TailByte(c)
      /\ d.cp = ((((a - 224) * 64) + (b % 64)) * 64) + (c % 64)
      /\ d.in = Codes!Skip(Codes!Stream(src), 3)
  BY ONLY <1>1, <1>5, src \in Octets, DecodeThree DEF d
<1>8. d.ok = TRUE /\ d.cp = v
  BY ONLY <1>1, <1>3, <1>6, <1>7
<1> QED
  BY ONLY <1>1, <1>4, <1>6, <1>7, <1>8 DEF DecodesTo, d

\* Decode gives back a code of four bytes.
LEMMA DecodesToFour ==
  ASSUME NEW src \in Octets, NEW v \in Nat, 65536 <= v, v <= 1114111, Begins(src, Codes!EncodeUTF8(v))
  PROVE  DecodesTo(src, v, 4)
<1> DEFINE d == Codes!DecodeUTF8(Codes!Stream(src))
           w == v \div 64
           u == w \div 64
           q == u \div 64
           a == 240 + q
           b == 128 + (u % 64)
           c == 128 + (w % 64)
           e == 128 + (v % 64)
<1>1. /\ Codes!EncodeUTF8(v) = <<a, b, c, e>> /\ a \in 240..244 /\ SecondByte(a, b) /\ TailByte(c) /\ TailByte(e)
      /\ v = (((((q * 64) + (u % 64)) * 64) + (w % 64)) * 64) + (v % 64)
      /\ u % 64 \in 0..63 /\ w % 64 \in 0..63 /\ v % 64 \in 0..63
  BY SMT, FourBytes
<1>2. /\ a - 240 = q /\ b % 64 = u % 64 /\ c % 64 = w % 64 /\ e % 64 = v % 64
      /\ a \in Nat /\ b \in Nat /\ c \in Nat /\ e \in Nat
  <2>1. q \in Nat
    <3>1. w \in Nat
      BY SMT
    <3> HIDE DEF w
    <3>2. u \in Nat
      BY ONLY <3>1
    <3> HIDE DEF u
    <3> QED
      BY ONLY <3>2
  <2> HIDE DEF q, u, w
  <2>2. a - 240 = q /\ a \in Nat
    BY ONLY <2>1
  <2>3. b % 64 = u % 64 /\ b \in Nat
    BY ONLY <1>1, LowBits
  <2>4. c % 64 = w % 64 /\ c \in Nat
    BY ONLY <1>1, LowBits
  <2>5. e % 64 = v % 64 /\ e \in Nat
    BY ONLY <1>1, LowBits
  <2> HIDE DEF a, b, c, e
  <2> QED
    BY ONLY <2>2, <2>3, <2>4, <2>5
<1>3. ((((((a - 240) * 64) + (b % 64)) * 64) + (c % 64)) * 64) + (e % 64) = v
  <2> HIDE DEF a, b, c, e, q, u, w
  <2> QED
    BY ONLY <1>1, <1>2
<1> HIDE DEF a, b, c, e, d
<1>4. /\ <<a, b, c, e>> \in Seq(Nat) /\ Len(<<a, b, c, e>>) = 4
      /\ <<a, b, c, e>>[1] = a /\ <<a, b, c, e>>[2] = b /\ <<a, b, c, e>>[3] = c /\ <<a, b, c, e>>[4] = e
      /\ 1 \in 1..4 /\ 2 \in 1..4 /\ 3 \in 1..4 /\ 4 \in 1..4
  BY ONLY <1>2
<1>5. UnitAt(src, 1) = a /\ UnitAt(src, 2) = b /\ UnitAt(src, 3) = c /\ UnitAt(src, 4) = e
  BY ONLY <1>1, <1>4, src \in Octets, Begins(src, Codes!EncodeUTF8(v)), BeginsWith
<1>6. d.ok \in BOOLEAN /\ d = Codes!Decoded(d.ok, d.cp, d.in)
  BY ONLY src \in Octets, DecodedIs DEF d
<1>7. /\ d.ok <=> SecondByte(a, b) /\ TailByte(c) /\ TailByte(e)
      /\ d.cp = ((((((a - 240) * 64) + (b % 64)) * 64) + (c % 64)) * 64) + (e % 64)
      /\ d.in = Codes!Skip(Codes!Stream(src), 4)
  BY ONLY <1>1, <1>5, src \in Octets, DecodeFour DEF d
<1>8. d.ok = TRUE /\ d.cp = v
  BY ONLY <1>1, <1>3, <1>6, <1>7
<1> QED
  BY ONLY <1>1, <1>4, <1>6, <1>7, <1>8 DEF DecodesTo, d

\* Decode gives back the scalar value that was encoded, whatever follows it.
LEMMA EncodedIsDecoded ==
  ASSUME NEW src \in Octets, NEW v, Codes!Scalar(v), Begins(src, Codes!EncodeUTF8(v))
  PROVE  \E k \in 1..4 : DecodesTo(src, v, k)
<1>1. v \in Nat /\ v <= 1114111 /\ ~Codes!Surrogate(v)
  BY SMT DEF Codes!Scalar
<1>2. v <= 127 \/ (128 <= v /\ v <= 2047) \/ (2048 <= v /\ v <= 65535) \/ (65536 <= v /\ v <= 1114111)
  BY SMT, <1>1
<1>3. 1 \in 1..4 /\ 2 \in 1..4 /\ 3 \in 1..4 /\ 4 \in 1..4
  OBVIOUS
<1> QED
  BY ONLY SMT, <1>1, <1>2, <1>3, src \in Octets, Begins(src, Codes!EncodeUTF8(v)), DecodesToOne, DecodesToTwo, DecodesToThree, DecodesToFour

-----------------------------------------------------------------------------
(* A source whose first bytes are decoded                                  *)

\* The code point of two, three and four bytes, each byte as it must be.
LEMMA JoinedTwo ==
  ASSUME NEW a \in 194..223, NEW b, TailByte(b),
         NEW v, v = ((a - 192) * 64) + (b % 64)
  PROVE  v \in Nat /\ Codes!Scalar(v) /\ Codes!EncodeUTF8(v) = <<a, b>>
<1> DEFINE q == a - 192
           r == b % 64
<1>0. v = (q * 64) + r
  OBVIOUS
<1>1. q \in 2..31 /\ r \in 0..63 /\ b = 128 + r /\ a = 192 + q /\ q \in Nat
  BY DEF TailByte
<1> HIDE DEF q, r
<1>2. v \in Nat /\ v \div 64 = q /\ v % 64 = r
  BY ONLY <1>0, <1>1, Sixes
<1>3. 128 <= v /\ v <= 2047
  BY ONLY <1>0, <1>1
<1>4. Codes!EncodeUTF8(v) = <<192 + v \div 64, 128 + (v % 64)>>
  <2>1. Codes!EncodeUTF8(v) = <<192 + v \div 64, Codes!Trail(v)>>
    BY ONLY <1>2, <1>3, EncodeTwo
  <2> QED
    BY ONLY <2>1 DEF Codes!Trail
<1>5. Codes!Scalar(v)
  BY ONLY SMT, <1>2, <1>3 DEF Codes!Scalar, Codes!Surrogate
<1> QED
  BY ONLY <1>1, <1>2, <1>4, <1>5

\* Three bytes that Decode accepts are the code of the value it makes of them.
LEMMA JoinedThree ==
  ASSUME NEW a \in 224..239, NEW b, SecondByte(a, b), NEW c, TailByte(c),
         NEW v, v = ((((a - 224) * 64) + (b % 64)) * 64) + (c % 64)
  PROVE  v \in Nat /\ Codes!Scalar(v) /\ Codes!EncodeUTF8(v) = <<a, b, c>>
<1> DEFINE q == a - 224
           r == b % 64
           s == c % 64
           w == (q * 64) + r
<1>0. v = (w * 64) + s
  OBVIOUS
<1>1. q \in 0..15 /\ r \in 0..63 /\ b = 128 + r /\ a = 224 + q /\ q \in Nat
  BY DEF SecondByte
<1>2. s \in 0..63 /\ c = 128 + s
  BY DEF TailByte
<1>3. (q = 0 => r >= 32) /\ (q = 13 => r <= 31)
  BY DEF SecondByte
<1> HIDE DEF q, r, s
<1>4. w \in Nat /\ w \div 64 = q /\ w % 64 = r
  BY ONLY <1>1, Sixes
<1>5. 32 <= w /\ w <= 1023 /\ (w <= 863 \/ w >= 896)
  BY ONLY <1>1, <1>3
<1> HIDE DEF w
<1>6. v \in Nat /\ v \div 64 = w /\ v % 64 = s
  BY ONLY <1>0, <1>2, <1>4, Sixes
<1>7. 2048 <= v /\ v <= 65535 /\ (v <= 55295 \/ v >= 57344)
  BY ONLY SMT, <1>0, <1>2, <1>4, <1>5
<1>8. v \div 4096 = (v \div 64) \div 64
  BY ONLY SMT, <1>6, SplitTwice
<1>9. Codes!EncodeUTF8(v) = <<224 + v \div 4096, 128 + ((v \div 64) % 64), 128 + (v % 64)>>
  BY ONLY SMT, <1>6, <1>7, EncodeThree DEF Codes!Trail
<1>10. Codes!Scalar(v)
  BY ONLY SMT, <1>6, <1>7 DEF Codes!Scalar, Codes!Surrogate
<1>11. Codes!EncodeUTF8(v) = <<a, b, c>>
  BY ONLY <1>1, <1>2, <1>4, <1>6, <1>8, <1>9
<1> QED
  BY ONLY <1>6, <1>10, <1>11

\* Four bytes that Decode accepts are the code of the value it makes of them.
LEMMA JoinedFour ==
  ASSUME NEW a \in 240..244, NEW b, SecondByte(a, b), NEW c, TailByte(c), NEW e, TailByte(e),
         NEW v, v = ((((((a - 240) * 64) + (b % 64)) * 64) + (c % 64)) * 64) + (e % 64)
  PROVE  v \in Nat /\ Codes!Scalar(v) /\ Codes!EncodeUTF8(v) = <<a, b, c, e>>
<1> DEFINE q == a - 240
           r == b % 64
           t == c % 64
           s == e % 64
           u == (q * 64) + r
           w == (u * 64) + t
<1>0. v = (w * 64) + s
  OBVIOUS
<1>1. q \in 0..4 /\ r \in 0..63 /\ b = 128 + r /\ a = 240 + q /\ q \in Nat
  BY DEF SecondByte
<1>2. s \in 0..63 /\ e = 128 + s /\ t \in 0..63 /\ c = 128 + t
  BY DEF TailByte
<1>3. (q = 0 => r >= 16) /\ (q = 4 => r <= 15)
  BY DEF SecondByte
<1> HIDE DEF q, r, s, t
<1>4. u \in Nat /\ u \div 64 = q /\ u % 64 = r
  BY ONLY <1>1, Sixes
<1>5. 16 <= u /\ u <= 271
  BY ONLY <1>1, <1>3
<1> HIDE DEF u
<1>6. w \in Nat /\ w \div 64 = u /\ w % 64 = t
  BY ONLY <1>2, <1>4, Sixes
<1>7. 1024 <= w /\ w <= 17407
  BY ONLY SMT, <1>2, <1>4, <1>5
<1> HIDE DEF w
<1>8. v \in Nat /\ v \div 64 = w /\ v % 64 = s
  BY ONLY <1>0, <1>2, <1>6, Sixes
<1>9. 65536 <= v /\ v <= 1114111
  BY ONLY SMT, <1>0, <1>2, <1>6, <1>7
<1>10. v \div 4096 = (v \div 64) \div 64 /\ v \div 262144 = ((v \div 64) \div 64) \div 64
  BY ONLY SMT, <1>8, SplitTwice
<1>11. Codes!EncodeUTF8(v) = <<240 + v \div 262144, 128 + ((v \div 4096) % 64), 128 + ((v \div 64) % 64), 128 + (v % 64)>>
  BY ONLY SMT, <1>8, <1>9, EncodeFour DEF Codes!Trail
<1>12. Codes!Scalar(v)
  BY ONLY SMT, <1>8, <1>9 DEF Codes!Scalar, Codes!Surrogate
<1>13. Codes!EncodeUTF8(v) = <<a, b, c, e>>
  BY ONLY SMT, <1>1, <1>2, <1>4, <1>6, <1>8, <1>10, <1>11
<1> QED
  BY ONLY SMT, <1>8, <1>12, <1>13

-----------------------------------------------------------------------------
(* Four bytes                                                              *)

\* A function on 1..n is a sequence of n elements.
LEMMA FunctionIsSeq ==
  ASSUME NEW n \in Nat, NEW S, NEW f \in [1..n -> S]
  PROVE  f \in Seq(S) /\ Len(f) = n
OBVIOUS

\* Four bytes are a source of bytes with these units.
LEMMA FourAre ==
  ASSUME NEW bytes \in [1..4 -> 0..255]
  PROVE  /\ bytes \in Octets /\ Len(bytes) = 4 /\ bytes \in Seq(Nat)
         /\ \A i \in 1..4 : UnitAt(bytes, i) = bytes[i] /\ bytes[i] \in Byte /\ bytes[i] \in Nat
<1>1. bytes \in [1..4 -> Nat] /\ 4 \in Nat
  OBVIOUS
<1>2. bytes \in Seq(Nat) /\ Len(bytes) = 4
  BY ONLY <1>1, FunctionIsSeq
<1>3. \A i \in 1..4 : bytes[i] \in 0..255 /\ bytes[i] \in Nat /\ i <= 4
  OBVIOUS
<1>4. bytes \in Octets
  BY ONLY <1>2, <1>3 DEF Octets, Byte
<1>5. \A i \in 1..4 : UnitAt(bytes, i) = bytes[i] /\ bytes[i] \in Byte
  BY ONLY <1>2, <1>3 DEF UnitAt, Byte
<1> QED
  BY ONLY <1>2, <1>3, <1>4, <1>5

\* The front of length k.
LEMMA FrontIs ==
  ASSUME NEW bytes \in Seq(Nat), NEW k \in 1..4, Len(bytes) >= k
  PROVE  /\ SubSeq(bytes, 1, k) \in Seq(Nat) /\ Len(SubSeq(bytes, 1, k)) = k
         /\ \A i \in 1..k : SubSeq(bytes, 1, k)[i] = bytes[i]
OBVIOUS

\* The sequences that four bytes begin with.
LEMMA Fronts ==
  ASSUME NEW bytes \in Seq(Nat), Len(bytes) = 4
  PROVE  /\ SubSeq(bytes, 1, 1) = <<bytes[1]>>
         /\ SubSeq(bytes, 1, 2) = <<bytes[1], bytes[2]>>
         /\ SubSeq(bytes, 1, 3) = <<bytes[1], bytes[2], bytes[3]>>
         /\ SubSeq(bytes, 1, 4) = <<bytes[1], bytes[2], bytes[3], bytes[4]>>
<1> DEFINE a == bytes[1]
           b == bytes[2]
           c == bytes[3]
           e == bytes[4]
<1>0. a = bytes[1] /\ b = bytes[2] /\ c = bytes[3] /\ e = bytes[4]
  OBVIOUS
<1> HIDE DEF a, b, c, e
<1>1. a \in Nat /\ b \in Nat /\ c \in Nat /\ e \in Nat
  <2>1. \A i \in 1..4 : bytes[i] \in Nat
    BY ONLY bytes \in Seq(Nat), Len(bytes) = 4, ElementOfSeq
  <2>2. 1 \in 1..4 /\ 2 \in 1..4 /\ 3 \in 1..4 /\ 4 \in 1..4
    OBVIOUS
  <2> QED
    BY ONLY <2>1, <2>2, <1>0
<1>2. 1 \in 1..4 /\ 2 \in 1..4 /\ 3 \in 1..4 /\ 4 \in 1..4 /\ \A k \in 1..4 : Len(bytes) >= k
  OBVIOUS
<1>3. ASSUME NEW t \in Seq(Nat), NEW k \in 1..4, Len(t) = k, \A i \in 1..k : t[i] = bytes[i]
      PROVE  SubSeq(bytes, 1, k) = t
  <2>1. /\ SubSeq(bytes, 1, k) \in Seq(Nat) /\ Len(SubSeq(bytes, 1, k)) = k
        /\ \A i \in 1..k : SubSeq(bytes, 1, k)[i] = bytes[i]
    BY ONLY <1>2, k \in 1..4, bytes \in Seq(Nat), FrontIs
  <2> QED
    BY ONLY <1>3, <2>1, SeqEqual
<1>4. SubSeq(bytes, 1, 1) = <<a>>
  <2>1. <<a>> \in Seq(Nat) /\ Len(<<a>>) = 1 /\ \A i \in 1..1 : <<a>>[i] = bytes[i]
    BY ONLY <1>0, <1>1
  <2> QED
    BY ONLY <1>2, <1>3, <2>1
<1>5. SubSeq(bytes, 1, 2) = <<a, b>>
  <2>1. <<a, b>> \in Seq(Nat) /\ Len(<<a, b>>) = 2 /\ \A i \in 1..2 : <<a, b>>[i] = bytes[i]
    BY ONLY <1>0, <1>1
  <2> QED
    BY ONLY <1>2, <1>3, <2>1
<1>6. SubSeq(bytes, 1, 3) = <<a, b, c>>
  <2>1. <<a, b, c>> \in Seq(Nat) /\ Len(<<a, b, c>>) = 3 /\ \A i \in 1..3 : <<a, b, c>>[i] = bytes[i]
    BY ONLY <1>0, <1>1
  <2> QED
    BY ONLY <1>2, <1>3, <2>1
<1>7. SubSeq(bytes, 1, 4) = <<a, b, c, e>>
  <2>1. <<a, b, c, e>> \in Seq(Nat) /\ Len(<<a, b, c, e>>) = 4 /\ \A i \in 1..4 : <<a, b, c, e>>[i] = bytes[i]
    BY ONLY <1>0, <1>1
  <2> QED
    BY ONLY <1>2, <1>3, <2>1
<1> QED
  BY ONLY <1>4, <1>5, <1>6, <1>7 DEF a, b, c, e

\* What is decoded of four bytes is the encoding of a scalar value.
LEMMA DecodedIsEncoded ==
  ASSUME NEW bytes \in [1..4 -> 0..255], Codes!DecodeUTF8(Codes!Stream(bytes)).ok
  PROVE  LET d == Codes!DecodeUTF8(Codes!Stream(bytes))
         IN  Codes!Scalar(d.cp) /\ Codes!EncodeUTF8(d.cp) = SubSeq(bytes, 1, d.in.at - 1)
<1> DEFINE d == Codes!DecodeUTF8(Codes!Stream(bytes))
           a == UnitAt(bytes, 1)
           b == UnitAt(bytes, 2)
           c == UnitAt(bytes, 3)
           e == UnitAt(bytes, 4)
           Said(n, front) == /\ Codes!Scalar(d.cp) /\ Codes!EncodeUTF8(d.cp) = front
                             /\ d.in = Codes!Skip(Codes!Stream(bytes), n)
<1>1. bytes \in Octets /\ bytes \in Seq(Nat) /\ Len(bytes) = 4
  BY FourAre DEF Octets
<1>2. a = bytes[1] /\ b = bytes[2] /\ c = bytes[3] /\ e = bytes[4] /\ a \in Byte
  BY FourAre
<1>f. /\ SubSeq(bytes, 1, 1) = <<bytes[1]>>
      /\ SubSeq(bytes, 1, 2) = <<bytes[1], bytes[2]>>
      /\ SubSeq(bytes, 1, 3) = <<bytes[1], bytes[2], bytes[3]>>
      /\ SubSeq(bytes, 1, 4) = <<bytes[1], bytes[2], bytes[3], bytes[4]>>
      /\ 1 \in 1..4 /\ 2 \in 1..4 /\ 3 \in 1..4 /\ 4 \in 1..4
  BY <1>1, Fronts
<1> HIDE DEF d, a, b, c, e
<1>3. ASSUME NEW n \in 1..4, Said(n, SubSeq(bytes, 1, n))
      PROVE  Codes!Scalar(d.cp) /\ Codes!EncodeUTF8(d.cp) = SubSeq(bytes, 1, d.in.at - 1)
  <2>1. d.in = [src |-> bytes, at |-> n + 1]
    <3>1. n \in Nat /\ n <= Len(bytes)
      BY <1>1
    <3> QED
      BY ONLY <1>1, <1>3, <3>1, StreamIs
  <2>2. d.in.at - 1 = n
    BY ONLY <2>1, n \in 1..4
  <2> QED
    BY ONLY <1>3, <2>2
<1>4. CASE a < 128
  <2>1. d.cp = a /\ d.in = Codes!Skip(Codes!Stream(bytes), 1)
    BY ONLY <1>1, <1>4, DecodeOne DEF d, a
  <2>2. a \in Nat /\ a <= 127
    BY ONLY <1>2, <1>4 DEF Byte
  <2>3. Codes!EncodeUTF8(a) = <<a>>
    BY ONLY <2>2, EncodeOne
  <2>4. Codes!Scalar(a)
    BY ONLY SMT, <2>2 DEF Codes!Scalar, Codes!Surrogate
  <2>5. SubSeq(bytes, 1, 1) = <<a>> /\ 1 \in 1..4
    BY ONLY <1>2, <1>f
  <2>6. Said(1, SubSeq(bytes, 1, 1))
    BY ONLY <2>1, <2>3, <2>4, <2>5
  <2> QED
    BY ONLY <1>3, <2>5, <2>6 DEF d
<1>5. CASE a \in 194..223
  <2>1. d.ok /\ (d.ok <=> TailByte(b)) /\ d.cp = ((a - 192) * 64) + (b % 64) /\ d.in = Codes!Skip(Codes!Stream(bytes), 2)
    BY <1>1, <1>5, DecodeTwo DEF d, a, b
  <2>2. Codes!Scalar(d.cp) /\ Codes!EncodeUTF8(d.cp) = <<a, b>>
    <3>1. TailByte(b)
      BY ONLY <2>1
    <3>2. d.cp = ((a - 192) * 64) + (b % 64)
      BY ONLY <2>1
    <3> QED
      BY ONLY <1>5, <3>1, <3>2, JoinedTwo
  <2>3. SubSeq(bytes, 1, 2) = <<a, b>> /\ 2 \in 1..4
    BY ONLY <1>2, <1>f
  <2>4. Said(2, SubSeq(bytes, 1, 2))
    BY ONLY <2>1, <2>2, <2>3
  <2> QED
    BY ONLY <1>3, <2>3, <2>4 DEF d
<1>6. CASE a \in 224..239
  <2>1. /\ d.ok /\ (d.ok <=> SecondByte(a, b) /\ TailByte(c))
        /\ d.cp = ((((a - 224) * 64) + (b % 64)) * 64) + (c % 64) /\ d.in = Codes!Skip(Codes!Stream(bytes), 3)
    BY <1>1, <1>6, DecodeThree DEF d, a, b, c
  <2>2. Codes!Scalar(d.cp) /\ Codes!EncodeUTF8(d.cp) = <<a, b, c>>
    <3>1. SecondByte(a, b) /\ TailByte(c)
      BY ONLY <2>1
    <3>2. d.cp = ((((a - 224) * 64) + (b % 64)) * 64) + (c % 64)
      BY ONLY <2>1
    <3> QED
      BY ONLY <1>6, <3>1, <3>2, JoinedThree
  <2>3. SubSeq(bytes, 1, 3) = <<a, b, c>> /\ 3 \in 1..4
    BY ONLY <1>2, <1>f
  <2>4. Said(3, SubSeq(bytes, 1, 3))
    BY ONLY <2>1, <2>2, <2>3
  <2> QED
    BY ONLY <1>3, <2>3, <2>4 DEF d
<1>7. CASE a \in 240..244
  <2>1. /\ d.ok /\ (d.ok <=> SecondByte(a, b) /\ TailByte(c) /\ TailByte(e))
        /\ d.cp = ((((((a - 240) * 64) + (b % 64)) * 64) + (c % 64)) * 64) + (e % 64)
        /\ d.in = Codes!Skip(Codes!Stream(bytes), 4)
    BY <1>1, <1>7, DecodeFour DEF d, a, b, c, e
  <2>2. Codes!Scalar(d.cp) /\ Codes!EncodeUTF8(d.cp) = <<a, b, c, e>>
    <3>1. SecondByte(a, b) /\ TailByte(c) /\ TailByte(e)
      BY ONLY <2>1
    <3>2. d.cp = ((((((a - 240) * 64) + (b % 64)) * 64) + (c % 64)) * 64) + (e % 64)
      BY ONLY <2>1
    <3> QED
      BY ONLY <1>7, <3>1, <3>2, JoinedFour
  <2>3. SubSeq(bytes, 1, 4) = <<a, b, c, e>> /\ 4 \in 1..4
    BY ONLY <1>2, <1>f
  <2>4. Said(4, SubSeq(bytes, 1, 4))
    BY ONLY <2>1, <2>2, <2>3
  <2> QED
    BY ONLY <1>3, <2>3, <2>4 DEF d
<1>8. CASE ~(a < 128) /\ a \notin 194..244
  <2>1. d.ok = FALSE
    BY <1>1, <1>8, DecodeNone DEF d, a
  <2>2. d.ok
    BY DEF d
  <2> QED
    BY ONLY <2>1, <2>2
<1>9. a < 128 \/ a \in 194..223 \/ a \in 224..239 \/ a \in 240..244 \/ (~(a < 128) /\ a \notin 194..244)
  BY ONLY <1>2 DEF Byte
<1> QED
  BY ONLY <1>4, <1>5, <1>6, <1>7, <1>8, <1>9

\* What is not decoded does not begin with the encoding of one.
LEMMA NothingIsMissed ==
  ASSUME NEW bytes \in [1..4 -> 0..255], ~Codes!DecodeUTF8(Codes!Stream(bytes)).ok, NEW k \in 1..4, NEW v
  PROVE  ~(Codes!Scalar(v) /\ Codes!EncodeUTF8(v) = SubSeq(bytes, 1, k))
<1> SUFFICES ASSUME Codes!Scalar(v), Codes!EncodeUTF8(v) = SubSeq(bytes, 1, k) PROVE FALSE
  OBVIOUS
<1>1. bytes \in Octets /\ Len(bytes) = 4 /\ bytes \in Seq(Nat)
  BY FourAre
<1>2. Begins(bytes, SubSeq(bytes, 1, k))
  BY <1>1, FrontIs DEF Begins
<1>3. PICK n \in 1..4 : DecodesTo(bytes, v, n)
  BY ONLY <1>1, <1>2, Codes!Scalar(v), Codes!EncodeUTF8(v) = SubSeq(bytes, 1, k), EncodedIsDecoded
<1>4. Codes!DecodeUTF8(Codes!Stream(bytes)).ok
  BY ONLY <1>3 DEF DecodesTo, Codes!Decoded
<1> QED
  BY <1>4

\* Of any four bytes Decode accepts exactly the shortest code of a scalar value.
LEMMA FourAreDecoded ==
  ASSUME NEW bytes \in [1..4 -> 0..255]
  PROVE  Codes!DecodesExactly(bytes)
BY DecodedIsEncoded, NothingIsMissed DEF Codes!DecodesExactly

-----------------------------------------------------------------------------
(* The units of a scalar value                                             *)

\* Units that are decoded to v, and copied by Validate, whole.
ComesBack(enc, units, v) ==
  /\ Codes!Decode(enc, Codes!Stream(units)) = Codes!Decoded(TRUE, v, [src |-> units, at |-> Len(units) + 1])
  /\ Codes!Validate(enc, Codes!Stream(units)) = {Codes!Put(units, [src |-> units, at |-> Len(units) + 1])}

\* All units of a source, taken together.
LEMMA AllTaken ==
  ASSUME NEW units \in Seq(Nat)
  PROVE  LET in == Codes!Stream(units)
         IN  /\ Codes!Taken(in, Len(units)) = units
             /\ Codes!Skip(in, Len(units)) = [src |-> units, at |-> Len(units) + 1]
<1> DEFINE n == Len(units)
<1>1. n \in Nat /\ units = [i \in 1..n |-> units[i]]
  OBVIOUS
<1>2. Codes!Taken(Codes!Stream(units), n) = [i \in 1..n |-> UnitAt(units, i)]
  BY <1>1, TakenFirst
<1>3. \A i \in 1..n : UnitAt(units, i) = units[i]
  BY <1>1 DEF UnitAt
<1>4. Codes!Skip(Codes!Stream(units), n) = [src |-> units, at |-> n + 1]
  BY <1>1, StreamIs
<1> HIDE DEF n
<1>5. [i \in 1..n |-> UnitAt(units, i)] = [i \in 1..n |-> units[i]]
  BY ONLY <1>3
<1> QED
  BY ONLY <1>1, <1>2, <1>4, <1>5 DEF n

\* Validate copies as many units as it looks at.
LEMMA AllValidated ==
  ASSUME NEW enc \in Codes!Encodings, NEW units \in Seq(Nat), NEW v, NEW n, n = Len(units),
         n = (CASE enc = "UTF8"  -> 1 + Len(Codes!Tails(Codes!GetRange(UnitAt(units, 1))))
                [] enc = "UTF16" -> IF Codes!HighSurrogate(UnitAt(units, 1)) THEN 2 ELSE 1
                [] OTHER         -> 1),
         Codes!Decode(enc, Codes!Stream(units)) = Codes!Decoded(TRUE, v, Codes!Skip(Codes!Stream(units), n))
  PROVE  ComesBack(enc, units, v)
<1> DEFINE in == Codes!Stream(units)
           to == [src |-> units, at |-> Len(units) + 1]
<1>1. Codes!Taken(in, n) = units /\ Codes!Skip(in, n) = to
  BY AllTaken
<1>2. Codes!Peek(in) = UnitAt(units, 1)
  BY PeekIs
<1>3. Codes!Decode(enc, in).ok
  BY ONLY Codes!Decode(enc, Codes!Stream(units)) = Codes!Decoded(TRUE, v, Codes!Skip(Codes!Stream(units), n))
     DEF Codes!Decoded
<1> HIDE DEF in, to
<1>4. n = CASE enc = "UTF8"  -> 1 + Len(Codes!Tails(Codes!GetRange(Codes!Peek(in))))
            [] enc = "UTF16" -> IF Codes!HighSurrogate(Codes!Peek(in)) THEN 2 ELSE 1
            [] OTHER         -> 1
  BY <1>2
<1>5. Codes!Validate(enc, in) = {Codes!Put(Codes!Taken(in, n), Codes!Skip(in, n))}
  BY ONLY <1>3, <1>4 DEF Codes!Validate
<1>6. Codes!Validate(enc, in) = {Codes!Put(units, to)}
  BY ONLY <1>1, <1>5
<1>7. Codes!Decode(enc, in) = Codes!Decoded(TRUE, v, to)
  BY <1>1 DEF in
<1> QED
  BY ONLY <1>6, <1>7 DEF ComesBack, in, to

\* How many bytes follow a first byte.
LEMMA TailsOf ==
  ASSUME NEW a \in Byte
  PROVE  /\ a < 128 => 1 + Len(Codes!Tails(Codes!GetRange(a))) = 1
         /\ a \in 194..223 => 1 + Len(Codes!Tails(Codes!GetRange(a))) = 2
         /\ a \in 224..239 => 1 + Len(Codes!Tails(Codes!GetRange(a))) = 3
         /\ a \in 240..244 => 1 + Len(Codes!Tails(Codes!GetRange(a))) = 4
<1>1. /\ 1 + Len(Codes!Tails(0)) = 1 /\ 1 + Len(Codes!Tails(2)) = 2
      /\ 1 + Len(Codes!Tails(3)) = 3 /\ 1 + Len(Codes!Tails(4)) = 3 /\ 1 + Len(Codes!Tails(10)) = 3
      /\ 1 + Len(Codes!Tails(5)) = 4 /\ 1 + Len(Codes!Tails(6)) = 4 /\ 1 + Len(Codes!Tails(11)) = 4
  BY DEF Codes!Tails
<1>2. a < 128 => Codes!GetRange(a) = 0
  BY DEF Codes!GetRange, Byte
<1>3. /\ a \in 194..223 => Codes!GetRange(a) = 2
      /\ a \in 225..239 /\ a # 237 => Codes!GetRange(a) = 3
      /\ a = 237 => Codes!GetRange(a) = 4
      /\ a = 244 => Codes!GetRange(a) = 5
      /\ a \in 241..243 => Codes!GetRange(a) = 6
      /\ a = 224 => Codes!GetRange(a) = 10
      /\ a = 240 => Codes!GetRange(a) = 11
  BY RangeOfLead
<1>4. a \in 224..239 => (a \in 225..239 /\ a # 237) \/ a = 237 \/ a = 224
  BY DEF Byte
<1>5. a \in 240..244 => a = 244 \/ a \in 241..243 \/ a = 240
  BY DEF Byte
<1>6. a < 128 => 1 + Len(Codes!Tails(Codes!GetRange(a))) = 1
  BY ONLY <1>1, <1>2
<1>7. a \in 194..223 => 1 + Len(Codes!Tails(Codes!GetRange(a))) = 2
  BY ONLY <1>1, <1>3
<1>8. a \in 224..239 => 1 + Len(Codes!Tails(Codes!GetRange(a))) = 3
  BY ONLY <1>1, <1>3, <1>4
<1>9. a \in 240..244 => 1 + Len(Codes!Tails(Codes!GetRange(a))) = 4
  BY ONLY <1>1, <1>3, <1>5
<1> QED
  BY ONLY <1>6, <1>7, <1>8, <1>9

\* The bytes of a scalar value begin with a byte that tells how many they are.
LEMMA BytesOf ==
  ASSUME NEW v, Codes!Scalar(v)
  PROVE  LET units == Codes!EncodeUTF8(v)
         IN  /\ units \in Octets
             /\ Len(units) = 1 + Len(Codes!Tails(Codes!GetRange(UnitAt(units, 1))))
<1> DEFINE units == Codes!EncodeUTF8(v)
           Said == units \in Octets /\ Len(units) = 1 + Len(Codes!Tails(Codes!GetRange(UnitAt(units, 1))))
<1>1. v \in Nat /\ v <= 1114111 /\ ~Codes!Surrogate(v)
  BY SMT DEF Codes!Scalar
<1>2. CASE v <= 127
  <2>1. units = <<v>> /\ v \in Nat
    BY ONLY SMT, <1>1, <1>2, EncodeOne
  <2>2. v \in Byte /\ v < 128
    BY ONLY <1>2, <2>1 DEF Byte
  <2> HIDE DEF units
  <2>3. units \in Octets /\ Len(units) = 1 /\ UnitAt(units, 1) = v
    BY ONLY <2>1, <2>2 DEF Octets, UnitAt, Byte
  <2>4. 1 + Len(Codes!Tails(Codes!GetRange(v))) = 1
    BY ONLY <2>2, TailsOf
  <2>5. units \in Octets /\ Len(units) = 1 + Len(Codes!Tails(Codes!GetRange(UnitAt(units, 1))))
    BY ONLY <2>3, <2>4
  <2> QED
    BY ONLY <2>5 DEF units
<1>3. CASE 128 <= v /\ v <= 2047
  <2> DEFINE a == 192 + (v \div 64)
             b == 128 + (v % 64)
  <2>1. units = <<a, b>> /\ a \in 194..223 /\ b \in 128..191
    BY ONLY SMT, <1>1, <1>3, TwoBytes
  <2> HIDE DEF units, a, b
  <2>2. units \in Octets /\ Len(units) = 2 /\ UnitAt(units, 1) = a
    BY ONLY <2>1 DEF Octets, UnitAt, Byte
  <2>3. 1 + Len(Codes!Tails(Codes!GetRange(a))) = 2
    <3>1. a \in Byte
      BY ONLY <2>1 DEF Byte
    <3> QED
      BY ONLY <2>1, <3>1, TailsOf
  <2>5. units \in Octets /\ Len(units) = 1 + Len(Codes!Tails(Codes!GetRange(UnitAt(units, 1))))
    BY ONLY <2>2, <2>3
  <2> QED
    BY ONLY <2>5 DEF units
<1>4. CASE 2048 <= v /\ v <= 65535
  <2> DEFINE a == 224 + ((v \div 64) \div 64)
             b == 128 + ((v \div 64) % 64)
             c == 128 + (v % 64)
  <2>1. units = <<a, b, c>> /\ a \in 224..239 /\ SecondByte(a, b) /\ TailByte(c)
    BY ONLY SMT, <1>1, <1>4, ThreeBytes
  <2> HIDE DEF units, a, b, c
  <2>2. a \in Byte /\ b \in Byte /\ c \in Byte
    BY ONLY <2>1 DEF Byte, SecondByte, TailByte
  <2>3. units \in Octets /\ Len(units) = 3 /\ UnitAt(units, 1) = a
    BY ONLY <2>1, <2>2 DEF Octets, UnitAt, Byte
  <2>4. 1 + Len(Codes!Tails(Codes!GetRange(a))) = 3
    BY ONLY <2>1, <2>2, TailsOf
  <2>5. units \in Octets /\ Len(units) = 1 + Len(Codes!Tails(Codes!GetRange(UnitAt(units, 1))))
    BY ONLY <2>3, <2>4
  <2> QED
    BY ONLY <2>5 DEF units
<1>5. CASE 65536 <= v /\ v <= 1114111
  <2> DEFINE a == 240 + (((v \div 64) \div 64) \div 64)
             b == 128 + (((v \div 64) \div 64) % 64)
             c == 128 + ((v \div 64) % 64)
             e == 128 + (v % 64)
  <2>1. units = <<a, b, c, e>> /\ a \in 240..244 /\ SecondByte(a, b) /\ TailByte(c) /\ TailByte(e)
    BY ONLY SMT, <1>1, <1>5, FourBytes
  <2> HIDE DEF units, a, b, c, e
  <2>2. a \in Byte /\ b \in Byte /\ c \in Byte /\ e \in Byte
    BY ONLY <2>1 DEF Byte, SecondByte, TailByte
  <2>3. units \in Octets /\ Len(units) = 4 /\ UnitAt(units, 1) = a
    BY ONLY <2>1, <2>2 DEF Octets, UnitAt, Byte
  <2>4. 1 + Len(Codes!Tails(Codes!GetRange(a))) = 4
    BY ONLY <2>1, <2>2, TailsOf
  <2>5. units \in Octets /\ Len(units) = 1 + Len(Codes!Tails(Codes!GetRange(UnitAt(units, 1))))
    BY ONLY <2>3, <2>4
  <2> QED
    BY ONLY <2>5 DEF units
<1> QED
  BY ONLY SMT, <1>1, <1>2, <1>3, <1>4, <1>5

\* A scalar value comes back from UTF-8, decoded or validated.
LEMMA UTF8ComesBack ==
  ASSUME NEW v, Codes!Scalar(v)
  PROVE  ComesBack("UTF8", Codes!EncodeUTF8(v), v)
<1> DEFINE units == Codes!EncodeUTF8(v)
<1>1. units \in Octets /\ Len(units) = 1 + Len(Codes!Tails(Codes!GetRange(UnitAt(units, 1))))
  BY BytesOf
<1>2. units \in Seq(Nat) /\ Begins(units, units)
  <2>1. Len(units) \in Nat
    BY <1>1 DEF Octets
  <2> QED
    BY <1>1, <2>1 DEF Octets, Begins
<1>3. PICK k \in 1..4 : DecodesTo(units, v, k)
  BY ONLY <1>1, <1>2, Codes!Scalar(v), EncodedIsDecoded
<1>4. Codes!Decode("UTF8", Codes!Stream(units)) = Codes!Decoded(TRUE, v, Codes!Skip(Codes!Stream(units), Len(units)))
  BY ONLY <1>3 DEF DecodesTo, Codes!Decode
<1>5. "UTF8" \in Codes!Encodings
  BY DEF Codes!Encodings
<1> HIDE DEF units
<1>6. ComesBack("UTF8", units, v)
  BY ONLY <1>1, <1>2, <1>4, <1>5, AllValidated
<1> QED
  BY ONLY <1>6 DEF units

\* The pair of a code point beyond the first 65536.
Paired(v) == v \in Nat /\ 65536 <= v /\ v <= 1114111
IsPair(units, v, h, l) == /\ h <= 1023 /\ l <= 1023
                          /\ units = <<55296 + h, 56320 + l>> /\ v = ((h * 1024) + l) + 65536

\* A code above the first plane is a pair of surrogates with ten bits each.
LEMMA PairOfCode ==
  ASSUME NEW v, Paired(v)
  PROVE  \E h, l \in Nat : IsPair(Codes!EncodeUTF16(v), v, h, l)
<1> DEFINE w == v - 65536
           h == w \div 1024
           l == w % 1024
<1>1. v \in Nat /\ w \in Nat /\ w < 1048576 /\ v = w + 65536 /\ ~(v <= 65535)
  BY SMT DEF Paired
<1>2. Codes!EncodeUTF16(v) = <<55296 + h, 56320 + l>>
  BY ONLY SMT, <1>1 DEF Codes!EncodeUTF16
<1> HIDE DEF w
<1>3. h \in 0..1023 /\ l \in 0..1023 /\ w = (h * 1024) + l
  BY ONLY SMT, <1>1
<1> HIDE DEF h, l
<1>4. v = ((h * 1024) + l) + 65536
  BY ONLY SMT, <1>1, <1>3
<1>5. IsPair(Codes!EncodeUTF16(v), v, h, l) /\ h \in Nat /\ l \in Nat
  BY ONLY SMT, <1>2, <1>3, <1>4 DEF IsPair
<1> QED
  BY ONLY <1>5

\* A scalar value comes back from UTF-16, decoded or validated.
LEMMA UTF16ComesBack ==
  ASSUME NEW v, Codes!Scalar(v)
  PROVE  ComesBack("UTF16", Codes!EncodeUTF16(v), v)
<1> DEFINE units == Codes!EncodeUTF16(v)
           in == Codes!Stream(units)
<1>1. v \in Nat /\ v <= 1114111 /\ ~Codes!Surrogate(v)
  BY SMT DEF Codes!Scalar
<1>2. "UTF16" \in Codes!Encodings
  BY DEF Codes!Encodings
<1>3. CASE v <= 65535
  <2>1. units = <<v>>
    BY ONLY SMT, <1>1, <1>3 DEF Codes!EncodeUTF16
  <2> HIDE DEF units
  <2>2. units \in Seq(Nat) /\ Len(units) = 1 /\ UnitAt(units, 1) = v
    BY ONLY SMT, <1>1, <2>1 DEF UnitAt
  <2>3. Codes!Peek(in) = v
    BY ONLY <2>2, PeekIs
  <2>4. ~Codes!HighSurrogate(v) /\ ~Codes!LowSurrogate(v)
    BY ONLY SMT, <1>1 DEF Codes!HighSurrogate, Codes!LowSurrogate, Codes!Surrogate
  <2>5. Codes!Decode("UTF16", in) = Codes!DecodeUTF16(in)
    BY DEF Codes!Decode
  <2>6. Codes!DecodeUTF16(in) = Codes!Decoded(TRUE, v, Codes!Skip(in, 1))
    BY ONLY <1>1, <2>3, <2>4 DEF Codes!DecodeUTF16
  <2>7. ComesBack("UTF16", units, v)
    BY ONLY <1>2, <2>2, <2>4, <2>5, <2>6, AllValidated
  <2> QED
    BY ONLY <2>7 DEF units
<1>4. CASE 65536 <= v
  <2>0. Paired(v)
    BY ONLY SMT, <1>1, <1>4 DEF Paired
  <2>1. PICK h \in Nat, l \in Nat : IsPair(units, v, h, l)
    BY ONLY <2>0, PairOfCode
  <2> DEFINE a == 55296 + h
             b == 56320 + l
  <2>2. h <= 1023 /\ l <= 1023 /\ a \in Nat /\ b \in Nat /\ a % 1024 = h /\ b % 1024 = l
    BY SMT, <2>1 DEF IsPair
  <2>3. Codes!HighSurrogate(a) /\ Codes!Surrogate(a) /\ Codes!LowSurrogate(b) /\ ~Codes!LowSurrogate(a)
    BY SMT, <2>2 DEF Codes!HighSurrogate, Codes!LowSurrogate, Codes!Surrogate
  <2>4. units = <<a, b>>
    BY ONLY SMT, <2>1 DEF IsPair
  <2>5. v = ((a % 1024) * 1024) + (b % 1024) + 65536
    BY ONLY SMT, <2>1, <2>2 DEF IsPair
  <2> HIDE DEF units, a, b
  <2>6. units \in Seq(Nat) /\ Len(units) = 2 /\ UnitAt(units, 1) = a /\ UnitAt(units, 1 + 1) = b
    BY ONLY SMT, <2>2, <2>4 DEF UnitAt
  <2>7. Codes!Peek(in) = a /\ Codes!Peek(Codes!Skip(in, 1)) = b
    <3>1. 1 \in Nat
      OBVIOUS
    <3> QED
      BY ONLY <2>6, <3>1, PeekIs, StreamIs
  <2>8. Codes!Decode("UTF16", in) = Codes!DecodeUTF16(in)
    BY DEF Codes!Decode
  <2>9. Codes!DecodeUTF16(in) = Codes!Decoded(TRUE, v, Codes!Skip(in, 2))
    <3> DEFINE cp == ((a % 1024) * 1024) + (b % 1024) + 65536
               ok == Codes!LowSurrogate(b)
    <3>1. Codes!DecodeUTF16(in) = Codes!Decoded(ok, cp, Codes!Skip(in, 2))
      <4>1. Codes!HighSurrogate(a) = TRUE /\ Codes!Surrogate(a) = TRUE /\ Codes!LowSurrogate(a) = FALSE
        <5>1. Codes!HighSurrogate(a) \in BOOLEAN /\ Codes!Surrogate(a) \in BOOLEAN /\ Codes!LowSurrogate(a) \in BOOLEAN
          BY ONLY SMT DEF Codes!HighSurrogate, Codes!Surrogate, Codes!LowSurrogate
        <5> QED
          BY ONLY <2>3, <5>1
      <4> HIDE DEF in
      <4> QED
        BY ONLY <2>7, <4>1 DEF Codes!DecodeUTF16
    <3>2. ok = TRUE
      <4>1. ok \in BOOLEAN
        BY ONLY SMT DEF Codes!LowSurrogate
      <4> QED
        BY ONLY <2>3, <4>1
    <3>3. cp = v
      BY ONLY SMT, <2>5
    <3> HIDE DEF cp, ok
    <3> QED
      BY ONLY <3>1, <3>2, <3>3
  <2>10. ComesBack("UTF16", units, v)
    BY ONLY <1>2, <2>3, <2>6, <2>8, <2>9, AllValidated
  <2> QED
    BY ONLY <2>10 DEF units
<1> QED
  BY ONLY SMT, <1>1, <1>3, <1>4

\* One unit, in the other two.
LEMMA OneComesBack ==
  ASSUME NEW v, Codes!Scalar(v), NEW enc, enc = "UTF32" \/ (enc = "ASCII" /\ v < 128)
  PROVE  ComesBack(enc, <<v>>, v)
<1> DEFINE units == <<v>>
           in == Codes!Stream(units)
<1>1. v \in Nat /\ v <= 1114111
  BY SMT DEF Codes!Scalar
<1>2. enc \in Codes!Encodings /\ enc # "UTF8" /\ enc # "UTF16"
  BY DEF Codes!Encodings
<1>3. units \in Seq(Nat) /\ Len(units) = 1 /\ UnitAt(units, 1) = v
  BY ONLY SMT, <1>1 DEF UnitAt
<1> HIDE DEF units
<1>4. Codes!Peek(in) = v
  BY ONLY <1>3, PeekIs
<1>5. Codes!Decode(enc, in) = Codes!Decoded(TRUE, v, Codes!Skip(in, 1))
  <2> DEFINE ok == Codes!Peek(in) <= IF enc = "UTF32" THEN 1114111 ELSE 127
  <2>1. Codes!Decode(enc, in) = Codes!Decoded(ok, Codes!Peek(in), Codes!Skip(in, 1))
    <3>1. CASE enc = "UTF32"
      BY ONLY SMT, <3>1 DEF Codes!Decode
    <3>2. CASE enc = "ASCII"
      BY ONLY SMT, <3>2 DEF Codes!Decode
    <3> QED
      BY <3>1, <3>2
  <2>2. ok = TRUE
    BY ONLY SMT, <1>1, <1>4, enc = "UTF32" \/ (enc = "ASCII" /\ v < 128)
  <2> HIDE DEF ok
  <2> QED
    BY ONLY <1>4, <2>1, <2>2
<1>6. ComesBack(enc, units, v)
  BY ONLY <1>2, <1>3, <1>5, AllValidated
<1> QED
  BY ONLY <1>6 DEF units

\* A text of scalar values comes back from every encoding.
LEMMA AllComeBack ==
  ASSUME NEW text, \A i \in DOMAIN text : Codes!Scalar(text[i])
  PROVE  Codes!UnitsComeBack(text)
<1> SUFFICES ASSUME NEW i \in DOMAIN text, NEW enc \in Codes!Encodings, enc # "ASCII" \/ text[i] < 128
             PROVE  ComesBack(enc, Codes!Encode(enc, text[i]), text[i])
  BY DEF Codes!UnitsComeBack, ComesBack
<1>1. Codes!Scalar(text[i])
  OBVIOUS
<1>2. enc = "UTF8" \/ enc = "UTF16" \/ enc = "UTF32" \/ (enc = "ASCII" /\ text[i] < 128)
  BY DEF Codes!Encodings
<1>3. /\ Codes!Encode("UTF8", text[i]) = Codes!EncodeUTF8(text[i])
      /\ Codes!Encode("UTF16", text[i]) = Codes!EncodeUTF16(text[i])
      /\ Codes!Encode("UTF32", text[i]) = <<text[i]>>
      /\ Codes!Encode("ASCII", text[i]) = <<text[i]>>
  BY DEF Codes!Encode
<1> QED
  BY ONLY <1>1, <1>2, <1>3, UTF8ComesBack, UTF16ComesBack, OneComesBack

-----------------------------------------------------------------------------
(* The encodings: theorem                                                  *)

CodesAreSound == (Of("bytes") => x[1] \in Bytes) /\ (Of("points") => x[1] \in Points)

\* The inputs of the encodings are bytes, and texts of scalar values.
LEMMA CodesSoundness == PartsSpec => []CodesAreSound
<1>1. PartsInit => CodesAreSound
  BY DEF PartsInit, MemoryInit, CodesAreSound, Of
<1>2. CodesAreSound /\ [PartsNext]_<<unit, x>> => CodesAreSound'
  <2> SUFFICES ASSUME CodesAreSound, [PartsNext]_<<unit, x>>, unit' = "bytes" \/ unit' = "points", x' # <<>>
               PROVE  (unit' = "bytes" => x'[1] \in Bytes) /\ (unit' = "points" => x'[1] \in Points)
    BY DEF CodesAreSound, Of
  <2>1. CASE UNCHANGED <<unit, x>>
    BY <2>1 DEF CodesAreSound, Of
  <2>2. CASE MemoryNext
    BY <2>2 DEF MemoryNext
  <2>3. CASE unit' = unit /\ \E i \in InputsOf[unit] : x' = <<i>>
    <3>1. PICK i \in InputsOf[unit] : x' = <<i>>
      BY <2>3
    <3>2. InputsOf["bytes"] = Bytes /\ InputsOf["points"] = Points
      BY DEF InputsOf
    <3> QED
      BY <2>3, <3>1, <3>2
  <2> QED
    BY <2>1, <2>2, <2>3 DEF PartsNext
<1> QED
  BY <1>1, <1>2, PTL DEF PartsSpec

\* Of any four bytes the first are decoded exactly when they are the shortest encoding of a scalar
\* value, and to that value; and any text comes back from every encoding, decoded or only copied.
THEOREM CodesAlwaysComeBack == PartsSpec => []CodesComeBack
<1>1. CodesAreSound => CodesComeBack
  <2> SUFFICES ASSUME CodesAreSound PROVE DecodesExactly /\ UnitsComeBack
    BY DEF CodesComeBack
  <2>1. DecodesExactly
    <3> SUFFICES ASSUME Of("bytes") PROVE Codes!DecodesExactly(x[1])
      BY DEF DecodesExactly
    <3>1. x[1] \in [1..4 -> 0..255]
      BY CodesAssumption DEF CodesAreSound
    <3> QED
      BY ONLY <3>1, FourAreDecoded
  <2>2. UnitsComeBack
    <3> SUFFICES ASSUME Of("points") PROVE Codes!UnitsComeBack(x[1])
      BY DEF UnitsComeBack
    <3>1. \A i \in DOMAIN x[1] : Codes!Scalar(x[1][i])
      BY CodesAssumption DEF CodesAreSound
    <3> QED
      BY ONLY <3>1, AllComeBack
  <2> QED
    BY <2>1, <2>2
<1> QED
  BY CodesSoundness, <1>1, PTL

=============================================================================
