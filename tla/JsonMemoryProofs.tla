-------------------------- MODULE JsonMemoryProofs --------------------------
(***************************************************************************)
(* Proofs about module JsonMemory.  Every block of a document has one      *)
(* owner, by the lemmas of JsonDomProofs; the blocks of the pool never     *)
(* overlap, whatever the alignment, the capacities and the sizes asked     *)
(* for; a reader stands at the next character of its file, a writer has    *)
(* put what it was given, a string buffer holds its text, whatever the     *)
(* sizes of the buffers and the lengths of the texts.                      *)
(***************************************************************************)
EXTENDS JsonDomProofs, FiniteSets, FiniteSetTheorems, SequenceTheorems

-----------------------------------------------------------------------------
(* The inductive invariant, of a pool p                                    *)

Cells  == UNION {[1..n -> Nat \X Nat] : n \in Nat}
Chunks == [capacity : Nat, size : Nat, cell : Cells]
Blocks == [chunk : Nat, at : Nat, size : Nat \ {0}]
Pools  == [user : BOOLEAN, chunks : Seq(Chunks), blocks : Seq(Blocks), held : Int]

\* A chunk has its cells, and gives no more than it has.
Fitting(p) == \A c \in DOMAIN p.chunks :
  /\ p.chunks[c].size <= p.chunks[c].capacity
  /\ p.chunks[c].cell \in [1..p.chunks[c].capacity -> Nat \X Nat]

\* A block lies in what its chunk has given.
Inside(p) == \A k \in DOMAIN p.blocks :
  /\ p.blocks[k].chunk \in DOMAIN p.chunks
  /\ p.blocks[k].at + Pool!Rounded(p.blocks[k].size) <= p.chunks[p.blocks[k].chunk].size

\* No two blocks share a cell.
Apart(p) == \A j, k \in DOMAIN p.blocks :
  j # k /\ p.blocks[j].chunk = p.blocks[k].chunk =>
    \/ p.blocks[j].at + Pool!Rounded(p.blocks[j].size) <= p.blocks[k].at
    \/ p.blocks[k].at + Pool!Rounded(p.blocks[k].size) <= p.blocks[j].at

\* Every block has what was written to it, but block k, of which that is so only
\* before cell `first`.
IntactBut(p, k, first) == \A j \in DOMAIN p.blocks : \A i \in 1..p.blocks[j].size :
  j # k \/ i < first => p.chunks[p.blocks[j].chunk].cell[p.blocks[j].at + i] = <<j, i>>

Counted(p) == /\ p.held = Len(p.chunks) - (IF p.user THEN 1 ELSE 0)
              /\ p.user => p.chunks # <<>>

Laid(p) == p \in Pools /\ Fitting(p) /\ Inside(p) /\ Apart(p) /\ Counted(p)

Sound(p) == Laid(p) /\ IntactBut(p, 0, 0)

\* A size is rounded up, never down (RAPIDJSON_ALIGN).
LEMMA RoundedUp ==
  ASSUME NEW n \in Nat
  PROVE  Pool!Rounded(n) \in Nat /\ n <= Pool!Rounded(n)
<1> DEFINE m == n + Align - 1
<1>1. m \in Nat /\ Align \in Nat /\ Align > 0
  BY MemoryAssumption
<1>2. m \div Align \in Nat /\ m = Align * (m \div Align) + (m % Align) /\ m % Align \in 0..(Align - 1)
  BY <1>1
<1> QED
  BY <1>1, <1>2 DEF Pool!Rounded

\* The parts of a pool and their types.
LEMMA PoolTypes ==
  ASSUME NEW p \in Pools
  PROVE  /\ p.user \in BOOLEAN /\ p.chunks \in Seq(Chunks) /\ p.blocks \in Seq(Blocks) /\ p.held \in Int
         /\ \A c \in DOMAIN p.chunks : /\ p.chunks[c] \in Chunks
                                       /\ p.chunks[c].size \in Nat
                                       /\ p.chunks[c].capacity \in Nat
         /\ \A k \in DOMAIN p.blocks : /\ p.blocks[k] \in Blocks
                                       /\ p.blocks[k].chunk \in Nat
                                       /\ p.blocks[k].at \in Nat
                                       /\ p.blocks[k].size \in Nat \ {0}
<1>1. /\ p.user \in BOOLEAN /\ p.chunks \in Seq(Chunks) /\ p.blocks \in Seq(Blocks) /\ p.held \in Int
  BY DEF Pools
<1>2. \A c \in DOMAIN p.chunks : p.chunks[c] \in Chunks
  BY <1>1
<1>3. \A k \in DOMAIN p.blocks : p.blocks[k] \in Blocks
  BY <1>1
<1> QED
  BY <1>1, <1>2, <1>3 DEF Chunks, Blocks

\* A chunk of any length has cells.
LEMMA CellsOf ==
  ASSUME NEW n \in Nat, NEW f \in [1..n -> Nat \X Nat]
  PROVE  f \in Cells
BY DEF Cells

-----------------------------------------------------------------------------
(* A pool that has given more                                              *)

\* Pool q has the chunks of p, with their cells, and has given no less of each.
Grown(p, q) ==
  /\ q.blocks = p.blocks
  /\ DOMAIN p.chunks \subseteq DOMAIN q.chunks
  /\ \A c \in DOMAIN p.chunks : /\ q.chunks[c].cell = p.chunks[c].cell
                                /\ p.chunks[c].size <= q.chunks[c].size

\* Giving more cells leaves the blocks where and what they are.
LEMMA GrownKeeps ==
  ASSUME NEW p, NEW q, Sound(p), q \in Pools, Fitting(q), Counted(q), Grown(p, q)
  PROVE  Sound(q)
<1>1. Inside(q)
  <2> SUFFICES ASSUME NEW k \in DOMAIN q.blocks
               PROVE  /\ q.blocks[k].chunk \in DOMAIN q.chunks
                      /\ q.blocks[k].at + Pool!Rounded(q.blocks[k].size) <= q.chunks[q.blocks[k].chunk].size
    BY DEF Inside
  <2>1. p \in Pools /\ k \in DOMAIN p.blocks /\ q.blocks[k] = p.blocks[k]
    BY DEF Grown, Sound, Laid
  <2>2. /\ p.blocks[k].at \in Nat /\ Pool!Rounded(p.blocks[k].size) \in Nat
        /\ p.blocks[k].chunk \in DOMAIN p.chunks
        /\ p.blocks[k].at + Pool!Rounded(p.blocks[k].size) <= p.chunks[p.blocks[k].chunk].size
    <3>1. p.blocks[k].at \in Nat /\ p.blocks[k].size \in Nat
      BY <2>1, PoolTypes
    <3>2. Pool!Rounded(p.blocks[k].size) \in Nat
      BY <3>1, RoundedUp, SMTT(40)
    <3> QED
      BY <2>1, <3>1, <3>2 DEF Sound, Laid, Inside
  <2>3. /\ p.chunks[p.blocks[k].chunk].size \in Nat
        /\ p.blocks[k].chunk \in DOMAIN q.chunks
        /\ q.chunks[p.blocks[k].chunk].size \in Nat
        /\ p.chunks[p.blocks[k].chunk].size <= q.chunks[p.blocks[k].chunk].size
    BY <2>1, <2>2, PoolTypes DEF Grown
  <2> QED
    BY <2>1, <2>2, <2>3
<1>2. Apart(q)
  BY DEF Sound, Laid, Apart, Grown
<1>3. IntactBut(q, 0, 0)
  BY Zenon DEF Sound, Laid, IntactBut, Inside, Grown
<1> QED
  BY <1>1, <1>2, <1>3 DEF Sound, Laid

\* The next `size` cells of the chunk that serves allocation are given.
LEMMA TakeGrows ==
  ASSUME NEW p \in Pools, Fitting(p), Counted(p), NEW size \in Nat, Pool!Fits(p, size)
  PROVE  LET t == Pool!Take(p, size)
             c == Len(p.chunks)
         IN  /\ t.pool \in Pools /\ Fitting(t.pool) /\ Counted(t.pool) /\ Grown(p, t.pool)
             /\ c \in DOMAIN p.chunks /\ t.chunk = c
             /\ t.at = p.chunks[c].size
             /\ t.pool.chunks[c].size = t.at + size
             /\ \A d \in DOMAIN p.chunks \ {c} : t.pool.chunks[d] = p.chunks[d]
<1> DEFINE c  == Len(p.chunks)
           q  == [p EXCEPT !.chunks[c].size = @ + size]
<1>1. /\ p.chunks \in Seq(Chunks) /\ c \in 1..Len(p.chunks) /\ p.chunks[c] \in Chunks
      /\ Pool!Last(p.chunks) = p.chunks[c]
      /\ p.chunks[c].size + size <= p.chunks[c].capacity
  BY DEF Pool!Fits, Pools, Pool!Last
<1>2. Pool!Take(p, size) = [pool |-> q, chunk |-> c, at |-> p.chunks[c].size]
  BY <1>1 DEF Pool!Take, Pool!Place, Pools
<1>3. /\ q \in Pools /\ q.blocks = p.blocks /\ q.user = p.user /\ q.held = p.held
      /\ DOMAIN q.chunks = DOMAIN p.chunks /\ Len(q.chunks) = Len(p.chunks)
      /\ q.chunks[c] = [p.chunks[c] EXCEPT !.size = @ + size]
      /\ \A d \in DOMAIN p.chunks \ {c} : q.chunks[d] = p.chunks[d]
  <2> DEFINE s == [p.chunks EXCEPT ![c] = [p.chunks[c] EXCEPT !.size = @ + size]]
  <2>1. q = [p EXCEPT !.chunks = s]
    BY DEF Pools
  <2>2. [p.chunks[c] EXCEPT !.size = @ + size] \in Chunks
    BY <1>1, SMTT(40) DEF Chunks
  <2>3. /\ s \in Seq(Chunks) /\ DOMAIN s = DOMAIN p.chunks /\ Len(s) = Len(p.chunks)
        /\ s[c] = [p.chunks[c] EXCEPT !.size = @ + size]
        /\ \A d \in DOMAIN p.chunks \ {c} : s[d] = p.chunks[d]
    BY <1>1, <2>2
  <2> HIDE DEF s, q
  <2>4. q \in Pools /\ q.chunks = s /\ q.blocks = p.blocks /\ q.user = p.user /\ q.held = p.held
    BY <2>1, <2>3 DEF Pools
  <2> QED
    BY <2>3, <2>4
<1>4. /\ q.chunks[c].size = p.chunks[c].size + size
      /\ q.chunks[c].capacity = p.chunks[c].capacity
      /\ q.chunks[c].cell = p.chunks[c].cell
  BY <1>1, <1>3, SMTT(40) DEF Chunks
<1> HIDE DEF q
<1>5. Fitting(q)
  <2>1. ASSUME NEW d \in DOMAIN p.chunks
        PROVE  /\ q.chunks[d].size <= q.chunks[d].capacity
               /\ q.chunks[d].cell \in [1..q.chunks[d].capacity -> Nat \X Nat]
    <3>1. CASE d = c
      <4>1. p.chunks[c].cell \in [1..p.chunks[c].capacity -> Nat \X Nat]
        BY ONLY Fitting(p), <3>1, d \in DOMAIN p.chunks DEF Fitting
      <4> QED
        BY ONLY <1>1, <1>4, <3>1, <4>1
    <3>2. CASE d # c
      BY ONLY <1>3, <3>2, Fitting(p), d \in DOMAIN p.chunks DEF Fitting
    <3> QED
      BY <3>1, <3>2
  <2> QED
    BY ONLY <1>3, <2>1 DEF Fitting
<1>6. Counted(q)
  BY <1>1, <1>3 DEF Counted, Pools
<1>7. Grown(p, q)
  <2> SUFFICES ASSUME NEW d \in DOMAIN p.chunks
               PROVE  q.chunks[d].cell = p.chunks[d].cell /\ p.chunks[d].size <= q.chunks[d].size
    BY <1>3 DEF Grown
  <2>1. p.chunks[d].size \in Nat
    BY PoolTypes
  <2>2. CASE d = c
    BY <1>4, <2>1, <2>2
  <2>3. CASE d # c
    BY <1>3, <2>1, <2>3
  <2> QED
    BY <2>2, <2>3
<1> DEFINE t == Pool!Take(p, size)
<1>8. t.pool = q /\ t.chunk = c /\ t.at = p.chunks[c].size
  BY <1>2
<1> HIDE DEF t, c
<1>9. /\ t.pool \in Pools /\ Fitting(t.pool) /\ Counted(t.pool) /\ Grown(p, t.pool)
      /\ c \in DOMAIN p.chunks /\ t.chunk = c
      /\ t.at = p.chunks[c].size
      /\ t.pool.chunks[c].size = t.at + size
      /\ \A d \in DOMAIN p.chunks \ {c} : t.pool.chunks[d] = p.chunks[d]
  <2>1. c \in DOMAIN p.chunks
    BY <1>1
  <2> QED
    BY <1>3, <1>4, <1>5, <1>6, <1>7, <1>8, <2>1
<1> QED
  BY <1>9 DEF t, c

\* The base allocator gives one more chunk, empty.
LEMMA ChunkGrows ==
  ASSUME NEW p \in Pools, Fitting(p), Counted(p), NEW capacity \in Nat,
         NEW q \in Pool!AddChunk(p, capacity), q # p
  PROVE  /\ q \in Pools /\ Fitting(q) /\ Counted(q) /\ Grown(p, q)
         /\ Len(q.chunks) = Len(p.chunks) + 1
         /\ q.chunks[Len(q.chunks)].size = 0
         /\ q.chunks[Len(q.chunks)].capacity = capacity
<1> DEFINE new == Pool!Chunk(capacity)
           s   == Append(p.chunks, new)
<1>1. q = [p EXCEPT !.chunks = s, !.held = p.held + 1]
  BY DEF Pool!AddChunk
<1>2. new \in Chunks /\ new.size = 0 /\ new.capacity = capacity /\ new.cell \in [1..capacity -> Nat \X Nat]
  <2>1. [i \in 1..capacity |-> <<0, 0>>] \in [1..capacity -> Nat \X Nat]
    OBVIOUS
  <2>2. [i \in 1..capacity |-> <<0, 0>>] \in Cells
    BY <2>1, CellsOf
  <2> QED
    BY <2>1, <2>2 DEF Pool!Chunk, Chunks
<1> HIDE DEF new
<1>3. /\ p.chunks \in Seq(Chunks) /\ s \in Seq(Chunks) /\ Len(s) = Len(p.chunks) + 1
      /\ s[Len(s)] = new /\ DOMAIN s = 1..Len(s)
      /\ \A c \in DOMAIN p.chunks : c \in DOMAIN s /\ c # Len(s) /\ s[c] = p.chunks[c]
      /\ \A c \in DOMAIN s : c \in DOMAIN p.chunks \/ c = Len(s)
  BY <1>2, PoolTypes, SMTT(40)
<1> HIDE DEF s
<1>4. q \in Pools /\ q.chunks = s /\ q.blocks = p.blocks /\ q.user = p.user /\ q.held = p.held + 1
  <2>1. p.held + 1 \in Int
    BY PoolTypes
  <2> QED
    BY <1>1, <1>3, <2>1 DEF Pools
<1>5. Fitting(q)
  BY <1>2, <1>3, <1>4 DEF Fitting
<1>6. Counted(q)
  <2>1. Len(p.chunks) \in Nat /\ p.user \in BOOLEAN
    BY <1>3, PoolTypes
  <2>2. s # <<>>
    BY <1>3, <2>1
  <2> QED
    BY <1>3, <1>4, <2>1, <2>2 DEF Counted
<1>7. Grown(p, q)
  <2>1. \A c \in DOMAIN p.chunks : p.chunks[c].size \in Nat
    BY PoolTypes
  <2> QED
    BY <1>3, <1>4, <2>1 DEF Grown
<1> QED
  BY <1>2, <1>3, <1>4, <1>5, <1>6, <1>7

\* Growing twice.
LEMMA GrownTwice ==
  ASSUME NEW p \in Pools, NEW q \in Pools, NEW r \in Pools, Grown(p, q), Grown(q, r)
  PROVE  Grown(p, r)
<1>1. q.blocks = p.blocks /\ r.blocks = q.blocks /\ DOMAIN p.chunks \subseteq DOMAIN q.chunks
      /\ DOMAIN q.chunks \subseteq DOMAIN r.chunks
  BY DEF Grown
<1>2. ASSUME NEW c \in DOMAIN p.chunks
      PROVE  r.chunks[c].cell = p.chunks[c].cell /\ p.chunks[c].size <= r.chunks[c].size
  <2>1. c \in DOMAIN q.chunks /\ c \in DOMAIN r.chunks
    BY <1>1
  <2>2. p.chunks[c].size \in Nat /\ q.chunks[c].size \in Nat /\ r.chunks[c].size \in Nat
    BY <2>1, PoolTypes
  <2> QED
    BY <2>1, <2>2 DEF Grown
<1> QED
  BY <1>1, <1>2 DEF Grown

\* A place in r.pool, grown from p, that no block of p reaches into.
Placed(p, r, size) ==
  /\ r.pool \in Pools /\ Fitting(r.pool) /\ Counted(r.pool) /\ Grown(p, r.pool)
  /\ r.chunk \in DOMAIN r.pool.chunks /\ r.at \in Nat
  /\ r.at + size <= r.pool.chunks[r.chunk].size
  /\ r.chunk \in DOMAIN p.chunks => p.chunks[r.chunk].size <= r.at
  /\ r = [pool |-> r.pool, chunk |-> r.chunk, at |-> r.at]

\* Malloc gives a place no block reaches into, in the head or in a new chunk.
LEMMA MallocPlaces ==
  ASSUME NEW p \in Pools, Fitting(p), Counted(p), NEW n \in Nat,
         NEW r \in Pool!Malloc(p, n), r.chunk # 0
  PROVE  n # 0 /\ Placed(p, r, Pool!Rounded(n))
<1> DEFINE size     == Pool!Rounded(n)
           capacity == IF ChunkCapacity > size THEN ChunkCapacity ELSE size
<1>1. size \in Nat /\ ChunkCapacity \in Nat /\ capacity \in Nat /\ size <= capacity
  BY RoundedUp, MemoryAssumption
<1>2. ASSUME NEW q \in Pools PROVE Pool!Null(q).chunk = 0
  BY DEF Pool!Null
<1>3. n # 0
  BY <1>2 DEF Pool!Malloc
<1>4. CASE Pool!Fits(p, size)
  <2>1. r = Pool!Take(p, size)
    BY <1>3, <1>4 DEF Pool!Malloc
  <2>2. p.chunks[Len(p.chunks)].size \in Nat
    BY <1>1, <1>4, TakeGrows, PoolTypes
  <2> HIDE DEF size
  <2>3. /\ r.pool \in Pools /\ Fitting(r.pool) /\ Counted(r.pool) /\ Grown(p, r.pool)
        /\ r.chunk = Len(p.chunks) /\ r.chunk \in DOMAIN p.chunks
        /\ r.at = p.chunks[Len(p.chunks)].size
        /\ r.pool.chunks[Len(p.chunks)].size = r.at + size
    BY <1>1, <1>4, <2>1, TakeGrows
  <2>6. r = [pool |-> r.pool, chunk |-> r.chunk, at |-> r.at]
    BY <2>1 DEF Pool!Take, Pool!Place
  <2>4. r.chunk \in DOMAIN r.pool.chunks
    BY <2>3 DEF Grown
  <2>5. Placed(p, r, size)
    BY <1>1, <2>2, <2>3, <2>4, <2>6 DEF Placed
  <2> QED
    BY <1>3, <2>5 DEF size
<1>5. CASE ~Pool!Fits(p, size)
  <2>1. PICK q \in Pool!AddChunk(p, capacity) : r = IF q = p THEN Pool!Null(p) ELSE Pool!Take(q, size)
    BY <1>3, <1>5 DEF Pool!Malloc
  <2>2. q # p /\ r = Pool!Take(q, size)
    BY <1>2, <2>1
  <2> HIDE DEF capacity
  <2>3. /\ q \in Pools /\ Fitting(q) /\ Counted(q) /\ Grown(p, q)
        /\ Len(q.chunks) = Len(p.chunks) + 1
        /\ q.chunks[Len(q.chunks)].size = 0
        /\ q.chunks[Len(q.chunks)].capacity = capacity
    BY <1>1, <2>2, ChunkGrows
  <2>4. p.chunks \in Seq(Chunks) /\ q.chunks \in Seq(Chunks) /\ Len(p.chunks) \in Nat
    BY <2>3, PoolTypes
  <2>5. Pool!Fits(q, size)
    <3>1. q.chunks # <<>>
      BY <2>3, <2>4
    <3>2. Pool!Last(q.chunks) = q.chunks[Len(q.chunks)]
      BY DEF Pool!Last
    <3> HIDE DEF size
    <3> QED
      BY <1>1, <2>3, <3>1, <3>2 DEF Pool!Fits
  <2> HIDE DEF size
  <2>6. /\ r.pool \in Pools /\ Fitting(r.pool) /\ Counted(r.pool) /\ Grown(q, r.pool)
        /\ r.chunk = Len(q.chunks) /\ r.chunk \in DOMAIN q.chunks
        /\ r.at = 0
        /\ r.pool.chunks[r.chunk].size = r.at + size
    BY <1>1, <2>2, <2>3, <2>5, TakeGrows, SMTT(40)
  <2>7. Grown(p, r.pool)
    BY <2>3, <2>6, GrownTwice
  <2>8. r.chunk \notin DOMAIN p.chunks /\ r.chunk \in DOMAIN r.pool.chunks
    BY <2>3, <2>4, <2>6 DEF Grown
  <2>10. r = [pool |-> r.pool, chunk |-> r.chunk, at |-> r.at]
    BY <2>2 DEF Pool!Take, Pool!Place
  <2>9. Placed(p, r, size)
    BY <1>1, <2>6, <2>7, <2>8, <2>10 DEF Placed
  <2> QED
    BY <1>3, <2>9 DEF size
<1> QED
  BY <1>3, <1>4, <1>5

-----------------------------------------------------------------------------
(* A pool with other cells                                                 *)

\* Pool w is q with the cells f in chunk c.
Changed(q, c, f, w) ==
  /\ w \in Pools /\ w.user = q.user /\ w.blocks = q.blocks /\ w.held = q.held
  /\ DOMAIN w.chunks = DOMAIN q.chunks /\ Len(w.chunks) = Len(q.chunks)
  /\ w.chunks[c].cell = f
  /\ \A d \in DOMAIN q.chunks : /\ w.chunks[d].size = q.chunks[d].size
                                /\ w.chunks[d].capacity = q.chunks[d].capacity
                                /\ d # c => w.chunks[d].cell = q.chunks[d].cell

\* What replacing the cells of one chunk does to the record of the pool.
LEMMA CellsChange ==
  ASSUME NEW q \in Pools, Fitting(q), NEW c \in DOMAIN q.chunks,
         NEW f \in [1..q.chunks[c].capacity -> Nat \X Nat]
  PROVE  Changed(q, c, f, [q EXCEPT !.chunks[c].cell = f])
<1> DEFINE w == [q EXCEPT !.chunks[c].cell = f]
           s == [q.chunks EXCEPT ![c] = [q.chunks[c] EXCEPT !.cell = f]]
<1>1. w = [q EXCEPT !.chunks = s]
  BY DEF Pools
<1>2. q.chunks[c] \in Chunks /\ q.chunks \in Seq(Chunks) /\ f \in Cells
  BY PoolTypes, CellsOf
<1>3. /\ [q.chunks[c] EXCEPT !.cell = f] \in Chunks
      /\ [q.chunks[c] EXCEPT !.cell = f].size = q.chunks[c].size
      /\ [q.chunks[c] EXCEPT !.cell = f].capacity = q.chunks[c].capacity
      /\ [q.chunks[c] EXCEPT !.cell = f].cell = f
  BY <1>2 DEF Chunks
<1>4. /\ s \in Seq(Chunks) /\ DOMAIN s = DOMAIN q.chunks /\ Len(s) = Len(q.chunks)
      /\ s[c] = [q.chunks[c] EXCEPT !.cell = f]
      /\ \A d \in DOMAIN q.chunks \ {c} : s[d] = q.chunks[d]
  BY <1>2, <1>3
<1> HIDE DEF s, w
<1>5. w \in Pools /\ w.chunks = s /\ w.blocks = q.blocks /\ w.user = q.user /\ w.held = q.held
  BY <1>1, <1>4 DEF Pools
<1>6. \A d \in DOMAIN q.chunks : /\ w.chunks[d].size = q.chunks[d].size
                                 /\ w.chunks[d].capacity = q.chunks[d].capacity
                                 /\ d # c => w.chunks[d].cell = q.chunks[d].cell
  <2> SUFFICES ASSUME NEW d \in DOMAIN q.chunks
               PROVE  /\ s[d].size = q.chunks[d].size
                      /\ s[d].capacity = q.chunks[d].capacity
                      /\ d # c => s[d].cell = q.chunks[d].cell
    BY <1>5
  <2>1. CASE d = c
    BY <1>3, <1>4, <2>1
  <2>2. CASE d # c
    BY <1>4, <2>2
  <2> QED
    BY <2>1, <2>2
<1>7. w.chunks[c].cell = f
  BY <1>3, <1>4, <1>5
<1>8. Changed(q, c, f, w)
  BY <1>4, <1>5, <1>6, <1>7 DEF Changed
<1> QED
  BY <1>8 DEF w

\* The same, for one chunk.
LEMMA ChangedChunk ==
  ASSUME NEW q, NEW c, NEW f, NEW w, Changed(q, c, f, w), NEW d \in DOMAIN q.chunks
  PROVE  /\ d \in DOMAIN w.chunks
         /\ w.chunks[d].size = q.chunks[d].size
         /\ w.chunks[d].capacity = q.chunks[d].capacity
         /\ d # c => w.chunks[d].cell = q.chunks[d].cell
         /\ d = c => w.chunks[d].cell = f
BY DEF Changed

\* Other cells do not move the blocks.
LEMMA ChangedStaysLaid ==
  ASSUME NEW q, Laid(q), NEW c \in DOMAIN q.chunks,
         NEW f \in [1..q.chunks[c].capacity -> Nat \X Nat], NEW w, Changed(q, c, f, w)
  PROVE  Laid(w)
<1>1. q \in Pools /\ Fitting(q) /\ Inside(q) /\ Apart(q) /\ Counted(q)
  BY DEF Laid
<1>2. Fitting(w)
  <2> SUFFICES ASSUME NEW d \in DOMAIN q.chunks
               PROVE  /\ w.chunks[d].size <= w.chunks[d].capacity
                      /\ w.chunks[d].cell \in [1..w.chunks[d].capacity -> Nat \X Nat]
    BY DEF Changed, Fitting
  <2>1. /\ q.chunks[d].size <= q.chunks[d].capacity
        /\ q.chunks[d].cell \in [1..q.chunks[d].capacity -> Nat \X Nat]
        /\ w.chunks[d].size = q.chunks[d].size
        /\ w.chunks[d].capacity = q.chunks[d].capacity
    <3>1. /\ q.chunks[d].size <= q.chunks[d].capacity
          /\ q.chunks[d].cell \in [1..q.chunks[d].capacity -> Nat \X Nat]
      BY <1>1 DEF Fitting
    <3>2. /\ w.chunks[d].size = q.chunks[d].size
          /\ w.chunks[d].capacity = q.chunks[d].capacity
      BY ChangedChunk
    <3> QED
      BY <3>1, <3>2
  <2>2. CASE d = c
    BY <2>1, <2>2 DEF Changed
  <2>3. CASE d # c
    BY <2>1, <2>3 DEF Changed
  <2> QED
    BY <2>2, <2>3
<1>3. Inside(w)
  <2> SUFFICES ASSUME NEW k \in DOMAIN q.blocks
               PROVE  /\ q.blocks[k].chunk \in DOMAIN w.chunks
                      /\ q.blocks[k].at + Pool!Rounded(q.blocks[k].size) <= w.chunks[q.blocks[k].chunk].size
    BY DEF Changed, Inside
  <2>1. /\ q.blocks[k].chunk \in DOMAIN q.chunks
        /\ q.blocks[k].at + Pool!Rounded(q.blocks[k].size) <= q.chunks[q.blocks[k].chunk].size
    BY <1>1 DEF Inside
  <2>2. w.chunks[q.blocks[k].chunk].size = q.chunks[q.blocks[k].chunk].size
    BY <2>1, ChangedChunk
  <2> QED
    BY <2>1, <2>2 DEF Changed
<1>4. Apart(w)
  BY <1>1 DEF Apart, Changed
<1>5. Counted(w)
  <2>1. q.chunks \in Seq(Chunks) /\ w.chunks \in Seq(Chunks)
    BY <1>1, PoolTypes DEF Changed
  <2>2. q.chunks # <<>> => w.chunks # <<>>
    BY <2>1 DEF Changed
  <2> QED
    BY <1>1, <2>1, <2>2 DEF Counted, Changed
<1> QED
  BY <1>2, <1>3, <1>4, <1>5 DEF Laid, Changed

\* Where a block lies.
LEMMA BlockLies ==
  ASSUME NEW q, Laid(q), NEW j \in DOMAIN q.blocks,
         NEW d, d = q.blocks[j].chunk
  PROVE  /\ q.blocks[j].at \in Nat /\ q.blocks[j].size \in Nat \ {0} /\ j \in Nat \ {0}
         /\ Pool!Rounded(q.blocks[j].size) \in Nat /\ q.blocks[j].size <= Pool!Rounded(q.blocks[j].size)
         /\ d \in DOMAIN q.chunks
         /\ q.blocks[j].at + Pool!Rounded(q.blocks[j].size) <= q.chunks[d].size
         /\ q.chunks[d].size \in Nat /\ q.chunks[d].capacity \in Nat
         /\ q.chunks[d].size <= q.chunks[d].capacity
         /\ q.chunks[d].cell \in [1..q.chunks[d].capacity -> Nat \X Nat]
<1>1. q \in Pools /\ Fitting(q) /\ Inside(q)
  BY DEF Laid
<1>2. q.blocks[j].at \in Nat /\ q.blocks[j].size \in Nat \ {0}
  BY <1>1, PoolTypes
<1>3. j \in Nat \ {0}
  <2>1. q.blocks \in Seq(Blocks)
    BY <1>1, PoolTypes
  <2> QED
    BY <2>1
<1>4. Pool!Rounded(q.blocks[j].size) \in Nat /\ q.blocks[j].size <= Pool!Rounded(q.blocks[j].size)
  BY <1>2, RoundedUp
<1>5. /\ d \in DOMAIN q.chunks
      /\ q.blocks[j].at + Pool!Rounded(q.blocks[j].size) <= q.chunks[d].size
  BY <1>1 DEF Inside
<1>6. q.chunks[d].size \in Nat /\ q.chunks[d].capacity \in Nat
  BY <1>1, <1>5, PoolTypes, SMTT(40)
<1>7. /\ q.chunks[d].size <= q.chunks[d].capacity
      /\ q.chunks[d].cell \in [1..q.chunks[d].capacity -> Nat \X Nat]
  BY <1>1, <1>5 DEF Fitting
<1> QED
  BY <1>2, <1>3, <1>4, <1>5, <1>6, <1>7, Zenon

\* A cell of one block is none of another that it does not overlap.
LEMMA CellsDiffer ==
  ASSUME NEW a \in Nat, NEW y \in Nat, NEW n \in Nat, NEW m \in Nat, NEW rn \in Nat, NEW rm \in Nat,
         n <= rn, m <= rm, a + rn <= y \/ y + rm <= a, NEW i \in 1..n, NEW first \in Nat \ {0}
  PROVE  (a + i) - y \notin first..m
OBVIOUS

\* What the client writes to a block leaves every other as it is.
LEMMA WrittenIsSound ==
  ASSUME NEW q, Laid(q), NEW k \in DOMAIN q.blocks, NEW first \in Nat \ {0},
         IntactBut(q, k, first)
  PROVE  Sound(Pool!Written(q, k, first))
<1> DEFINE b == q.blocks[k]
           c == b.chunk
           f == [i \in DOMAIN q.chunks[c].cell |->
                   IF i - b.at \in first..b.size THEN <<k, i - b.at>> ELSE q.chunks[c].cell[i]]
           w == [q EXCEPT !.chunks[c].cell = f]
<1>1. q \in Pools /\ Fitting(q) /\ Inside(q) /\ Apart(q)
  BY SMTT(40) DEF Laid
<1>2. /\ c \in DOMAIN q.chunks /\ b.at \in Nat /\ b.size \in Nat /\ k \in Nat
      /\ Pool!Rounded(b.size) \in Nat /\ b.size <= Pool!Rounded(b.size)
      /\ q.chunks[c].capacity \in Nat
      /\ q.chunks[c].cell \in [1..q.chunks[c].capacity -> Nat \X Nat]
  BY BlockLies
<1>3. Pool!Written(q, k, first) = w
  BY <1>1, <1>2 DEF Pool!Written, Pools
<1>4. f \in [1..q.chunks[c].capacity -> Nat \X Nat]
  <2> SUFFICES ASSUME NEW i \in 1..q.chunks[c].capacity, i - b.at \in first..b.size
               PROVE  i - b.at \in Nat
    BY <1>2, Zenon
  <2>1. b.size \in Nat
    BY <1>2
  <2>2. \A e \in first..b.size : e \in Nat
    BY ONLY <2>1, first \in Nat \ {0}
  <2> QED
    BY ONLY <2>2, i - b.at \in first..b.size
<1>5. \A e \in 1..q.chunks[c].capacity :
        /\ e - b.at \in first..b.size => f[e] = <<k, e - b.at>>
        /\ e - b.at \notin first..b.size => f[e] = q.chunks[c].cell[e]
  BY <1>2, Zenon
<1> HIDE DEF f, w
<1>6. Changed(q, c, f, w)
  BY <1>1, <1>2, <1>4, CellsChange, Zenon DEF w
<1>7. Laid(w)
  BY <1>2, <1>4, <1>6, ChangedStaysLaid, Zenon
<1>8. ASSUME NEW j \in DOMAIN q.blocks, NEW i \in 1..q.blocks[j].size
      PROVE  w.chunks[q.blocks[j].chunk].cell[q.blocks[j].at + i] = <<j, i>>
  <2> DEFINE at == q.blocks[j].at
             d  == q.blocks[j].chunk
             n  == q.blocks[j].size
  <2>1. /\ d \in DOMAIN q.chunks /\ at \in Nat /\ n \in Nat /\ j \in Nat
        /\ Pool!Rounded(n) \in Nat /\ n <= Pool!Rounded(n)
        /\ at + Pool!Rounded(n) <= q.chunks[d].size
        /\ q.chunks[d].size <= q.chunks[d].capacity
        /\ q.chunks[d].size \in Nat /\ q.chunks[d].capacity \in Nat
    BY BlockLies
  <2>2. j # k \/ i < first => q.chunks[d].cell[at + i] = <<j, i>>
    BY Zenon DEF IntactBut
  <2>3. j # k /\ d = c => at + Pool!Rounded(n) <= b.at \/ b.at + Pool!Rounded(b.size) <= at
    BY <1>1 DEF Apart
  <2>4. i \in 1..n /\ (j = k => at = b.at /\ d = c /\ n = b.size)
    OBVIOUS
  <2> HIDE DEF at, d, n, b, c
  <2>5. at + i \in 1..q.chunks[d].capacity
    BY <2>1, <2>4
  <2>6. CASE d # c
    <3>1. w.chunks[d].cell = q.chunks[d].cell
      BY <1>6, <2>1, <2>6, ChangedChunk
    <3>2. j # k
      BY <2>4, <2>6
    <3> QED
      BY <2>2, <3>1, <3>2, Zenon DEF at, d
  <2>7. CASE d = c
    <3>1. w.chunks[d].cell[at + i] = f[at + i]
      BY <1>6, <2>7 DEF Changed
    <3>2. /\ (at + i) - b.at \in first..b.size => f[at + i] = <<k, (at + i) - b.at>>
          /\ (at + i) - b.at \notin first..b.size => f[at + i] = q.chunks[d].cell[at + i]
      <4>1. PICK e \in 1..q.chunks[c].capacity : e = at + i
        BY <2>5, <2>7
      <4>2. /\ e - b.at \in first..b.size => f[e] = <<k, e - b.at>>
            /\ e - b.at \notin first..b.size => f[e] = q.chunks[c].cell[e]
        BY <1>5
      <4> QED
        BY <2>7, <4>1, <4>2, Zenon
    <3>3. CASE j # k
      <4>1. (at + i) - b.at \notin first..b.size
        BY <1>2, <2>1, <2>3, <2>4, <2>7, <3>3, CellsDiffer
      <4> QED
        BY <2>2, <3>1, <3>2, <3>3, <4>1, Zenon DEF at, d
    <3>4. CASE j = k /\ i < first
      <4>1. (at + i) - b.at \notin first..b.size
        BY <1>2, <2>1, <2>4, <3>4, SMTT(40)
      <4> QED
        BY <2>2, <3>1, <3>2, <3>4, <4>1, Zenon DEF at, d
    <3>5. CASE j = k /\ i >= first
      <4>1. (at + i) - b.at = i /\ i \in first..b.size
        BY <1>2, <2>1, <2>4, <3>5, SMTT(40)
      <4> QED
        BY <3>1, <3>2, <3>5, <4>1 DEF at, d
    <3>6. i < first \/ i >= first
      BY <2>4
    <3> QED
      BY <3>3, <3>4, <3>5, <3>6, Zenon
  <2> QED
    BY <2>6, <2>7, ZenonT(40)
<1>9. IntactBut(w, 0, 0)
  BY <1>6, <1>8, ZenonT(40) DEF IntactBut, Changed
<1> QED
  BY <1>3, <1>7, <1>9 DEF Sound

-----------------------------------------------------------------------------
(* The steps                                                               *)

\* A new block goes where the pool has given cells to none.
LEMMA AllocateKeeps ==
  ASSUME Sound(x), Pool!Allocate
  PROVE  Sound(x')
<1>0. PICK n \in Sizes : \E r \in Pool!Malloc(x, n) :
        /\ r.chunk # 0
        /\ x' = Pool!Written([r.pool EXCEPT !.blocks = Append(@, Pool!Block(r.chunk, r.at, n))],
                           Len(x.blocks) + 1, 1)
  BY DEF Pool!Allocate
<1>1. PICK r \in Pool!Malloc(x, n) :
        /\ r.chunk # 0
        /\ x' = Pool!Written([r.pool EXCEPT !.blocks = Append(@, Pool!Block(r.chunk, r.at, n))],
                           Len(x.blocks) + 1, 1)
  BY <1>0
<1> DEFINE k == Len(x.blocks) + 1
           b == Pool!Block(r.chunk, r.at, n)
           q == [r.pool EXCEPT !.blocks = Append(@, b)]
<1>2. n \in Nat /\ Pool!Rounded(n) \in Nat /\ n <= Pool!Rounded(n)
  BY RoundedUp, MemoryAssumption
<1>3. x \in Pools /\ Fitting(x) /\ Counted(x)
  BY DEF Sound, Laid
<1>4. n # 0 /\ Placed(x, r, Pool!Rounded(n))
  BY <1>1, <1>2, <1>3, MallocPlaces
<1>5. /\ r.pool \in Pools /\ Sound(r.pool) /\ r.pool.blocks = x.blocks
      /\ r.chunk \in DOMAIN r.pool.chunks /\ r.at \in Nat
      /\ r.at + Pool!Rounded(n) <= r.pool.chunks[r.chunk].size
  BY <1>4, GrownKeeps DEF Placed, Grown
<1>6. r.chunk \in Nat
  <2>1. r.pool.chunks \in Seq(Chunks)
    BY <1>5, PoolTypes
  <2> QED
    BY <1>5, <2>1
<1>7. b \in Blocks /\ b.chunk = r.chunk /\ b.at = r.at /\ b.size = n
  BY <1>2, <1>4, <1>5, <1>6 DEF Pool!Block, Blocks
<1> HIDE DEF b
<1>8. /\ q \in Pools /\ q.chunks = r.pool.chunks /\ q.user = r.pool.user /\ q.held = r.pool.held
      /\ q.blocks = Append(x.blocks, b)
  <2>1. Append(x.blocks, b) \in Seq(Blocks)
    BY <1>3, <1>7, PoolTypes
  <2> QED
    BY <1>5, <2>1 DEF Pools
<1>9. /\ k \in DOMAIN q.blocks /\ q.blocks[k] = b
      /\ \A j \in DOMAIN x.blocks : j \in DOMAIN q.blocks /\ j # k /\ q.blocks[j] = r.pool.blocks[j]
      /\ \A j \in DOMAIN q.blocks : j = k \/ j \in DOMAIN x.blocks
  <2>1. x.blocks \in Seq(Blocks)
    BY <1>3, PoolTypes
  <2> QED
    BY <1>5, <1>7, <1>8, <2>1
<1> HIDE DEF q, k
<1>10. ASSUME NEW j \in DOMAIN x.blocks, q.blocks[j].chunk = r.chunk
       PROVE  q.blocks[j].at + Pool!Rounded(q.blocks[j].size) <= r.at
  <2>1. /\ q.blocks[j] = x.blocks[j]
        /\ r.chunk \in DOMAIN x.chunks
        /\ x.blocks[j].at \in Nat /\ Pool!Rounded(x.blocks[j].size) \in Nat
        /\ x.blocks[j].at + Pool!Rounded(x.blocks[j].size) <= x.chunks[r.chunk].size
        /\ x.chunks[r.chunk].size \in Nat
    BY <1>5, <1>9, <1>10, BlockLies, SMTT(40) DEF Sound
  <2>2. x.chunks[r.chunk].size <= r.at
    BY <1>4, <2>1 DEF Placed
  <2> QED
    BY <1>5, <2>1, <2>2
<1>11. Laid(q)
  <2>1. Fitting(q) /\ Counted(q)
    BY <1>5, <1>8 DEF Sound, Laid, Fitting, Counted
  <2>2. Inside(q)
    <3>1. ASSUME NEW j \in DOMAIN x.blocks
          PROVE  /\ q.blocks[j].chunk \in DOMAIN q.chunks
                 /\ q.blocks[j].at + Pool!Rounded(q.blocks[j].size) <= q.chunks[q.blocks[j].chunk].size
      BY <1>5, <1>8, <1>9 DEF Sound, Laid, Inside
    <3>2. /\ q.blocks[k].chunk \in DOMAIN q.chunks
          /\ q.blocks[k].at + Pool!Rounded(q.blocks[k].size) <= q.chunks[q.blocks[k].chunk].size
      BY <1>5, <1>7, <1>8, <1>9
    <3> QED
      BY <1>9, <3>1, <3>2, SMTT(40) DEF Inside
  <2>3. Apart(q)
    <3>1. ASSUME NEW i \in DOMAIN x.blocks, NEW j \in DOMAIN x.blocks,
                 i # j, q.blocks[i].chunk = q.blocks[j].chunk
          PROVE  \/ q.blocks[i].at + Pool!Rounded(q.blocks[i].size) <= q.blocks[j].at
                 \/ q.blocks[j].at + Pool!Rounded(q.blocks[j].size) <= q.blocks[i].at
      BY <1>5, <1>9, <3>1 DEF Sound, Laid, Apart
    <3>2. ASSUME NEW j \in DOMAIN x.blocks, q.blocks[j].chunk = q.blocks[k].chunk
          PROVE  q.blocks[j].at + Pool!Rounded(q.blocks[j].size) <= q.blocks[k].at
      BY <1>7, <1>9, <1>10, <3>2
    <3> QED
      BY <1>9, <3>1, <3>2 DEF Apart
  <2> QED
    BY <1>8, <2>1, <2>2, <2>3 DEF Laid
<1>12. IntactBut(q, k, 1)
  <2> SUFFICES ASSUME NEW j \in DOMAIN q.blocks, NEW i \in 1..q.blocks[j].size, j # k \/ i < 1
               PROVE  q.chunks[q.blocks[j].chunk].cell[q.blocks[j].at + i] = <<j, i>>
    BY Zenon DEF IntactBut
  <2>1. j \in DOMAIN x.blocks
    BY <1>9
  <2>2. j # 0
    <3>1. x.blocks \in Seq(Blocks)
      BY <1>3, PoolTypes
    <3> QED
      BY <2>1, <3>1
  <2> QED
    BY <1>5, <1>8, <1>9, <2>1, <2>2, ZenonT(40) DEF Sound, IntactBut
<1> QED
  <2>1. Sound(Pool!Written(q, k, 1))
    BY <1>9, <1>11, <1>12, WrittenIsSound
  <2>2. x' = Pool!Written(q, k, 1)
    BY <1>1 DEF q, k, b
  <2> QED
    BY ONLY <2>1, <2>2, Zenon

\* Block k moves to `at` of chunk c of a sound pool g, where no other block is, and where
\* the cells before `first` are already its own.
LEMMA MovedIsSound ==
  ASSUME NEW g, Sound(g), NEW k \in DOMAIN g.blocks,
         NEW c \in DOMAIN g.chunks, NEW at \in Nat, NEW n \in Nat \ {0}, NEW first \in Nat \ {0},
         at + Pool!Rounded(n) <= g.chunks[c].size,
         \A j \in DOMAIN g.blocks \ {k} : g.blocks[j].chunk = c =>
           \/ g.blocks[j].at + Pool!Rounded(g.blocks[j].size) <= at
           \/ at + Pool!Rounded(n) <= g.blocks[j].at,
         \A i \in 1..n : i < first => g.chunks[c].cell[at + i] = <<k, i>>
  PROVE  Sound(Pool!Written([g EXCEPT !.blocks[k] = Pool!Block(c, at, n)], k, first))
<1> DEFINE b == Pool!Block(c, at, n)
           q == [g EXCEPT !.blocks[k] = b]
<1>1. Laid(g) /\ g \in Pools /\ Fitting(g) /\ Inside(g) /\ Apart(g) /\ Counted(g) /\ IntactBut(g, 0, 0)
  BY DEF Sound, Laid
<1>2. g.blocks \in Seq(Blocks) /\ g.chunks \in Seq(Chunks)
  BY <1>1, PoolTypes
<1>3. b \in Blocks /\ b.chunk = c /\ b.at = at /\ b.size = n
  BY <1>2, SMTT(40) DEF Pool!Block, Blocks
<1> HIDE DEF b
<1>4. /\ q \in Pools /\ q.chunks = g.chunks /\ q.user = g.user /\ q.held = g.held
      /\ DOMAIN q.blocks = DOMAIN g.blocks /\ q.blocks[k] = b
      /\ \A j \in DOMAIN g.blocks \ {k} : q.blocks[j] = g.blocks[j]
  <2> DEFINE s == [g.blocks EXCEPT ![k] = b]
  <2>1. q = [g EXCEPT !.blocks = s]
    BY <1>1 DEF Pools
  <2>2. /\ s \in Seq(Blocks) /\ DOMAIN s = DOMAIN g.blocks /\ s[k] = b
        /\ \A j \in DOMAIN g.blocks \ {k} : s[j] = g.blocks[j]
    BY <1>2, <1>3
  <2> HIDE DEF s, q
  <2>3. q \in Pools /\ q.blocks = s /\ q.chunks = g.chunks /\ q.user = g.user /\ q.held = g.held
    BY <1>1, <2>1, <2>2 DEF Pools
  <2> QED
    BY <2>2, <2>3
<1> HIDE DEF q
<1>5. Fitting(q) /\ Counted(q)
  BY <1>1, <1>4 DEF Fitting, Counted
<1>6. Inside(q)
  <2> SUFFICES ASSUME NEW j \in DOMAIN g.blocks
               PROVE  /\ q.blocks[j].chunk \in DOMAIN q.chunks
                      /\ q.blocks[j].at + Pool!Rounded(q.blocks[j].size) <= q.chunks[q.blocks[j].chunk].size
    BY <1>4 DEF Inside
  <2>1. CASE j = k
    BY <1>3, <1>4, <2>1
  <2>2. CASE j # k
    BY <1>1, <1>4, <2>2 DEF Inside
  <2> QED
    BY <2>1, <2>2
<1>7. Apart(q)
  <2>1. ASSUME NEW i \in DOMAIN g.blocks \ {k}, NEW j \in DOMAIN g.blocks \ {k},
               i # j, q.blocks[i].chunk = q.blocks[j].chunk
        PROVE  \/ q.blocks[i].at + Pool!Rounded(q.blocks[i].size) <= q.blocks[j].at
               \/ q.blocks[j].at + Pool!Rounded(q.blocks[j].size) <= q.blocks[i].at
    BY <1>1, <1>4, <2>1 DEF Apart
  <2>2. ASSUME NEW j \in DOMAIN g.blocks \ {k}, q.blocks[j].chunk = q.blocks[k].chunk
        PROVE  \/ q.blocks[j].at + Pool!Rounded(q.blocks[j].size) <= q.blocks[k].at
               \/ q.blocks[k].at + Pool!Rounded(q.blocks[k].size) <= q.blocks[j].at
    BY <1>3, <1>4, <2>2
  <2> QED
    BY <1>4, <2>1, <2>2 DEF Apart
<1>8. Laid(q)
  BY <1>4, <1>5, <1>6, <1>7 DEF Laid
<1>9. IntactBut(q, k, first)
  <2> SUFFICES ASSUME NEW j \in DOMAIN g.blocks, NEW i \in 1..q.blocks[j].size, j # k \/ i < first
               PROVE  q.chunks[q.blocks[j].chunk].cell[q.blocks[j].at + i] = <<j, i>>
    BY <1>4, ZenonT(40) DEF IntactBut
  <2>1. CASE j = k
    BY <1>3, <1>4, <2>1
  <2>2. CASE j # k
    <3>1. j # 0
      BY <1>2
    <3> QED
      BY <1>1, <1>4, <2>2, <3>1, ZenonT(40) DEF IntactBut
  <2> QED
    BY <2>1, <2>2, Zenon
<1>10. Sound(Pool!Written(q, k, first))
  BY <1>4, <1>8, <1>9, WrittenIsSound
<1> QED
  BY <1>10 DEF q, b

\* A cell of a place lies in its chunk.
LEMMA InRange ==
  ASSUME NEW a \in Nat, NEW n \in Nat, NEW s \in Nat, NEW capacity \in Nat,
         a + n <= s, s <= capacity, NEW i \in 1..n
  PROVE  a + i \in 1..capacity
OBVIOUS

\* What Copied makes of the place r: block k is there too.
CopiedTo(p, k, r, t) ==
  /\ t.chunk = r.chunk /\ t.at = r.at
  /\ Sound(t.pool) /\ t.pool.blocks = p.blocks
  /\ r.chunk \in DOMAIN t.pool.chunks /\ r.at \in Nat
  /\ t.pool.chunks[r.chunk].size = r.pool.chunks[r.chunk].size
  /\ \A i \in 1..p.blocks[k].size : t.pool.chunks[r.chunk].cell[r.at + i] = <<k, i>>

\* A block copied to a place that is no block's.
LEMMA CopiedIsSound ==
  ASSUME NEW p, Sound(p), NEW k \in DOMAIN p.blocks, NEW size \in Nat,
         NEW r, Placed(p, r, size), Pool!Rounded(p.blocks[k].size) <= size,
         NEW t, t = Pool!Copied(r, p.blocks[k], Pool!Rounded(p.blocks[k].size))
  PROVE  CopiedTo(p, k, r, t)
<1> DEFINE g   == r.pool
           b   == p.blocks[k]
           old == Pool!Rounded(b.size)
           c   == r.chunk
           f   == [i \in DOMAIN g.chunks[c].cell |->
                     IF i - r.at \in 1..old THEN g.chunks[b.chunk].cell[b.at + i - r.at]
                     ELSE g.chunks[c].cell[i]]
           w   == [g EXCEPT !.chunks[c].cell = f]
<1>1. /\ g \in Pools /\ Fitting(g) /\ Counted(g) /\ Grown(p, g) /\ g.blocks = p.blocks
      /\ c \in DOMAIN g.chunks /\ r.at \in Nat /\ r.at + size <= g.chunks[c].size
      /\ c \in DOMAIN p.chunks => p.chunks[c].size <= r.at
      /\ r = [pool |-> g, chunk |-> c, at |-> r.at]
  BY DEF Placed, Grown
<1>2. Sound(g) /\ Laid(g) /\ IntactBut(g, 0, 0)
  BY <1>1, GrownKeeps DEF Sound
<1>3. t = [pool |-> w, chunk |-> c, at |-> r.at]
  BY <1>1, Zenon DEF Pool!Copied, Pools
<1>4. /\ b.chunk \in DOMAIN g.chunks /\ b.at \in Nat /\ b.size \in Nat /\ k \in Nat \ {0}
      /\ old \in Nat /\ b.size <= old
      /\ b.at + old <= g.chunks[b.chunk].size
      /\ g.chunks[b.chunk].size <= g.chunks[b.chunk].capacity
      /\ g.chunks[b.chunk].size \in Nat /\ g.chunks[b.chunk].capacity \in Nat
      /\ g.chunks[b.chunk].cell \in [1..g.chunks[b.chunk].capacity -> Nat \X Nat]
  BY <1>1, <1>2, BlockLies, ZenonT(40)
<1>14. old <= size
  OBVIOUS
<1>5. /\ g.chunks[c].capacity \in Nat /\ g.chunks[c].size \in Nat
      /\ g.chunks[c].cell \in [1..g.chunks[c].capacity -> Nat \X Nat]
      /\ g.chunks[c].size <= g.chunks[c].capacity
  BY <1>1, PoolTypes DEF Fitting
<1>6. f \in [1..g.chunks[c].capacity -> Nat \X Nat]
  <2> SUFFICES ASSUME NEW i \in 1..g.chunks[c].capacity, i - r.at \in 1..old
               PROVE  b.at + i - r.at \in 1..g.chunks[b.chunk].capacity
    BY <1>4, <1>5, Zenon
  <2>1. PICK m \in 1..old : m = i - r.at
    OBVIOUS
  <2>2. b.at + m \in 1..g.chunks[b.chunk].capacity
    <3> HIDE DEF b, g, old
    <3> QED
      BY <1>4, InRange
  <2> QED
    BY <2>1, <2>2
<1>7. \A e \in 1..g.chunks[c].capacity :
        /\ e - r.at \in 1..old => f[e] = g.chunks[b.chunk].cell[b.at + e - r.at]
        /\ e - r.at \notin 1..old => f[e] = g.chunks[c].cell[e]
  BY <1>5, Zenon
<1> HIDE DEF f, w
<1>8. Changed(g, c, f, w)
  BY <1>1, <1>6, CellsChange, SMTT(40) DEF w
<1>9. Laid(w) /\ w.blocks = g.blocks
  BY <1>1, <1>2, <1>6, <1>8, ChangedStaysLaid DEF Changed
<1> HIDE DEF g, b, old, c
<1>10. ASSUME NEW i \in 1..b.size
       PROVE  w.chunks[c].cell[r.at + i] = <<k, i>>
  <2>1. PICK e \in 1..g.chunks[c].capacity : e = r.at + i
    <3>1. r.at + i \in 1..g.chunks[c].capacity
      <4>1. i \in 1..size
        BY <1>4, <1>14
      <4> QED
        BY <1>1, <1>5, <4>1, InRange
    <3> QED
      BY <3>1
  <2>2. e - r.at \in 1..old /\ b.at + e - r.at = b.at + i
    BY <1>1, <1>4, <2>1, SMTT(40)
  <2>3. g.chunks[b.chunk].cell[b.at + i] = <<k, i>>
    BY <1>1, <1>2, <1>4, Zenon DEF IntactBut, b
  <2>4. f[e] = <<k, i>>
    BY <1>7, <2>2, <2>3
  <2> QED
    BY <1>8, <2>1, <2>4 DEF Changed
<1>11. IntactBut(w, 0, 0)
  <2> SUFFICES ASSUME NEW j \in DOMAIN g.blocks, NEW i \in 1..g.blocks[j].size
               PROVE  w.chunks[g.blocks[j].chunk].cell[g.blocks[j].at + i] = <<j, i>>
    BY <1>9, ZenonT(40) DEF IntactBut
  <2> DEFINE d == g.blocks[j].chunk
             a == g.blocks[j].at
             n == g.blocks[j].size
  <2>1. /\ d \in DOMAIN g.chunks /\ a \in Nat /\ n \in Nat /\ j \in Nat \ {0}
        /\ Pool!Rounded(n) \in Nat /\ n <= Pool!Rounded(n)
        /\ a + Pool!Rounded(n) <= g.chunks[d].size
        /\ g.chunks[d].size <= g.chunks[d].capacity
        /\ g.chunks[d].size \in Nat /\ g.chunks[d].capacity \in Nat
    BY <1>2, BlockLies
  <2>2. g.chunks[d].cell[a + i] = <<j, i>>
    BY <1>2, <2>1, Zenon DEF IntactBut
  <2>3. d = c => a + Pool!Rounded(n) <= r.at
    <3>1. j \in DOMAIN p.blocks /\ g.blocks[j] = p.blocks[j]
      BY <1>1
    <3>2. /\ d \in DOMAIN p.chunks /\ a + Pool!Rounded(n) <= p.chunks[d].size
          /\ p.chunks[d].size \in Nat
      BY <3>1, BlockLies DEF Sound
    <3> QED
      BY <1>1, <2>1, <3>2
  <2>4. i \in 1..n
    OBVIOUS
  <2> HIDE DEF d, a, n
  <2>5. CASE d # c
    <3>1. w.chunks[d].cell = g.chunks[d].cell
      BY <1>8, <2>1, <2>5, ChangedChunk, SMTT(40)
    <3> QED
      BY <2>2, <3>1, Zenon DEF d, a
  <2>6. CASE d = c
    <3>1. PICK e \in 1..g.chunks[c].capacity : e = a + i
      BY <2>1, <2>4, <2>6
    <3>2. e - r.at \notin 1..old
      BY <1>1, <1>4, <2>1, <2>3, <2>4, <2>6, <3>1, SMTT(40)
    <3>3. f[e] = <<j, i>>
      BY <1>7, <2>2, <2>6, <3>1, <3>2
    <3> QED
      BY <1>8, <2>6, <3>1, <3>3 DEF Changed, d, a
  <2> QED
    BY <2>5, <2>6, Zenon
<1>12. c \in DOMAIN w.chunks /\ w.chunks[c].size = g.chunks[c].size
  BY <1>1, <1>8, ChangedChunk
<1>13. t.pool = w /\ t.chunk = c /\ t.at = r.at
  BY <1>3
<1> QED
  BY <1>1, <1>9, <1>10, <1>11, <1>12, <1>13 DEF CopiedTo, Sound, g, b, c

\* A block that is made larger or smaller keeps what it has, wherever it ends up.
LEMMA ResizeKeeps ==
  ASSUME Sound(x), Pool!Resize
  PROVE  Sound(x')
<1>1. PICK k \in DOMAIN x.blocks, n \in Sizes :
        \E r \in Pool!Realloc(x, x.blocks[k], n) :
          /\ r.chunk # 0
          /\ x' = Pool!Written([r.pool EXCEPT !.blocks[k] = Pool!Block(r.chunk, r.at, n)], k,
                             x.blocks[k].size + 1)
  BY DEF Pool!Resize
<1>2. PICK r \in Pool!Realloc(x, x.blocks[k], n) :
          /\ r.chunk # 0
          /\ x' = Pool!Written([r.pool EXCEPT !.blocks[k] = Pool!Block(r.chunk, r.at, n)], k,
                             x.blocks[k].size + 1)
  BY <1>1
<1> DEFINE p   == x
           b   == p.blocks[k]
           old == Pool!Rounded(b.size)
           new == Pool!Rounded(n)
           top == Len(p.chunks)
<1>3. p \in Pools /\ Fitting(p) /\ Counted(p) /\ Laid(p) /\ Apart(p) /\ IntactBut(p, 0, 0)
  BY DEF Sound, Laid
<1>4. /\ b.at \in Nat /\ b.size \in Nat \ {0} /\ k \in Nat \ {0}
      /\ old \in Nat /\ b.size <= old
      /\ b.chunk \in DOMAIN p.chunks /\ b.at + old <= p.chunks[b.chunk].size
      /\ p.chunks[b.chunk].size \in Nat
  BY BlockLies, <1>3
<1>5. b.chunk \in Nat \ {0} /\ p.chunks \in Seq(Chunks)
  BY <1>3, <1>4, PoolTypes
<1>6. n \in Nat /\ new \in Nat /\ n <= new
  BY RoundedUp, MemoryAssumption
<1>7. n # 0
  BY <1>2, <1>5 DEF Pool!Realloc, Pool!Null
<1>8. \A j \in DOMAIN p.blocks \ {k} : p.blocks[j].chunk = b.chunk =>
        \/ p.blocks[j].at + Pool!Rounded(p.blocks[j].size) <= b.at
        \/ b.at + old <= p.blocks[j].at
  BY <1>3 DEF Apart
<1>9. \A j \in DOMAIN p.blocks :
        /\ p.blocks[j].at \in Nat /\ Pool!Rounded(p.blocks[j].size) \in Nat \ {0}
        /\ p.blocks[j].chunk \in DOMAIN p.chunks
        /\ p.blocks[j].at + Pool!Rounded(p.blocks[j].size) <= p.chunks[p.blocks[j].chunk].size
        /\ p.chunks[p.blocks[j].chunk].size \in Nat
  <2> SUFFICES ASSUME NEW j \in DOMAIN p.blocks
               PROVE  /\ p.blocks[j].at \in Nat /\ Pool!Rounded(p.blocks[j].size) \in Nat \ {0}
                      /\ p.blocks[j].chunk \in DOMAIN p.chunks
                      /\ p.blocks[j].at + Pool!Rounded(p.blocks[j].size) <= p.chunks[p.blocks[j].chunk].size
                      /\ p.chunks[p.blocks[j].chunk].size \in Nat
    OBVIOUS
  <2>1. /\ p.blocks[j].at \in Nat /\ p.blocks[j].size \in Nat \ {0}
        /\ Pool!Rounded(p.blocks[j].size) \in Nat /\ p.blocks[j].size <= Pool!Rounded(p.blocks[j].size)
        /\ p.blocks[j].chunk \in DOMAIN p.chunks
        /\ p.blocks[j].at + Pool!Rounded(p.blocks[j].size) <= p.chunks[p.blocks[j].chunk].size
        /\ p.chunks[p.blocks[j].chunk].size \in Nat
    BY <1>3, BlockLies
  <2> QED
    BY <2>1
<1>10. \A i \in 1..b.size : p.chunks[b.chunk].cell[b.at + i] = <<k, i>>
  BY <1>3, <1>4, Zenon DEF IntactBut
<1>14. \A i \in 1..n : i < b.size + 1 => i \in 1..b.size
  BY <1>4, <1>6
<1>11. CASE old >= new
  <2>1. r = [Pool!Null(p) EXCEPT !.chunk = b.chunk, !.at = b.at]
    BY <1>5, <1>7, <1>11 DEF Pool!Realloc
  <2>2. r.pool = p /\ r.chunk = b.chunk /\ r.at = b.at
    BY <2>1 DEF Pool!Null
  <2> HIDE DEF p, b, old, new
  <2>3. b.at + new <= p.chunks[b.chunk].size
    BY <1>4, <1>6, <1>11
  <2>4. \A j \in DOMAIN p.blocks \ {k} : p.blocks[j].chunk = b.chunk =>
          \/ p.blocks[j].at + Pool!Rounded(p.blocks[j].size) <= b.at
          \/ b.at + new <= p.blocks[j].at
    BY <1>4, <1>6, <1>8, <1>9, <1>11
  <2>5. \A i \in 1..n : i < b.size + 1 => p.chunks[b.chunk].cell[b.at + i] = <<k, i>>
    BY <1>10, <1>14
  <2>6. Sound(p) /\ k \in DOMAIN p.blocks /\ n \in Nat \ {0} /\ b.size + 1 \in Nat \ {0}
    BY <1>4, <1>6, <1>7, SMTT(40) DEF p
  <2>7. Sound(Pool!Written([p EXCEPT !.blocks[k] = Pool!Block(b.chunk, b.at, n)], k, b.size + 1))
    BY <1>4, <2>3, <2>4, <2>5, <2>6, MovedIsSound DEF new
  <2>8. x' = Pool!Written([p EXCEPT !.blocks[k] = Pool!Block(b.chunk, b.at, n)], k, b.size + 1)
    BY <1>2, <2>2, Zenon DEF p, b
  <2> QED
    BY ONLY <2>7, <2>8, Zenon
<1>12. CASE ~(old >= new) /\ Pool!IsLast(p, b, old) /\ Pool!Fits(p, new - old)
  <2> DEFINE t == Pool!Take(p, new - old)
  <2>1. r = [t EXCEPT !.at = b.at]
    BY <1>5, <1>7, <1>12 DEF Pool!Realloc
  <2>2. r.pool = t.pool /\ r.chunk = t.chunk /\ r.at = b.at
    BY <2>1 DEF Pool!Take, Pool!Place
  <2>3. b.chunk = top /\ b.at = p.chunks[top].size - old
    BY <1>12 DEF Pool!IsLast, Pool!Last
  <2>4. new - old \in Nat
    BY <1>4, <1>6, <1>12
  <2> HIDE DEF old, new
  <2>5. /\ t.pool \in Pools /\ Fitting(t.pool) /\ Counted(t.pool) /\ Grown(p, t.pool)
        /\ t.chunk = top
        /\ t.at = p.chunks[top].size
        /\ t.pool.chunks[top].size = t.at + (new - old)
    BY <1>3, <1>12, <2>4, TakeGrows
  <2> HIDE DEF t
  <2>6. Sound(t.pool) /\ t.pool.blocks = p.blocks
    BY <2>5, GrownKeeps DEF Grown
  <2>7. top \in DOMAIN t.pool.chunks /\ t.pool.chunks[top].cell = p.chunks[top].cell
    BY <1>4, <2>3, <2>5 DEF Grown
  <2> HIDE DEF p, b, top
  <2>8. b.at + new <= t.pool.chunks[top].size
    BY <1>4, <1>6, <2>3, <2>5
  <2>9. \A j \in DOMAIN p.blocks \ {k} : p.blocks[j].chunk = top =>
          \/ p.blocks[j].at + Pool!Rounded(p.blocks[j].size) <= b.at
          \/ b.at + new <= p.blocks[j].at
    BY <1>4, <1>8, <1>9, <2>3
  <2>10. \A i \in 1..n : i < b.size + 1 => t.pool.chunks[top].cell[b.at + i] = <<k, i>>
    BY <1>10, <1>14, <2>3, <2>7
  <2>11. k \in DOMAIN p.blocks /\ n \in Nat \ {0} /\ b.size + 1 \in Nat \ {0}
    BY <1>4, <1>6, <1>7 DEF p
  <2>12. Sound(Pool!Written([t.pool EXCEPT !.blocks[k] = Pool!Block(top, b.at, n)], k, b.size + 1))
    BY <1>4, <2>6, <2>7, <2>8, <2>9, <2>10, <2>11, MovedIsSound DEF new
  <2>13. x' = Pool!Written([t.pool EXCEPT !.blocks[k] = Pool!Block(top, b.at, n)], k, b.size + 1)
    BY <1>2, <2>2, <2>5, Zenon DEF p, b
  <2> QED
    BY ONLY <2>12, <2>13, Zenon
<1>13. CASE ~(old >= new) /\ ~(Pool!IsLast(p, b, old) /\ Pool!Fits(p, new - old))
  <2>1. PICK m \in Pool!Malloc(p, new) : r = IF m.chunk = 0 THEN m ELSE Pool!Copied(m, b, old)
    BY <1>5, <1>7, <1>13, SMTT(40) DEF Pool!Realloc
  <2>2. m.chunk # 0 /\ r = Pool!Copied(m, b, old)
    BY <1>2, <2>1
  <2> HIDE DEF old, new
  <2>3. Placed(p, m, Pool!Rounded(new))
    BY <1>3, <1>6, <2>2, MallocPlaces
  <2>4. Pool!Rounded(new) \in Nat /\ new <= Pool!Rounded(new) /\ old <= Pool!Rounded(new)
    BY <1>4, <1>6, <1>13, RoundedUp, SMTT(40)
  <2>5. /\ r.chunk = m.chunk /\ r.at = m.at
        /\ Sound(r.pool) /\ r.pool.blocks = p.blocks
        /\ m.chunk \in DOMAIN r.pool.chunks /\ m.at \in Nat
        /\ r.pool.chunks[m.chunk].size = m.pool.chunks[m.chunk].size
        /\ \A i \in 1..b.size : r.pool.chunks[m.chunk].cell[m.at + i] = <<k, i>>
    <3> DEFINE size == Pool!Rounded(new)
    <3>1. Sound(p) /\ k \in DOMAIN p.blocks
      OBVIOUS
    <3>2. r = Pool!Copied(m, p.blocks[k], Pool!Rounded(p.blocks[k].size))
      BY <2>2 DEF old
    <3>3. size \in Nat /\ Placed(p, m, size) /\ Pool!Rounded(p.blocks[k].size) <= size
      BY <2>3, <2>4 DEF old
    <3> HIDE DEF p, size
    <3>4. CopiedTo(p, k, m, r)
      BY <3>1, <3>2, <3>3, CopiedIsSound, SMTT(40)
    <3> QED
      BY <3>4 DEF CopiedTo
  <2> HIDE DEF p, b
  <2>6. /\ m.at + Pool!Rounded(new) <= r.pool.chunks[m.chunk].size
        /\ m.chunk \in DOMAIN p.chunks => p.chunks[m.chunk].size <= m.at
    <3>1. r.pool.chunks[m.chunk].size = m.pool.chunks[m.chunk].size
      BY ONLY <2>5
    <3>2. /\ m.at + Pool!Rounded(new) <= m.pool.chunks[m.chunk].size
          /\ m.chunk \in DOMAIN p.chunks => p.chunks[m.chunk].size <= m.at
      BY ONLY <2>3 DEF Placed
    <3> QED
      BY ONLY <3>1, <3>2
  <2>7. r.pool.chunks[m.chunk].size \in Nat
    <3>1. r.pool \in Pools /\ m.chunk \in DOMAIN r.pool.chunks
      BY ONLY <2>5 DEF Sound, Laid
    <3> QED
      BY ONLY <3>1, PoolTypes
  <2>8. m.at + new <= r.pool.chunks[m.chunk].size
    <3>1. m.at \in Nat
      BY ONLY <2>5
    <3> QED
      BY ONLY <1>6, <2>4, <2>6, <2>7, <3>1
  <2>9. \A j \in DOMAIN p.blocks \ {k} : p.blocks[j].chunk = m.chunk =>
          p.blocks[j].at + Pool!Rounded(p.blocks[j].size) <= m.at
    <3> SUFFICES ASSUME NEW j \in DOMAIN p.blocks \ {k}, p.blocks[j].chunk = m.chunk
                 PROVE  p.blocks[j].at + Pool!Rounded(p.blocks[j].size) <= m.at
      OBVIOUS
    <3>1. /\ p.blocks[j].at \in Nat /\ Pool!Rounded(p.blocks[j].size) \in Nat
          /\ p.blocks[j].chunk \in DOMAIN p.chunks
          /\ p.blocks[j].at + Pool!Rounded(p.blocks[j].size) <= p.chunks[p.blocks[j].chunk].size
          /\ p.chunks[p.blocks[j].chunk].size \in Nat
      BY ONLY <1>9, j \in DOMAIN p.blocks \ {k}
    <3>2. p.chunks[p.blocks[j].chunk].size <= m.at
      BY ONLY <2>6, <3>1, p.blocks[j].chunk = m.chunk
    <3>3. m.at \in Nat
      BY ONLY <2>5
    <3> QED
      BY ONLY <3>1, <3>2, <3>3
  <2>10. \A i \in 1..n : i < b.size + 1 => r.pool.chunks[m.chunk].cell[m.at + i] = <<k, i>>
    BY <1>14, <2>5
  <2>11. k \in DOMAIN p.blocks /\ n \in Nat \ {0} /\ b.size + 1 \in Nat \ {0}
    BY <1>4, <1>6, <1>7 DEF p
  <2>12. Sound(Pool!Written([r.pool EXCEPT !.blocks[k] = Pool!Block(m.chunk, m.at, n)], k, b.size + 1))
    BY <2>5, <2>8, <2>9, <2>10, <2>11, MovedIsSound, ZenonT(40) DEF new
  <2>13. x' = Pool!Written([r.pool EXCEPT !.blocks[k] = Pool!Block(m.chunk, m.at, n)], k, b.size + 1)
    BY <1>2, <2>5, Zenon DEF p, b
  <2> QED
    BY ONLY <2>12, <2>13, Zenon
<1> QED
  BY <1>11, <1>12, <1>13

\* Clear leaves no block, and of the chunks only the buffer of the user, empty.
LEMMA ResetKeeps ==
  ASSUME Sound(x), Pool!Reset
  PROVE  Sound(x')
<1> DEFINE p     == x
           first == [p.chunks[1] EXCEPT !.size = 0]
<1>1. /\ p \in Pools /\ Fitting(p) /\ Counted(p) /\ p.chunks \in Seq(Chunks)
      /\ p.user \in BOOLEAN /\ p.held \in Int
  BY PoolTypes DEF Sound, Laid
<1>2. x' = [Pool!Clear(p) EXCEPT !.blocks = <<>>]
  BY DEF Pool!Reset
<1>3. /\ x' \in Pools /\ x'.blocks = <<>> /\ Fitting(x') /\ Counted(x')
  <2>1. CASE p.user
    <3>1. 1 \in DOMAIN p.chunks /\ p.chunks[1] \in Chunks
      BY <1>1, <2>1 DEF Counted
    <3>2. /\ first \in Chunks /\ first.size = 0 /\ first.capacity = p.chunks[1].capacity
          /\ first.cell = p.chunks[1].cell
      BY <3>1 DEF Chunks
    <3>3. x' = [user |-> p.user, chunks |-> <<first>>, blocks |-> <<>>,
                   held |-> p.held - (Len(p.chunks) - 1)]
      BY <1>1, <1>2, <2>1 DEF Pool!Clear, Pools
    <3>4. p.held - (Len(p.chunks) - 1) = 0
      BY <1>1, <2>1 DEF Counted
    <3> HIDE DEF first
    <3>5. <<first>> \in Seq(Chunks) /\ Len(<<first>>) = 1 /\ <<first>>[1] = first /\ DOMAIN <<first>> = {1}
      BY <3>2
    <3>6. /\ x' \in Pools /\ x'.chunks = <<first>> /\ x'.held = 0
          /\ x'.blocks = <<>> /\ x'.user = p.user
      BY <1>1, <3>3, <3>4, <3>5 DEF Pools
    <3>7. Fitting(x')
      BY <1>1, <3>1, <3>2, <3>5, <3>6 DEF Fitting, Chunks
    <3>8. Counted(x')
      BY <2>1, <3>5, <3>6 DEF Counted
    <3> QED
      BY <3>6, <3>7, <3>8
  <2>2. CASE ~p.user
    <3>1. x' = [user |-> p.user, chunks |-> <<>>, blocks |-> <<>>,
                   held |-> p.held - Len(p.chunks)]
      BY <1>1, <1>2, <2>2 DEF Pool!Clear, Pools
    <3>2. p.held - Len(p.chunks) = 0
      BY <1>1, <2>2 DEF Counted
    <3>3. /\ x' \in Pools /\ x'.chunks = <<>> /\ x'.held = 0
          /\ x'.blocks = <<>> /\ x'.user = p.user
      BY <1>1, <3>1, <3>2 DEF Pools
    <3> QED
      BY <2>2, <3>3 DEF Fitting, Counted
  <2> QED
    BY <2>1, <2>2
<1>4. DOMAIN x'.blocks = {}
  BY ONLY <1>3
<1>5. Inside(x') /\ Apart(x') /\ IntactBut(x', 0, 0)
  BY ONLY <1>4 DEF Inside, Apart, IntactBut
<1> QED
  BY ONLY <1>3, <1>5 DEF Sound, Laid

\* A new pool has no block, and at most the buffer of the user.
LEMMA InitIsSound ==
  ASSUME Pool!Init
  PROVE  Sound(x)
<1>1. PICK user \in UserCapacities :
        x = [user   |-> user # 0,
                chunks |-> IF user = 0 THEN <<>> ELSE <<Pool!Chunk(user)>>,
                blocks |-> <<>>,
                held   |-> 0]
  BY DEF Pool!Init
<1>2. user \in Nat
  BY MemoryAssumption
<1>3. /\ x.user = (user # 0) /\ x.blocks = <<>> /\ x.held = 0
      /\ x.chunks = IF user = 0 THEN <<>> ELSE <<Pool!Chunk(user)>>
  BY <1>1
<1>4. /\ Pool!Chunk(user) \in Chunks /\ Pool!Chunk(user).size = 0 /\ Pool!Chunk(user).capacity = user
      /\ Pool!Chunk(user).cell \in [1..user -> Nat \X Nat]
  <2>1. [i \in 1..user |-> <<0, 0>>] \in [1..user -> Nat \X Nat]
    OBVIOUS
  <2>2. [i \in 1..user |-> <<0, 0>>] \in Cells
    BY <1>2, <2>1, CellsOf
  <2> QED
    BY <1>2, <2>1, <2>2 DEF Pool!Chunk, Chunks
<1>5. x.chunks \in Seq(Chunks) /\ x.blocks \in Seq(Blocks)
  BY <1>3, <1>4
<1>6. x \in Pools
  BY <1>1, <1>3, <1>5 DEF Pools
<1>7. Fitting(x)
  BY <1>2, <1>3, <1>4, SMTT(40) DEF Fitting
<1>8. Counted(x)
  <2>1. CASE user = 0
    <3>1. x.chunks = <<>> /\ x.user = FALSE
      BY <1>3, <2>1
    <3>2. Len(<<>>) = 0 /\ x.held = 0
      BY <1>3
    <3> QED
      BY ONLY <3>1, <3>2 DEF Counted
  <2>2. CASE user # 0
    <3>1. x.chunks = <<Pool!Chunk(user)>> /\ x.user = TRUE
      BY <1>3, <2>2
    <3>2. Len(<<Pool!Chunk(user)>>) = 1 /\ <<Pool!Chunk(user)>> # <<>> /\ x.held = 0
      BY <1>3
    <3> QED
      BY ONLY <3>1, <3>2 DEF Counted
  <2> QED
    BY <2>1, <2>2
<1> QED
  BY <1>3, <1>6, <1>7, <1>8 DEF Sound, Laid, Inside, Apart, IntactBut

\* The inductive invariant.
SoundPool == Sound(x)

\* Allocate, Resize and Reset keep a sound pool sound.
LEMMA SoundIsInvariant ==
  Pool!Spec => []SoundPool
<1>1. Pool!Init => SoundPool
  BY InitIsSound DEF SoundPool
<1>2. SoundPool /\ [Pool!Next]_x => SoundPool'
  <2> SUFFICES ASSUME Sound(x), [Pool!Next]_x PROVE Sound(x')
    BY DEF SoundPool
  <2>1. CASE Pool!Next
    BY <2>1, AllocateKeeps, ResizeKeeps, ResetKeeps DEF Pool!Next
  <2>2. CASE UNCHANGED x
    BY <2>2
  <2> QED
    BY <2>1, <2>2
<1> QED
  BY <1>1, <1>2, PTL DEF Pool!Spec

\* In a sound pool no block has lost what was written to it.
LEMMA SoundIsIntact ==
  SoundPool => Pool!Intact
<1> SUFFICES ASSUME Sound(x), NEW k \in DOMAIN x.blocks, NEW i \in 1..x.blocks[k].size
             PROVE  x.chunks[x.blocks[k].chunk].cell[x.blocks[k].at + i] = <<k, i>>
  BY Zenon DEF Pool!Intact, SoundPool
<1>1. k # 0
  BY BlockLies DEF Sound, Laid, Pools
<1> QED
  BY <1>1, Zenon DEF Sound, IntactBut

\* A sound pool has counted its chunks.
LEMMA SoundIsAccounted ==
  SoundPool => Pool!Accounted
BY DEF SoundPool, Sound, Laid, Counted, Pool!Accounted

\* Whatever the alignment, the capacities, the sizes and the number of blocks, a block of
\* the pool keeps what was written to it, however Realloc moves it and its neighbours.
THEOREM BlocksStayIntact ==
  Pool!Spec => []Pool!Intact
BY SoundIsIntact, SoundIsInvariant, PTL

\* Clear gives back every chunk Malloc took, but never the buffer of the user.
THEOREM ChunksAreAccounted ==
  Pool!Spec => []Pool!Accounted
BY SoundIsAccounted, SoundIsInvariant, PTL

-----------------------------------------------------------------------------
(* A stream that is read                                                   *)

Lowest(a, b) == IF a < b THEN a ELSE b

Readers == [kind : {"file", "istream", "memory"}, file : Seq(Int), size : Nat, from : Nat,
            buffer : Seq(Int), last : Int, current : Nat, readCount : Nat, count : Nat,
            eof : BOOLEAN, taken : Seq(Int), line : Nat, column : Nat]

\* The characters taken are those of the file, and then nuls.
Follows(s) == /\ Len(s.taken) <= Len(s.file) + 1
              /\ \A i \in 1..Len(s.taken) :
                   s.taken[i] = IF i <= Len(s.file) THEN s.file[i] ELSE 0

\* The ends of lines taken.
Ends(s) == {i \in 1..Len(s.taken) : s.taken[i] < 0}

Lines(s) == /\ s.line = Cardinality(Ends(s)) + 1
            /\ \E m \in Ends(s) \cup {0} : /\ \A i \in Ends(s) : i <= m
                                           /\ s.column = Len(s.taken) - m


\* What the buffer holds begins behind `count` characters of the file.
Loaded(s) ==
  /\ s.size >= 4
  /\ s.from = s.count + s.readCount /\ s.from <= Len(s.file)
  /\ s.current <= s.last
  /\ Len(s.buffer) = s.last + 1
  /\ \A i \in 1..s.readCount : s.buffer[i] = s.file[s.count + i]
  /\ s.eof => s.last = s.readCount /\ s.buffer[s.readCount + 1] = 0 /\ s.from = Len(s.file)
  /\ ~s.eof => s.last = s.readCount - 1 /\ s.readCount = s.size

\* The next character of reader s is character n + 1 of the file.
Stands(s, n) == IF s.kind = "memory" THEN s.current = Lowest(n, Len(s.file))
                ELSE Loaded(s) /\ s.count + s.current = Lowest(n, Len(s.file))

Reading(s) == s \in Readers /\ Follows(s) /\ Lines(s) /\ Stands(s, Len(s.taken))

\* Reader q is reader r elsewhere.
SameText(r, q) == /\ q.kind = r.kind /\ q.file = r.file /\ q.size = r.size /\ q.taken = r.taken
                  /\ q.line = r.line /\ q.column = r.column


\* What fread gives is the next characters of the file, as many as there are and have room.
LEMMA ChunkIs ==
  ASSUME NEW r \in Readers, r.from <= Len(r.file)
  PROVE  LET chunk == Streams!Chunk(r)
         IN  /\ chunk \in Seq(Int)
             /\ Len(chunk) = Lowest(r.size, Len(r.file) - r.from)
             /\ \A i \in 1..Len(chunk) : chunk[i] = r.file[r.from + i]
<1> DEFINE n == Streams!Lowest(r.from + r.size, Len(r.file))
<1>1. r.file \in Seq(Int) /\ r.from \in Nat /\ r.size \in Nat /\ Len(r.file) \in Nat
  BY DEF Readers
<1>2. n \in Nat /\ n <= Len(r.file) /\ r.from <= n
      /\ n - r.from = Lowest(r.size, Len(r.file) - r.from)
  BY <1>1 DEF Streams!Lowest, Lowest
<1>3. Streams!Chunk(r) = SubSeq(r.file, r.from + 1, n)
  BY DEF Streams!Chunk
<1> HIDE DEF n
<1>4. SubSeq(r.file, r.from + 1, n) \in Seq(Int)
  BY <1>1, <1>2
<1>5. Len(SubSeq(r.file, r.from + 1, n)) = n - r.from
  BY <1>1, <1>2
<1>6. \A i \in 1..n - r.from : SubSeq(r.file, r.from + 1, n)[i] = r.file[r.from + i]
  <2>1. \A i \in r.from + 1..n : r.file[i] \in Int
    BY <1>1, <1>2
  <2>2. r.from + 1 \in Int /\ n \in Int
    BY <1>1, <1>2
  <2>3. \A i \in 1..n - (r.from + 1) + 1 : SubSeq(r.file, r.from + 1, n)[i] = r.file[r.from + 1 + i - 1]
    BY ONLY <2>1, <2>2, SubSeqProperties
  <2>4. n - (r.from + 1) + 1 = n - r.from
    BY ONLY <1>1, <1>2
  <2>5. ASSUME NEW i \in 1..n - r.from
        PROVE  SubSeq(r.file, r.from + 1, n)[i] = r.file[r.from + i]
    <3>1. r.from + 1 + i - 1 = r.from + i
      BY ONLY <1>1, i \in Int
    <3> QED
      BY <2>3, <2>4, <3>1
  <2> QED
    BY <2>5
<1> QED
  BY <1>2, <1>3, <1>4, <1>5, <1>6

\* Both kinds of refill leave the buffer loaded with what comes next.
LEMMA RefillIs ==
  ASSUME NEW r \in Readers, r.kind # "memory", r.size >= 4, ~r.eof,
         r.from <= Len(r.file), r.from = r.count + r.readCount,
         NEW q, q = Streams!FileRefill(r) \/ q = Streams!IStreamRefill(r)
  PROVE  /\ q \in Readers /\ SameText(r, q)
         /\ Loaded(q) /\ q.count + q.current = r.from
<1> DEFINE chunk == Streams!Chunk(r)
<1>1. /\ chunk \in Seq(Int)
      /\ Len(chunk) = Lowest(r.size, Len(r.file) - r.from)
      /\ \A i \in 1..Len(chunk) : chunk[i] = r.file[r.from + i]
  BY ChunkIs
<1>2. /\ r.file \in Seq(Int) /\ r.from \in Nat /\ r.size \in Nat /\ r.readCount \in Nat
      /\ r.count \in Nat /\ Len(r.file) \in Nat
  BY DEF Readers
<1>3. Len(chunk) \in Nat /\ Len(chunk) <= r.size /\ r.from + Len(chunk) <= Len(r.file)
      /\ (Len(chunk) # r.size => r.from + Len(chunk) = Len(r.file))
  <2>1. Len(chunk) = Lowest(r.size, Len(r.file) - r.from)
    BY <1>1
  <2> HIDE DEF chunk
  <2> QED
    BY ONLY <1>2, <2>1, r.from <= Len(r.file) DEF Lowest
<1> HIDE DEF chunk
<1>4. q = [r EXCEPT !.count = r.count + r.readCount, !.readCount = Len(chunk), !.from = r.from + Len(chunk),
                    !.buffer = IF Len(chunk) = r.size THEN chunk ELSE Append(chunk, 0), !.current = 0,
                    !.last = IF Len(chunk) = r.size THEN Len(chunk) - 1 ELSE Len(chunk),
                    !.eof = (Len(chunk) # r.size)]
  <2>1. CASE q = Streams!FileRefill(r)
    <3>1. (Len(chunk) >= r.size) <=> (Len(chunk) = r.size)
      BY <1>2, <1>3
    <3> QED
      BY <2>1, <3>1 DEF Streams!FileRefill, chunk, Readers
  <2>2. CASE q = Streams!IStreamRefill(r)
    <3>1. CASE Len(chunk) = r.size
      <4>1. q = [r EXCEPT !.count = r.count + r.readCount, !.readCount = r.size, !.last = r.size - 1,
                          !.current = 0, !.from = r.from + Len(chunk), !.buffer = chunk]
        BY <2>2, <3>1 DEF Streams!IStreamRefill, chunk
      <4> QED
        BY <4>1, <3>1 DEF Readers
    <3>2. CASE Len(chunk) # r.size
      BY <2>2, <3>2 DEF Streams!IStreamRefill, chunk, Readers
    <3> QED
      BY <3>1, <3>2
  <2> QED
    BY <2>1, <2>2
<1>5. /\ q.count = r.from /\ q.readCount = Len(chunk) /\ q.from = r.from + Len(chunk) /\ q.current = 0
      /\ q.buffer = IF Len(chunk) = r.size THEN chunk ELSE Append(chunk, 0)
      /\ q.last = IF Len(chunk) = r.size THEN Len(chunk) - 1 ELSE Len(chunk)
      /\ q.eof = (Len(chunk) # r.size)
      /\ SameText(r, q)
  BY <1>4 DEF Readers, SameText
<1>6. q \in Readers
  <2>1. /\ q.buffer \in Seq(Int) /\ q.last \in Int /\ q.eof \in BOOLEAN
        /\ q.count \in Nat /\ q.readCount \in Nat /\ q.from \in Nat /\ q.current \in Nat
    <3>1. q.buffer \in Seq(Int)
      BY <1>1, <1>5
    <3>2. q.last \in Int /\ q.count \in Nat /\ q.readCount \in Nat /\ q.from \in Nat /\ q.current \in Nat
      BY <1>2, <1>3, <1>5, SMTT(40)
    <3>3. q.eof \in BOOLEAN
      BY <1>5
    <3> QED
      BY <3>1, <3>2, <3>3
  <2>2. q = [r EXCEPT !.count = q.count, !.readCount = q.readCount, !.from = q.from, !.buffer = q.buffer,
                      !.current = q.current, !.last = q.last, !.eof = q.eof]
    BY <1>4, <1>5
  <2> QED
    BY <2>1, <2>2 DEF Readers
<1>7. Loaded(q)
  <2>1. q.size = r.size /\ q.file = r.file
    BY <1>5 DEF SameText
  <2>2. Len(q.buffer) = q.last + 1
    BY <1>1, <1>3, <1>5
  <2>3. \A i \in 1..q.readCount : q.buffer[i] = q.file[q.count + i]
    BY <1>1, <1>3, <1>5, <2>1
  <2>4. Len(chunk) # r.size => q.buffer[Len(chunk) + 1] = 0
    BY <1>1, <1>3, <1>5
  <2>5. q.eof => q.last = q.readCount /\ q.buffer[q.readCount + 1] = 0 /\ q.from = Len(q.file)
    BY <1>3, <1>5, <2>1, <2>4
  <2>6. ~q.eof => q.last = q.readCount - 1 /\ q.readCount = q.size
    BY <1>5, <2>1
  <2>7. /\ q.size >= 4 /\ q.from = q.count + q.readCount /\ q.from <= Len(q.file) /\ q.current <= q.last
    BY <1>2, <1>3, <1>5, <2>1
  <2> QED
    BY <2>2, <2>3, <2>5, <2>6, <2>7 DEF Loaded
<1> QED
  BY <1>2, <1>5, <1>6, <1>7

\* Reading on moves to the next character, or stays at the end.
LEMMA ReadIs ==
  ASSUME NEW r \in Readers, r.kind # "memory", NEW n \in Nat, Stands(r, n)
  PROVE  Streams!Read(r) \in Readers /\ SameText(r, Streams!Read(r)) /\ Stands(Streams!Read(r), n + 1)
<1> DEFINE q == Streams!Read(r)
<1>1. /\ r.from \in Nat /\ r.size \in Nat /\ r.readCount \in Nat /\ n \in Nat
      /\ r.count \in Nat /\ Len(r.file) \in Nat /\ r.current \in Nat /\ r.last \in Int
  BY DEF Readers
<1>2. Loaded(r) /\ r.count + r.current = Lowest(n, Len(r.file))
  BY DEF Stands
<1>3. CASE r.current < r.last
  <2>1. q = [r EXCEPT !.current = r.current + 1]
    <3>1. ~(r.current >= r.last)
      BY ONLY <1>1, <1>3
    <3> QED
      BY ONLY <1>3, <3>1 DEF Streams!Read, q
  <2> HIDE DEF q
  <2>2. q \in Readers
    <3>1. r.current + 1 \in Nat
      BY ONLY <1>1
    <3> QED
      BY <2>1, <3>1 DEF Readers
  <2>3. /\ q.current = r.current + 1 /\ q.last = r.last /\ q.from = r.from /\ q.readCount = r.readCount
        /\ q.count = r.count /\ q.buffer = r.buffer /\ q.eof = r.eof /\ q.file = r.file /\ q.size = r.size
        /\ SameText(r, q) /\ q.kind = r.kind
    BY <2>1 DEF Readers, SameText
  <2>4. Loaded(q)
    <3>1. q.current <= q.last
      BY ONLY <1>1, <1>3, <2>3
    <3> QED
      BY ONLY <1>2, <2>3, <3>1 DEF Loaded
  <2>5. q.count + q.current = Lowest(n + 1, Len(q.file))
    <3>0. /\ r.last <= r.readCount
          /\ r.from = r.count + r.readCount /\ r.from <= Len(r.file)
      <4>1. r.eof => r.last = r.readCount
        BY ONLY <1>2 DEF Loaded
      <4>2. ~r.eof => r.last = r.readCount - 1
        BY ONLY <1>2 DEF Loaded
      <4>3. r.last <= r.readCount
        BY ONLY <1>1, <4>1, <4>2
      <4>4. r.from = r.count + r.readCount /\ r.from <= Len(r.file)
        BY ONLY <1>2 DEF Loaded
      <4> QED
        BY ONLY <4>3, <4>4
    <3>1. r.count + r.current < Len(r.file)
      <4>1. r.current < r.readCount
        BY ONLY <1>1, <1>3, <3>0
      <4>2. r.count + r.current < r.count + r.readCount
        BY ONLY <1>1, <4>1
      <4>3. r.count + r.readCount <= Len(r.file)
        BY ONLY <3>0
      <4>4. r.count + r.current \in Nat /\ r.count + r.readCount \in Nat /\ Len(r.file) \in Nat
        BY ONLY <1>1
      <4> QED
        BY ONLY <4>2, <4>3, <4>4
    <3>2. Lowest(n + 1, Len(r.file)) = Lowest(n, Len(r.file)) + 1
      <4>1. Lowest(n, Len(r.file)) < Len(r.file)
        BY ONLY <1>2, <3>1
      <4> QED
        BY ONLY <1>1, <4>1 DEF Lowest
    <3>3. r.count + (r.current + 1) = (r.count + r.current) + 1
      BY ONLY <1>1
    <3> QED
      BY ONLY <1>2, <2>3, <3>2, <3>3
  <2> QED
    BY <2>2, <2>3, <2>4, <2>5 DEF Stands, q
<1>4. CASE r.current >= r.last /\ r.eof
  <2>1. q = r
    <3>1. ~(r.current < r.last)
      BY ONLY <1>1, <1>4
    <3> QED
      BY ONLY <1>4, <3>1 DEF Streams!Read, q
  <2>2. r.count + r.current = Len(r.file)
    <3>1. /\ r.last = r.readCount /\ r.current <= r.last
          /\ r.from = r.count + r.readCount /\ r.from = Len(r.file)
      BY ONLY <1>2, <1>4 DEF Loaded
    <3>2. r.current = r.readCount
      BY ONLY <1>1, <1>4, <3>1
    <3> QED
      BY ONLY <3>1, <3>2
  <2>3. Lowest(n + 1, Len(r.file)) = Len(r.file)
    BY ONLY <1>1, <1>2, <2>2 DEF Lowest
  <2> QED
    BY <1>2, <2>1, <2>2, <2>3 DEF Stands, SameText
<1>5. CASE r.current >= r.last /\ ~r.eof
  <2>1. q = Streams!FileRefill(r) \/ q = Streams!IStreamRefill(r)
    <3>1. ~(r.current < r.last)
      BY ONLY <1>1, <1>5
    <3> QED
      BY ONLY <1>5, <3>1 DEF Streams!Read, q
  <2>2. r.size >= 4 /\ r.from <= Len(r.file) /\ r.from = r.count + r.readCount
    BY <1>2 DEF Loaded
  <2>3. q \in Readers /\ SameText(r, q) /\ Loaded(q) /\ q.count + q.current = r.from
    <3> HIDE DEF q
    <3> QED
      BY <1>5, <2>1, <2>2, RefillIs
  <2>4. r.from = Lowest(n + 1, Len(r.file))
    <3>1. r.count + r.current = r.from - 1
      <4>1. r.last = r.readCount - 1 /\ r.current <= r.last /\ r.from = r.count + r.readCount
        BY <1>2, <1>5 DEF Loaded
      <4> QED
        BY ONLY <1>1, <1>5, <4>1
    <3>2. Lowest(n, Len(r.file)) = r.from - 1
      BY ONLY <1>2, <3>1
    <3>3. Lowest(n, Len(r.file)) < Len(r.file)
      BY ONLY <1>1, <2>2, <3>2
    <3>4. Lowest(n + 1, Len(r.file)) = Lowest(n, Len(r.file)) + 1
      BY ONLY <1>1, <3>3 DEF Lowest
    <3> QED
      BY ONLY <1>1, <3>2, <3>4
  <2> HIDE DEF q
  <2>5. q.file = r.file /\ q.kind = r.kind
    BY <2>3 DEF SameText
  <2> QED
    BY <2>3, <2>4, <2>5 DEF Stands, q
<1>6. r.current < r.last \/ r.current >= r.last
  BY ONLY <1>1
<1> QED
  BY <1>3, <1>4, <1>5, <1>6

\* The character a reader shows is the next one of the file, or a nul.
LEMMA PeekIs ==
  ASSUME NEW r \in Readers, NEW n \in Nat, Stands(r, n)
  PROVE  Streams!Peek(r) = IF n < Len(r.file) THEN r.file[n + 1] ELSE 0
<1>1. /\ r.from \in Nat /\ r.size \in Nat /\ r.readCount \in Nat /\ n \in Nat
      /\ r.count \in Nat /\ Len(r.file) \in Nat /\ r.current \in Nat /\ r.last \in Int
  BY DEF Readers
<1>2. CASE r.kind = "memory"
  BY <1>1, <1>2 DEF Stands, Lowest, Streams!Peek, Streams!MemoryPeek
<1>3. CASE r.kind # "memory"
  <2>1. Loaded(r) /\ r.count + r.current = Lowest(n, Len(r.file)) /\ Streams!Peek(r) = r.buffer[r.current + 1]
    BY <1>3 DEF Stands, Streams!Peek
  <2>2. CASE r.current < r.readCount
    <3>1. r.current + 1 \in 1..r.readCount /\ r.count + (r.current + 1) = r.count + r.current + 1
      <4>1. r.current \in Nat /\ r.readCount \in Nat /\ r.count \in Nat
        BY ONLY <1>1
      <4>2. r.current + 1 \in 1..r.readCount
        BY ONLY <2>2, <4>1
      <4>3. r.count + (r.current + 1) = r.count + r.current + 1
        BY ONLY <4>1
      <4> QED
        BY ONLY <4>2, <4>3
    <3>2. r.buffer[r.current + 1] = r.file[r.count + r.current + 1]
      BY ONLY <2>1, <3>1 DEF Loaded
    <3>3. r.count + r.current < Len(r.file)
      <4>1. r.from = r.count + r.readCount /\ r.from <= Len(r.file)
        BY ONLY <2>1 DEF Loaded
      <4> QED
        BY ONLY <1>1, <2>2, <4>1
    <3>4. n < Len(r.file) /\ n = r.count + r.current
      BY ONLY <1>1, <2>1, <3>3 DEF Lowest
    <3> QED
      BY <2>1, <3>2, <3>4
  <2>3. CASE r.current >= r.readCount
    <3>1. r.eof /\ r.current = r.readCount /\ r.count + r.current = Len(r.file)
      <4>1. /\ r.from = r.count + r.readCount /\ r.current <= r.last
            /\ ~r.eof => r.last = r.readCount - 1
            /\ r.eof => r.last = r.readCount /\ r.from = Len(r.file)
        BY ONLY <2>1 DEF Loaded
      <4>2. CASE ~r.eof
        <5>1. r.last = r.readCount - 1
          BY ONLY <4>1, <4>2
        <5>2. r.current <= r.last
          BY ONLY <4>1
        <5> QED
          BY ONLY <1>1, <2>3, <5>1, <5>2
      <4>3. CASE r.eof
        <5>1. r.last = r.readCount /\ r.from = Len(r.file)
          BY ONLY <4>1, <4>3
        <5>2. r.current <= r.last /\ r.from = r.count + r.readCount
          BY ONLY <4>1
        <5>3. r.current = r.readCount /\ r.count + r.current = Len(r.file)
          BY ONLY <1>1, <2>3, <5>1, <5>2
        <5> QED
          BY ONLY <4>3, <5>3
      <4> QED
        BY ONLY <4>2, <4>3
    <3>2. ~(n < Len(r.file))
      BY ONLY <1>1, <2>1, <3>1 DEF Lowest
    <3>3. r.buffer[r.current + 1] = 0
      BY ONLY <2>1, <3>1 DEF Loaded
    <3> QED
      BY <2>1, <3>2, <3>3
  <2>4. r.current < r.readCount \/ r.current >= r.readCount
    BY ONLY <1>1
  <2> QED
    BY <2>2, <2>3, <2>4
<1> QED
  BY <1>2, <1>3

\* One more character t + 1 taken.
LEMMA TakenIs ==
  ASSUME NEW t \in Seq(Int), NEW c \in Int
  PROVE  /\ Append(t, c) \in Seq(Int) /\ Len(Append(t, c)) = Len(t) + 1
         /\ \A i \in 1..Len(t) : Append(t, c)[i] = t[i]
         /\ Append(t, c)[Len(t) + 1] = c
OBVIOUS

\* The lines and columns are counted on when character c is taken.
LEMMA LinesKept ==
  ASSUME NEW s \in Readers, NEW q \in Readers, Lines(s), NEW c \in Int,
         q.taken = Append(s.taken, c),
         c < 0 => q.line = s.line + 1 /\ q.column = 0,
         ~(c < 0) => q.line = s.line /\ q.column = s.column + 1
  PROVE  Lines(q)
<1> DEFINE n == Len(s.taken)
<1>1. /\ s.taken \in Seq(Int) /\ n \in Nat /\ s.line \in Nat /\ s.column \in Nat
  BY DEF Readers
<1>2. /\ Len(q.taken) = n + 1 /\ \A i \in 1..n : q.taken[i] = s.taken[i]
      /\ q.taken[n + 1] = c
  BY <1>1, TakenIs
<1>3. s.line = Cardinality(Ends(s)) + 1
  BY DEF Lines
<1>4. PICK m \in Ends(s) \cup {0} : (\A i \in Ends(s) : i <= m) /\ s.column = n - m
  BY DEF Lines
<1> HIDE DEF n
<1>5. Ends(s) = {i \in 1..n : s.taken[i] < 0} /\ Ends(q) = {i \in 1..n + 1 : q.taken[i] < 0}
  BY <1>2 DEF Ends, n
<1>6. IsFiniteSet(Ends(s)) /\ n + 1 \notin Ends(s) /\ Ends(s) \subseteq 1..n
  <2>1. IsFiniteSet(1..n)
    BY <1>1, FS_Interval
  <2>2. Ends(s) \subseteq 1..n
    BY ONLY <1>5
  <2>3. n + 1 \notin 1..n
    BY ONLY <1>1
  <2> QED
    BY <2>1, <2>2, <2>3, FS_Subset
<1>7. CASE c < 0
  <2>1. Ends(q) = Ends(s) \cup {n + 1}
    BY ONLY <1>1, <1>2, <1>5, <1>7
  <2>2. Cardinality(Ends(q)) = Cardinality(Ends(s)) + 1
    <3> DEFINE E == Ends(s)
    <3>1. IsFiniteSet(E) /\ n + 1 \notin E
      BY ONLY <1>6
    <3> HIDE DEF E
    <3>2. Cardinality(E \cup {n + 1}) = Cardinality(E) + 1
      BY ONLY <3>1, FS_AddElement
    <3> QED
      BY ONLY <2>1, <3>2 DEF E
  <2>3. \A i \in Ends(q) : i <= n + 1
    BY ONLY <1>1, <1>5
  <2>4. n + 1 \in Ends(q) \cup {0} /\ q.column = Len(q.taken) - (n + 1)
    BY <1>1, <1>2, <1>7, <2>1
  <2> QED
    BY <1>3, <1>7, <2>2, <2>3, <2>4 DEF Lines
<1>8. CASE ~(c < 0)
  <2>1. Ends(q) = Ends(s)
    BY ONLY <1>1, <1>2, <1>5, <1>8
  <2>2. m \in Int
    BY ONLY <1>1, <1>4, <1>6
  <2>3. q.column = Len(q.taken) - m
    BY ONLY <1>1, <1>2, <1>4, <1>8, <2>2,
            (~(c < 0) => q.line = s.line /\ q.column = s.column + 1)
  <2> QED
    BY <1>3, <1>4, <1>8, <2>1, <2>3 DEF Lines
<1> QED
  BY <1>7, <1>8

\* Take gives the next character.
LEMMA TakeKeeps ==
  ASSUME Reading(x), Streams!Take
  PROVE  Reading(x')
<1> DEFINE n == Len(x.taken)
           c == Streams!Peek(x)
           p == IF x.kind = "memory" THEN Streams!MemoryTaken(x) ELSE Streams!Read(x)
<1>1. x \in Readers /\ Follows(x) /\ Lines(x) /\ Stands(x, n)
  BY DEF Reading
<1>2. /\ x.taken \in Seq(Int) /\ x.file \in Seq(Int) /\ n \in Nat /\ Len(x.file) \in Nat
      /\ x.current \in Nat /\ x.line \in Nat /\ x.column \in Nat
  BY <1>1 DEF Readers
<1>3. /\ n <= Len(x.file)
      /\ x' = [Streams!Counted(p, c) EXCEPT !.taken = Append(@, c)]
  BY DEF Streams!Take
<1>4. c = (IF n < Len(x.file) THEN x.file[n + 1] ELSE 0) /\ c \in Int
  <2>1. c = IF n < Len(x.file) THEN x.file[n + 1] ELSE 0
    BY <1>1, <1>2, PeekIs
  <2> QED
    BY ONLY <1>2, <2>1
<1>5. p \in Readers /\ SameText(x, p) /\ Stands(p, n + 1)
  <2>1. CASE x.kind = "memory"
    <3>1. x.current = Lowest(n, Len(x.file))
      BY <1>1, <2>1 DEF Stands
    <3>2. CASE x.current = Len(x.file)
      <4>1. p = x
        BY <2>1, <3>2 DEF Streams!MemoryTaken
      <4>2. x.current = Lowest(n + 1, Len(x.file))
        BY ONLY <1>2, <3>1, <3>2 DEF Lowest
      <4> QED
        BY ONLY <1>1, <2>1, <4>1, <4>2 DEF Stands, SameText
    <3>3. CASE x.current # Len(x.file)
      <4>1. p = [x EXCEPT !.current = x.current + 1]
        BY <2>1, <3>3 DEF Streams!MemoryTaken
      <4>2. x.current + 1 = Lowest(n + 1, Len(x.file))
        BY ONLY <1>2, <3>1, <3>3 DEF Lowest
      <4>3. x.current + 1 \in Nat
        BY ONLY <1>2
      <4>4. p \in Readers
        BY ONLY <1>1, <4>1, <4>3 DEF Readers
      <4>5. SameText(x, p) /\ p.current = x.current + 1 /\ p.kind = x.kind /\ p.file = x.file
        BY ONLY <1>1, <4>1 DEF Readers, SameText
      <4> QED
        BY ONLY <2>1, <4>2, <4>4, <4>5 DEF Stands
    <3> QED
      BY <3>2, <3>3
  <2>2. CASE x.kind # "memory"
    BY <1>1, <1>2, <2>2, ReadIs
  <2> QED
    BY <2>1, <2>2
<1> HIDE DEF n, c, p
<1>6. /\ x'.taken = Append(x.taken, c)
      /\ c < 0 => x'.line = x.line + 1 /\ x'.column = 0
      /\ ~(c < 0) => x'.line = x.line /\ x'.column = x.column + 1
      /\ x'.kind = p.kind /\ x'.file = p.file /\ x'.size = p.size /\ x'.from = p.from
      /\ x'.buffer = p.buffer /\ x'.last = p.last /\ x'.current = p.current
      /\ x'.readCount = p.readCount /\ x'.count = p.count /\ x'.eof = p.eof
  <2>1. p.taken = x.taken /\ p.line = x.line /\ p.column = x.column
    BY <1>5 DEF SameText
  <2>2. CASE c < 0
    BY <1>3, <1>5, <2>1, <2>2 DEF Streams!Counted, Readers
  <2>3. CASE ~(c < 0)
    BY <1>3, <1>5, <2>1, <2>3 DEF Streams!Counted, Readers
  <2> QED
    BY <2>2, <2>3
<1>7. x' \in Readers
  <2>1. Append(x.taken, c) \in Seq(Int) /\ x.line + 1 \in Nat /\ 0 \in Nat /\ x.column + 1 \in Nat
    <3>1. x.taken \in Seq(Int) /\ c \in Int
      BY ONLY <1>2, <1>4
    <3>2. Append(x.taken, c) \in Seq(Int)
      BY ONLY <3>1, TakenIs
    <3>3. x.line \in Nat /\ x.column \in Nat
      BY ONLY <1>2
    <3>4. x.line + 1 \in Nat /\ 0 \in Nat /\ x.column + 1 \in Nat
      BY ONLY <3>3
    <3> QED
      BY ONLY <3>2, <3>4
  <2>2. x'.taken \in Seq(Int) /\ x'.line \in Nat /\ x'.column \in Nat
    BY <1>2, <1>6, <2>1
  <2>3. x' = [p EXCEPT !.taken = x'.taken, !.line = x'.line, !.column = x'.column]
    <3>1. p.taken = x.taken /\ p.line = x.line /\ p.column = x.column
      BY <1>5 DEF SameText
    <3>2. CASE c < 0
      BY ONLY <1>3, <1>5, <1>6, <3>1, <3>2 DEF Streams!Counted, Readers
    <3>3. CASE ~(c < 0)
      BY ONLY <1>3, <1>5, <1>6, <3>1, <3>3 DEF Streams!Counted, Readers
    <3> QED
      BY <3>2, <3>3
  <2> QED
    BY <1>5, <2>2, <2>3 DEF Readers
<1>8. x'.file = x.file /\ x'.kind = x.kind
  BY <1>5, <1>6 DEF SameText
<1>9. Len(x'.taken) = n + 1
  BY <1>2, <1>4, <1>6, TakenIs DEF n
<1>10. Follows(x')
  <2>1. n + 1 <= Len(x.file) + 1
    BY ONLY <1>2, <1>3
  <2>2. ASSUME NEW i \in 1..n + 1 PROVE x'.taken[i] = IF i <= Len(x.file) THEN x.file[i] ELSE 0
    <3>1. CASE i \in 1..n
      <4>1. x'.taken[i] = x.taken[i]
        BY <1>2, <1>4, <1>6, <3>1, TakenIs DEF n
      <4> QED
        BY ONLY <1>1, <3>1, <4>1 DEF Follows, n
    <3>2. CASE i = n + 1
      <4>1. x'.taken[i] = c
        BY <1>2, <1>4, <1>6, <3>2, TakenIs DEF n
      <4>2. (i <= Len(x.file)) <=> (n < Len(x.file))
        BY ONLY <1>2, <3>2
      <4> QED
        BY ONLY <1>4, <3>2, <4>1, <4>2
    <3>3. i \in 1..n \/ i = n + 1
      BY ONLY <1>2, i \in 1..n + 1
    <3> QED
      BY <3>1, <3>2, <3>3
  <2> QED
    BY ONLY <1>8, <1>9, <2>1, <2>2 DEF Follows
<1>11. Lines(x')
  BY <1>1, <1>4, <1>6, <1>7, LinesKept
<1>12. Stands(x', Len(x'.taken))
  BY ONLY <1>5, <1>6, <1>9 DEF Stands, Loaded
<1> QED
  BY <1>7, <1>10, <1>11, <1>12 DEF Reading

\* Four characters can be looked at exactly when there are four.
LEMMA Peek4Is ==
  ASSUME NEW r \in Readers, Stands(r, 0)
  PROVE  Streams!Peek4(r) <=> Len(r.file) >= 4
<1>1. /\ r.from \in Nat /\ r.size \in Nat /\ r.readCount \in Nat
      /\ r.count \in Nat /\ Len(r.file) \in Nat /\ r.current \in Nat /\ r.last \in Int
  BY DEF Readers
<1>2. Lowest(0, Len(r.file)) = 0
  BY ONLY <1>1 DEF Lowest
<1>3. CASE r.kind = "memory"
  <2>1. r.current = 0 /\ (Streams!Peek4(r) <=> r.current + 4 <= Len(r.file))
    BY <1>2, <1>3 DEF Stands, Streams!Peek4
  <2> QED
    BY ONLY <1>1, <2>1
<1>4. CASE r.kind # "memory"
  <2>1. Loaded(r) /\ r.count + r.current = 0
    BY <1>2, <1>4 DEF Stands
  <2>2. /\ r.size >= 4 /\ r.from = r.count + r.readCount /\ r.from <= Len(r.file)
        /\ r.eof => r.last = r.readCount /\ r.from = Len(r.file)
        /\ ~r.eof => r.last = r.readCount - 1 /\ r.readCount = r.size
    BY <2>1 DEF Loaded
  <2>3. CASE r.eof
    <3>1. Streams!Peek4(r) <=> r.current + 4 <= r.last
      BY <1>4, <2>3 DEF Streams!Peek4
    <3>2. r.last = r.readCount /\ r.from = Len(r.file)
      BY <2>2, <2>3
    <3>3. r.from = r.count + r.readCount /\ r.count + r.current = 0
      BY <2>1, <2>2
    <3> QED
      BY ONLY <1>1, <3>1, <3>2, <3>3
  <2>4. CASE ~r.eof
    <3>1. Streams!Peek4(r) <=> r.current + 3 <= r.last
      BY <1>4, <2>4 DEF Streams!Peek4
    <3>2. r.last = r.readCount - 1 /\ r.readCount = r.size
      BY <2>2, <2>4
    <3>3. r.from = r.count + r.readCount /\ r.count + r.current = 0 /\ r.size >= 4 /\ r.from <= Len(r.file)
      BY <2>1, <2>2
    <3> QED
      BY ONLY <1>1, <3>1, <3>2, <3>3
  <2> QED
    BY <2>3, <2>4
<1> QED
  BY <1>3, <1>4

\* A reader that stands where it should has given the characters of the file.
LEMMA ReadingReads == Reading(x) => Streams!ReadsFile
<1> SUFFICES ASSUME Reading(x) PROVE Streams!ReadsFile
  OBVIOUS
<1> DEFINE n == Len(x.taken)
<1>1. x \in Readers /\ Follows(x) /\ Stands(x, n)
  BY DEF Reading
<1>2. x.taken \in Seq(Int) /\ n \in Nat /\ Len(x.file) \in Nat /\ x.current \in Nat /\ x.count \in Nat
  BY <1>1 DEF Readers
<1>3. x.taken = [i \in 1..n |-> IF i <= Len(x.file) THEN x.file[i] ELSE 0]
  <2>1. x.taken = [i \in 1..n |-> x.taken[i]]
    <3>1. DOMAIN x.taken = 1..n /\ x.taken = [i \in DOMAIN x.taken |-> x.taken[i]]
      BY ONLY <1>2
    <3> QED
      BY ONLY <3>1
  <2>2. \A i \in 1..n : x.taken[i] = IF i <= Len(x.file) THEN x.file[i] ELSE 0
    BY <1>1 DEF Follows
  <2> HIDE DEF n
  <2> QED
    BY ONLY <2>1, <2>2
<1>4. Streams!Tell(x) = Streams!Lowest(n, Len(x.file))
  BY ONLY <1>1 DEF Stands, Streams!Tell, Streams!Lowest, Lowest
<1>5. Streams!Peek(x) = IF n < Len(x.file) THEN x.file[n + 1] ELSE 0
  BY <1>1, <1>2, PeekIs
<1>6. n = 0 => (Streams!Peek4(x) <=> Len(x.file) >= 4)
  BY <1>1, Peek4Is
<1> HIDE DEF n
<1> QED
  BY <1>3, <1>4, <1>5, <1>6 DEF Streams!ReadsFile, n

\* A reader whose lines are counted tells the line and the column.
LEMMA ReadingCounts == Reading(x) => Streams!CountsLines
<1> SUFFICES ASSUME Reading(x) PROVE Streams!CountsLines
  OBVIOUS
<1>1. x \in Readers /\ Lines(x)
  BY DEF Reading
<1>2. x.taken \in Seq(Int) /\ Len(x.taken) \in Nat /\ DOMAIN x.taken = 1..Len(x.taken)
  BY <1>1 DEF Readers
<1>3. {i \in DOMAIN x.taken : x.taken[i] < 0} = Ends(x)
  BY <1>2 DEF Ends
<1>4. PICK m \in Ends(x) \cup {0} : (\A i \in Ends(x) : i <= m) /\ x.column = Len(x.taken) - m
  BY <1>1 DEF Lines
<1>5. Streams!Max(Ends(x) \cup {0}) = m
  <2>1. Ends(x) \subseteq Nat \ {0}
    BY <1>2 DEF Ends
  <2>2. \A i \in Ends(x) \cup {0} : m >= i
    BY ONLY <1>4, <2>1
  <2>3. \A y \in Ends(x) \cup {0} : (\A i \in Ends(x) \cup {0} : y >= i) => y = m
    BY ONLY <1>4, <2>1, <2>2
  <2> QED
    BY <1>4, <2>2, <2>3 DEF Streams!Max
<1>6. Streams!Cardinality(Ends(x)) = Cardinality(Ends(x))
  BY DEF Streams!Cardinality, Cardinality
<1> QED
  BY <1>1, <1>3, <1>4, <1>5, <1>6 DEF Streams!CountsLines, Lines

-----------------------------------------------------------------------------
(* A file that is written                                                  *)

Writers == [kind : {"writer"}, size : Nat \ {0}, buffer : Seq(Int), written : Seq(Int), put : Nat]

\* Writer w has put the characters `all`.
All(w) == w.written \o w.buffer

\* The characters are those of the calls up to number c, in their order.
Sorted(w, c) == /\ Len(w.buffer) <= w.size
                /\ Len(All(w)) = w.put
                /\ \A i \in 1..Len(All(w)) : All(w)[i] <= c
                /\ \A i \in 2..Len(All(w)) : All(w)[i - 1] <= All(w)[i]

Writing(w) == w \in Writers /\ Sorted(w, w.put)

\* Two sequences, one behind the other.
LEMMA JoinedIs ==
  ASSUME NEW s \in Seq(Int), NEW t \in Seq(Int)
  PROVE  /\ s \o t \in Seq(Int) /\ Len(s \o t) = Len(s) + Len(t)
         /\ \A i \in 1..Len(s) : (s \o t)[i] = s[i]
         /\ \A i \in 1..Len(t) : (s \o t)[Len(s) + i] = t[i]
OBVIOUS

\* Three sequences may be joined in either order.
LEMMA JoinedThrice ==
  ASSUME NEW s \in Seq(Int), NEW t \in Seq(Int), NEW u \in Seq(Int)
  PROVE  (s \o t) \o u = s \o (t \o u)
BY ONLY ConcatAssociative, s \in Seq(Int), t \in Seq(Int), u \in Seq(Int), SMTT(40)

\* What is flushed goes from the buffer to the file.
LEMMA FlushKeeps ==
  ASSUME NEW w \in Writers, NEW c, Sorted(w, c)
  PROVE  /\ Streams!Flushed(w) \in Writers /\ Sorted(Streams!Flushed(w), c)
         /\ Streams!Flushed(w).put = w.put /\ Streams!Flushed(w).buffer = << >>
         /\ Streams!Flushed(w).size = w.size
<1> DEFINE q == Streams!Flushed(w)
<1>1. w.written \in Seq(Int) /\ w.buffer \in Seq(Int) /\ w.size \in Nat
  BY DEF Writers
<1>2. w.written \o w.buffer \in Seq(Int)
  BY ONLY <1>1
<1>3. q = [w EXCEPT !.written = w.written \o w.buffer, !.buffer = << >>]
  BY DEF Streams!Flushed
<1>4. q \in Writers
  BY ONLY <1>2, <1>3, w \in Writers, << >> \in Seq(Int) DEF Writers
<1>5. q.put = w.put /\ q.buffer = << >> /\ q.written = w.written \o w.buffer /\ q.size = w.size
  BY ONLY <1>3, w \in Writers DEF Writers
<1>6. All(q) = All(w)
  BY ONLY <1>2, <1>5 DEF All
<1>7. Len(q.buffer) <= q.size
  BY ONLY <1>1, <1>5
<1> QED
  BY <1>4, <1>5, <1>6, <1>7 DEF Sorted

\* c may be put n times where there is room for it.
LEMMA FilledKeeps ==
  ASSUME NEW w \in Writers, NEW c \in Int, Sorted(w, c), NEW n \in Nat, n <= w.size - Len(w.buffer)
  PROVE  /\ Streams!Filled(w, c, n) \in Writers /\ Sorted(Streams!Filled(w, c, n), c)
         /\ Streams!Filled(w, c, n).put = w.put + n
         /\ Streams!Filled(w, c, n).size = w.size
         /\ Len(Streams!Filled(w, c, n).buffer) = Len(w.buffer) + n
<1> DEFINE q == Streams!Filled(w, c, n)
           more == [i \in 1..n |-> c]
<1>1. /\ w.written \in Seq(Int) /\ w.buffer \in Seq(Int) /\ w.size \in Nat /\ w.put \in Nat
      /\ Len(w.buffer) \in Nat /\ Len(w.written) \in Nat
  BY DEF Writers
<1>2. more \in Seq(Int) /\ Len(more) = n /\ \A i \in 1..n : more[i] = c
  OBVIOUS
<1> HIDE DEF more
<1>3. w.buffer \o more \in Seq(Int) /\ Len(w.buffer \o more) = Len(w.buffer) + n
  BY ONLY <1>1, <1>2, JoinedIs
<1>4. q = [w EXCEPT !.buffer = w.buffer \o more, !.put = w.put + n]
  BY DEF Streams!Filled, more
<1>5. q \in Writers
  <2>1. w.put + n \in Nat
    BY ONLY <1>1, n \in Nat
  <2> QED
    BY ONLY <1>3, <1>4, <2>1, w \in Writers DEF Writers
<1>6. q.put = w.put + n /\ q.buffer = w.buffer \o more /\ q.written = w.written /\ q.size = w.size
  BY ONLY <1>4, w \in Writers DEF Writers
<1> HIDE DEF q
<1>7. All(q) = All(w) \o more
  <2>1. (w.written \o w.buffer) \o more = w.written \o (w.buffer \o more)
    <3>1. \A s, t, u \in Seq(Int) : (s \o t) \o u = s \o (t \o u)
      BY JoinedThrice
    <3> QED
      BY ONLY <1>1, <1>2, <3>1
  <2> QED
    BY ONLY <1>6, <2>1 DEF All
<1>8. All(w) \in Seq(Int) /\ Len(All(w)) \in Nat
  <2>1. w.written \o w.buffer \in Seq(Int)
    BY <1>1, JoinedIs
  <2> DEFINE t == w.written \o w.buffer
  <2> HIDE DEF t
  <2>2. Len(t) \in Nat
    <3>1. t \in Seq(Int)
      BY <2>1 DEF t
    <3> QED
      BY ONLY <3>1
  <2> QED
    BY ONLY <2>1, <2>2 DEF All, t
<1>9. Len(All(q)) = Len(All(w)) + n
  BY ONLY <1>2, <1>7, <1>8, JoinedIs
<1>10. /\ \A i \in 1..Len(All(w)) : All(q)[i] = All(w)[i]
       /\ \A i \in Len(All(w)) + 1..Len(All(w)) + n : All(q)[i] = c
  BY ONLY <1>2, <1>7, <1>8, n \in Nat
<1>11. /\ Len(All(w)) = w.put
       /\ \A i \in 1..Len(All(w)) : All(w)[i] <= c /\ All(w)[i] \in Int
       /\ \A i \in 2..Len(All(w)) : All(w)[i - 1] <= All(w)[i]
  BY <1>8 DEF Sorted
<1>12. \A i \in 1..Len(All(q)) : All(q)[i] <= c
  <2> DEFINE m == Len(All(w))
  <2>1. \A i \in 1..m + n : i \in 1..m \/ i \in m + 1..m + n
    BY ONLY <1>8
  <2> QED
    BY ONLY <1>9, <1>10, <1>11, <2>1, c \in Int
<1>13. \A i \in 2..Len(All(q)) : All(q)[i - 1] <= All(q)[i]
  <2> DEFINE m == Len(All(w))
  <2>1. ASSUME NEW i \in 2..m + n PROVE All(q)[i - 1] <= All(q)[i]
    <3>1. CASE i \in 2..m
      <4>1. i - 1 \in 1..m /\ i \in 1..m
        BY ONLY <1>8, <3>1
      <4> QED
        BY ONLY <1>10, <1>11, <3>1, <4>1
    <3>2. CASE i \in m + 1..m + n
      <4>1. i - 1 \in 1..m + n
        BY ONLY <1>8, <3>2, i \in 2..m + n
      <4>2. All(q)[i] = c
        BY ONLY <1>10, <3>2
      <4> QED
        BY ONLY <1>9, <1>12, <4>1, <4>2
    <3> QED
      BY ONLY <1>8, <3>1, <3>2, i \in 2..m + n, n \in Nat
  <2> QED
    BY ONLY <1>9, <2>1
<1>14. Len(q.buffer) <= q.size
  BY ONLY <1>1, <1>3, <1>6, n <= w.size - Len(w.buffer), n \in Nat
<1>15. Len(All(q)) = q.put
  BY ONLY <1>6, <1>9, <1>11
<1> QED
  BY <1>3, <1>5, <1>6, <1>12, <1>13, <1>14, <1>15 DEF Sorted, q

\* Characters of calls up to c are of calls up to d.
LEMMA SortedUp ==
  ASSUME NEW w \in Writers, NEW c \in Int, NEW d \in Int, c <= d, Sorted(w, c)
  PROVE  Sorted(w, d)
<1>1. All(w) \in Seq(Int)
  <2>1. w.written \in Seq(Int) /\ w.buffer \in Seq(Int)
    BY DEF Writers
  <2> QED
    BY ONLY <2>1, JoinedIs DEF All
<1>2. \A i \in 1..Len(All(w)) : All(w)[i] \in Int
  BY ONLY <1>1
<1>3. \A i \in 1..Len(All(w)) : All(w)[i] <= c
  BY DEF Sorted
<1>4. \A i \in 1..Len(All(w)) : All(w)[i] <= d
  <2> SUFFICES ASSUME NEW i \in 1..Len(All(w)) PROVE All(w)[i] <= d
    OBVIOUS
  <2>1. All(w)[i] \in Int /\ All(w)[i] <= c
    BY <1>2, <1>3
  <2> QED
    BY ONLY <2>1, c \in Int, d \in Int, c <= d
<1> QED
  BY ONLY <1>4, Sorted(w, c) DEF Sorted

\* One character more is put where there is room.
LEMMA PutKeeps ==
  ASSUME NEW w, Writing(w)
  PROVE  Writing(Streams!Put(w, w.put))
<1> DEFINE c == w.put
           room == IF Len(w.buffer) >= w.size THEN Streams!Flushed(w) ELSE w
<1>1. w \in Writers /\ Sorted(w, c)
  BY DEF Writing
<1>2. w.size \in Nat \ {0} /\ c \in Nat /\ w.buffer \in Seq(Int) /\ Len(w.buffer) \in Nat
  BY <1>1 DEF Writers
<1>3. room \in Writers /\ Sorted(room, c) /\ room.put = c /\ 1 <= room.size - Len(room.buffer)
  <2>1. CASE Len(w.buffer) >= w.size
    <3>1. room = Streams!Flushed(w)
      BY <2>1
    <3>2. room \in Writers /\ Sorted(room, c) /\ room.put = c /\ room.buffer = << >> /\ room.size = w.size
      BY <1>1, <3>1, FlushKeeps
    <3>3. Len(room.buffer) = 0
      BY ONLY <3>2
    <3>4. 1 <= room.size - Len(room.buffer)
      BY ONLY <1>2, <3>2, <3>3
    <3> QED
      BY ONLY <3>2, <3>4
  <2>2. CASE ~(Len(w.buffer) >= w.size)
    <3>1. 1 <= w.size - Len(w.buffer)
      BY ONLY <1>2, <2>2
    <3>2. room = w
      BY <2>2
    <3> QED
      BY ONLY <1>1, <3>1, <3>2
  <2> QED
    BY <2>1, <2>2
<1>4. Streams!Put(w, c) = [room EXCEPT !.buffer = Append(room.buffer, c), !.put = room.put + 1]
  BY DEF Streams!Put
<1> HIDE DEF room
<1>5. Append(room.buffer, c) = room.buffer \o [i \in 1..1 |-> c]
  <2>1. room.buffer \in Seq(Int)
    BY <1>3 DEF Writers
  <2>2. [i \in 1..1 |-> c] = <<c>>
    OBVIOUS
  <2>3. Append(room.buffer, c) = room.buffer \o <<c>>
    BY <1>2, <2>1, AppendIsConcat
  <2> QED
    BY ONLY <2>2, <2>3
<1>6. Streams!Put(w, c) = Streams!Filled(room, c, 1)
  BY ONLY <1>4, <1>5 DEF Streams!Filled
<1>7. c \in Int /\ 1 \in Nat
  BY ONLY <1>2
<1> HIDE DEF c
<1>8. /\ Streams!Filled(room, c, 1) \in Writers /\ Sorted(Streams!Filled(room, c, 1), c)
      /\ Streams!Filled(room, c, 1).put = room.put + 1
  BY ONLY <1>3, <1>7, FilledKeeps
<1>9. Sorted(Streams!Filled(room, c, 1), c + 1)
  <2>1. c + 1 \in Int /\ c <= c + 1
    BY ONLY <1>7
  <2> QED
    BY ONLY <1>7, <1>8, <2>1, SortedUp
<1> QED
  BY ONLY <1>3, <1>6, <1>8, <1>9 DEF Writing, c

\* A turn of the loop of PutN, k turns after its beginning with writer w: what is left shrinks.
Turning(w, c, n, t, k) ==
  /\ t \in [writer : Writers, left : Nat]
  /\ Sorted(t.writer, c)
  /\ t.writer.size = w.size
  /\ t.writer.put + t.left = w.put + n
  /\ t.left + k <= n + 1 \/ t.left = 0
  /\ k = 0 => t.left <= n
  /\ k # 0 => t.left = 0 \/ Len(t.writer.buffer) = 0

\* A turn keeps what was put and leaves less, or nothing.
LEMMA TurnKeeps ==
  ASSUME NEW w \in Writers, NEW c \in Int, NEW n \in Nat, NEW k \in Nat,
         NEW t, Turning(w, c, n, t, k)
  PROVE  Turning(w, c, n, Streams!Turn(t, c), k + 1)
<1> DEFINE v == t.writer
           q == Streams!Turn(t, c)
<1>1. /\ v \in Writers /\ Sorted(v, c) /\ t.left \in Nat /\ v.size = w.size
      /\ v.put + t.left = w.put + n
  BY DEF Turning
<1>2. v.size \in Nat \ {0} /\ Len(v.buffer) \in Nat /\ v.put \in Nat /\ w.put \in Nat
  <2>1. v.size \in Nat \ {0} /\ v.put \in Nat /\ w.put \in Nat /\ v.buffer \in Seq(Int)
    BY ONLY <1>1, w \in Writers DEF Writers
  <2>2. Len(v.buffer) \in Nat
    BY ONLY <2>1
  <2> QED
    BY ONLY <2>1, <2>2
<1>3. Len(v.buffer) <= v.size
  BY ONLY <1>1 DEF Sorted
<1>4. /\ t.left + k <= n + 1 \/ t.left = 0
      /\ k # 0 => t.left = 0 \/ Len(v.buffer) = 0
      /\ k = 0 => t.left <= n
  BY DEF Turning
<1> HIDE DEF v
<1> DEFINE avail == v.size - Len(v.buffer)
<1>5. avail \in Nat /\ Streams!Avail(t.writer) = avail
  BY <1>2, <1>3 DEF Streams!Avail, v
<1>6. CASE t.left > avail
  <2> DEFINE p == Streams!Filled(v, c, avail)
  <2>1. q = [writer |-> Streams!Flushed(p), left |-> t.left - avail]
    BY <1>5, <1>6 DEF Streams!Turn, v
  <2>2. p \in Writers /\ Sorted(p, c) /\ p.put = v.put + avail /\ p.size = v.size
    <3>1. avail <= v.size - Len(v.buffer)
      BY ONLY <1>5
    <3> QED
      BY ONLY <1>1, <1>5, <3>1, c \in Int, FilledKeeps
  <2> HIDE DEF p
  <2> DEFINE f == Streams!Flushed(p)
  <2>3. f \in Writers /\ Sorted(f, c) /\ f.put = p.put /\ f.buffer = << >> /\ f.size = p.size
    BY <2>2, FlushKeeps
  <2>4. Len(f.buffer) = 0
    BY ONLY <2>3
  <2> HIDE DEF f
  <2>5. q.writer = f /\ q.left = t.left - avail /\ q = [writer |-> f, left |-> t.left - avail]
    BY <2>1 DEF f
  <2> HIDE DEF avail, q
  <2>6. t.left - avail \in Nat
    BY ONLY <1>1, <1>5, <1>6
  <2>7. f.put + (t.left - avail) = w.put + n
    BY ONLY <1>1, <1>2, <1>5, <2>2, <2>3
  <2>8. (t.left - avail) + (k + 1) <= n + 1
    <3>1. CASE k = 0
      <4>1. t.left <= n
        BY ONLY <1>4, <3>1
      <4> QED
        BY ONLY <1>1, <1>5, <4>1, <3>1, n \in Nat
    <3>2. CASE k # 0
      <4>1. t.left # 0
        BY ONLY <1>1, <1>5, <1>6
      <4>2. avail = v.size
        BY ONLY <1>2, <1>4, <3>2, <4>1 DEF avail
      <4>3. t.left + k <= n + 1
        BY ONLY <1>4, <4>1
      <4>4. avail >= 1
        BY ONLY <1>2, <4>2
      <4> QED
        BY ONLY <1>1, <1>5, <4>3, <4>4, k \in Nat, n \in Nat
    <3> QED
      BY <3>1, <3>2
  <2>9. f.size = w.size
    BY ONLY <1>1, <2>2, <2>3
  <2>10. q \in [writer : Writers, left : Nat]
    BY ONLY <2>3, <2>5, <2>6
  <2> QED
    BY ONLY <2>3, <2>4, <2>5, <2>7, <2>8, <2>9, <2>10 DEF Turning, q
<1>7. CASE ~(t.left > avail)
  <2> DEFINE p == Streams!Filled(v, c, t.left)
  <2>1. q = [writer |-> p, left |-> 0]
    BY <1>5, <1>7 DEF Streams!Turn, v
  <2>2. t.left <= v.size - Len(v.buffer)
    BY ONLY <1>1, <1>5, <1>7 DEF avail
  <2>3. p \in Writers /\ Sorted(p, c) /\ p.put = v.put + t.left /\ p.size = v.size
    BY ONLY <1>1, <2>2, c \in Int, FilledKeeps
  <2> HIDE DEF p
  <2>4. q.writer = p /\ q.left = 0 /\ q \in [writer : Writers, left : Nat]
    BY ONLY <2>1, <2>3
  <2> HIDE DEF q
  <2>5. p.put + 0 = w.put + n
    BY ONLY <1>1, <1>2, <2>3
  <2>6. p.size = w.size
    BY ONLY <1>1, <2>3
  <2> QED
    BY ONLY <2>3, <2>4, <2>5, <2>6 DEF Turning, q
<1> QED
  BY <1>6, <1>7

\* The turns of PutN.
Turns(w, c, n, g) ==
  g = [k \in 0..n + 1 |-> IF k = 0 THEN [writer |-> w, left |-> n] ELSE Streams!Turn(g[k - 1], c)]

\* Before the first turn all n characters are left.
LEMMA StartTurns ==
  ASSUME NEW w \in Writers, NEW c \in Int, Sorted(w, c), NEW n \in Nat
  PROVE  Turning(w, c, n, [writer |-> w, left |-> n], 0)
<1>1. w.put \in Nat
  BY DEF Writers
<1> DEFINE t == [writer |-> w, left |-> n]
<1>2. t.writer = w /\ t.left = n /\ t \in [writer : Writers, left : Nat]
  OBVIOUS
<1>3. n + 0 <= n + 1
  BY ONLY n \in Nat
<1> HIDE DEF t
<1>4. Turning(w, c, n, t, 0)
  BY ONLY <1>2, <1>3, Sorted(w, c), n \in Nat DEF Turning
<1> QED
  BY <1>4 DEF t

\* The recursive function of PutN exists.
LEMMA TurnsExist ==
  ASSUME NEW w \in Writers, NEW c \in Int, Sorted(w, c), NEW n \in Nat
  PROVE  \E g : Turns(w, c, n, g)
<1> DEFINE S == {t \in [writer : Writers, left : Nat] : \E k \in Nat : Turning(w, c, n, t, k)}
           F == [t \in S |-> Streams!Turn(t, c)]
           s == [writer |-> w, left |-> n]
<1>1. s \in S
  BY StartTurns
<1>2. F \in [S -> S]
  <2> SUFFICES ASSUME NEW t \in S PROVE Streams!Turn(t, c) \in S
    OBVIOUS
  <2>1. PICK k \in Nat : Turning(w, c, n, t, k)
    OBVIOUS
  <2>2. Turning(w, c, n, Streams!Turn(t, c), k + 1)
    BY <2>1, TurnKeeps
  <2>3. k + 1 \in Nat
    OBVIOUS
  <2>4. Streams!Turn(t, c) \in [writer : Writers, left : Nat]
    BY ONLY <2>2 DEF Turning
  <2> QED
    BY ONLY <2>2, <2>3, <2>4
<1>3. n + 1 \in Nat
  OBVIOUS
<1> HIDE DEF S
<1> HIDE DEF F, s
<1>4. PICK g \in [0..n + 1 -> S] : g = [k \in 0..n + 1 |-> IF k = 0 THEN s ELSE F[g[k - 1]]]
  <2>1. \E g \in [0..n + 1 -> S] : Iterates(F, s, n + 1, g)
    BY ONLY <1>1, <1>2, <1>3, Iterated
  <2> QED
    BY ONLY <2>1 DEF Iterates
<1>5. ASSUME NEW k \in 0..n + 1, k # 0 PROVE F[g[k - 1]] = Streams!Turn(g[k - 1], c)
  <2>1. k - 1 \in 0..n + 1
    BY ONLY <1>5, n \in Nat, k \in 0..n + 1
  <2>2. g[k - 1] \in S
    BY ONLY <2>1, g \in [0..n + 1 -> S]
  <2> QED
    BY ONLY <2>2 DEF F
<1>6. g = [k \in 0..n + 1 |-> IF k = 0 THEN s ELSE Streams!Turn(g[k - 1], c)]
  BY ONLY <1>4, <1>5
<1> QED
  BY <1>6 DEF Turns, s

\* After n + 1 turns nothing is left.
LEMMA PutNKeeps ==
  ASSUME NEW w, Writing(w), NEW n \in Nat
  PROVE  Writing(Streams!PutN(w, w.put, n))
<1> DEFINE c == w.put
           f == CHOOSE g : Turns(w, c, n, g)
<1>1. w \in Writers /\ Sorted(w, c)
  BY DEF Writing
<1>2. c \in Int /\ c \in Nat
  BY <1>1 DEF Writers
<1>3. Streams!PutN(w, w.put, n) = f[n + 1].writer
  BY DEF Streams!PutN, Turns
<1> HIDE DEF c
<1>4. Turns(w, c, n, f)
  BY ONLY <1>1, <1>2, TurnsExist, n \in Nat
<1> HIDE DEF f
<1>5. f[0] = [writer |-> w, left |-> n]
      /\ \A k \in 0..n : f[k + 1] = Streams!Turn(f[k], c)
  <2>1. f[0] = [writer |-> w, left |-> n]
    BY ONLY <1>4, n \in Nat DEF Turns
  <2>2. ASSUME NEW k \in 0..n PROVE f[k + 1] = Streams!Turn(f[k], c)
    <3>1. k + 1 \in 0..n + 1 /\ k + 1 # 0 /\ (k + 1) - 1 = k
      BY ONLY n \in Nat, k \in 0..n
    <3>2. f[k + 1] = Streams!Turn(f[(k + 1) - 1], c)
      BY ONLY <1>4, <3>1 DEF Turns
    <3> QED
      BY ONLY <3>1, <3>2
  <2> QED
    BY <2>1, <2>2
<1> DEFINE P == {k \in Nat : k <= n + 1 => Turning(w, c, n, f[k], k)}
<1>6. 0 \in P
  <2>1. Turning(w, c, n, f[0], 0)
    BY ONLY <1>1, <1>2, <1>5, StartTurns, n \in Nat
  <2> QED
    BY <2>1
<1>7. ASSUME NEW k \in P PROVE k + 1 \in P
  <2> SUFFICES ASSUME k + 1 <= n + 1 PROVE Turning(w, c, n, f[k + 1], k + 1)
    OBVIOUS
  <2>1. k \in Nat /\ k \in 0..n
    OBVIOUS
  <2>2. Turning(w, c, n, f[k], k)
    BY <2>1
  <2>3. f[k + 1] = Streams!Turn(f[k], c)
    BY ONLY <1>5, <2>1
  <2> QED
    BY ONLY <1>1, <1>2, <2>1, <2>2, <2>3, TurnKeeps, n \in Nat
<1>8. P = Nat
  <2> HIDE DEF P
  <2>1. P \in SUBSET Nat
    BY DEF P
  <2> QED
    BY ONLY <1>6, <1>7, <2>1, CountUp
<1>9. Turning(w, c, n, f[n + 1], n + 1)
  <2>1. n + 1 \in P /\ n + 1 <= n + 1
    BY <1>8
  <2> QED
    BY ONLY <2>1
<1> DEFINE q == f[n + 1].writer
<1>10. /\ q \in Writers /\ Sorted(q, c) /\ f[n + 1].left \in Nat
       /\ q.put + f[n + 1].left = c + n
       /\ f[n + 1].left + (n + 1) <= n + 1 \/ f[n + 1].left = 0
  BY ONLY <1>9 DEF Turning, c
<1>11. q.put \in Nat
  BY ONLY <1>10 DEF Writers
<1> HIDE DEF q
<1>12. q.put = c + n
  BY ONLY <1>2, <1>10, <1>11, n \in Nat
<1>13. q.put \in Int /\ c <= q.put
  BY ONLY <1>2, <1>12, n \in Nat
<1>14. Sorted(q, q.put)
  BY ONLY <1>2, <1>10, <1>13, SortedUp
<1> QED
  BY ONLY <1>3, <1>10, <1>14 DEF Writing, q

\* A writer keeps what was put.
LEMMA WriteKeeps ==
  ASSUME Writing(x), Streams!Write
  PROVE  Writing(x')
<1>1. x \in Writers /\ Sorted(x, x.put)
  BY DEF Writing
<1>2. x.put \in Nat /\ MaxLength \in Nat
  BY <1>1, MemoryAssumption DEF Writers
<1>3. CASE x' = Streams!Flushed(x)
  <2>1. x' \in Writers /\ Sorted(x', x.put) /\ x'.put = x.put
    BY <1>1, <1>3, FlushKeeps
  <2> QED
    BY ONLY <2>1 DEF Writing
<1>4. CASE x' = Streams!Put(x, x.put)
  BY <1>4, PutKeeps
<1>5. CASE \E n \in 0..MaxLength - x.put : x' = Streams!PutN(x, x.put, n)
  <2>1. PICK n \in 0..MaxLength - x.put : x' = Streams!PutN(x, x.put, n)
    BY <1>5
  <2>2. n \in Nat
    BY ONLY <1>2, n \in 0..MaxLength - x.put
  <2> QED
    BY <2>1, <2>2, PutNKeeps
<1> QED
  BY <1>3, <1>4, <1>5 DEF Streams!Write

\* What a writer put is in the file or the buffer.
LEMMA WritingWrites == Writing(x) => Streams!WritesAll
<1> SUFFICES ASSUME Writing(x) PROVE Streams!WritesAll
  OBVIOUS
<1>1. Sorted(x, x.put)
  BY DEF Writing
<1> QED
  BY ONLY <1>1 DEF Sorted, All, Streams!WritesAll

-----------------------------------------------------------------------------
(* A buffer that grows                                                     *)

Buffers == [kind : {"buffer"}, exists : BOOLEAN, cell : Seq(Int), top : Nat, initial : Nat,
            text : Seq(Int), shown : BOOLEAN]

\* Buffer b holds the characters s.
Holds(b, s) == /\ b.top = Len(s)
               /\ Len(s) <= Len(b.cell)
               /\ \A i \in 1..Len(s) : b.cell[i] = s[i]

\* When it was shown a nul is behind the text.
Shown(b) == b.shown => b.top < Len(b.cell) /\ b.cell[b.top + 1] = 0

Holding(b) == b \in Buffers /\ Holds(b, b.text) /\ Shown(b)

\* Memory of another size keeps what it has room for.
LEMMA ResizeHolds ==
  ASSUME NEW b \in Buffers, NEW s \in Seq(Int), Holds(b, s), NEW capacity \in Nat, b.top <= capacity
  PROVE  /\ Streams!Resize(b, capacity) \in Buffers /\ Holds(Streams!Resize(b, capacity), s)
         /\ Len(Streams!Resize(b, capacity).cell) = capacity
         /\ Streams!Resize(b, capacity).top = b.top /\ Streams!Resize(b, capacity).text = b.text
<1> DEFINE cell == [i \in 1..capacity |-> IF i \in DOMAIN b.cell THEN b.cell[i] ELSE -1]
           q == Streams!Resize(b, capacity)
<1>1. q = [b EXCEPT !.exists = TRUE, !.cell = cell]
  BY DEF Streams!Resize
<1>2. b.cell \in Seq(Int) /\ b.top \in Nat /\ Len(s) \in Nat
  BY DEF Buffers
<1>3. cell \in Seq(Int) /\ Len(cell) = capacity
  <2>1. \A i \in DOMAIN b.cell : b.cell[i] \in Int
    BY <1>2
  <2> QED
    BY ONLY <2>1, capacity \in Nat
<1>4. \A i \in 1..capacity : i \in DOMAIN b.cell => cell[i] = b.cell[i]
  OBVIOUS
<1> HIDE DEF cell
<1>5. q \in Buffers /\ q.cell = cell /\ q.top = b.top /\ q.text = b.text
  BY <1>1, <1>3 DEF Buffers
<1>6. \A i \in 1..Len(s) : i \in 1..capacity /\ i \in DOMAIN b.cell
  <2>1. DOMAIN b.cell = 1..Len(b.cell) /\ Len(b.cell) \in Nat
    BY ONLY <1>2
  <2>2. b.top = Len(s) /\ Len(s) <= Len(b.cell)
    BY DEF Holds
  <2> QED
    BY ONLY <1>2, <2>1, <2>2, capacity \in Nat, b.top <= capacity
<1>7. Holds(q, s)
  BY <1>3, <1>4, <1>5, <1>6 DEF Holds
<1> QED
  BY <1>3, <1>5, <1>7

\* There is room for n more characters.
LEMMA ReserveKeeps ==
  ASSUME NEW b \in Buffers, NEW s \in Seq(Int), Holds(b, s), NEW n \in Nat
  PROVE  /\ Streams!Reserve(b, n) \in Buffers /\ Holds(Streams!Reserve(b, n), s)
         /\ b.top + n <= Len(Streams!Reserve(b, n).cell)
         /\ Streams!Reserve(b, n).top = b.top /\ Streams!Reserve(b, n).text = b.text
<1>1. b.top \in Nat /\ b.initial \in Nat /\ b.cell \in Seq(Int)
  BY DEF Buffers
<1>2. Len(b.cell) \in Nat
  BY ONLY <1>1
<1>3. CASE n > Len(b.cell) - b.top
  <2> DEFINE wider == IF b.exists THEN Len(b.cell) + (Len(b.cell) + 1) \div 2 ELSE b.initial
             capacity == IF wider < b.top + n THEN b.top + n ELSE wider
  <2>1. Streams!Reserve(b, n) = Streams!Resize(b, capacity)
    BY <1>3 DEF Streams!Reserve, Streams!Expand
  <2>2. wider \in Nat
    <3> DEFINE c == Len(b.cell)
    <3> HIDE DEF c
    <3>1. c \in Nat
      BY ONLY <1>2 DEF c
    <3>2. c + (c + 1) \div 2 \in Nat
      BY ONLY <3>1
    <3> QED
      BY ONLY <1>1, <3>2 DEF c
  <2> HIDE DEF wider
  <2>3. capacity \in Nat /\ b.top + n <= capacity
    BY ONLY <1>1, <2>2, n \in Nat
  <2> HIDE DEF capacity
  <2>4. b.top <= capacity
    BY ONLY <1>1, <2>3, n \in Nat
  <2> QED
    BY <2>1, <2>3, <2>4, ResizeHolds
<1>4. CASE ~(n > Len(b.cell) - b.top)
  <2>1. Streams!Reserve(b, n) = b
    BY <1>4 DEF Streams!Reserve
  <2>2. b.top + n <= Len(b.cell)
    BY ONLY <1>1, <1>2, <1>4, n \in Nat
  <2> QED
    BY ONLY <2>1, <2>2, b \in Buffers, Holds(b, s)
<1> QED
  BY <1>3, <1>4

\* Characters are put behind those that are there.
LEMMA PushUnsafeKeeps ==
  ASSUME NEW b \in Buffers, NEW s \in Seq(Int), Holds(b, s), NEW chars \in Seq(Int),
         b.top + Len(chars) <= Len(b.cell)
  PROVE  /\ Streams!PushUnsafe(b, chars) \in Buffers /\ Holds(Streams!PushUnsafe(b, chars), s \o chars)
         /\ Streams!PushUnsafe(b, chars).text = b.text
<1> DEFINE cell == [i \in DOMAIN b.cell |->
                      IF i - b.top \in DOMAIN chars THEN chars[i - b.top] ELSE b.cell[i]]
           q == Streams!PushUnsafe(b, chars)
           n == Len(chars)
           m == Len(b.cell)
<1>1. q = [b EXCEPT !.cell = cell, !.top = b.top + Len(chars)]
  BY DEF Streams!PushUnsafe
<1>2. b.cell \in Seq(Int) /\ b.top \in Nat /\ n \in Nat /\ m \in Nat
  BY DEF Buffers
<1>3. DOMAIN b.cell = 1..m /\ DOMAIN chars = 1..n /\ (\A i \in 1..m : b.cell[i] \in Int)
      /\ (\A i \in 1..n : chars[i] \in Int)
  BY ONLY <1>2, chars \in Seq(Int)
<1> HIDE DEF n, m
<1>4. cell \in Seq(Int) /\ Len(cell) = m
  BY ONLY <1>2, <1>3
<1>5. \A i \in 1..m : cell[i] = IF i - b.top \in 1..n THEN chars[i - b.top] ELSE b.cell[i]
  BY ONLY <1>3
<1> HIDE DEF cell
<1>6. q \in Buffers /\ q.cell = cell /\ q.top = b.top + n /\ q.text = b.text
  <2>1. b.top + n \in Nat
    BY ONLY <1>2
  <2>2. q = [b EXCEPT !.cell = cell, !.top = b.top + n]
    BY ONLY <1>1 DEF n
  <2> HIDE DEF q
  <2> QED
    BY ONLY <1>4, <2>1, <2>2, b \in Buffers DEF Buffers
<1>7. b.top = Len(s) /\ \A i \in 1..Len(s) : b.cell[i] = s[i]
  BY DEF Holds
<1>8. Len(s \o chars) = b.top + n /\ (\A i \in 1..b.top : (s \o chars)[i] = s[i])
      /\ (\A i \in 1..n : (s \o chars)[b.top + i] = chars[i])
  BY ONLY <1>7, s \in Seq(Int), chars \in Seq(Int), JoinedIs DEF n
<1>9. b.top + n <= m
  BY DEF n, m
<1>10. ASSUME NEW i \in 1..b.top + n PROVE cell[i] = (s \o chars)[i]
  <2>1. i \in 1..m
    BY ONLY <1>2, <1>9, i \in 1..b.top + n
  <2>2. CASE i \in 1..b.top
    <3>1. ~(i - b.top \in 1..n)
      BY ONLY <1>2, <2>2
    <3>2. cell[i] = b.cell[i]
      BY ONLY <1>5, <2>1, <3>1
    <3> QED
      BY ONLY <1>7, <1>8, <2>2, <3>2
  <2>3. CASE i - b.top \in 1..n
    <3>1. cell[i] = chars[i - b.top]
      BY ONLY <1>5, <2>1, <2>3
    <3>2. b.top + (i - b.top) = i
      BY ONLY <1>2, <2>1
    <3>3. (s \o chars)[b.top + (i - b.top)] = chars[i - b.top]
      BY ONLY <1>8, <2>3
    <3> QED
      BY ONLY <3>1, <3>2, <3>3
  <2>4. i \in 1..b.top \/ i - b.top \in 1..n
    BY ONLY <1>2, i \in 1..b.top + n
  <2> QED
    BY <2>2, <2>3, <2>4
<1>11. Holds(q, s \o chars)
  <2> HIDE DEF q
  <2> QED
    BY ONLY <1>4, <1>6, <1>8, <1>9, <1>10 DEF Holds
<1> QED
  BY <1>6, <1>11

\* Characters are put behind those that are there, with more memory where it is needed.
LEMMA PushKeeps ==
  ASSUME NEW b \in Buffers, NEW s \in Seq(Int), Holds(b, s), NEW chars \in Seq(Int)
  PROVE  /\ Streams!Push(b, chars) \in Buffers /\ Holds(Streams!Push(b, chars), s \o chars)
         /\ Streams!Push(b, chars).text = b.text
<1> DEFINE q == Streams!Reserve(b, Len(chars))
<1>1. Len(chars) \in Nat
  OBVIOUS
<1>2. q \in Buffers /\ Holds(q, s) /\ q.top + Len(chars) <= Len(q.cell) /\ q.text = b.text
  BY ONLY <1>1, ReserveKeeps, b \in Buffers, s \in Seq(Int), Holds(b, s)
<1>3. Streams!Push(b, chars) = Streams!PushUnsafe(q, chars)
  BY DEF Streams!Push
<1> HIDE DEF q
<1> QED
  BY ONLY <1>2, <1>3, PushUnsafeKeeps, s \in Seq(Int), chars \in Seq(Int)

\* Taking back leaves the first characters.
LEMMA PopKeeps ==
  ASSUME NEW b \in Buffers, NEW s \in Seq(Int), Holds(b, s), NEW n \in Nat,
         NEW t \in Seq(Int), Len(t) = Len(s) - n, \A i \in 1..Len(t) : t[i] = s[i]
  PROVE  /\ Streams!Pop(b, n) \in Buffers /\ Holds(Streams!Pop(b, n), t)
         /\ Streams!Pop(b, n).cell = b.cell /\ Streams!Pop(b, n).text = b.text
<1> DEFINE q == Streams!Pop(b, n)
<1>1. q = [b EXCEPT !.top = b.top - n]
  BY DEF Streams!Pop
<1>2. Len(t) \in Nat /\ Len(s) \in Nat /\ Len(b.cell) \in Nat /\ b.top = Len(s) /\ Len(s) <= Len(b.cell)
  <2>1. Len(t) \in Nat /\ Len(s) \in Nat
    OBVIOUS
  <2>2. b.cell \in Seq(Int)
    BY DEF Buffers
  <2>3. Len(b.cell) \in Nat
    BY ONLY <2>2
  <2> QED
    BY ONLY <2>1, <2>3, Holds(b, s) DEF Holds
<1>3. b.top - n = Len(t)
  BY ONLY <1>2, Len(t) = Len(s) - n
<1>4. q = [b EXCEPT !.top = Len(t)]
  BY ONLY <1>1, <1>3
<1> HIDE DEF q
<1>5. q \in Buffers /\ q.cell = b.cell /\ q.top = Len(t) /\ q.text = b.text
  BY ONLY <1>2, <1>4, b \in Buffers DEF Buffers
<1>6. Len(t) <= Len(b.cell) /\ \A i \in 1..Len(t) : i \in 1..Len(s)
  BY ONLY <1>2, Len(t) = Len(s) - n, n \in Nat
<1>7. \A i \in 1..Len(t) : q.cell[i] = t[i]
  BY ONLY <1>5, <1>6, Holds(b, s), \A i \in 1..Len(t) : t[i] = s[i] DEF Holds
<1> QED
  BY ONLY <1>5, <1>6, <1>7 DEF Holds, q

\* A nul that was put and taken back is still behind the text.
LEMMA NulStays ==
  ASSUME NEW b \in Buffers, NEW s \in Seq(Int), Holds(b, s \o << 0 >>)
  PROVE  /\ Streams!Pop(b, 1) \in Buffers /\ Holds(Streams!Pop(b, 1), s)
         /\ Streams!Pop(b, 1).text = b.text
         /\ Streams!Pop(b, 1).top < Len(Streams!Pop(b, 1).cell)
         /\ Streams!Pop(b, 1).cell[Streams!Pop(b, 1).top + 1] = 0
<1> DEFINE t == s \o << 0 >>
           q == Streams!Pop(b, 1)
           n == Len(s)
<1>1. t \in Seq(Int) /\ Len(t) = n + 1 /\ (\A i \in 1..n : t[i] = s[i]) /\ t[n + 1] = 0
  <2>1. << 0 >> \in Seq(Int) /\ Len(<< 0 >>) = 1 /\ << 0 >>[1] = 0
    OBVIOUS
  <2>2. /\ t \in Seq(Int) /\ Len(t) = Len(s) + Len(<< 0 >>)
        /\ \A i \in 1..Len(s) : t[i] = s[i]
        /\ \A i \in 1..Len(<< 0 >>) : t[Len(s) + i] = << 0 >>[i]
    BY ONLY <2>1, s \in Seq(Int), JoinedIs
  <2>3. 1 \in 1..Len(<< 0 >>)
    BY ONLY <2>1
  <2> QED
    BY ONLY <2>1, <2>2, <2>3
<1>2. n \in Nat
  OBVIOUS
<1>3. Holds(b, t)
  OBVIOUS
<1> HIDE DEF t, n
<1>4. Len(s) = Len(t) - 1 /\ \A i \in 1..Len(s) : s[i] = t[i]
  BY ONLY <1>1, <1>2 DEF n
<1>5. q \in Buffers /\ Holds(q, s) /\ q.cell = b.cell /\ q.text = b.text
  BY ONLY <1>1, <1>3, <1>4, b \in Buffers, s \in Seq(Int), 1 \in Nat, PopKeeps
<1> HIDE DEF q
<1>6. q.top = n
  BY ONLY <1>5 DEF Holds, n
<1>7. n + 1 <= Len(b.cell) /\ b.cell[n + 1] = 0
  <2>1. n + 1 \in 1..Len(t)
    BY ONLY <1>1, <1>2
  <2> QED
    BY ONLY <1>1, <1>3, <2>1 DEF Holds
<1>8. Len(b.cell) \in Nat
  <2>1. b.cell \in Seq(Int)
    BY DEF Buffers
  <2> QED
    BY ONLY <2>1
<1>9. q.top < Len(q.cell)
  BY ONLY <1>2, <1>5, <1>6, <1>7, <1>8
<1>10. q.cell[q.top + 1] = 0
  BY ONLY <1>5, <1>6, <1>7
<1> QED
  BY ONLY <1>5, <1>9, <1>10 DEF q

\* The text is shown with a nul behind it.
LEMMA ShowKeeps ==
  ASSUME NEW b, Holding(b), NEW q, q = Streams!GetString(b) \/ q = Streams!ShrinkToFit(b)
  PROVE  Holding([q EXCEPT !.shown = TRUE])
<1> DEFINE s == b.text
           p == Streams!Push(b, << 0 >>)
<1>1. b \in Buffers /\ Holds(b, s) /\ s \in Seq(Int)
  BY DEF Holding, Buffers
<1>2. << 0 >> \in Seq(Int)
  OBVIOUS
<1>3. p \in Buffers /\ Holds(p, s \o << 0 >>) /\ p.text = s
  BY ONLY <1>1, <1>2, PushKeeps
<1>4. s \o << 0 >> \in Seq(Int)
  BY ONLY <1>1, <1>2, JoinedIs
<1>5. PICK r \in Buffers : q = Streams!Pop(r, 1) /\ Holds(r, s \o << 0 >>) /\ r.text = s
  <2>1. CASE q = Streams!GetString(b)
    BY <1>3, <2>1 DEF Streams!GetString
  <2>2. CASE q = Streams!ShrinkToFit(b)
    <3>1. q = Streams!Pop(Streams!Resize(p, p.top), 1)
      BY <2>2 DEF Streams!ShrinkToFit
    <3> HIDE DEF p, s
    <3>2. p.top \in Nat /\ p.top <= p.top
      BY ONLY <1>3 DEF Buffers
    <3>3. /\ Streams!Resize(p, p.top) \in Buffers /\ Holds(Streams!Resize(p, p.top), s \o << 0 >>)
          /\ Streams!Resize(p, p.top).text = s
      BY ONLY <1>3, <1>4, <3>2, ResizeHolds
    <3> QED
      BY ONLY <3>1, <3>3
  <2> QED
    BY <2>1, <2>2
<1>6. q \in Buffers /\ Holds(q, s) /\ q.text = s /\ q.top < Len(q.cell) /\ q.cell[q.top + 1] = 0
  BY ONLY <1>1, <1>5, NulStays
<1> HIDE DEF s
<1> DEFINE y == [q EXCEPT !.shown = TRUE]
<1>7. y \in Buffers /\ y.text = q.text /\ y.top = q.top /\ y.cell = q.cell
  BY ONLY <1>6 DEF Buffers
<1> HIDE DEF y
<1>8. Holds(y, y.text)
  BY ONLY <1>6, <1>7 DEF Holds
<1>9. Shown(y)
  BY ONLY <1>6, <1>7 DEF Shown
<1> QED
  BY ONLY <1>7, <1>8, <1>9 DEF Holding, y

\* A buffer that holds another text.
LEMMA TextIs ==
  ASSUME NEW q \in Buffers, NEW s \in Seq(Int), Holds(q, s)
  PROVE  Holding([q EXCEPT !.text = s, !.shown = FALSE])
<1> DEFINE y == [q EXCEPT !.text = s, !.shown = FALSE]
<1>1. y \in Buffers /\ y.text = s /\ y.top = q.top /\ y.cell = q.cell /\ y.shown = FALSE
  BY DEF Buffers
<1> HIDE DEF y
<1>2. Holds(y, y.text)
  BY ONLY <1>1, Holds(q, s) DEF Holds
<1>3. Shown(y)
  BY ONLY <1>1 DEF Shown
<1> QED
  BY ONLY <1>1, <1>2, <1>3 DEF Holding, y

\* A buffer without memory holds nothing.
LEMMA NewBufferHolds ==
  ASSUME NEW initial \in Nat
  PROVE  Holding(Streams!NewBuffer(initial))
<1> DEFINE b == Streams!NewBuffer(initial)
<1>1. b \in Buffers /\ b.text = << >> /\ b.top = 0 /\ b.cell = << >> /\ b.shown = FALSE
  BY DEF Streams!NewBuffer, Buffers
<1> HIDE DEF b
<1>2. Holds(b, b.text)
  BY ONLY <1>1 DEF Holds
<1>3. Shown(b)
  BY ONLY <1>1 DEF Shown
<1> QED
  BY ONLY <1>1, <1>2, <1>3 DEF Holding, b

\* The next characters of a text.
LEMMA CharsAre ==
  ASSUME NEW s \in Seq(Int), NEW n \in Nat
  PROVE  [i \in 1..n |-> Len(s) + i] \in Seq(Int) /\ Len([i \in 1..n |-> Len(s) + i]) = n
<1>1. Len(s) \in Nat
  OBVIOUS
<1> QED
  BY ONLY <1>1, n \in Nat

\* The first characters of a text.
LEMMA PrefixIs ==
  ASSUME NEW s \in Seq(Int), NEW n \in Nat, n <= Len(s)
  PROVE  LET t == SubSeq(s, 1, Len(s) - n)
         IN  t \in Seq(Int) /\ Len(t) = Len(s) - n /\ \A i \in 1..Len(t) : t[i] = s[i]
<1> DEFINE m == Len(s) - n
<1>1. m \in Nat /\ m <= Len(s)
  OBVIOUS
<1> HIDE DEF m
<1>2. SubSeq(s, 1, m) \in Seq(Int) /\ Len(SubSeq(s, 1, m)) = m
  BY ONLY <1>1, s \in Seq(Int)
<1>3. \A i \in 1..m : SubSeq(s, 1, m)[i] = s[i]
  BY ONLY <1>1, s \in Seq(Int)
<1> QED
  BY ONLY <1>2, <1>3 DEF m

\* The calls of a StringBuffer keep its text.
LEMMA BufferKeeps ==
  ASSUME Holding(x), Streams!Buffer
  PROVE  Holding(x')
<1> DEFINE s == x.text
<1>1. x \in Buffers /\ Holds(x, s) /\ s \in Seq(Int)
  BY DEF Holding, Buffers
<1>2. CASE \E n \in 1..2 : LET chars == [i \in 1..n |-> Len(x.text) + i]
                           IN  /\ Len(x.text) + n <= MaxLength
                               /\ x' = [Streams!Push(x, chars) EXCEPT !.text = @ \o chars, !.shown = FALSE]
  <2>1. PICK n \in 1..2 : x' = [Streams!Push(x, [i \in 1..n |-> Len(s) + i]) EXCEPT
                                  !.text = @ \o [i \in 1..n |-> Len(s) + i], !.shown = FALSE]
    BY <1>2
  <2> DEFINE chars == [i \in 1..n |-> Len(s) + i]
             q == Streams!Push(x, chars)
  <2>2. n \in Nat
    OBVIOUS
  <2>3. chars \in Seq(Int)
    BY ONLY <1>1, <2>2, CharsAre
  <2>4. x' = [q EXCEPT !.text = q.text \o chars, !.shown = FALSE]
    BY <2>1
  <2> HIDE DEF chars
  <2>5. q \in Buffers /\ Holds(q, s \o chars) /\ q.text = s
    BY ONLY <1>1, <2>3, PushKeeps
  <2>6. s \o chars \in Seq(Int)
    BY ONLY <1>1, <2>3, JoinedIs
  <2> HIDE DEF q, s
  <2>7. x' = [q EXCEPT !.text = s \o chars, !.shown = FALSE]
    BY ONLY <2>4, <2>5
  <2>8. Holding([q EXCEPT !.text = s \o chars, !.shown = FALSE])
    BY ONLY <2>5, <2>6, TextIs
  <2> QED
    BY ONLY <2>7, <2>8
<1>3. CASE \E n \in 1..2 : /\ n <= Len(x.text)
                           /\ x' = [Streams!Pop(x, n) EXCEPT !.text = SubSeq(@, 1, Len(@) - n), !.shown = FALSE]
  <2>1. PICK n \in 1..2 : /\ n <= Len(s)
                          /\ x' = [Streams!Pop(x, n) EXCEPT !.text = SubSeq(@, 1, Len(@) - n), !.shown = FALSE]
    BY <1>3
  <2> DEFINE q == Streams!Pop(x, n)
             t == SubSeq(s, 1, Len(s) - n)
  <2>2. n \in Nat /\ Len(s) \in Nat
    BY ONLY <1>1, n \in 1..2
  <2>3. t \in Seq(Int) /\ Len(t) = Len(s) - n /\ \A i \in 1..Len(t) : t[i] = s[i]
    BY ONLY <1>1, <2>1, <2>2, PrefixIs
  <2>4. x' = [q EXCEPT !.text = SubSeq(q.text, 1, Len(q.text) - n), !.shown = FALSE]
    BY <2>1
  <2> HIDE DEF t, s
  <2>5. q \in Buffers /\ Holds(q, t) /\ q.text = x.text
    BY ONLY <1>1, <2>2, <2>3, PopKeeps
  <2> HIDE DEF q
  <2>6. x' = [q EXCEPT !.text = t, !.shown = FALSE]
    BY ONLY <2>4, <2>5 DEF t, s
  <2>7. Holding([q EXCEPT !.text = t, !.shown = FALSE])
    BY ONLY <2>3, <2>5, TextIs
  <2> QED
    BY ONLY <2>6, <2>7
<1>4. CASE x' = [x EXCEPT !.top = 0, !.text = << >>, !.shown = FALSE]
  <2>1. /\ x' \in Buffers /\ x'.top = 0 /\ x'.text = << >> /\ x'.shown = FALSE /\ x'.cell = x.cell
    BY ONLY <1>1, <1>4, << >> \in Seq(Int) DEF Buffers
  <2>2. Len(x.cell) \in Nat
    <3>1. x.cell \in Seq(Int)
      BY ONLY <1>1 DEF Buffers
    <3> QED
      BY ONLY <3>1
  <2>3. Holds(x', x'.text)
    BY ONLY <2>1, <2>2 DEF Holds
  <2>4. Shown(x')
    BY ONLY <2>1 DEF Shown
  <2> QED
    BY ONLY <2>1, <2>3, <2>4 DEF Holding
<1>5. CASE x' = [Streams!ShrinkToFit(x) EXCEPT !.shown = TRUE]
  BY <1>5, ShowKeeps
<1>6. CASE x' = [Streams!GetString(x) EXCEPT !.shown = TRUE]
  BY <1>6, ShowKeeps
<1>7. CASE x' = Streams!MovedFrom(x)
  BY <1>7, NewBufferHolds, 0 \in Nat DEF Streams!MovedFrom
<1> HIDE DEF s
<1> QED
  BY ONLY <1>2, <1>3, <1>4, <1>5, <1>6, <1>7, Streams!Buffer DEF Streams!Buffer

\* Room that was reserved is enough.
LEMMA ReservedKeeps ==
  ASSUME Holding(x), Streams!Reserved
  PROVE  Holding(x')
<1> DEFINE s == x.text
<1>1. x \in Buffers /\ Holds(x, s) /\ s \in Seq(Int)
  BY DEF Holding, Buffers
<1>2. PICK n \in 1..MaxLength - Len(s) :
        x' = [Streams!PushUnsafe(Streams!Reserve(x, n), [i \in 1..n |-> Len(s) + i]) EXCEPT
                !.text = @ \o [i \in 1..n |-> Len(s) + i], !.shown = FALSE]
  BY DEF Streams!Reserved
<1> DEFINE chars == [i \in 1..n |-> Len(s) + i]
           r == Streams!Reserve(x, n)
           q == Streams!PushUnsafe(r, chars)
<1>3. n \in Nat
  BY <1>1, MemoryAssumption
<1>4. chars \in Seq(Int) /\ Len(chars) = n
  BY ONLY <1>1, <1>3, CharsAre
<1>5. x' = [q EXCEPT !.text = q.text \o chars, !.shown = FALSE]
  BY <1>2
<1> HIDE DEF chars
<1>6. r \in Buffers /\ Holds(r, s) /\ x.top + n <= Len(r.cell) /\ r.top = x.top /\ r.text = s
  BY ONLY <1>1, <1>3, ReserveKeeps
<1> HIDE DEF r
<1>7. r.top + Len(chars) <= Len(r.cell)
  BY ONLY <1>4, <1>6
<1>8. q \in Buffers /\ Holds(q, s \o chars) /\ q.text = s
  BY ONLY <1>1, <1>4, <1>6, <1>7, PushUnsafeKeeps
<1>9. s \o chars \in Seq(Int)
  BY ONLY <1>1, <1>4, JoinedIs
<1> HIDE DEF q, s
<1>10. x' = [q EXCEPT !.text = s \o chars, !.shown = FALSE]
  BY ONLY <1>5, <1>8
<1>11. Holding([q EXCEPT !.text = s \o chars, !.shown = FALSE])
  BY ONLY <1>8, <1>9, TextIs
<1> QED
  BY ONLY <1>10, <1>11

\* What a buffer holds is its text.
LEMMA HoldingHolds == Holding(x) => Streams!BufferHolds
<1> SUFFICES ASSUME Holding(x) PROVE Streams!BufferHolds
  OBVIOUS
<1>1. x \in Buffers /\ Holds(x, x.text) /\ Shown(x)
  BY DEF Holding
<1>2. DOMAIN x.text = 1..Len(x.text)
  BY <1>1 DEF Buffers
<1>3. x.top <= Len(x.cell)
  BY ONLY <1>1 DEF Holds
<1> QED
  BY ONLY <1>1, <1>2, <1>3 DEF Holds, Shown, Streams!BufferHolds

\* A reader before the first character.
LEMMA BeginsReading ==
  ASSUME NEW s \in Readers, s.taken = << >>, s.line = 1, s.column = 0, Stands(s, 0)
  PROVE  Reading(s)
<1>1. Len(s.taken) = 0
  BY ONLY s.taken = << >>
<1>2. Len(s.file) \in Nat
  <2>1. s.file \in Seq(Int)
    BY DEF Readers
  <2> QED
    BY ONLY <2>1
<1>3. Follows(s)
  BY ONLY <1>1, <1>2 DEF Follows
<1>4. Ends(s) = {}
  BY ONLY <1>1 DEF Ends
<1>5. Lines(s)
  <2>1. Cardinality({}) = 0
    BY FS_EmptySet
  <2>2. s.column = Len(s.taken) - 0
    BY ONLY <1>1, s.column = 0
  <2> QED
    BY ONLY <1>4, <2>1, <2>2, s.line = 1 DEF Lines
<1> QED
  BY ONLY <1>1, <1>3, <1>5, Stands(s, 0), s \in Readers DEF Reading

\* A writer of any size begins with nothing.
LEMMA BeginsWriting ==
  ASSUME NEW size \in Nat \ {0}
  PROVE  Writing(Streams!NewWriter(size))
<1> DEFINE w == Streams!NewWriter(size)
<1>1. w \in Writers /\ w.size = size /\ w.buffer = << >> /\ w.written = << >> /\ w.put = 0
  BY << >> \in Seq(Int) DEF Streams!NewWriter, Writers
<1> HIDE DEF w
<1>2. All(w) = << >>
  BY ONLY <1>1 DEF All
<1>3. Sorted(w, w.put)
  BY ONLY <1>1, <1>2, size \in Nat \ {0} DEF Sorted
<1> QED
  BY ONLY <1>1, <1>3 DEF Writing, w

\* The first refill makes it ready.
LEMMA FirstRead ==
  ASSUME NEW kind \in {"file", "istream"}, NEW file \in Seq(Int), NEW size \in Nat, size >= 4
  PROVE  Reading(Streams!Read(Streams!NewReader(kind, file, size)))
<1>r. PICK r : r = Streams!NewReader(kind, file, size)
  OBVIOUS
<1> DEFINE q == Streams!Read(r)
<1>1. /\ r \in Readers /\ r.kind = kind /\ r.file = file /\ r.size = size /\ r.from = 0 /\ r.count = 0
      /\ r.readCount = 0 /\ r.eof = FALSE /\ r.current = 0 /\ r.last = -1
      /\ r.taken = << >> /\ r.line = 1 /\ r.column = 0
  BY <1>r, << >> \in Seq(Int) DEF Streams!NewReader, Readers
<1>2. ~(r.current < r.last) /\ ~r.eof
  BY ONLY <1>1
<1>3. q = Streams!FileRefill(r) \/ q = Streams!IStreamRefill(r)
  BY ONLY <1>2 DEF Streams!Read, q
<1>4. r.kind # "memory" /\ r.size >= 4 /\ r.from <= Len(r.file) /\ r.from = r.count + r.readCount
  <2>1. Len(file) \in Nat
    OBVIOUS
  <2> QED
    BY ONLY <1>1, <2>1, kind \in {"file", "istream"}, size >= 4
<1>5. q \in Readers /\ SameText(r, q) /\ Loaded(q) /\ q.count + q.current = r.from
  <2> HIDE DEF q
  <2> QED
    BY <1>1, <1>2, <1>3, <1>4, RefillIs
<1> HIDE DEF q
<1>6. q.taken = << >> /\ q.line = 1 /\ q.column = 0 /\ q.kind = r.kind /\ q.file = file
  BY ONLY <1>1, <1>5 DEF SameText
<1>7. Stands(q, 0)
  <2>1. Len(file) \in Nat
    OBVIOUS
  <2>2. Lowest(0, Len(file)) = 0
    BY ONLY <2>1 DEF Lowest
  <2> QED
    BY ONLY <1>1, <1>4, <1>5, <1>6, <2>2 DEF Stands
<1> QED
  BY ONLY <1>5, <1>6, <1>7, BeginsReading, <1>r DEF q

\* Reading in memory needs no refill.
LEMMA FirstInMemory ==
  ASSUME NEW file \in Seq(Int)
  PROVE  Reading(Streams!NewReader("memory", file, 0))
<1>r. PICK r : r = Streams!NewReader("memory", file, 0)
  OBVIOUS
<1>1. /\ r \in Readers /\ r.kind = "memory" /\ r.file = file /\ r.current = 0
      /\ r.taken = << >> /\ r.line = 1 /\ r.column = 0
  BY <1>r, << >> \in Seq(Int) DEF Streams!NewReader, Readers
<1>2. Len(file) \in Nat
  OBVIOUS
<1>3. Lowest(0, Len(file)) = 0
  BY ONLY <1>2 DEF Lowest
<1>4. Stands(r, 0)
  BY ONLY <1>1, <1>3 DEF Stands
<1> QED
  BY ONLY <1>r, <1>1, <1>4, BeginsReading

\* A text is a sequence of numbers.
LEMMA TextsAre == \A file \in Streams!Texts : file \in Seq(Int)
<1> SUFFICES ASSUME NEW file \in Streams!Texts PROVE file \in Seq(Int)
  OBVIOUS
<1>1. PICK n \in 0..MaxLength :
        \E lines \in SUBSET (1..n) : file = [i \in 1..n |-> IF i \in lines THEN -i ELSE i]
  BY DEF Streams!Texts
<1>2. n \in Nat
  BY MemoryAssumption
<1> QED
  BY ONLY <1>1, <1>2

\* A stream of any kind is as its calls left it.
StreamKept(s) == Reading(s) \/ Writing(s) \/ Holding(s)

\* Every stream begins as it should be.
LEMMA StreamBegins ==
  ASSUME Streams!Init
  PROVE  StreamKept(x)
<1>1. CASE \E kind \in {"file", "istream"}, size \in BufferSizes, file \in Streams!Texts :
             x = Streams!Read(Streams!NewReader(kind, file, size))
  <2>1. PICK kind \in {"file", "istream"}, size \in BufferSizes, file \in Streams!Texts :
             x = Streams!Read(Streams!NewReader(kind, file, size))
    BY <1>1
  <2>2. size \in Nat /\ size >= 4 /\ file \in Seq(Int)
    BY MemoryAssumption, TextsAre
  <2>3. Reading(Streams!Read(Streams!NewReader(kind, file, size)))
    BY ONLY <2>2, kind \in {"file", "istream"}, FirstRead
  <2> QED
    BY ONLY <2>1, <2>3 DEF StreamKept
<1>2. CASE \E file \in Streams!Texts : x = Streams!NewReader("memory", file, 0)
  BY <1>2, TextsAre, FirstInMemory DEF StreamKept
<1>3. CASE \E size \in 1..Streams!Max(BufferSizes) : x = Streams!NewWriter(size)
  <2>1. PICK size \in 1..Streams!Max(BufferSizes) : x = Streams!NewWriter(size)
    BY <1>3
  <2>2. Streams!Max(BufferSizes) \in Nat
    <3>1. PICK most \in BufferSizes : \A size1 \in BufferSizes : most >= size1
      BY MemoryAssumption
    <3>2. \E m \in BufferSizes : \A y \in BufferSizes : m >= y
      BY <3>1
    <3>3. Streams!Max(BufferSizes) \in BufferSizes
      BY ONLY <3>2 DEF Streams!Max
    <3> QED
      BY <3>3, MemoryAssumption
  <2>3. size \in Nat \ {0}
    BY ONLY <2>2, size \in 1..Streams!Max(BufferSizes)
  <2> QED
    BY ONLY <2>1, <2>3, BeginsWriting DEF StreamKept
<1>4. CASE \E initial \in InitialCapacities : x = Streams!NewBuffer(initial)
  BY <1>4, MemoryAssumption, NewBufferHolds DEF StreamKept
<1> QED
  BY ONLY <1>1, <1>2, <1>3, <1>4, Streams!Init DEF Streams!Init

\* Every call leaves a stream as it should be.
LEMMA StreamGoesOn ==
  ASSUME StreamKept(x), Streams!Next
  PROVE  StreamKept(x')
<1>1. /\ Reading(x) => x.kind \in {"file", "istream", "memory"}
      /\ Writing(x) => x.kind = "writer"
      /\ Holding(x) => x.kind = "buffer"
  BY DEF Reading, Readers, Writing, Writers, Holding, Buffers
<1>2. CASE Streams!Take
  <2>1. Reading(x)
    BY ONLY <1>1, <1>2, StreamKept(x) DEF Streams!Take, StreamKept
  <2> QED
    BY <1>2, <2>1, TakeKeeps DEF StreamKept
<1>3. CASE Streams!Write
  <2>1. Writing(x)
    BY ONLY <1>1, <1>3, StreamKept(x) DEF Streams!Write, StreamKept
  <2> QED
    BY <1>3, <2>1, WriteKeeps DEF StreamKept
<1>4. CASE Streams!Buffer
  <2>1. Holding(x)
    BY ONLY <1>1, <1>4, StreamKept(x) DEF Streams!Buffer, StreamKept
  <2> QED
    BY <1>4, <2>1, BufferKeeps DEF StreamKept
<1>5. CASE Streams!Reserved
  <2>1. Holding(x)
    BY ONLY <1>1, <1>5, StreamKept(x) DEF Streams!Reserved, StreamKept
  <2> QED
    BY <1>5, <2>1, ReservedKeeps DEF StreamKept
<1> QED
  BY ONLY <1>2, <1>3, <1>4, <1>5, Streams!Next DEF Streams!Next

\* A stream that is as its calls left it has the properties of the runs.
LEMMA KeptIsRight ==
  StreamKept(x) => Streams!ReadsFile /\ Streams!CountsLines /\ Streams!WritesAll /\ Streams!BufferHolds
<1> SUFFICES ASSUME StreamKept(x)
             PROVE  Streams!ReadsFile /\ Streams!CountsLines /\ Streams!WritesAll /\ Streams!BufferHolds
  OBVIOUS
<1>1. /\ Reading(x) => x.kind \in {"file", "istream", "memory"}
      /\ Writing(x) => x.kind = "writer"
      /\ Holding(x) => x.kind = "buffer"
  BY DEF Reading, Readers, Writing, Writers, Holding, Buffers
<1>2. CASE Reading(x)
  <2>1. x.kind # "writer" /\ x.kind # "buffer"
    BY ONLY <1>1, <1>2
  <2> QED
    BY <1>2, <2>1, ReadingReads, ReadingCounts DEF Streams!WritesAll, Streams!BufferHolds
<1>3. CASE Writing(x)
  <2>1. x.kind \notin {"file", "istream", "memory"} /\ x.kind # "buffer"
    BY ONLY <1>1, <1>3
  <2> QED
    BY <1>3, <2>1, WritingWrites
    DEF Streams!ReadsFile, Streams!CountsLines, Streams!IsReader, Streams!BufferHolds
<1>4. CASE Holding(x)
  <2>1. x.kind \notin {"file", "istream", "memory"} /\ x.kind # "writer"
    BY ONLY <1>1, <1>4
  <2> QED
    BY <1>4, <2>1, HoldingHolds
    DEF Streams!ReadsFile, Streams!CountsLines, Streams!IsReader, Streams!WritesAll
<1> QED
  BY ONLY <1>2, <1>3, <1>4, StreamKept(x) DEF StreamKept

-----------------------------------------------------------------------------
(* The whole                                                               *)

\* Every block of the document has its owner, the pool is sound, or the stream is as its calls
\* left it.
MemoryInv == \/ unit = "dom" /\ Owning(x, {})
             \/ unit = "pool" /\ Sound(x)
             \/ unit = "streams" /\ StreamKept(x)

\* Every call keeps the blocks owned, the pool sound and the stream as it should be.
LEMMA MemoryInvariant ==
  MemorySpec => []MemoryInv
<1>1. MemoryInit => MemoryInv
  BY StartsOwning, InitIsSound, StreamBegins DEF MemoryInit, MemoryInv
<1>2. MemoryInv /\ [MemoryNext]_<<unit, x>> => MemoryInv'
  <2> SUFFICES ASSUME MemoryInv, [MemoryNext]_<<unit, x>> PROVE MemoryInv'
    OBVIOUS
  <2>1. CASE unit = "pool" /\ Pool!Next /\ UNCHANGED unit
    <3>1. Sound(x)
      BY <2>1 DEF MemoryInv
    <3>2. Sound(x')
      BY <2>1, <3>1, AllocateKeeps, ResizeKeeps, ResetKeeps DEF Pool!Next
    <3> QED
      BY <2>1, <3>2 DEF MemoryInv
  <2>2. CASE unit = "streams" /\ Streams!Next /\ UNCHANGED unit
    <3>1. StreamKept(x)
      BY <2>2 DEF MemoryInv
    <3>2. StreamKept(x')
      BY <2>2, <3>1, StreamGoesOn
    <3> QED
      BY <2>2, <3>2 DEF MemoryInv
  <2>3. CASE unit = "dom" /\ Dom!Next /\ UNCHANGED unit
    <3>1. Owning(x, {})
      BY <2>3 DEF MemoryInv
    <3>2. Owning(x', {})
      BY <2>3, <3>1, DomStepKeeps
    <3> QED
      BY <2>3, <3>2 DEF MemoryInv
  <2>4. CASE UNCHANGED <<unit, x>>
    BY <2>4 DEF MemoryInv, Owning
  <2> QED
    BY <2>1, <2>2, <2>3, <2>4 DEF MemoryNext
<1> QED
  BY <1>1, <1>2, PTL DEF MemorySpec

\* Whatever the sizes of the buffers and the texts: a reader gives the characters of its file and
\* nuls behind them and counts their lines and columns, a writer loses, repeats and moves no
\* character, and a string buffer holds its text however it grows, shrinks and is moved.
THEOREM StreamsKeepText ==
  MemorySpec => [](ReadsFile /\ CountsLines /\ WritesAll /\ BufferHolds)
<1>1. MemoryInv => ReadsFile /\ CountsLines /\ WritesAll /\ BufferHolds
  BY KeptIsRight DEF MemoryInv, ReadsFile, CountsLines, WritesAll, BufferHolds
<1> QED
  BY <1>1, MemoryInvariant, PTL

\* Memory that is given out and text that goes through a stream stay as they were written, for
\* every alignment, chunk and buffer size and every bound.
THEOREM BuffersAreKept ==
  MemorySpec => []BuffersKeep
<1>1. MemoryInv => BuffersKeep
  <2>1. Sound(x) => Pool!Intact /\ Pool!Accounted
    BY SoundIsIntact, SoundIsAccounted DEF SoundPool
  <2> QED
    BY <2>1, KeptIsRight
    DEF MemoryInv, BuffersKeep, PoolKeeps, PoolAccounts, ReadsFile, CountsLines, WritesAll, BufferHolds
<1> QED
  BY <1>1, MemoryInvariant, PTL

\* The blocks of a document, with either allocator: none has two owners, none is freed twice, and
\* none that is in use is lost, whatever the client does with its values.
THEOREM BlocksAreOwned ==
  MemorySpec => []DomOwns
<1>1. MemoryInv => DomOwns
  BY OwningIsOwned DEF MemoryInv, DomOwns
<1> QED
  BY <1>1, MemoryInvariant, PTL

=============================================================================
