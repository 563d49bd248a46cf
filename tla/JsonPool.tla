------------------------------ MODULE JsonPool ------------------------------
(***************************************************************************)
(* The memory pool of the JSON library (rapidjson/allocators.h), from which*)
(* a Document takes its values and strings.  Memory is counted in cells;   *)
(* a request is rounded up to Align cells.  The client writes every block  *)
(* it gets: cell i of its block k holds <<k, i>>.                          *)
(***************************************************************************)
EXTENDS Integers, SequencesExt

CONSTANTS
  Align,                    \* cells a block is rounded up to
  ChunkCapacity,            \* chunk_capacity_
  UserCapacities,           \* capacities of the buffer of the user, 0 for none
  Sizes,                    \* sizes the client asks for
  MaxBlocks, MaxChunks      \* bounds: blocks in use, chunks

\* [chunks, blocks, held]: the chunks, the last of which serves allocation; the blocks in
\* use, 0 for a failed one; the number of chunks the base allocator gave and not took back.
VARIABLE pool

Rounded(n) == ((n + Align - 1) \div Align) * Align

Chunk(capacity) == [capacity |-> capacity, size |-> 0, cell |-> [i \in 1..capacity |-> <<0, 0>>]]

\* The client's: block k begins after cell `at` of a chunk.
Block(chunk, at, size) == [chunk |-> chunk, at |-> at, size |-> size]

Init == \E user \in UserCapacities :
  pool = [user   |-> user # 0,
          chunks |-> IF user = 0 THEN <<>> ELSE <<Chunk(user)>>,
          blocks |-> <<>>,
          held   |-> 0]

\* The client fills the cells first..size of its block k.
Written(p, k, first) ==
  LET b == p.blocks[k]
  IN  [p EXCEPT !.chunks[b.chunk].cell =
         [i \in DOMAIN @ |-> IF i - b.at \in first..b.size THEN <<k, i - b.at>> ELSE @[i]]]

-----------------------------------------------------------------------------
(* The operations.  Each gives the set of the pools it may leave, the base allocator may *)
(* have no memory, with the place of the block, or none.                                *)

Place(p, at) == [pool |-> p, chunk |-> Len(p.chunks), at |-> at]
Null(p)      == [pool |-> p, chunk |-> 0, at |-> 0]

AddChunk(p, capacity) ==
  {p} \cup {[p EXCEPT !.chunks = Append(@, Chunk(capacity)), !.held = @ + 1] : i \in {0} \ {MaxChunks - Len(p.chunks)}}

Fits(p, size) == p.chunks # <<>> /\ Last(p.chunks).size + size <= Last(p.chunks).capacity

Take(p, size) == Place([p EXCEPT !.chunks[Len(p.chunks)].size = @ + size], Last(p.chunks).size)

Malloc(p, n) ==
  LET size  == Rounded(n)
      wider == AddChunk(p, IF ChunkCapacity > size THEN ChunkCapacity ELSE size)
  IN  IF n = 0 THEN {Null(p)}
      ELSE IF Fits(p, size) THEN {Take(p, size)}
      ELSE {IF q = p THEN Null(p) ELSE Take(q, size) : q \in wider}

\* Slip: any block of the head grows where it is.
IsLast_Head(p, b, size) == b.chunk = Len(p.chunks)

\* The block is the last one of the head.
IsLast(p, b, size) == b.chunk = Len(p.chunks) /\ b.at = Last(p.chunks).size - size

Copied(r, b, size) ==
  [r EXCEPT !.pool.chunks[r.chunk].cell =
     [i \in DOMAIN @ |-> IF i - r.at \in 1..size
                         THEN r.pool.chunks[b.chunk].cell[b.at + i - r.at] ELSE @[i]]]

Realloc(p, b, n) ==
  LET old == Rounded(b.size)
      new == Rounded(n)
  IN  CASE b.chunk = 0 -> Malloc(p, n)
        [] b.chunk # 0 /\ n = 0 -> {Null(p)}
        [] b.chunk # 0 /\ n # 0 /\ old >= new -> {[Null(p) EXCEPT !.chunk = b.chunk, !.at = b.at]}
        [] OTHER ->
             IF IsLast(p, b, old) /\ Fits(p, new - old)
             THEN {[Take(p, new - old) EXCEPT !.at = b.at]}
             ELSE {IF r.chunk = 0 THEN r ELSE Copied(r, b, old) : r \in Malloc(p, new)}

\* Slip: the chunk that serves allocation is lost.
Clear_Head(p) ==
  IF p.user THEN [p EXCEPT !.chunks = <<[@[1] EXCEPT !.size = 0]>>, !.held = @ - (Len(p.chunks) - 1)]
  ELSE [p EXCEPT !.chunks = <<>>, !.held = IF p.chunks = <<>> THEN @ ELSE @ - (Len(p.chunks) - 1)]

Clear(p) ==
  IF p.user THEN [p EXCEPT !.chunks = <<[@[1] EXCEPT !.size = 0]>>, !.held = @ - (Len(p.chunks) - 1)]
  ELSE [p EXCEPT !.chunks = <<>>, !.held = @ - Len(p.chunks)]

-----------------------------------------------------------------------------
(* The client                                                              *)

Allocate == \E n \in Sizes : \E r \in Malloc(pool, n) :
  /\ Len(pool.blocks) < MaxBlocks
  /\ r.chunk # 0
  /\ pool' = Written([r.pool EXCEPT !.blocks = Append(@, Block(r.chunk, r.at, n))],
                     Len(pool.blocks) + 1, 1)

\* A block that could not be made larger stays what it was.
Resize == \E k \in DOMAIN pool.blocks, n \in Sizes :
  LET b == pool.blocks[k]
  IN  \E r \in Realloc(pool, b, n) :
        /\ r.chunk # 0
        /\ pool' = Written([r.pool EXCEPT !.blocks[k] = Block(r.chunk, r.at, n)], k, b.size + 1)

Reset == pool' = [Clear(pool) EXCEPT !.blocks = <<>>]

Next == Allocate \/ Resize \/ Reset

Spec == Init /\ [][Next]_pool

-----------------------------------------------------------------------------
(* Properties                                                              *)

\* A block keeps what was written to it, wherever it was moved.
Intact == \A k \in DOMAIN pool.blocks : LET b == pool.blocks[k] IN
  \A i \in 1..b.size : pool.chunks[b.chunk].cell[b.at + i] = <<k, i>>

\* Every chunk but the buffer of the user is given back.
Accounted == pool.held = Len(pool.chunks) - (IF pool.user THEN 1 ELSE 0)

=============================================================================
