----------------------------- MODULE JsonMemory -----------------------------
(***************************************************************************)
(* Memory that is given out, owned and given back, and text that goes      *)
(* through a buffer, under all calls of a client: the values of a document *)
(* (JsonDom), a memory pool (JsonPool), or one of the streams              *)
(* (JsonStreams).                                                          *)
(***************************************************************************)
EXTENDS Naturals

CONSTANTS
  Slots, HeapBlocks, DefaultCapacity, MaxCells, MaxCalls,              \* of JsonDom
  Align, ChunkCapacity, UserCapacities, Sizes, MaxBlocks, MaxChunks,   \* of JsonPool
  BufferSizes, InitialCapacities, MaxLength, MaxCapacity               \* of JsonStreams

ASSUME DomAssumption ==
  /\ HeapBlocks \subseteq Nat \ {0}
  /\ DefaultCapacity \in Nat \ {0}

ASSUME MemoryAssumption ==
  /\ Align \in Nat \ {0}
  /\ ChunkCapacity \in Nat
  /\ UserCapacities \subseteq Nat
  /\ Sizes \subseteq Nat
  \* the buffer of a reader has room for four characters (assert of filereadstream.h, istreamwrapper.h)
  /\ BufferSizes \subseteq Nat /\ \A size \in BufferSizes : size >= 4
  \* there is a largest one, up to which the buffer of a writer may have any size but 0
  /\ \E most \in BufferSizes : \A size \in BufferSizes : most >= size
  /\ InitialCapacities \subseteq Nat
  /\ MaxLength \in Nat

VARIABLES unit,   \* "dom", "pool" or "streams"
          x       \* its state

Dom     == INSTANCE JsonDom WITH dom <- x
Pool    == INSTANCE JsonPool WITH pool <- x
Streams == INSTANCE JsonStreams WITH stream <- x

MemoryInit == \/ unit = "dom" /\ Dom!Init
              \/ unit = "pool" /\ Pool!Init
              \/ unit = "streams" /\ Streams!Init

MemoryNext == /\ UNCHANGED unit
              /\ \/ unit = "dom" /\ Dom!Next
                 \/ unit = "pool" /\ Pool!Next
                 \/ unit = "streams" /\ Streams!Next

MemorySpec == MemoryInit /\ [][MemoryNext]_<<unit, x>>

-----------------------------------------------------------------------------
(* Properties                                                              *)

\* No block of a document has two owners, none is given back twice, and none that is in use is lost,
\* whatever is moved, swapped, copied, grown or erased (document.h, ~GenericValue, RawAssign).
DomOwns == unit = "dom" => Dom!Owned

\* A block of the pool keeps what was written to it while others are given out, grow and move
\* (allocators.h, MemoryPoolAllocator::Realloc).
PoolKeeps == unit = "pool" => Pool!Intact

\* The pool gives back every chunk it took, but not the buffer of the user (allocators.h, Clear).
PoolAccounts == unit = "pool" => Pool!Accounted

\* A reader gives the characters of the file, wherever its buffer ends, and then nuls
\* (filereadstream.h, istreamwrapper.h, memorystream.h).
ReadsFile == unit = "streams" => Streams!ReadsFile

\* Line and column are those of the next character (cursorstreamwrapper.h, Take).
CountsLines == unit = "streams" => Streams!CountsLines

\* What was put is in the file or the buffer, in its order, and the buffer is not overrun
\* (filewritestream.h, PutN).
WritesAll == unit = "streams" => Streams!WritesAll

\* A string buffer holds what was put, however it grew, shrank or was moved, and a nul behind the
\* text when it was shown (stringbuffer.h, internal/stack.h).
BufferHolds == unit = "streams" => Streams!BufferHolds

\* Memory that is given out and text that goes through a stream stay as they were written,
\* wherever a chunk or a buffer ends.
BuffersKeep == PoolKeeps /\ PoolAccounts /\ ReadsFile /\ CountsLines /\ WritesAll /\ BufferHolds

=============================================================================
