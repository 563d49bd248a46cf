------------------------------- MODULE JsonDom -------------------------------
(***************************************************************************)
(* The values of a document as the code keeps them (rapidjson/document.h): *)
(* a value is a small record that is copied bit by bit, with a pointer to  *)
(* the block that holds its elements, members or characters.  A block of   *)
(* an array has cells of one value, one of an object cells of a name and a *)
(* value.  With an allocator that frees (kNeedFree, CrtAllocator) the      *)
(* destructor gives the blocks back; with the memory pool it does nothing. *)
(*                                                                         *)
(* Not modelled: memory that runs out (the code does not look at what      *)
(* Malloc and Realloc return).                                             *)
(***************************************************************************)
EXTENDS Integers, FiniteSetsExt, SequencesExt

CONSTANTS
  Slots,                    \* the values the client has on its own
  HeapBlocks,               \* the blocks an allocator gives out (bound): numbers, but not 0
  DefaultCapacity,          \* kDefaultArrayCapacity, kDefaultObjectCapacity
  MaxCells, MaxCalls        \* bounds: cells in all blocks, calls

\* [needFree, slot, heap, wrong, calls]: wrong is set when a block is freed that is not in use,
\* or twice.
VARIABLE dom

Data(flags, ptr) == [flags |-> flags, ptr |-> ptr]
Null == Data("null", 0)

\* A block.  Its size (the number of its cells) and capacity are kept with it, not beside the
\* pointer, since they go with it wherever it is copied; what is past the size is never read.
Used(char, capacity, cells) == [used |-> TRUE, char |-> char, capacity |-> capacity, cells |-> cells]
Unused == [used |-> FALSE, char |-> 0, capacity |-> 0, cells |-> <<>>]

IsContainer(v) == v.flags \in {"array", "object"}
IsString(v)    == v.flags \in {"const", "copy"}

\* A string is one character; a constant one is kept elsewhere.
StringOf(d, v) == IF v.flags = "const" THEN v.ptr ELSE d.heap[v.ptr].char

\* Values without a block.
Simple == {Null, Data("const", 1), Data("array", 0), Data("object", 0)}

Init == \E needFree \in BOOLEAN, slot \in [Slots -> Simple] :
  dom = [needFree |-> needFree, slot |-> slot, heap |-> [b \in HeapBlocks |-> Unused],
         wrong |-> FALSE, calls |-> 0]

Cells(d, v)    == IF v.ptr = 0 THEN <<>> ELSE d.heap[v.ptr].cells
Size(d, v)     == Len(Cells(d, v))
Capacity(d, v) == IF v.ptr = 0 THEN 0 ELSE d.heap[v.ptr].capacity

-----------------------------------------------------------------------------
(* Who owns what                                                           *)

UsedBlocks(d) == {b \in HeapBlocks : d.heap[b].used}
FreeBlocks(d) == {b \in HeapBlocks : ~d.heap[b].used}

\* The block a value owns, or 0; those that cells own.
Block(v)    == IF IsContainer(v) \/ v.flags = "copy" THEN v.ptr ELSE 0
Held(cells) == (UNION {{Block(cells[i][j]) : j \in DOMAIN cells[i]} : i \in DOMAIN cells}) \ {0}

\* A value, and the values of the client, as cells.
Cell(v)   == <<<<v>>>>
OnOwn(d)  == [s \in Slots |-> <<d.slot[s]>>]

\* A set of blocks with all that they own, and the smallest one with the roots in it.
Closed(d, S)    == \A b \in S : Held(d.heap[b].cells) \subseteq S
Below(d, roots) == {b \in HeapBlocks : \A S \in SUBSET HeapBlocks : roots \subseteq S /\ Closed(d, S) => b \in S}

\* No block is owned by two of the values in the cells.
Once(cells) ==
  \A i, k \in DOMAIN cells : \A j \in DOMAIN cells[i] : \A l \in DOMAIN cells[k] :
    Block(cells[i][j]) = Block(cells[k][l]) /\ Block(cells[i][j]) # 0 => i = k /\ j = l

\* Nor by two of all values that the cells own, directly or not.
Separate(d, cells) ==
  LET below == Below(d, Held(cells))
  IN  /\ below \subseteq UsedBlocks(d)
      /\ Once(cells)
      /\ \A b \in below :
           /\ Once(d.heap[b].cells)
           /\ Held(d.heap[b].cells) \cap Held(cells) = {}
           /\ \A c \in below \ {b} : Held(d.heap[b].cells) \cap Held(d.heap[c].cells) = {}

-----------------------------------------------------------------------------
(* Allocation and destruction                                              *)

NewBlock(d) == CHOOSE b \in FreeBlocks(d) : TRUE

\* ~GenericValue of the values in the cells, which destroys all that they own.
Destroy(d, cells) ==
  LET gone == Below(d, Held(cells))
  IN  IF ~d.needFree THEN d
      ELSE [d EXCEPT !.heap = [b \in HeapBlocks |-> IF b \in gone THEN Unused ELSE @[b]],
                     !.wrong = @ \/ ~Separate(d, cells)]

\* SetStringRaw
NewString(d, s, c) == LET b == NewBlock(d)
                      IN  [d EXCEPT !.heap[b] = Used(c, 0, <<>>), !.slot[s] = Data("copy", b)]

\* Realloc: the cells move to a wider block, and nobody has the old one.
Reserve(d, s, capacity) ==
  LET v == d.slot[s]
      b == NewBlock(d)
  IN  IF capacity <= Capacity(d, v) THEN d
      ELSE [d EXCEPT !.heap = [c \in HeapBlocks |-> CASE c = b     -> Used(0, capacity, Cells(d, v))
                                                      [] c = v.ptr -> Unused
                                                      [] OTHER     -> @[c]],
                     !.slot[s] = Data(v.flags, b)]

\* Slip: the source keeps its pointer.
RawAssign_Keeps(d, moved) == d

\* RawAssign: what the slots moved held was copied elsewhere, they are null now.
RawAssign(d, moved) == [d EXCEPT !.slot = [s \in Slots |-> IF s \in moved THEN Null ELSE @[s]]]

-----------------------------------------------------------------------------
(* Members and elements                                                    *)

\* The capacity before one more is added.
Grown(d, v) ==
  LET capacity == Capacity(d, v)
  IN  IF Size(d, v) < capacity THEN capacity
      ELSE IF capacity = 0 THEN DefaultCapacity ELSE capacity + (capacity + 1) \div 2

\* PushBack, AddMember: the slots named are moved behind the last one.
AppendFrom(d, s, moved) ==
  LET room == Reserve(d, s, Grown(d, d.slot[s]))
      cell == [i \in DOMAIN moved |-> d.slot[moved[i]]]
  IN  RawAssign([room EXCEPT !.heap[room.slot[s].ptr].cells = Append(@, cell)], Range(moved))

\* Slot s is left with the cells given.
Left(d, s, cells) == IF d.slot[s].ptr = 0 THEN d ELSE [d EXCEPT !.heap[d.slot[s].ptr].cells = cells]

\* RemoveAllMembers, Clear
RemoveAll(d, s) == Left(Destroy(d, Cells(d, d.slot[s])), s, <<>>)

PopBack(d, s) == LET cells == Cells(d, d.slot[s])
                 IN  Left(Destroy(d, <<Last(cells)>>), s, Front(cells))

FindMember(d, v, name) ==
  LET found == {k \in 1..Size(d, v) : StringOf(d, Cells(d, v)[k][1]) = name}
  IN  IF found = {} THEN Size(d, v) + 1 ELSE CHOOSE k \in found : \A l \in found : k <= l

\* The last member is assigned to the place of the one removed.
RemoveMember(d, s, k) ==
  LET cells == Cells(d, d.slot[s])
  IN  Left(Destroy(d, <<cells[k]>>), s, Front([cells EXCEPT ![k] = Last(cells)]))

\* Slip: as many cells are moved as are erased.
Erase_MovesCount(d, s, first, last) ==
  LET cells == Cells(d, d.slot[s])
      n     == last - first + 1
      moved(i) == IF i \in first..last /\ i + n <= Len(cells) THEN cells[i + n] ELSE cells[i]
  IN  Left(Destroy(d, SubSeq(cells, first, last)), s, [i \in 1..Len(cells) - n |-> moved(i)])

\* Erase, EraseMember: what is behind the cells first..last is moved over them.
Erase(d, s, first, last) ==
  LET cells == Cells(d, d.slot[s])
      n     == last - first + 1
      moved(i) == IF i >= first THEN cells[i + n] ELSE cells[i]
  IN  Left(Destroy(d, SubSeq(cells, first, last)), s, [i \in 1..Len(cells) - n |-> moved(i)])

-----------------------------------------------------------------------------
(* Whole values                                                            *)

\* operator=: the value is destroyed first, then it takes what the other held.
Assign(d, s, t) == RawAssign([Destroy(d, Cell(d.slot[s])) EXCEPT !.slot[s] = d.slot[t]], {t})

AssignItem(d, s, k) ==
  LET v == d.slot[s]
      cell == Cells(d, v)[k]
  IN  [Destroy(d, Cell(v)) EXCEPT !.slot[s] = Last(cell), !.heap[v.ptr].cells[k][Len(cell)] = Null]

\* The copy constructor gives a block to each one below that holds something.
Copied(d, v) == {b \in Below(d, Held(Cell(v))) : d.heap[b].char # 0 \/ d.heap[b].cells # <<>>}

\* The copy of v, when block b is copied to block to[b]: it is as wide as it is full.
CopyValue(v, to) ==
  IF Block(v) = 0 THEN v ELSE IF v.ptr \in DOMAIN to THEN [v EXCEPT !.ptr = to[@]] ELSE [v EXCEPT !.ptr = 0]

CopyCells(cells, to) == [i \in DOMAIN cells |-> [j \in DOMAIN cells[i] |-> CopyValue(cells[i][j], to)]]

CopyBlock(block, to) == Used(block.char, Len(block.cells), CopyCells(block.cells, to))

CopyFrom(d, s, t, to) ==
  [d EXCEPT !.heap = [c \in HeapBlocks |->
                        IF c \in Range(to) THEN CopyBlock(@[CHOOSE b \in DOMAIN to : to[b] = c], to) ELSE @[c]],
            !.slot[s] = CopyValue(d.slot[t], to)]

Swap(d, s, t) == [d EXCEPT !.slot[s] = d.slot[t], !.slot[t] = d.slot[s]]

SwapItem(d, s, k, t) ==
  LET v == d.slot[s]
      cell == Cells(d, v)[k]
  IN  [d EXCEPT !.slot[t] = Last(cell), !.heap[v.ptr].cells[k][Len(cell)] = d.slot[t]]

-----------------------------------------------------------------------------
(* The client, which takes care never to use a value inside of itself      *)

Room == FreeBlocks(dom) # {}

CellsInUse == MapThenSumSet(LAMBDA b : Len(dom.heap[b].cells), HeapBlocks)

\* A call leaves d.  What the pool does not free is not looked at once nobody owns it.
Leaves(d) ==
  LET owned == Below(d, Held(OnOwn(d)))
  IN  /\ dom.calls < MaxCalls
      /\ dom' = [d EXCEPT !.calls = @ + 1,
                          !.heap = [b \in HeapBlocks |-> IF d.needFree \/ b \in owned THEN @[b] ELSE Unused]]

\* SetNull, SetArray, SetObject, SetString
Set(s) ==
  LET d == Destroy(dom, Cell(dom.slot[s]))
  IN  \/ \E v \in Simple : Leaves([d EXCEPT !.slot[s] = v])
      \/ Room /\ Leaves(NewString(d, s, 2))

Container(s) == IsContainer(dom.slot[s])

PushBack(s, t) ==
  /\ dom.slot[s].flags = "array" /\ Room
  /\ CellsInUse < MaxCells
  /\ Leaves(AppendFrom(dom, s, <<t>>))

AddMember(s, n, t) ==
  /\ dom.slot[s].flags = "object" /\ IsString(dom.slot[n]) /\ n # t /\ Room
  /\ CellsInUse < MaxCells
  /\ Leaves(AppendFrom(dom, s, <<n, t>>))

RemoveByName(s) ==
  /\ dom.slot[s].flags = "object"
  /\ \E name \in 1..2 : LET k == FindMember(dom, dom.slot[s], name)
                        IN  k <= Size(dom, dom.slot[s]) /\ Leaves(RemoveMember(dom, s, k))

Shrink(s) ==
  /\ Container(s)
  /\ \/ Leaves(RemoveAll(dom, s))
     \/ dom.slot[s].flags = "array" /\ Size(dom, dom.slot[s]) > 0 /\ Leaves(PopBack(dom, s))
     \/ \E k \in 1..Size(dom, dom.slot[s]) : \E l \in k..Size(dom, dom.slot[s]) : Leaves(Erase(dom, s, k, l))

\* Reserve, MemberReserve
Widen(s) == Container(s) /\ Room /\ Leaves(Reserve(dom, s, DefaultCapacity + 1))

Copy(s, t) ==
  LET d   == Destroy(dom, Cell(dom.slot[s]))
      tos == Injection(Copied(d, d.slot[t]), FreeBlocks(d))
  IN  /\ CellsInUse < MaxCells - 1
      /\ tos # {} /\ Leaves(CopyFrom(d, s, t, CHOOSE to \in tos : TRUE))

Between(s, t) ==
  \/ Leaves(Assign(dom, s, t))
  \/ Leaves(Swap(dom, s, t))
  \/ Copy(s, t)
  \/ Container(s) /\ \E k \in 1..Size(dom, dom.slot[s]) : Leaves(SwapItem(dom, s, k, t))

\* A value that takes one of its own items needs an allocator that does not free.
Become(s) ==
  /\ Container(s) /\ ~dom.needFree
  /\ \E k \in 1..Size(dom, dom.slot[s]) : Leaves(AssignItem(dom, s, k))

Next == \E s \in Slots :
  \/ Set(s) \/ RemoveByName(s) \/ Shrink(s) \/ Widen(s) \/ Become(s)
  \/ \E t \in Slots \ {s} : \/ PushBack(s, t)
                          \/ Between(s, t)
                          \/ \E n \in Slots \ {s} : AddMember(s, n, t)

-----------------------------------------------------------------------------
(* Property                                                                *)

\* No block has two owners and none is freed twice; a block that is in use has an owner, whom
\* somebody owns in turn, up to a value of the client.
Owned ==
  /\ ~dom.wrong
  /\ Separate(dom, OnOwn(dom))
  /\ UsedBlocks(dom) = Below(dom, Held(OnOwn(dom)))

=============================================================================
