------------------------------ MODULE JsonTrees ------------------------------
(***************************************************************************)
(* What the values of the JSON library promise (rapidjson/document.h): a   *)
(* value is a tree of its own; what is moved leaves a null behind; members *)
(* and elements keep their order, unless a member is removed by putting    *)
(* the last one in its place.                                              *)
(*                                                                         *)
(* A tree is <<type, items>>; an item of an array is <<tree>>, one of an   *)
(* object is <<name, tree>>, the items of a string are its characters.     *)
(***************************************************************************)
EXTENDS Integers, SequencesExt

CONSTANTS Slots, Scalars    \* the values of the client; the trees a slot may be set to

NullTree == <<"null", <<>>>>

IsContainer(t) == t[1] \in {"array", "object"}

Value(item) == item[Len(item)]

-----------------------------------------------------------------------------
(* What becomes of the trees f of the slots                                *)

Set(f, s, t) == [f EXCEPT ![s] = t]

AddItem(f, s, moved) ==
  [t \in Slots |-> CASE t = s -> <<f[s][1], Append(f[s][2], [i \in DOMAIN moved |-> f[moved[i]]])>>
                    [] t \in Range(moved) -> NullTree
                    [] OTHER -> f[t]]

RemoveRange(f, s, first, last) ==
  [f EXCEPT ![s][2] = SubSeq(@, 1, first - 1) \o SubSeq(@, last + 1, Len(@))]

ReplaceByLast(f, s, k) == [f EXCEPT ![s][2] = Front([@ EXCEPT ![k] = Last(f[s][2])])]

Move(f, s, t)     == [f EXCEPT ![s] = f[t], ![t] = NullTree]
Exchange(f, s, t) == [f EXCEPT ![s] = f[t], ![t] = f[s]]

ExchangeItem(f, s, k, t) ==
  [f EXCEPT ![s][2][k][Len(f[s][2][k])] = f[t], ![t] = Value(f[s][2][k])]

\* g is what a call may leave of f.
Step(f, g) ==
  \E s \in Slots :
    \/ \E t \in Scalars : g = Set(f, s, t)
    \/ \E t \in Slots \ {s} : g = Move(f, s, t) \/ g = Set(f, s, f[t]) \/ g = Exchange(f, s, t)
    \/ /\ IsContainer(f[s])
       /\ \/ g = RemoveRange(f, s, 1, Len(f[s][2]))
          \/ \E t \in Slots \ {s} : f[s][1] = "array" /\ g = AddItem(f, s, <<t>>)
          \/ \E n, t \in Slots \ {s} : n # t /\ f[s][1] = "object" /\ g = AddItem(f, s, <<n, t>>)
          \/ \E k \in DOMAIN f[s][2] :
               \/ \E l \in k..Len(f[s][2]) : g = RemoveRange(f, s, k, l)
               \/ f[s][1] = "object" /\ g = ReplaceByLast(f, s, k)
               \/ \E t \in Slots \ {s} : g = ExchangeItem(f, s, k, t)
               \/ g = Set(f, s, Value(f[s][2][k]))

==============================================================================
