----------------------------- MODULE JsonDomTrees -----------------------------
(***************************************************************************)
(* The trees of a document's values: how they are compared, and what the   *)
(* calls of JsonDom make of them.                                          *)
(***************************************************************************)
EXTENDS JsonDom

\* Slip: the value of the first member is compared only.
Equal_Names(d, v, w) ==
  IF v.flags = "object" /\ w.flags = "object"
  THEN Size(d, v) = Size(d, w) /\ \A k \in 1..Size(d, v) : FindMember(d, w, StringOf(d, Cells(d, v)[k][1])) <= Size(d, w)
  ELSE v.flags = w.flags

\* operator==: the first member of the name counts.
RECURSIVE Equal(_, _, _)
Equal(d, v, w) ==
  CASE IsString(v) /\ IsString(w) -> StringOf(d, v) = StringOf(d, w)
    [] v.flags = "array" /\ w.flags = "array" ->
         Size(d, v) = Size(d, w) /\ \A k \in 1..Size(d, v) : Equal(d, Cells(d, v)[k][1], Cells(d, w)[k][1])
    [] v.flags = "object" /\ w.flags = "object" ->
         /\ Size(d, v) = Size(d, w)
         /\ \A k \in 1..Size(d, v) :
              LET l == FindMember(d, w, StringOf(d, Cells(d, v)[k][1]))
              IN  l <= Size(d, w) /\ Equal(d, Cells(d, v)[k][2], Cells(d, w)[l][2])
    [] OTHER -> v.flags = w.flags

-----------------------------------------------------------------------------
(* Properties                                                              *)

RECURSIVE Tree(_, _)
Tree(d, v) ==
  CASE IsContainer(v) ->
         LET cells == Cells(d, v)
         IN  <<v.flags, [i \in DOMAIN cells |-> [j \in DOMAIN cells[i] |-> Tree(d, cells[i][j])]]>>
    [] IsString(v) -> <<"string", <<StringOf(d, v)>>>>
    [] OTHER       -> <<"null", <<>>>>

Forest == [s \in Slots |-> Tree(dom, dom.slot[s])]

Trees == INSTANCE JsonTrees WITH
  Scalars <- {<<"null", <<>>>>, <<"array", <<>>>>, <<"object", <<>>>>, <<"string", <<1>>>>, <<"string", <<2>>>>}

\* A tree whose members have no order, and whether no name is given twice in it.
RECURSIVE Unordered(_), Distinct(_)
Unordered(t) ==
  IF t[1] = "object" THEN <<t[1], {<<m[1][2][1], Unordered(m[2])>> : m \in Range(t[2])}>>
  ELSE IF t[1] = "array" THEN <<t[1], [i \in DOMAIN t[2] |-> Unordered(t[2][i][1])]>> ELSE t

Distinct(t) ==
  /\ t[1] = "object" => IsInjective([i \in DOMAIN t[2] |-> t[2][i][1][2][1]])
  /\ t[1] \in {"array", "object"} => \A i \in DOMAIN t[2] : Distinct(Last(t[2][i]))

Comparable ==
  \A s, t \in Slots :
    LET f == Forest[s]  g == Forest[t]
    IN  Distinct(f) /\ Distinct(g) =>
          (Equal(dom, dom.slot[s], dom.slot[t]) <=> Unordered(f) = Unordered(g))

==============================================================================
