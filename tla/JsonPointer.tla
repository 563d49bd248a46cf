----------------------------- MODULE JsonPointer -----------------------------
(***************************************************************************)
(* JSON Pointers (rapidjson/pointer.h): a pointer is a sequence of tokens, *)
(* read from a text or from the fragment of a URI, and is followed into a  *)
(* tree of JsonTrees to find, create, set, exchange or erase a value.      *)
(*                                                                         *)
(* A token is [name, index], its name the bytes of UTF-8.                  *)
(***************************************************************************)
EXTENDS JsonEncodings, FiniteSetsExt, SequencesExt

CONSTANT IndexBits      \* the width of SizeType

InvalidIndex == 2 ^ IndexBits - 1

Sharp == 35  Percent == 37  Minus == 45  Solidus == 47  Tilde == 126
Digit == 48..57

Token(name, index) == [name |-> name, index |-> index]

-----------------------------------------------------------------------------
(* Parse                                                                   *)

\* Slip: a number may begin with zeros.
IndexOf_Zeros(name) ==
  LET sum == [k \in 0..Len(name) |->
                FoldLeft(LAMBDA n, c : (n * 10 + c - 48) % 2 ^ IndexBits, 0, SubSeq(name, 1, k))]
  IN  IF /\ name # <<>> /\ Range(name) \subseteq Digit
         /\ \A k \in 1..Len(name) : sum[k] >= sum[k - 1]
      THEN sum[Len(name)] ELSE InvalidIndex

\* A number without leading zeros; it has overflowed when it became less by a digit.
IndexOf(name) ==
  LET sum == [k \in 0..Len(name) |->
                FoldLeft(LAMBDA n, c : (n * 10 + c - 48) % 2 ^ IndexBits, 0, SubSeq(name, 1, k))]
  IN  IF /\ name # <<>> /\ Range(name) \subseteq Digit
         /\ Len(name) > 1 => name[1] # 48
         /\ \A k \in 1..Len(name) : sum[k] >= sum[k - 1]
      THEN sum[Len(name)] ELSE InvalidIndex

NeedPercentEncode(c) == c \notin Digit \cup 65..90 \cup 97..122 \cup {Minus, 46, 95, Tilde}

HexValueOf(c) == CASE c \in Digit -> c - 48 [] c \in 65..70 -> c - 55 [] c \in 97..102 -> c - 87 [] OTHER -> -1

\* PercentDecodeStream::Take at position i: a byte, or -1.
Triplet(s, i) ==
  IF i + 2 > Len(s) \/ s[i] # Percent \/ -1 \in {HexValueOf(s[i + 1]), HexValueOf(s[i + 2])}
  THEN -1 ELSE HexValueOf(s[i + 1]) * 16 + HexValueOf(s[i + 2])

\* The bytes of one character from i on, {} if they are none.
PercentDecode(s, i) ==
  LET bytes == [k \in 1..4 |-> Triplet(s, i + 3 * (k - 1))]
      some  == SelectInSeq(Append(bytes, -1), LAMBDA b : b = -1) - 1
  IN  {p \in Validate("UTF8", Stream(SubSeq(bytes, 1, some))) : some > 0 /\ Len(p.put) <= some}

Read(put, next)    == [put |-> put, next |-> next, error |-> "None"]
Refuse(error, at)  == [put |-> <<>>, next |-> at, error |-> error]

\* "~0" and "~1", behind the tilde.
Unescape(s, at) ==
  IF at <= Len(s) /\ s[at] \in {48, 49} THEN Read(IF s[at] = 48 THEN <<Tilde>> ELSE <<Solidus>>, at + 1)
                                        ELSE Refuse("InvalidEscape", at)

\* Slip: what was decoded is not looked at again.
ReadDecoded_AsIs(s, bytes, at) == Read(bytes, at)

\* What was decoded may be the tilde of an escape.
ReadDecoded(s, bytes, at) == IF bytes = <<Tilde>> THEN Unescape(s, at) ELSE Read(bytes, at)

ReadPercent(s, i) ==
  LET units == {ReadDecoded(s, p.put, i + 3 * Len(p.put)) : p \in PercentDecode(s, i)}
  IN  IF units = {} THEN Refuse("InvalidPercentEncoding", i) ELSE CHOOSE u \in units : TRUE

\* One turn of the loop over the characters of a token.
ReadUnit(s, i, uriFragment) ==
  CASE uriFragment /\ s[i] = Percent -> ReadPercent(s, i)
    [] uriFragment /\ s[i] # Percent /\ NeedPercentEncode(s[i]) -> Refuse("CharacterMustPercentEncode", i)
    [] OTHER -> IF s[i] = Tilde THEN Unescape(s, i + 1) ELSE Read(<<s[i]>>, i + 1)

\* The names that were read, the last being the one that grows.
WithUnit(r, unit) ==
  IF unit.error = "None" THEN [r EXCEPT !.next = unit.next, !.names[Len(r.names)] = @ \o unit.put]
  ELSE [r EXCEPT !.names = <<>>, !.error = unit.error, !.offset = unit.next - 1]

RECURSIVE Names(_, _, _)
Names(s, r, uriFragment) ==
  CASE r.error # "None" \/ r.next > Len(s) -> r
    [] r.error = "None" /\ r.next <= Len(s) /\ s[r.next] = Solidus ->
         Names(s, [r EXCEPT !.next = @ + 1, !.names = Append(@, <<>>)], uriFragment)
    [] OTHER -> Names(s, WithUnit(r, ReadUnit(s, r.next, uriFragment)), uriFragment)

Tokens(r) ==
  [tokens |-> [k \in DOMAIN r.names |-> Token(r.names[k], IndexOf(r.names[k]))], error |-> r.error, offset |-> r.offset]

Parse(s) ==
  LET uriFragment == s # <<>> /\ s[1] = Sharp
      start == IF uriFragment THEN 2 ELSE 1
  IN  IF start <= Len(s) /\ s[start] # Solidus
      THEN [tokens |-> <<>>, error |-> "TokenMustBeginWithSolidus", offset |-> start - 1]
      ELSE Tokens(Names(s, [names |-> <<>>, error |-> "None", offset |-> 0, next |-> start], uriFragment))

-----------------------------------------------------------------------------
(* Stringify                                                               *)

HexLetter(n) == IF n < 10 THEN 48 + n ELSE 55 + n

\* PercentEncodeStream::Put
PercentEncoded(bytes) ==
  FlattenSeq([k \in DOMAIN bytes |-> <<Percent, HexLetter(bytes[k] \div 16), HexLetter(bytes[k] % 16)>>])

\* In place of a text: Stringify returns false.
Failed == -1

\* The text of a name from j on, up to Failed where it is not UTF-8.
RECURSIVE Shown(_, _, _)
Shown(name, j, uriFragment) ==
  LET units == Validate("UTF8", [src |-> name, at |-> j])
      bytes == (CHOOSE p \in units : TRUE).put
  IN  IF j > Len(name) THEN <<>>
      ELSE CASE name[j] = Tilde   -> <<Tilde, 48>> \o Shown(name, j + 1, uriFragment)
             [] name[j] = Solidus -> <<Tilde, 49>> \o Shown(name, j + 1, uriFragment)
             [] OTHER -> IF ~(uriFragment /\ NeedPercentEncode(name[j]))
                         THEN <<name[j]>> \o Shown(name, j + 1, uriFragment)
                         ELSE IF units = {} THEN <<Failed>>
                         ELSE PercentEncoded(bytes) \o Shown(name, j + Len(bytes), uriFragment)

Stringify(tokens, uriFragment) ==
  (IF uriFragment THEN <<Sharp>> ELSE <<>>)
    \o FlattenSeq([k \in DOMAIN tokens |-> <<Solidus>> \o Shown(tokens[k].name, 1, uriFragment)])

-----------------------------------------------------------------------------
(* Comparison                                                              *)

\* memcmp of names of the same length
NameBefore(a, b) == \E k \in DOMAIN a : a[k] < b[k] /\ SubSeq(a, 1, k - 1) = SubSeq(b, 1, k - 1)

TokenBefore(a, b) ==
  \/ a.index < b.index
  \/ a.index = b.index /\ Len(a.name) < Len(b.name)
  \/ a.index = b.index /\ Len(a.name) = Len(b.name) /\ NameBefore(a.name, b.name)

Equal(a, b) == a.error = "None" /\ b.error = "None" /\ a.tokens = b.tokens

\* operator<: pointers that are not valid come last.
Before(a, b) ==
  /\ a.error = "None"
  /\ \/ b.error # "None"
     \/ Len(a.tokens) < Len(b.tokens)
     \/ /\ Len(a.tokens) = Len(b.tokens)
        /\ \E k \in DOMAIN a.tokens : /\ TokenBefore(a.tokens[k], b.tokens[k])
                                      /\ SubSeq(a.tokens, 1, k - 1) = SubSeq(b.tokens, 1, k - 1)

-----------------------------------------------------------------------------
(* Following a pointer.  A tree is <<type, items>>, an item of an array    *)
(* <<tree>>, of an object <<name, tree>>; a path is the positions of items.*)

Null == <<"null", <<>>>>

Value(item) == item[Len(item)]

\* FindMember, or the element: its position, 0 if there is none.
Item(t, token) ==
  LET named == {k \in DOMAIN t[2] : t[1] = "object" /\ t[2][k][1] = token.name}
  IN  CASE named # {} -> Min(named)
        [] t[1] = "array" /\ token.index # InvalidIndex /\ token.index < Len(t[2]) -> token.index + 1
        [] OTHER -> 0

\* The path to as many tokens as lead somewhere.
RECURSIVE Resolved(_, _)
Resolved(t, tokens) ==
  IF tokens = <<>> \/ Item(t, Head(tokens)) = 0 THEN <<>>
  ELSE LET k == Item(t, Head(tokens)) IN <<k>> \o Resolved(Value(t[2][k]), Tail(tokens))

At(t, path) == FoldLeft(LAMBDA v, k : Value(v[2][k]), t, path)

\* Get: the value, {} if unresolvedTokenIndex is set, which is the length of the path.
Get(t, tokens) == IF Len(Resolved(t, tokens)) = Len(tokens) THEN {At(t, Resolved(t, tokens))} ELSE {}

RECURSIVE PutAt(_, _, _)
PutAt(t, path, v) ==
  IF path = <<>> THEN v
  ELSE [t EXCEPT ![2][Head(path)][Len(t[2][Head(path)])] = PutAt(@, Tail(path), v)]

IsEnd(t, token) == t[1] = "array" /\ token.name = <<Minus>>

\* The container a token asks for; a value of another type is lost.
Fit(t, token) ==
  CASE IsEnd(t, token) -> t
    [] ~IsEnd(t, token) /\ token.index = InvalidIndex -> IF t[1] = "object" THEN t ELSE <<"object", <<>>>>
    [] OTHER -> IF t[1] \in {"array", "object"} THEN t ELSE <<"array", <<>>>>

\* Slip: the elements up to the index are not there.
Grown_ByOne(t, token) ==
  CASE t[1] = "array"  -> <<"array", Append(t[2], <<Null>>)>>
    [] t[1] = "object" -> <<"object", Append(t[2], <<token.name, Null>>)>>

\* The container with the item the token leads to, where there was none.
Grown(t, token) ==
  CASE IsEnd(t, token)  -> <<"array", Append(t[2], <<Null>>)>>
    [] t[1] = "array" /\ ~IsEnd(t, token) -> <<"array", t[2] \o [k \in 1..token.index + 1 - Len(t[2]) |-> <<Null>>]>>
    [] t[1] = "object" -> <<"object", Append(t[2], <<token.name, Null>>)>>

\* Create: the tree, the path of the value, whether it was there.
RECURSIVE Create(_, _)
Create(t, tokens) ==
  IF tokens = <<>> THEN [tree |-> t, path |-> <<>>, exist |-> TRUE]
  ELSE LET fit   == Fit(t, Head(tokens))
           k     == Item(fit, Head(tokens))
           grown == IF k = 0 THEN Grown(fit, Head(tokens)) ELSE fit
           at    == IF k = 0 THEN Len(grown[2]) ELSE k
           below == Create(Value(grown[2][at]), Tail(tokens))
       IN  [tree  |-> PutAt(grown, <<at>>, below.tree), path |-> <<at>> \o below.path,
            exist |-> k # 0 /\ below.exist]

Set(t, tokens, v) == LET c == Create(t, tokens) IN PutAt(c.tree, c.path, v)

\* The trees of the root and of the value after Swap.
Swap(t, tokens, v) == LET c == Create(t, tokens) IN <<PutAt(c.tree, c.path, v), At(c.tree, c.path)>>

GetWithDefault(t, tokens, v) ==
  LET c == Create(t, tokens) IN IF c.exist THEN c.tree ELSE PutAt(c.tree, c.path, v)

\* Slip: members are removed as RemoveMember does it.
Erase_ByLast(t, tokens) ==
  LET path == Resolved(t, tokens)
      up   == At(t, Front(path))
  IN  IF tokens = <<>> \/ Len(path) < Len(tokens) THEN [tree |-> t, erased |-> FALSE]
      ELSE [tree |-> PutAt(t, Front(path), <<up[1], Front([up[2] EXCEPT ![Last(path)] = Last(up[2])])>>),
            erased |-> TRUE]

\* The root is never erased.
Erase(t, tokens) ==
  LET path == Resolved(t, tokens)
      up   == At(t, Front(path))
  IN  IF tokens = <<>> \/ Len(path) < Len(tokens) THEN [tree |-> t, erased |-> FALSE]
      ELSE [tree |-> PutAt(t, Front(path), <<up[1], RemoveAt(up[2], Last(path))>>), erased |-> TRUE]

-----------------------------------------------------------------------------
(* Properties.  A piece is [chars, put, error, at]: characters of a text,  *)
(* the bytes they are read as, or the error and where in them it is; put   *)
(* is NextToken for the solidus before one.                                *)

NextToken == <<-1>>

\* A text of pieces gives their names, or the first error and its offset; there are as many tokens
\* as were counted, and their names fit in the room made for them.
PointersRead(uriFragment, pieces) ==
  LET marks == IF uriFragment THEN <<Sharp, Solidus>> ELSE <<Solidus>>
      text  == marks \o FlattenSeq([k \in DOMAIN pieces |-> pieces[k].chars])
      wrong == {k \in DOMAIN pieces : pieces[k].error # "None"}
      until == IF wrong = {} THEN Len(pieces) ELSE Min(wrong) - 1
      Add(names, p) == IF p.put = NextToken THEN Append(names, <<>>) ELSE [names EXCEPT ![Len(names)] = @ \o p.put]
      names == FoldLeft(Add, <<<<>>>>, pieces)
  IN  \E p \in {Parse(text)} :
      IF wrong # {}
      THEN p = [tokens |-> <<>>, error |-> pieces[Min(wrong)].error,
                offset |-> Len(marks) + pieces[Min(wrong)].at
                             + Len(FlattenSeq([k \in 1..until |-> pieces[k].chars]))]
      ELSE /\ p.error = "None" /\ [k \in DOMAIN p.tokens |-> p.tokens[k].name] = names
           /\ Len(names) = Cardinality({i \in DOMAIN text : text[i] = Solidus})
           /\ FoldLeft(LAMBDA n, name : n + Len(name) + 1, 0, names) <= Len(text)

\* The number a sequence of digits denotes, as a sequence is written for a number.
Canonical(digits) == digits # <<>> /\ (Len(digits) > 1 => digits[1] # 48)
Denoted(digits)   == FoldLeft(LAMBDA n, c : n * 10 + c - 48, 0, digits)

\* An index is the number that is written, if it is below the invalid one, and no index is given to
\* what is not a number.  A number beyond the width may be taken for its remainder: the test for
\* overflow sees only a sum that became less.
IndexDenotes(name) ==
  LET digits == Range(name) \subseteq Digit /\ Canonical(name)
  IN  \E index \in {Parse(<<Solidus>> \o name).tokens[1].index} :
      IF digits /\ Denoted(name) < InvalidIndex THEN index = Denoted(name)
      ELSE index # InvalidIndex => digits /\ index = Denoted(name) % 2 ^ IndexBits

Named(names) == [tokens |-> [k \in DOMAIN names |-> Token(names[k], IndexOf(names[k]))], error |-> "None", offset |-> 0]

WellFormed(name) == Failed \notin Range(Shown(name, 1, TRUE))

\* What is written for a pointer is read as it, as a text and as a fragment; only a fragment needs
\* names of UTF-8.
PointersComeBack(names) ==
  /\ Parse(Stringify(Named(names).tokens, FALSE)) = Named(names)
  /\ IF \A k \in DOMAIN names : WellFormed(names[k])
     THEN Parse(Stringify(Named(names).tokens, TRUE)) = Named(names)
     ELSE Failed \in Range(Stringify(Named(names).tokens, TRUE))

\* The order of pointers is total, and the valid ones that have no order are equal.
PointersOrdered(a, b, others) ==
  /\ ~(Before(a, b) /\ Before(b, a))
  /\ Before(a, b) \/ Before(b, a) \/ Equal(a, b) \/ (a.error # "None" /\ b.error # "None")
  /\ Equal(a, b) => ~Before(a, b)
  /\ \A c \in others : Before(a, b) /\ Before(b, c) => Before(a, c)

Under(path, r) == Len(r) >= Len(path) /\ SubSeq(r, 1, Len(path)) = path

RECURSIVE Paths(_)
Paths(t) ==
  {<<>>} \cup IF t[1] \notin {"array", "object"} THEN {}
              ELSE UNION {{<<k>> \o r : r \in Paths(Value(t[2][k]))} : k \in DOMAIN t[2]}

\* Where a path leads when the item at the end of `gone` is removed.
Moved(r, gone) ==
  LET d == Len(gone)
  IN  IF Len(r) >= d /\ Under(Front(gone), r) /\ r[d] > gone[d] THEN [r EXCEPT ![d] = @ - 1] ELSE r

\* A value that is created is found where it was created; it is said to be there exactly when it was;
\* and no other value is lost, but those of an array that has to become an object.
CreateKeeps(t, tokens, v) ==
  \E c \in {Create(t, tokens)}, set \in {Set(t, tokens, v)}, past \in {Resolved(t, tokens)} :
  LET lost == /\ Len(past) < Len(tokens)
              /\ At(t, past)[1] = "array" /\ tokens[Len(past) + 1].index = InvalidIndex
              /\ tokens[Len(past) + 1].name # <<Minus>>
      ends == \E k \in DOMAIN tokens : tokens[k].name = <<Minus>> /\ IsEnd(At(c.tree, SubSeq(c.path, 1, k - 1)), tokens[k])
  IN  /\ c.exist = (Get(t, tokens) # {})
      /\ c.exist => c.tree = t /\ GetWithDefault(t, tokens, v) = t
      /\ ~c.exist => At(c.tree, c.path) = Null /\ GetWithDefault(t, tokens, v) = set
      /\ At(set, c.path) = v
      /\ ~ends => Get(set, tokens) = {v}
      /\ Swap(set, tokens, Null)[2] = IF ends THEN Null ELSE v
      /\ \A r \in Paths(t) : ~Under(r, c.path) /\ ~Under(c.path, r) /\ ~(lost /\ Under(past, r))
                               => r \in Paths(set) /\ At(set, r) = At(t, r)

\* Exactly what the pointer leads to is erased, the others move up in their order; the root stays.
EraseKeeps(t, tokens) ==
  \E e \in {Erase(t, tokens)}, gone \in {Resolved(t, tokens)} :
      /\ e.erased = (tokens # <<>> /\ Get(t, tokens) # {})
      /\ ~e.erased => e.tree = t
      /\ e.erased => /\ Paths(e.tree) = {Moved(r, gone) : r \in {r \in Paths(t) : ~Under(gone, r)}}
                     /\ \A r \in Paths(t) : ~Under(r, gone) /\ ~Under(gone, r) => At(e.tree, Moved(r, gone)) = At(t, r)

=============================================================================
