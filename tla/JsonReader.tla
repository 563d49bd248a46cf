----------------------------- MODULE JsonReader -----------------------------
(***************************************************************************)
(* The reader of the JSON library the peer parses requests with            *)
(* (rapidjson/reader.h): three parsers of one grammar.                     *)
(*                                                                         *)
(*   Parse           recursive descent, the one Document::Parse takes      *)
(*   IterativeParse  a table of states with a stack (kParseIterativeFlag)  *)
(*   PullToken       the turns of IterativeParseNext, with which a caller  *)
(*                   pulls one event at a time                             *)
(*                                                                         *)
(* A text is a sequence of lexemes: what ParseString, ParseNumber and the  *)
(* literals make of characters is one lexeme here (JsonString, JsonNumber  *)
(* and JsonScan have the characters).  "junk" is text that is no value,    *)
(* "slash" a comment that is not finished.  The handler returns false at   *)
(* its event number refuse, 0 meaning never.                               *)
(***************************************************************************)
EXTENDS Naturals, Sequences, SequencesExt

CONSTANTS
  Jobs,        \* what to parse and how: a sequence of subsets of Job
  Leftover     \* what an earlier parse may have left on the stack

Lexeme == {"[", "]", "{", "}", ",", ":", "string", "scalar", "junk", "space", "comment", "slash"}

Job == [text : Seq(Lexeme), comments : BOOLEAN, trailing : BOOLEAN, stop : BOOLEAN, refuse : Nat]

VARIABLES
  job,         \* text, flags and handler
  st,          \* the reader: position, events delivered, parseResult_, stack_, state
  verdict      \* what IterativeParseNext has returned; "more" while it may be called again

vars == <<job, st, verdict>>

\* What the handler is told: the kind of event, and at an end the number of members
\* or elements.
End(kind, count) == <<kind, count>>
Event(kind)      == <<kind, 0>>

NoError == [code |-> "None", offset |-> 0]

-----------------------------------------------------------------------------
(* Stream, errors and handler                                              *)

Peek(s) == IF s.pos <= Len(job.text) THEN job.text[s.pos] ELSE "end"

Take(s) == [s EXCEPT !.pos = @ + 1]

\* RAPIDJSON_PARSE_ERROR_NORETURN; twice is the failure of the assertion in it.
ParseError(s, code, offset) ==
  [s EXCEPT !.error = [code |-> code, offset |-> offset],
            !.twice = @ \/ s.error # NoError]

\* RAPIDJSON_PARSE_ERROR_EARLY_RETURN
Then(s, Op(_)) == IF s.error = NoError THEN Op(s) ELSE s

\* A call of the handler, and the termination it may ask for.
Emit(s, event, offset) ==
  LET told == [s EXCEPT !.events = Append(@, event)]
  IN  IF Len(told.events) = job.refuse THEN ParseError(told, "Termination", offset) ELSE told

RECURSIVE SkipWhitespaceAndComments(_)
SkipWhitespaceAndComments(s) ==
  IF Peek(s) = "space" \/ (job.comments /\ Peek(s) = "comment")
    THEN SkipWhitespaceAndComments(Take(s))
  ELSE IF job.comments /\ Peek(s) = "slash"
    THEN ParseError(Take(s), "UnspecificSyntaxError", s.pos + 1)
  ELSE s

ParseScalar(s) ==
  IF Peek(s) \in {"string", "scalar"} THEN Emit(Take(s), Event(Peek(s)), s.pos)
                                      ELSE ParseError(s, "ValueInvalid", s.pos)

Fresh == [pos |-> 1, events |-> <<>>, error |-> NoError, twice |-> FALSE,
          stack |-> <<>>, state |-> "Start"]

-----------------------------------------------------------------------------
(* Recursive descent                                                       *)

RECURSIVE ParseValue(_), Members(_, _), Elements(_, _)

ParseObject(s) ==
  Then(Then(Emit(Take(s), Event("StartObject"), s.pos + 1), SkipWhitespaceAndComments),
       LAMBDA u : IF Peek(u) = "}" THEN Emit(Take(u), End("EndObject", 0), u.pos + 1)
                                   ELSE Members(u, 0))

\* Name, colon and value.
Member(s) ==
  LET named   == IF Peek(s) = "string" THEN Emit(Take(s), Event("Key"), s.pos)
                                       ELSE ParseError(s, "ObjectMissName", s.pos)
      Colon(u) == IF Peek(u) = ":" THEN Take(u) ELSE ParseError(u, "ObjectMissColon", u.pos)
      ready   == Then(Then(Then(named, SkipWhitespaceAndComments), Colon), SkipWhitespaceAndComments)
  IN  Then(Then(ready, ParseValue), SkipWhitespaceAndComments)

Members(s, count) ==
  Then(Member(s), LAMBDA u :
    CASE Peek(u) = "," ->
           Then(SkipWhitespaceAndComments(Take(u)), LAMBDA w :
             IF job.trailing /\ Peek(w) = "}"
             THEN Take(Emit(w, End("EndObject", count + 1), w.pos))
             ELSE Members(w, count + 1))
      [] Peek(u) = "}" -> Emit(Take(u), End("EndObject", count + 1), u.pos + 1)
      [] OTHER         -> ParseError(u, "ObjectMissCommaOrCurlyBracket", u.pos))

\* Slip: the last element is not counted when a comma follows it.
Elements_Uncounted(s, count) ==
  Then(Then(ParseValue(s), SkipWhitespaceAndComments), LAMBDA u :
    CASE Peek(u) = "," ->
           Then(SkipWhitespaceAndComments(Take(u)), LAMBDA w :
             IF job.trailing /\ Peek(w) = "]"
             THEN Take(Emit(w, End("EndArray", count), w.pos))
             ELSE Elements(w, count + 1))
      [] Peek(u) = "]" -> Emit(Take(u), End("EndArray", count + 1), u.pos + 1)
      [] OTHER         -> ParseError(u, "ArrayMissCommaOrSquareBracket", u.pos))

Elements(s, count) ==
  Then(Then(ParseValue(s), SkipWhitespaceAndComments), LAMBDA u :
    CASE Peek(u) = "," ->
           Then(SkipWhitespaceAndComments(Take(u)), LAMBDA w :
             IF job.trailing /\ Peek(w) = "]"
             THEN Take(Emit(w, End("EndArray", count + 1), w.pos))
             ELSE Elements(w, count + 1))
      [] Peek(u) = "]" -> Emit(Take(u), End("EndArray", count + 1), u.pos + 1)
      [] OTHER         -> ParseError(u, "ArrayMissCommaOrSquareBracket", u.pos))

ParseArray(s) ==
  Then(Then(Emit(Take(s), Event("StartArray"), s.pos + 1), SkipWhitespaceAndComments),
       LAMBDA u : IF Peek(u) = "]" THEN Emit(Take(u), End("EndArray", 0), u.pos + 1)
                                   ELSE Elements(u, 0))

ParseValue(s) == CASE Peek(s) = "{" -> ParseObject(s)
                   [] Peek(s) = "[" -> ParseArray(s)
                   [] OTHER         -> ParseScalar(s)

\* Nothing but space may follow the root, unless kParseStopWhenDoneFlag is set.
Root(s) == Then(SkipWhitespaceAndComments(s), LAMBDA u :
             IF Peek(u) # "end" THEN ParseError(u, "DocumentRootNotSingular", u.pos) ELSE u)

Parse ==
  Then(SkipWhitespaceAndComments(Fresh), LAMBDA s :
    IF Peek(s) = "end" THEN ParseError(s, "DocumentEmpty", s.pos)
    ELSE IF job.stop   THEN ParseValue(s)
    ELSE Then(ParseValue(s), Root))

-----------------------------------------------------------------------------
(* The table                                                               *)

Delimiters == {"ElementDelimiter", "MemberDelimiter", "KeyValueDelimiter"}

Tokenize(c) ==
  IF c \in {"[", "]", "{", "}", ",", ":", "string"} THEN c ELSE "scalar"

\* The states in which a value is due, and the one a scalar leads to.
AfterScalar == [Start             |-> "Value",
                ArrayInitial      |-> "Element",
                ElementDelimiter  |-> "Element",
                KeyValueDelimiter |-> "MemberValue"]

\* The rows of G by what they allow; every other entry is the error state.
Predict(state, token) ==
  CASE state \in DOMAIN AfterScalar /\ token = "["                   -> "ArrayInitial"
    [] state \in DOMAIN AfterScalar /\ token = "{"                   -> "ObjectInitial"
    [] state \in DOMAIN AfterScalar /\ token \in {"string", "scalar"} -> AfterScalar[state]
    [] state \in {"ObjectInitial", "MemberDelimiter"} /\ token = "string" -> "MemberKey"
    [] state \in {"ObjectInitial", "MemberDelimiter", "MemberValue"} /\ token = "}" -> "ObjectFinish"
    [] state = "MemberKey"   /\ token = ":"                          -> "KeyValueDelimiter"
    [] state = "MemberValue" /\ token = ","                          -> "MemberDelimiter"
    [] state = "Element"     /\ token = ","                          -> "ElementDelimiter"
    [] state \in {"ArrayInitial", "ElementDelimiter", "Element"} /\ token = "]" -> "ArrayFinish"
    [] OTHER                                                         -> "Error"

\* Slip: the state of the enclosing container is pushed as it is.
Frame_Unchanged(state) == state

\* The state to come back to when the container that begins here ends.
Frame(state) == IF state \in DOMAIN AfterScalar \ {"Start"} THEN AfterScalar[state] ELSE state

Enter(s, dst) == [s EXCEPT !.state = dst]

\* HasParseError() after a scalar or a name: also of an error from before it.
Parsed(s, dst) == Enter(s, IF s.error = NoError THEN dst ELSE "Error")

\* The handler is told of a bracket before it is taken from the stream.
Bracket(s, event, dst) ==
  LET told == Emit(s, event, s.pos)
  IN  IF Len(told.events) = job.refuse THEN Enter(told, "Error") ELSE Enter(Take(told), dst)

OpenContainer(s, dst) ==
  Bracket([s EXCEPT !.stack = @ \o <<Frame(s.state), 0>>],
          Event(IF dst = "ObjectInitial" THEN "StartObject" ELSE "StartArray"), dst)

\* Slip: the separator is taken from the stream twice.
CountMember_TakesTwo(s, dst) == Enter(Take(Take([s EXCEPT !.stack[Len(s.stack)] = @ + 1])), dst)

CountMember(s, dst) == Enter(Take([s EXCEPT !.stack[Len(s.stack)] = @ + 1]), dst)

\* Slip: the state under the count stays on the stack.
CloseContainer_PopsCount(s, dst) ==
  LET depth == Len(s.stack)
      count == s.stack[depth] + (IF s.state \in {"MemberValue", "Element"} THEN 1 ELSE 0)
      outer == IF s.stack[depth - 1] = "Start" THEN "Finish" ELSE s.stack[depth - 1]
      kind  == IF dst = "ObjectFinish" THEN "EndObject" ELSE "EndArray"
  IN  IF s.state \in Delimiters /\ ~job.trailing
      THEN Enter(ParseError(s, IF dst = "ObjectFinish" THEN "ObjectMissName" ELSE "ValueInvalid",
                            s.pos), "Error")
      ELSE Bracket([s EXCEPT !.stack = SubSeq(@, 1, depth - 1)], End(kind, count), outer)

CloseContainer(s, dst) ==
  LET depth == Len(s.stack)
      count == s.stack[depth] + (IF s.state \in {"MemberValue", "Element"} THEN 1 ELSE 0)
      outer == IF s.stack[depth - 1] = "Start" THEN "Finish" ELSE s.stack[depth - 1]
      kind  == IF dst = "ObjectFinish" THEN "EndObject" ELSE "EndArray"
  IN  IF s.state \in Delimiters /\ ~job.trailing
      THEN Enter(ParseError(s, IF dst = "ObjectFinish" THEN "ObjectMissName" ELSE "ValueInvalid",
                            s.pos), "Error")
      ELSE Bracket([s EXCEPT !.stack = SubSeq(@, 1, depth - 2)], End(kind, count), outer)

Transit(s, dst) ==
  CASE dst = "Error"                               -> Enter(s, dst)
    [] dst \in {"ObjectInitial", "ArrayInitial"}   -> OpenContainer(s, dst)
    [] dst = "MemberKey"                           -> Parsed(Emit(Take(s), Event("Key"), s.pos), dst)
    [] dst = "KeyValueDelimiter"                   -> Enter(Take(s), dst)
    [] dst \in {"MemberValue", "Element"}          -> Parsed(ParseScalar(s), dst)
    [] dst \in {"MemberDelimiter", "ElementDelimiter"} -> CountMember(s, dst)
    [] dst \in {"ObjectFinish", "ArrayFinish"}     -> CloseContainer(s, dst)
    [] OTHER                                       -> Parsed(ParseScalar(s), "Finish")

ErrorCodeOf(state) ==
  CASE state = "Start"                                -> "DocumentEmpty"
    [] state = "Finish"                               -> "DocumentRootNotSingular"
    [] state \in {"ObjectInitial", "MemberDelimiter"} -> "ObjectMissName"
    [] state = "MemberKey"                            -> "ObjectMissColon"
    [] state = "MemberValue"                          -> "ObjectMissCommaOrCurlyBracket"
    [] state \in {"KeyValueDelimiter", "ArrayInitial", "ElementDelimiter"} -> "ValueInvalid"
    [] OTHER                                          -> "ArrayMissCommaOrSquareBracket"

\* src is the state the error was met in.
HandleError(s, src) ==
  IF s.error # NoError THEN s ELSE ParseError(s, ErrorCodeOf(src), s.pos)

\* One turn of the table.
Advance(s) == Transit(s, Predict(s.state, Tokenize(Peek(s))))

RECURSIVE IterativeLoop(_)
IterativeLoop(s) ==
  IF Peek(s) = "end" THEN IF s.state = "Finish" THEN s ELSE HandleError(s, s.state)
  ELSE LET u == Advance(s)
       IN  IF u.state = "Error"                     THEN HandleError(u, s.state)
           ELSE IF job.stop /\ u.state = "Finish"   THEN u
           ELSE Then(SkipWhitespaceAndComments(u), IterativeLoop)

IterativeParse(stack) ==
  Then(SkipWhitespaceAndComments([Fresh EXCEPT !.stack = stack]), IterativeLoop)

-----------------------------------------------------------------------------
(* Pulling                                                                 *)

\* IterativeParseInit does not touch the stack, which a failed parse leaves as it is.
Init == /\ \E i \in 1..Len(Jobs) : job \in Jobs[i]
        /\ \E stack \in Leftover : st = [Fresh EXCEPT !.stack = stack]
        /\ verdict = "more"

Return(s, result) == st' = s /\ verdict' = result

\* Slip: the rest of the stream is not looked at when the root is complete.
PullRoot_Trusting ==
  LET s == SkipWhitespaceAndComments(st)
      d == Advance(s)
  IN  /\ verdict = "more" /\ Peek(st) # "end"
      /\ d.state = "Finish"
      /\ Return(d, "true")
      /\ UNCHANGED job

\* The turns of the loop in IterativeParseNext.  Nothing looks at an error that
\* SkipWhitespaceAndComments reports.
PullRoot ==
  LET s == SkipWhitespaceAndComments(st)
      d == Advance(s)
      u == SkipWhitespaceAndComments(d)
  IN  /\ verdict = "more" /\ Peek(st) # "end"
      /\ d.state = "Finish"
      /\ CASE job.stop       -> Return(d, "true")
           [] ~job.stop /\ Peek(u) # "end" -> Return(HandleError(u, "Finish"), "false")
           [] OTHER          -> Return(u, "true")
      /\ UNCHANGED job

PullToken ==
  LET s == SkipWhitespaceAndComments(st)
      d == Advance(s)
  IN  /\ verdict = "more" /\ Peek(st) # "end"
      /\ d.state \notin {"Finish", "Error"}
      /\ Return(d, "more")
      /\ UNCHANGED job

PullError ==
  LET s == SkipWhitespaceAndComments(st)
      d == Advance(s)
  IN  /\ verdict = "more" /\ Peek(st) # "end"
      /\ d.state = "Error"
      /\ Return(Enter(HandleError(d, s.state), s.state), "false")
      /\ UNCHANGED job

\* The stack is cleared: an unfinished text keeps its state, and is an error.
PullEnd ==
  /\ verdict = "more" /\ Peek(st) = "end"
  /\ Return([HandleError(st, st.state) EXCEPT !.stack = <<>>], "false")
  /\ UNCHANGED job

Done == verdict # "more" /\ UNCHANGED vars

Next == PullRoot \/ PullToken \/ PullError \/ PullEnd \/ Done

Spec == Init /\ [][Next]_vars

-----------------------------------------------------------------------------
(* The grammar                                                             *)

\* The lexemes that are not space.
Meaningful(text) ==
  SelectSeq(text, LAMBDA c : c # "space" /\ ~(job.comments /\ c = "comment"))

RECURSIVE Reading(_), Listing(_, _)

\* What a list of elements or members is read as: the number of them and the events.
Item(t, inObject) ==
  LET e == IF ~inObject THEN Reading(t)
           ELSE IF Len(t) > 2 /\ t[1] = "string" /\ t[2] = ":"
             THEN {<<Event("Key")>> \o v : v \in Reading(SubSeq(t, 3, Len(t)))}
           ELSE {}
  IN  {[count |-> 1, events |-> v] : v \in e}

Listing(t, inObject) ==
  Item(t, inObject) \cup
  UNION {{[count |-> x.count + y.count, events |-> x.events \o y.events] :
            x \in Item(SubSeq(t, 1, k - 1), inObject), y \in Listing(SubSeq(t, k + 1, Len(t)), inObject)} :
         k \in {k \in 2..Len(t) - 1 : t[k] = ","}}

Body(t, inObject) ==
  (IF t = <<>> THEN {[count |-> 0, events |-> <<>>]} ELSE Listing(t, inObject)) \cup
  (IF job.trailing /\ Len(t) > 1 /\ Last(t) = "," THEN Listing(Front(t), inObject) ELSE {})

\* The events of t as a value: one sequence of them, or none if t is no value.
Reading(t) ==
  LET inner == SubSeq(t, 2, Len(t) - 1)
  IN  CASE Len(t) = 1 /\ t[1] \in {"string", "scalar"} -> {<<Event(t[1])>>}
        [] Len(t) > 1 /\ t[1] = "[" /\ Last(t) = "]" ->
             {<<Event("StartArray")>> \o b.events \o <<End("EndArray", b.count)>> : b \in Body(inner, FALSE)}
        [] Len(t) > 1 /\ t[1] = "{" /\ Last(t) = "}" ->
             {<<Event("StartObject")>> \o b.events \o <<End("EndObject", b.count)>> : b \in Body(inner, TRUE)}
        [] OTHER -> {}

\* A text may go on behind its root when kParseStopWhenDoneFlag is set.
Readings ==
  LET t == Meaningful(job.text)
  IN  IF job.stop THEN UNION {Reading(SubSeq(t, 1, k)) : k \in 1..Len(t)} ELSE Reading(t)

-----------------------------------------------------------------------------
(* Properties                                                              *)

\* The reader is always at a position of the text, or behind its end.
TypeOK == /\ st.pos \in 1..Len(job.text) + 1
          /\ verdict \in {"more", "true", "false"}
          /\ st.state \in DOMAIN AfterScalar \cup Delimiters \cup
               {"ObjectInitial", "MemberKey", "MemberValue", "Element", "Finish"}

\* The recursive parser accepts exactly the texts of the grammar, and tells its handler
\* of them in order, with the right number of members and elements.
ReaderFollowsGrammar ==
  verdict # "more" /\ job.refuse = 0 =>
    /\ Parse.error = NoError <=> Readings # {}
    /\ Parse.error = NoError => Parse.events \in Readings

Blank == Meaningful(job.text) = <<>>

\* Where the parsers name an error differently: a text that begins with a bracket or a
\* separator no value begins with is an empty document to the table; and a handler that
\* stops at a bracket has it before it is taken from the stream, not after.
SameError(iterative, recursive) ==
  \/ iterative = recursive
  \/ /\ iterative = [recursive EXCEPT !.code = "DocumentEmpty"]
     /\ recursive.code = "ValueInvalid"
     /\ Head(Meaningful(job.text)) \in {"]", "}", ",", ":"}
  \/ /\ iterative.code = "Termination"
     /\ recursive = [iterative EXCEPT !.offset = @ + 1]

\* The table parses as the recursion does: every text gives the same events, also those
\* before an error, the same verdict and the same error; what an earlier parse left on
\* the stack makes no difference; and no error is set over another.
IterativeAgrees ==
  verdict # "more" =>
    LET r == Parse
    IN  \A stack \in Leftover :
          LET i == IterativeParse(stack)
          IN  /\ i.events = r.events
              /\ (i.error = NoError) = (r.error = NoError)
              /\ SameError(i.error, r.error)
              /\ ~i.twice /\ ~r.twice

\* A caller that pulls gets the events, the verdict and the error of the table, but that
\* a text of space alone is an invalid value; only a comment without its end (an error
\* IterativeParseNext does not look at) is excepted.
PullAgrees ==
  verdict # "more" /\ ~(job.comments /\ "slash" \in ToSet(job.text)) =>
    LET i == IterativeParse(<<>>)
    IN  /\ st.events = i.events
        /\ (verdict = "true") = (i.error = NoError)
        /\ \/ st.error = i.error
           \/ Blank /\ st.error = [i.error EXCEPT !.code = "ValueInvalid"]

Told(kinds) == Len(SelectSeq(st.events, LAMBDA e : e[1] \in kinds))

\* Between two turns the stack holds, on top of what it held before, a state and a
\* count for each container the handler has seen begin and not end.
StackIsOpenContainers ==
  verdict = "more" => \E stack \in Leftover : Len(st.stack) = 
    Len(stack) + 2 * (Told({"StartObject", "StartArray"}) - Told({"EndObject", "EndArray"}))

\* The three parsers are one: the recursion, the table and the pulling of tokens agree
\* on every text, and a caller who pulls may stop at any turn (reader.h, Parse,
\* IterativeParse, IterativeParseNext).
ParsersAgree == TypeOK /\ IterativeAgrees /\ PullAgrees /\ StackIsOpenContainers

\* reader.h:101: RAPIDJSON_ASSERT(!HasParseError()); "Error can only be assigned once"
ErrorAssignedOnce == ~st.twice

=============================================================================
