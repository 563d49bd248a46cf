--------------------------- MODULE DialogueProofs ---------------------------
(***************************************************************************)
(* Proofs about module Dialogue, for both builds, any set of bodies and    *)
(* any limit.                                                              *)
(***************************************************************************)
EXTENDS Dialogue, TLAPS

-----------------------------------------------------------------------------
(* What the verdicts say of a body                                         *)

Verdicts == {"EmptyPostData", "JsonParseError", "UnsupportedVersion", "UnsupportedMethod", "GetInfo",
             "UnsupportedParamsType", "NoRequiredParams", "InvalidTransaction", "VerificationFailed", "Ok"}

\* Taking the prefix off leaves no text empty that was not.
LEMMA StripKeepsText ==
  ASSUME NEW params \in [Params -> Text], NEW p \in Required
  PROVE  Stripped(params)[p] = "" <=> params[p] = ""
<1>1. p \in Params
  BY DEF Required, Params
<1>2. \A t \in Text : remove_hex_prefix(t) = "" <=> t = ""
  BY DEF Text, remove_hex_prefix
<1> QED
  BY <1>1, <1>2 DEF Stripped

\* "no required params" is the verdict on a transaction with an object of parameters
\* in which a required one is empty.
LEMMA VerdictOnParams ==
  ASSUME NEW b \in Body
  PROVE  TransactionCode(b) = IF ~b.object THEN "UnsupportedParamsType"
                              ELSE IF \E p \in Required : b.params[p] = "" THEN "NoRequiredParams"
                              ELSE "Ok"
<1>1. b.params \in [Params -> Text]
  BY DEF Body
<1>2. (\E p \in Required : Stripped(b.params)[p] = "") <=> \E p \in Required : b.params[p] = ""
  BY <1>1, StripKeepsText
<1> QED
  BY <1>2 DEF TransactionCode

\* Every body gets one of ten verdicts, "Ok" exactly when it is valid.
LEMMA VerdictIsRight ==
  ASSUME NEW b \in Body
  PROVE  /\ Judge(b) \in Verdicts
         /\ Judge(b) = "Ok" <=> Valid(b)
         /\ Judge(b) = "GetInfo" <=> RequestCode(b) = "GetInfo"
         /\ Judge(b) = "NoRequiredParams" <=>
              /\ RequestCode(b) = "Ok" /\ b.object
              /\ \E p \in Required : b.params[p] = ""
         /\ Judge(b) \in {"EmptyPostData", "JsonParseError"} => b.form # "document"
         /\ Judge(b) = "UnsupportedVersion" => strict
<1>1. /\ b.form \in {"empty", "malformed", "document"}
      /\ b.method \in {"mhc_send", "mhc_test_send", "getinfo", "other"}
      /\ b.tx \in {"unloadable", "badsign", "good"}
  BY DEF Body, TxVerdicts
<1>2. /\ RequestCode(b) \in {"EmptyPostData", "JsonParseError", "UnsupportedVersion", "UnsupportedMethod",
                               "GetInfo", "Ok"}
      /\ RequestCode(b) = "Ok" <=> /\ b.form = "document"
                                   /\ strict => b.version = "2.0"
                                   /\ b.method \in {"mhc_send", "mhc_test_send"}
      /\ RequestCode(b) \in {"EmptyPostData", "JsonParseError"} => b.form # "document"
      /\ RequestCode(b) = "UnsupportedVersion" => strict
  BY <1>1 DEF RequestCode, is_transaction
<1>3. /\ VerifyCode(b) \in {"InvalidTransaction", "VerificationFailed", "Ok"}
      /\ VerifyCode(b) = "Ok" <=> b.tx = "good"
  BY <1>1 DEF VerifyCode
<1> QED
  BY <1>2, <1>3, VerdictOnParams DEF Judge, Verdicts, Valid

-----------------------------------------------------------------------------
(* What a reply says                                                       *)

\* The id in the reply to a body that is looked at.
ReplyId(b) == IF HasUsableId(b) THEN {b.id}
              ELSE IF strict THEN {"null"} ELSE {}

\* The last member of a reply has the id, if there is one.
LEMMA IdMemberHolds ==
  ASSUME NEW b \in Body
  PROVE  IdMember(ParsedId(b)) = {<<"id", i>> : i \in ReplyId(b)}
BY DEF IdMember, ParsedId, ReplyId, HasUsableId, NoMember, Body

\* The text of an error, which no two verdicts but these two share.
ErrorText(code) == get_error_message[IF code = "VerificationFailed" THEN "InvalidTransaction" ELSE code]

\* The JSON for a body is one of three objects, by its verdict.
LEMMA SaidByVerdict ==
  ASSUME NEW b \in Body
  PROVE  Said(b) = CASE Judge(b) = "Ok"      -> make_ok_json(ParsedId(b))
                     [] Judge(b) = "GetInfo" -> make_getinfo_json(ParsedId(b))
                     [] OTHER -> make_error_json(IF Judge(b) = "VerificationFailed"
                                                 THEN "InvalidTransaction" ELSE Judge(b), ParsedId(b))
<1>1. Judge(b) \in Verdicts
  BY VerdictIsRight
<1>2. Judge(b) \in {"EmptyPostData", "JsonParseError"} => ParsedId(b) = "none"
  BY VerdictIsRight DEF ParsedId
<1> QED
  BY <1>1, <1>2 DEF Said, ErrorReply, Verdicts

\* Every verdict that is an error has a text, and only one says that parameters are missing.
LEMMA TextsDiffer ==
  ASSUME NEW code \in Verdicts \ {"Ok", "GetInfo"}
  PROVE  /\ ErrorText(code) # "null"
         /\ ErrorText(code) = "no required params or bad type" <=> code = "NoRequiredParams"
<1>1. /\ ErrorText("EmptyPostData") = "empty post data"
      /\ ErrorText("JsonParseError") = "json parse error"
      /\ ErrorText("UnsupportedVersion") = "unsupported version"
      /\ ErrorText("UnsupportedMethod") = "unsupported method"
      /\ ErrorText("UnsupportedParamsType") = "unsupported params type"
      /\ ErrorText("NoRequiredParams") = "no required params or bad type"
      /\ ErrorText("InvalidTransaction") = "Invalid transaction"
      /\ ErrorText("VerificationFailed") = "Invalid transaction"
  BY DEF ErrorText, get_error_message
<1> QED
  BY <1>1 DEF Verdicts

\* The values of a name in an object of two members and an id.
Of(r, name) == {m[2] : m \in {n \in r : n[1] = name}}

\* Two members and an id.
Object(a, x, c, y, ids) == {<<a, x>>, <<c, y>>} \cup {<<"id", i>> : i \in ids}

\* The values a name has in such an object, whether or not the names differ.
LEMMA ValuesOfName ==
  ASSUME NEW a, NEW x, NEW c, NEW y, NEW ids, NEW name
  PROVE  Of(Object(a, x, c, y, ids), name) =
           (IF a = name THEN {x} ELSE {}) \cup (IF c = name THEN {y} ELSE {})
             \cup (IF name = "id" THEN ids ELSE {})
<1> DEFINE r == Object(a, x, c, y, ids)
<1>1. ASSUME NEW v \in Of(r, name)
      PROVE  (a = name /\ v = x) \/ (c = name /\ v = y) \/ (name = "id" /\ v \in ids)
  <2>1. PICK m \in r : m[1] = name /\ m[2] = v
    BY <1>1 DEF Of
  <2>2. m = <<a, x>> \/ m = <<c, y>> \/ \E i \in ids : m = <<"id", i>>
    BY DEF Object
  <2> QED
    BY <2>1, <2>2
<1>2. ASSUME NEW m \in r, m[1] = name
      PROVE  m[2] \in Of(r, name)
  BY <1>2 DEF Of
<1>3. <<a, x>> \in r /\ <<c, y>> \in r /\ \A i \in ids : <<"id", i>> \in r
  BY DEF Object
<1>4. /\ a = name => x \in Of(r, name)
      /\ c = name => y \in Of(r, name)
      /\ name = "id" => \A i \in ids : i \in Of(r, name)
  <2>1. a = name => x \in Of(r, name)
    <3>1. <<a, x>>[1] = a /\ <<a, x>>[2] = x
      OBVIOUS
    <3> QED
      BY <1>2, <1>3, <3>1
  <2>2. c = name => y \in Of(r, name)
    <3>1. <<c, y>>[1] = c /\ <<c, y>>[2] = y
      OBVIOUS
    <3> QED
      BY <1>2, <1>3, <3>1
  <2>3. ASSUME name = "id", NEW i \in ids PROVE i \in Of(r, name)
    <3>1. <<"id", i>>[1] = "id" /\ <<"id", i>>[2] = i
      OBVIOUS
    <3> QED
      BY <1>2, <1>3, <2>3, <3>1
  <2> QED
    BY <2>1, <2>2, <2>3
<1> HIDE DEF r
<1> QED
  <2> SUFFICES Of(r, name) = (IF a = name THEN {x} ELSE {}) \cup (IF c = name THEN {y} ELSE {})
                               \cup (IF name = "id" THEN ids ELSE {})
    BY DEF r
  <2> QED
    BY <1>1, <1>4

\* A name that only the first member has.
LEMMA FirstValue ==
  ASSUME NEW a, NEW x, NEW c, NEW y, NEW ids, NEW name, a # c, a # "id", c # "id",
         name = a
  PROVE  Of(Object(a, x, c, y, ids), name) = {x}
<1> DEFINE of == Of(Object(a, x, c, y, ids), name)
<1>1. of = (IF a = name THEN {x} ELSE {}) \cup (IF c = name THEN {y} ELSE {})
             \cup (IF name = "id" THEN ids ELSE {})
  BY ValuesOfName
<1> HIDE DEF of
<1>2. of = {x}
  BY <1>1
<1> QED
  BY <1>2 DEF of

\* A name that only the second member has.
LEMMA SecondValue ==
  ASSUME NEW a, NEW x, NEW c, NEW y, NEW ids, NEW name, a # c, a # "id", c # "id",
         name = c
  PROVE  Of(Object(a, x, c, y, ids), name) = {y}
<1> DEFINE of == Of(Object(a, x, c, y, ids), name)
<1>1. of = (IF a = name THEN {x} ELSE {}) \cup (IF c = name THEN {y} ELSE {})
             \cup (IF name = "id" THEN ids ELSE {})
  BY ValuesOfName
<1> HIDE DEF of
<1>2. of = {y}
  BY <1>1
<1> QED
  BY <1>2 DEF of

\* The name of the id.
LEMMA IdValue ==
  ASSUME NEW a, NEW x, NEW c, NEW y, NEW ids, NEW name, a # c, a # "id", c # "id",
         name = "id"
  PROVE  Of(Object(a, x, c, y, ids), name) = ids
<1> DEFINE of == Of(Object(a, x, c, y, ids), name)
<1>1. of = (IF a = name THEN {x} ELSE {}) \cup (IF c = name THEN {y} ELSE {})
             \cup (IF name = "id" THEN ids ELSE {})
  BY ValuesOfName
<1> HIDE DEF of
<1>2. of = ids
  BY <1>1
<1> QED
  BY <1>2 DEF of

\* A name that no member has.
LEMMA NoValue ==
  ASSUME NEW a, NEW x, NEW c, NEW y, NEW ids, NEW name, a # c, a # "id", c # "id",
         name # a, name # c, name # "id"
  PROVE  Of(Object(a, x, c, y, ids), name) = {}
<1> DEFINE of == Of(Object(a, x, c, y, ids), name)
<1>1. of = (IF a = name THEN {x} ELSE {}) \cup (IF c = name THEN {y} ELSE {})
             \cup (IF name = "id" THEN ids ELSE {})
  BY ValuesOfName
<1> HIDE DEF of
<1>2. of = {}
  BY <1>1
<1> QED
  BY <1>2 DEF of

\* The reply to an accepted transaction: what a client looks for in it.
LEMMA OkHolds ==
  ASSUME NEW b \in Body
  PROVE  LET r == make_ok_json(ParsedId(b))
         IN  /\ Of(r, "id") = ReplyId(b)
             /\ Of(r, "error") = {}
             /\ Of(r, "params") = IF strict THEN {} ELSE {"hash"}
             /\ Of(r, "result") = IF strict THEN {"status_params"} ELSE {"ok"}
<1>1. CASE strict
  <2>1. make_ok_json(ParsedId(b)) = Object("jsonrpc", "2.0", "result", "status_params", ReplyId(b))
    BY <1>1, IdMemberHolds DEF make_ok_json, Object
  <2>2. ASSUME NEW ids
      PROVE  Of(Object("jsonrpc", "2.0", "result", "status_params", ids), "id") = ids
    BY IdValue, SMT
  <2>3. ASSUME NEW ids
      PROVE  Of(Object("jsonrpc", "2.0", "result", "status_params", ids), "error") = {}
    BY NoValue, Zenon
  <2>4. ASSUME NEW ids
      PROVE  Of(Object("jsonrpc", "2.0", "result", "status_params", ids), "params") = {}
    BY NoValue, Zenon
  <2>5. ASSUME NEW ids
      PROVE  Of(Object("jsonrpc", "2.0", "result", "status_params", ids), "result") = {"status_params"}
    BY SecondValue, SMT
  <2> QED
    BY <1>1, <2>1, <2>2, <2>3, <2>4, <2>5
<1>2. CASE ~strict
  <2>1. make_ok_json(ParsedId(b)) = Object("result", "ok", "params", "hash", ReplyId(b))
    BY <1>2, IdMemberHolds DEF make_ok_json, Object
  <2>2. ASSUME NEW ids PROVE Of(Object("result", "ok", "params", "hash", ids), "id") = ids
    BY IdValue, SMT
  <2>3. ASSUME NEW ids PROVE Of(Object("result", "ok", "params", "hash", ids), "error") = {}
    BY NoValue, Zenon
  <2>4. ASSUME NEW ids PROVE Of(Object("result", "ok", "params", "hash", ids), "params") = {"hash"}
    BY SecondValue, SMT
  <2>5. ASSUME NEW ids PROVE Of(Object("result", "ok", "params", "hash", ids), "result") = {"ok"}
    BY FirstValue, SMT
  <2> QED
    BY <1>2, <2>1, <2>2, <2>3, <2>4, <2>5
<1> QED
  BY <1>1, <1>2

\* The reply to getinfo, with its null error in the shipped build.
LEMMA GetInfoHolds ==
  ASSUME NEW b \in Body
  PROVE  LET r == make_getinfo_json(ParsedId(b))
         IN  /\ Of(r, "id") = ReplyId(b)
             /\ Of(r, "error") = IF strict THEN {} ELSE {"null"}
             /\ Of(r, "params") = {}
             /\ Of(r, "result") = {"version_mh_addr"}
<1>1. CASE strict
  <2>1. make_getinfo_json(ParsedId(b))
      = Object("jsonrpc", "2.0", "result", "version_mh_addr", ReplyId(b))
    BY <1>1, IdMemberHolds DEF make_getinfo_json, Object
  <2>2. ASSUME NEW ids
      PROVE  Of(Object("jsonrpc", "2.0", "result", "version_mh_addr", ids), "id") = ids
    BY IdValue, SMT
  <2>3. ASSUME NEW ids
      PROVE  Of(Object("jsonrpc", "2.0", "result", "version_mh_addr", ids), "error") = {}
    BY NoValue, Zenon
  <2>4. ASSUME NEW ids
      PROVE  Of(Object("jsonrpc", "2.0", "result", "version_mh_addr", ids), "params") = {}
    BY NoValue, Zenon
  <2>5. ASSUME NEW ids
      PROVE  Of(Object("jsonrpc", "2.0", "result", "version_mh_addr", ids), "result") = {"version_mh_addr"}
    BY SecondValue, SMT
  <2> QED
    BY <1>1, <2>1, <2>2, <2>3, <2>4, <2>5
<1>2. CASE ~strict
  <2>1. make_getinfo_json(ParsedId(b))
      = Object("result", "version_mh_addr", "error", "null", ReplyId(b))
    BY <1>2, IdMemberHolds DEF make_getinfo_json, Object
  <2>2. ASSUME NEW ids
      PROVE  Of(Object("result", "version_mh_addr", "error", "null", ids), "id") = ids
    BY IdValue, SMT
  <2>3. ASSUME NEW ids
      PROVE  Of(Object("result", "version_mh_addr", "error", "null", ids), "error") = {"null"}
    BY SecondValue, SMT
  <2>4. ASSUME NEW ids
      PROVE  Of(Object("result", "version_mh_addr", "error", "null", ids), "params") = {}
    BY NoValue, Zenon
  <2>5. ASSUME NEW ids
      PROVE  Of(Object("result", "version_mh_addr", "error", "null", ids), "result") = {"version_mh_addr"}
    BY FirstValue, SMT
  <2> QED
    BY <1>2, <2>1, <2>2, <2>3, <2>4, <2>5
<1> QED
  BY <1>1, <1>2

\* The reply to an error, which says "ok" too in the shipped build.
LEMMA ErrorHolds ==
  ASSUME NEW b \in Body, NEW code
  PROVE  LET r == make_error_json(code, ParsedId(b))
         IN  /\ Of(r, "id") = ReplyId(b)
             /\ Of(r, "error") = {get_error_message[code]}
             /\ Of(r, "params") = {}
             /\ Of(r, "result") = IF strict THEN {} ELSE {"ok"}
<1>1. CASE strict
  <2>1. make_error_json(code, ParsedId(b))
      = Object("jsonrpc", "2.0", "error", get_error_message[code], ReplyId(b))
    BY <1>1, IdMemberHolds DEF make_error_json, Object
  <2>2. ASSUME NEW ids
      PROVE  Of(Object("jsonrpc", "2.0", "error", get_error_message[code], ids), "id") = ids
    BY IdValue, SMT
  <2>3. ASSUME NEW ids
      PROVE  Of(Object("jsonrpc", "2.0", "error", get_error_message[code], ids), "error")
               = {get_error_message[code]}
    BY SecondValue, SMT
  <2>4. ASSUME NEW ids
      PROVE  Of(Object("jsonrpc", "2.0", "error", get_error_message[code], ids), "params") = {}
    BY NoValue, Zenon
  <2>5. ASSUME NEW ids
      PROVE  Of(Object("jsonrpc", "2.0", "error", get_error_message[code], ids), "result") = {}
    BY NoValue, Zenon
  <2> QED
    BY <1>1, <2>1, <2>2, <2>3, <2>4, <2>5
<1>2. CASE ~strict
  <2>1. make_error_json(code, ParsedId(b))
      = Object("result", "ok", "error", get_error_message[code], ReplyId(b))
    BY <1>2, IdMemberHolds DEF make_error_json, Object
  <2>2. ASSUME NEW ids
      PROVE  Of(Object("result", "ok", "error", get_error_message[code], ids), "id") = ids
    BY IdValue, SMT
  <2>3. ASSUME NEW ids
      PROVE  Of(Object("result", "ok", "error", get_error_message[code], ids), "error")
               = {get_error_message[code]}
    BY SecondValue, SMT
  <2>4. ASSUME NEW ids
      PROVE  Of(Object("result", "ok", "error", get_error_message[code], ids), "params") = {}
    BY NoValue, Zenon
  <2>5. ASSUME NEW ids
      PROVE  Of(Object("result", "ok", "error", get_error_message[code], ids), "result") = {"ok"}
    BY FirstValue, SMT
  <2> QED
    BY <1>2, <2>1, <2>2, <2>3, <2>4, <2>5
<1> QED
  BY <1>1, <1>2

\* What a client looks for in the JSON for a body.
LEMMA SaidHolds ==
  ASSUME NEW b \in Body, strict \in BOOLEAN
  PROVE  LET r == Said(b)
         IN  /\ Of(r, "id") = ReplyId(b)
             /\ r # NoMember
             /\ r = make_ok_json(ParsedId(b)) <=> Valid(b)
             /\ "no required params or bad type" \in Of(r, "error") <=> Judge(b) = "NoRequiredParams"
             /\ ~strict =>
                  /\ Of(r, "params") = IF Valid(b) THEN {"hash"} ELSE {}
                  /\ Of(r, "error") \ {"null"} # {} <=> Judge(b) \notin {"Ok", "GetInfo"}
<1> DEFINE code == Judge(b)
<1>0. ASSUME NEW name, Of(Said(b), name) # {} PROVE Said(b) # NoMember
  BY <1>0 DEF Of, NoMember
<1>1. code \in Verdicts /\ (code = "Ok" <=> Valid(b)) /\ strict \in BOOLEAN
  BY VerdictIsRight
<1>2. CASE code = "Ok"
  <2>1. Said(b) = make_ok_json(ParsedId(b)) /\ Of(Said(b), "result") # {}
    BY <1>1, <1>2, SaidByVerdict, OkHolds
  <2> QED
    BY <1>0, <1>1, <1>2, <2>1, OkHolds
<1>3. CASE code = "GetInfo"
  <2>1. Said(b) = make_getinfo_json(ParsedId(b))
    BY <1>3, SaidByVerdict
  <2>2. Of(make_ok_json(ParsedId(b)), "result") # Of(Said(b), "result")
    BY <2>1, OkHolds, GetInfoHolds, <1>1
  <2>3. /\ Of(Said(b), "id") = ReplyId(b) /\ Of(Said(b), "params") = {}
        /\ Of(Said(b), "error") \in {{}, {"null"}} /\ Of(Said(b), "result") # {}
    BY <2>1, GetInfoHolds
  <2> QED
    BY <1>0, <1>1, <1>3, <2>2, <2>3
<1>4. CASE code \notin {"Ok", "GetInfo"}
  <2>1. Said(b) = make_error_json(IF code = "VerificationFailed" THEN "InvalidTransaction" ELSE code,
                                   ParsedId(b))
    BY <1>4, SaidByVerdict
  <2>2. /\ Of(Said(b), "id") = ReplyId(b)
        /\ Of(Said(b), "error") = {ErrorText(code)}
        /\ Of(Said(b), "params") = {}
    BY <2>1, ErrorHolds DEF ErrorText
  <2>3. /\ ErrorText(code) # "null"
        /\ ErrorText(code) = "no required params or bad type" <=> code = "NoRequiredParams"
    BY <1>1, <1>4, TextsDiffer
  <2>4. Said(b) # make_ok_json(ParsedId(b))
    BY <2>2, OkHolds
  <2> QED
    BY <1>0, <1>1, <1>4, <2>2, <2>3, <2>4
<1> QED
  BY <1>2, <1>3, <1>4

-----------------------------------------------------------------------------
(* The invariant                                                           *)

\* What is posted is a body, and what the client reads is either a refusal or the reply
\* to that body.
Answered == /\ strict \in BOOLEAN
            /\ phase \in {"idle", "posted", "replied"}
            /\ body \in Body
            /\ phase = "replied" => reply \in {TooManyRequests, Looked(body)}

\* What is said of a body depends on the build and on nothing else of the state.
LEMMA SaidIsOfBuild ==
  ASSUME strict' = strict, NEW b
  PROVE  Looked(b)' = Looked(b) /\ TooManyRequests' = TooManyRequests
<1>1. RequestCode(b)' = RequestCode(b)
  BY DEF RequestCode
<1>2. Judge(b)' = Judge(b)
  BY <1>1 DEF Judge
<1>3. \A id : IdMember(id)' = IdMember(id)
  BY DEF IdMember
<1>4. /\ \A code, id : make_error_json(code, id)' = make_error_json(code, id)
      /\ \A id : make_ok_json(id)' = make_ok_json(id) /\ make_getinfo_json(id)' = make_getinfo_json(id)
  BY <1>3 DEF make_error_json, make_ok_json, make_getinfo_json
<1>5. Said(b)' = Said(b)
  BY <1>2, <1>4 DEF Said, ErrorReply
<1> QED
  BY <1>5 DEF Looked, TooManyRequests

\* No step leaves a client with a reply to another body.
LEMMA AnsweredIsInvariant == Spec => []Answered
<1>1. NoBody \in Body
  BY DEF NoBody, Body, Text, TxVerdicts
<1>2. Init => Answered
  BY <1>1 DEF Init, Answered
<1>3. Answered /\ [Next]_vars => Answered'
  <2> SUFFICES ASSUME Answered, [Next]_vars PROVE Answered'
    OBVIOUS
  <2>1. CASE Post
    BY <2>1, DialogueAssumption DEF Answered, Post
  <2>2. CASE Respond
    <3>1. PICK b \in Body : b = body
      BY DEF Answered
    <3>2. reply' \in {TooManyRequests, Looked(b)} /\ body' = b /\ strict' = strict /\ phase' = "replied"
      BY <2>2, <3>1 DEF Respond, Reply
    <3>3. Looked(b)' = Looked(b) /\ TooManyRequests' = TooManyRequests
      BY <3>2, SaidIsOfBuild
    <3> QED
      BY <3>2, <3>3 DEF Answered
  <2>3. CASE ReadReply
    BY <2>3, <1>1 DEF Answered, ReadReply
  <2>4. CASE OthersAccept \/ Settle \/ UNCHANGED vars
    <3>1. PICK b \in Body : b = body
      BY DEF Answered
    <3>2. UNCHANGED <<strict, phase, body, reply>>
      BY <2>4 DEF OthersAccept, Settle, vars
    <3>3. Looked(b)' = Looked(b) /\ TooManyRequests' = TooManyRequests /\ body' = b
      BY <3>1, <3>2, SaidIsOfBuild
    <3> QED
      BY <3>1, <3>2, <3>3 DEF Answered
  <2> QED
    BY <2>1, <2>2, <2>3, <2>4 DEF Next
<1> QED
  BY <1>2, <1>3, PTL DEF Spec

\* A reply is a refusal, which says nothing, or says of the posted body what Said does.
LEMMA ReplyHolds ==
  ASSUME Answered, phase = "replied"
  PROVE  /\ body \in Body /\ strict \in BOOLEAN
         /\ \/ /\ Refused /\ reply.close /\ reply.data = NoMember
               /\ \A name : ValuesOf(name) = {}
            \/ /\ ~Refused /\ ~reply.close /\ reply.data = Said(body)
               /\ \A name : ValuesOf(name) = Of(Said(body), name)
<1>1. CASE reply = TooManyRequests
  <2>1. Refused /\ reply.close = TRUE /\ reply.data = NoMember
    BY <1>1 DEF TooManyRequests, Refused
  <2>2. \A name : ValuesOf(name) = {}
    BY <2>1 DEF ValuesOf, NoMember
  <2> QED
    BY <2>1, <2>2 DEF Answered
<1>2. CASE reply = Looked(body)
  <2>1. ~Refused /\ reply.close = FALSE /\ reply.data = Said(body)
    BY <1>2 DEF Looked, Refused
  <2>2. \A name : ValuesOf(name) = Of(Said(body), name)
    BY <2>1 DEF ValuesOf, Of
  <2> QED
    BY <2>1, <2>2 DEF Answered
<1> QED
  BY <1>1, <1>2 DEF Answered

\* In either build, for any bodies and any limit, every reply to a body that is looked at has
\* the id of the request it answers, once, and no other: each path of process_error_code
\* hands make_*_json the right request.  A refusal for the backlog has none.
THEOREM IdIsEchoed == Spec => []EchoesId
<1>1. Answered => EchoesId
  BY ReplyHolds, SaidHolds DEF EchoesId, ReplyId
<1> QED
  BY <1>1, AnsweredIsInvariant, PTL

\* In either build, for any bodies and any limit, make_ok_json answers exactly the valid
\* bodies that are not refused for the backlog: the early returns of parse, verify and the
\* request callback leave no other gap between them.
THEOREM SuccessIsDeserved == Spec => []SuccessIffValid
<1>1. \A id : make_ok_json(id) # NoMember
  BY DEF make_ok_json, NoMember
<1>2. Answered => SuccessIffValid
  BY <1>1, ReplyHolds, SaidHolds DEF SuccessIffValid
<1> QED
  BY <1>2, AnsweredIsInvariant, PTL

\* For any bodies and any limit, a client of the shipped build tells refusal, success, error
\* and getinfo apart by the HTTP code and the members "params" and "error", and in either
\* build learns whether it left a parameter out.
THEOREM RepliesAreTelling == Spec => []RepliesTell
<1>1. Answered => MissingIffBlank
  BY ReplyHolds, SaidHolds, VerdictIsRight DEF MissingIffBlank
<1>2. Answered => ClientCanTell
  BY ReplyHolds, SaidHolds, VerdictIsRight DEF ClientCanTell
<1> QED
  BY <1>1, <1>2, AnsweredIsInvariant, PTL DEF RepliesTell

=============================================================================
