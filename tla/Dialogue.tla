------------------------------ MODULE Dialogue ------------------------------
(***************************************************************************)
(* One client that posts a body and reads the reply of the request         *)
(* callback of Proxy::worker: 429 without a body of its own while the      *)
(* worker's backlog is over its limit, else the JSON that message.cpp      *)
(* builds for the verdict of module Intake.                                *)
(*                                                                         *)
(* A reply is its HTTP code, whether the callback asks for the connection  *)
(* to be closed, and its data.  A JSON object is the set of its members,   *)
(* each a name with a value; nested objects and the transaction hash are   *)
(* single values, and no data at all is the empty set, which no object of  *)
(* message.cpp is.  The client posts again as often as it likes, while     *)
(* other clients and the nodes move the backlog as they do in QueueMetric. *)
(***************************************************************************)
EXTENDS Naturals

CONSTANTS Bodies,               \* the bodies the client may post
          Limit                 \* _thread_queue_size; 0: no limit

VARIABLES strict,    \* PROXY_STRICT_JSONAPI of version.h: which of the two builds this is
          pending,   \* the worker's counters.queue + out_queue.size()
          phase,     \* "idle", "posted" or "replied"
          body,      \* the body last posted
          reply      \* the reply to it, once there is one

vars == <<strict, pending, phase, body, reply>>

INSTANCE Intake WITH PROXY_STRICT_JSONAPI <- strict

ASSUME DialogueAssumption == Bodies \subseteq Body /\ Limit \in Nat

-----------------------------------------------------------------------------
(* message.cpp                                                             *)

get_error_message ==
  [HttpMethodNotSupported |-> "http method not supported",
   EmptyPostData          |-> "empty post data",
   JsonParseError         |-> "json parse error",
   UnsupportedVersion     |-> "unsupported version",
   UnsupportedMethod      |-> "unsupported method",
   UnsupportedParamsType  |-> "unsupported params type",
   NoRequiredParams       |-> "no required params or bad type",
   InvalidTransaction     |-> "Invalid transaction",
   VerificationFailed     |-> "Verification failed"]

NoMember == {}

\* The "id" member that ends every reply.
IdMember(id) ==
  IF id # "none"             THEN {<<"id", id>>}
  ELSE IF strict THEN {<<"id", "null">>}
  ELSE NoMember

make_error_json(code, id) ==
  (IF strict
   THEN {<<"jsonrpc", "2.0">>, <<"error", get_error_message[code]>>}
   ELSE {<<"result", "ok">>, <<"error", get_error_message[code]>>}) \cup IdMember(id)

make_ok_json(id) ==
  (IF strict
   THEN {<<"jsonrpc", "2.0">>, <<"result", "status_params">>}
   ELSE {<<"result", "ok">>, <<"params", "hash">>}) \cup IdMember(id)

\* Slip: the null error of the shipped form filled in as make_error_json does.
make_getinfo_json_Error(id) ==
  {<<"result", "version_mh_addr">>, <<"error", "ok">>} \cup IdMember(id)

make_getinfo_json(id) ==
  (IF strict
   THEN {<<"jsonrpc", "2.0">>, <<"result", "version_mh_addr">>}
   ELSE {<<"result", "version_mh_addr">>, <<"error", "null">>}) \cup IdMember(id)

\* Slip: an error reply that forgets the request it answers.
ErrorReply_Anonymous(code, id) ==
  IF code = "GetInfo" THEN make_getinfo_json(id)
  ELSE make_error_json(IF code = "VerificationFailed" THEN "InvalidTransaction" ELSE code, "none")

\* The reply half of process_error_code.
ErrorReply(code, id) ==
  CASE code \in {"EmptyPostData", "JsonParseError"} -> make_error_json(code, "none")
    [] code = "GetInfo"                             -> make_getinfo_json(id)
    [] code = "VerificationFailed"                  -> make_error_json("InvalidTransaction", id)
    [] code \in {"UnsupportedVersion", "UnsupportedMethod", "UnsupportedParamsType",
                 "NoRequiredParams", "InvalidTransaction"} -> make_error_json(code, id)
    [] OTHER                                        -> make_error_json("JsonParseError", "none")

\* The JSON for a body the callback looks at.
Said(b) ==
  IF Judge(b) = "Ok" THEN make_ok_json(ParsedId(b)) ELSE ErrorReply(Judge(b), ParsedId(b))

-----------------------------------------------------------------------------
(* The request callback                                                    *)

Overloaded == Limit # 0 /\ pending > Limit

\* Nothing is looked at, so nothing can be said of the body.
TooManyRequests == [code |-> "TOO_MANY_REQUESTS", close |-> TRUE, data |-> NoMember]

Looked(b) == [code |-> "OK", close |-> FALSE, data |-> Said(b)]

\* Slip: the code is set but the body is looked at all the same.
Reply_NoBreak(b) ==
  IF Overloaded THEN [TooManyRequests EXCEPT !.data = Said(b)] ELSE Looked(b)

\* What the callback sends for a body.
Reply(b) == IF Overloaded THEN TooManyRequests ELSE Looked(b)

-----------------------------------------------------------------------------
(* Behaviour                                                               *)

\* Between exchanges body and reply hold nothing of interest.
NoBody == [form |-> "empty", id |-> "absent", version |-> "other", method |-> "other",
           object |-> FALSE, params |-> [p \in Params |-> ""], tx |-> "unloadable"]

NoReply == [code |-> "OK", close |-> FALSE, data |-> NoMember]

Init == /\ strict \in BOOLEAN
        /\ pending = 0
        /\ phase = "idle"
        /\ body = NoBody
        /\ reply = NoReply

Post == /\ phase = "idle"
        /\ phase' = "posted"
        /\ body' \in Bodies
        /\ UNCHANGED <<strict, pending, reply>>

\* A transaction that passes is sent on, unless it is a test or send() returns false.
Respond == /\ phase = "posted"
           /\ phase' = "replied"
           /\ reply' = Reply(body)
           /\ \/ UNCHANGED pending
              \/ /\ ~Overloaded /\ Judge(body) = "Ok" /\ ~is_test_ransaction(body)
                 /\ pending' = pending + 1
           /\ UNCHANGED <<strict, body>>

\* The client has read the reply and may post again, on this connection or another.
ReadReply == /\ phase = "replied"
             /\ phase' = "idle"
             /\ body' = NoBody
             /\ reply' = NoReply
             /\ UNCHANGED <<strict, pending>>

\* The same worker accepts a transaction of another client.
OthersAccept == /\ ~Overloaded
                /\ pending' = pending + 1
                /\ UNCHANGED <<strict, phase, body, reply>>

\* A transaction is delivered, or given up.
Settle == /\ pending > 0
          /\ pending' = pending - 1
          /\ UNCHANGED <<strict, phase, body, reply>>

Next == Post \/ Respond \/ ReadReply \/ OthersAccept \/ Settle

Spec == Init /\ [][Next]_vars

-----------------------------------------------------------------------------
(* Properties                                                              *)

\* The values of a member; more than one where the reply has it twice.
ValuesOf(name) == {m[2] : m \in {n \in reply.data : n[1] = name}}

Refused == reply.code = "TOO_MANY_REQUESTS"

HasUsableId(b) == b.form = "document" /\ b.id \in {"number", "string"}

\* Every request the callback looks at gets the id it can be matched by: a usable one
\* comes back whatever the verdict, once, and no reply invents one (the JsonRequest that
\* process_error_code passes, or {}, to make_*_json).  A refusal for the backlog is the
\* one reply without the id of a request that has one.  Without a usable id the strict
\* build says null; the shipped one may say null, as the comments of message.h have it,
\* or nothing, as the code does.
EchoesId ==
  phase = "replied" =>
    IF Refused               THEN ValuesOf("id") = {}
    ELSE IF HasUsableId(body) THEN ValuesOf("id") = {body.id}
    ELSE IF strict            THEN ValuesOf("id") = {"null"}
    ELSE ValuesOf("id") \subseteq {"null"}

\* What a body must be, read off the text as the client posted it.
Valid(b) == /\ b.form = "document"
            /\ strict => b.version = "2.0"
            /\ b.method \in {"mhc_send", "mhc_test_send"}
            /\ b.object
            /\ \A p \in Required : b.params[p] # ""
            /\ b.tx = "good"

\* The peer reports success for exactly the valid bodies it does not refuse for its
\* backlog: no other early return of the request callback turns a good body away, none
\* lets a bad one through, and a refusal never says that the transaction was taken.
SuccessIffValid ==
  phase = "replied" => (reply.data = make_ok_json(ParsedId(body)) <=> ~Refused /\ Valid(body))

\* "no required params" is said of a transaction exactly when a required member
\* is missing from what the client posted: taking the 0x prefix off never makes
\* a parameter that was there count as missing.
MissingIffBlank ==
  phase = "replied" =>
    ("no required params or bad type" \in ValuesOf("error") <=>
       /\ ~Refused
       /\ RequestCode(body) = "Ok"
       /\ body.object
       /\ \E p \in Required : body.params[p] = "")

\* A client of the shipped build can tell the four outcomes apart, although
\* "result":"ok" is in error replies too (make_error_json): a refusal is a 429 that closes
\* the connection and has no data; else "params" is there exactly in replies to valid
\* bodies, and an "error" other than null exactly in replies to bodies that are neither
\* valid nor a getinfo.
ClientCanTell ==
  phase = "replied" /\ ~strict =>
    /\ Refused <=> reply.close
    /\ Refused <=> reply.data = NoMember
    /\ ValuesOf("params") = IF ~Refused /\ Valid(body) THEN {"hash"} ELSE {}
    /\ ValuesOf("error") \ {"null"} # {} <=>
         ~Refused /\ ~Valid(body) /\ RequestCode(body) # "GetInfo"

\* A client can tell from a reply what became of its request, and whether it left a
\* parameter out (the request callback, make_*_json of message.cpp, get_error_message).
RepliesTell == ClientCanTell /\ MissingIffBlank

=============================================================================
