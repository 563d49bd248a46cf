------------------------------- MODULE Intake -------------------------------
(***************************************************************************)
(* How the peer judges the body of one POST: JsonRequest::parse, then      *)
(* JsonTransaction::parse, then TX::load_hex and verify, in the order in   *)
(* which the request callback of Proxy::worker calls them; and the counter *)
(* process_error_code charges the verdict to.                              *)
(*                                                                         *)
(* A body is abstracted to what these functions can tell apart.  Text of a *)
(* parameter is one of four classes, told apart by remove_hex_prefix and   *)
(* by the test for emptiness; the members of a document that is not a JSON *)
(* object are all absent.                                                  *)
(***************************************************************************)

CONSTANT PROXY_STRICT_JSONAPI   \* version.h: a compile-time switch, FALSE as shipped

ASSUME StrictAssumption == PROXY_STRICT_JSONAPI \in BOOLEAN

-----------------------------------------------------------------------------
(* Bodies                                                                  *)

Params    == {"to", "value", "fee", "nonce", "data", "pubkey", "sign"}
HexParams == {"to", "data", "pubkey", "sign"}   \* stripped of their 0x prefix
Required  == {"to", "value", "nonce", "pubkey", "sign"}

\* "" is an absent, non-string or empty member, "0x" the bare prefix, "0xhex" a
\* prefix with text after it, "hex" any other text.
Text == {"", "0x", "0xhex", "hex"}

\* What TX::load_hex and verify, both of libsniper, make of the parameters.
TxVerdicts == {"unloadable", "badsign", "good"}

Body == [form    : {"empty", "malformed", "document"},
         id      : {"absent", "number", "string", "other"},
         version : {"2.0", "other"},
         method  : {"mhc_send", "mhc_test_send", "getinfo", "other"},
         object  : BOOLEAN,               \* is "params" a JSON object?
         params  : [Params -> Text],
         tx      : TxVerdicts]

-----------------------------------------------------------------------------
(* Parsing                                                                 *)

is_transaction(body)     == body.method \in {"mhc_send", "mhc_test_send"}
is_test_ransaction(body) == body.method = "mhc_test_send"

\* Slip: the version is not looked at.
RequestCode_AnyVersion(body) ==
  CASE body.form = "empty"       -> "EmptyPostData"
    [] body.form = "malformed"   -> "JsonParseError"
    [] is_transaction(body)      -> "Ok"
    [] body.method = "getinfo"   -> "GetInfo"
    [] OTHER                     -> "UnsupportedMethod"

\* The error code of JsonRequest::parse.
RequestCode(body) ==
  IF body.form = "empty"                                    THEN "EmptyPostData"
  ELSE IF body.form = "malformed"                           THEN "JsonParseError"
  ELSE IF PROXY_STRICT_JSONAPI /\ body.version # "2.0"      THEN "UnsupportedVersion"
  ELSE IF is_transaction(body)                              THEN "Ok"
  ELSE IF body.method = "getinfo"                           THEN "GetInfo"
  ELSE "UnsupportedMethod"

\* The id a JsonRequest holds after parse; "none" where it holds no value.
ParsedId(body) ==
  IF body.form = "document" /\ body.id \in {"number", "string"} THEN body.id ELSE "none"

\* Slip: the test for the prefix without the test for text after it.
remove_hex_prefix_Greedy(text) ==
  CASE text = "0xhex" -> "hex" [] text = "0x" -> "" [] OTHER -> text

\* The prefix goes only when text follows it (str.size() > 2).
remove_hex_prefix(text) == IF text = "0xhex" THEN "hex" ELSE text

\* The seven members of a JsonTransaction after parse.
Stripped(params) ==
  [p \in Params |-> IF p \in HexParams THEN remove_hex_prefix(params[p]) ELSE params[p]]

\* The error code of JsonTransaction::parse.
TransactionCode(body) ==
  IF ~body.object                                           THEN "UnsupportedParamsType"
  ELSE IF \E p \in Required : Stripped(body.params)[p] = "" THEN "NoRequiredParams"
  ELSE "Ok"

\* Slip: the result of verify ignored.
VerifyCode_Trusting(body) == IF body.tx = "unloadable" THEN "InvalidTransaction" ELSE "Ok"

\* The error code of load_hex and verify.
VerifyCode(body) ==
  IF body.tx = "unloadable"   THEN "InvalidTransaction"
  ELSE IF body.tx = "badsign" THEN "VerificationFailed"
  ELSE "Ok"

\* The first code other than Ok, in the order of the request callback.
Judge(body) ==
  IF RequestCode(body) # "Ok"          THEN RequestCode(body)
  ELSE IF TransactionCode(body) # "Ok" THEN TransactionCode(body)
  ELSE VerifyCode(body)

-----------------------------------------------------------------------------
(* Counting                                                                *)

\* Slip: a bad signature is charged as the invalid transaction its reply speaks of.
Charge_AsReplied(code) ==
  CASE code \in {"EmptyPostData", "JsonParseError"}           -> "trash"
    [] code \in {"UnsupportedVersion", "GetInfo"}             -> "trash"
    [] code \in {"UnsupportedMethod", "InvalidTransaction"}   -> "inv"
    [] code \in {"UnsupportedParamsType", "NoRequiredParams"} -> "no_req"
    [] code = "VerificationFailed"                            -> "inv"
    [] OTHER                                                  -> "trash"

\* The switch of process_error_code; its default arm is the last line.
Charge(code) ==
  CASE code \in {"EmptyPostData", "JsonParseError"}           -> "trash"
    [] code \in {"UnsupportedVersion", "GetInfo"}             -> "trash"
    [] code \in {"UnsupportedMethod", "InvalidTransaction"}   -> "inv"
    [] code \in {"UnsupportedParamsType", "NoRequiredParams"} -> "no_req"
    [] code = "VerificationFailed"                            -> "inv_sign"
    [] OTHER                                                  -> "trash"

=============================================================================
