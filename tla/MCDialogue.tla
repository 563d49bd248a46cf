----------------------------- MODULE MCDialogue -----------------------------
(***************************************************************************)
(* Dialogue over every body that differs where the code looks: members the *)
(* code never reaches have one value.  load_hex cannot decode a bare "0x", *)
(* so such a body comes with no other verdict of it.                       *)
(***************************************************************************)
EXTENDS Dialogue

Nothing == [p \in Params |-> ""]

Undecodable(params) == \E p \in HexParams : params[p] = "0x"

MCParams == {params \in [Params -> Text] :
               \A p \in Params \ HexParams : params[p] \in {"", "hex"}}

MCDocuments(methods, objects, paramSet, txs) ==
  [form : {"document"}, id : {"absent", "number", "string", "other"},
   version : {"2.0", "other"}, method : methods, object : objects,
   params : paramSet, tx : txs]

MCBodies ==
  [form : {"empty", "malformed"}, id : {"absent"}, version : {"other"},
   method : {"other"}, object : {FALSE}, params : {Nothing}, tx : {"good"}]
  \cup MCDocuments({"getinfo", "other"}, {FALSE}, {Nothing}, {"good"})
  \cup MCDocuments({"mhc_send", "mhc_test_send"}, {FALSE}, {Nothing}, {"good"})
  \cup MCDocuments({"mhc_send", "mhc_test_send"}, {TRUE},
                   {params \in MCParams : ~Undecodable(params)}, TxVerdicts)
  \cup MCDocuments({"mhc_send", "mhc_test_send"}, {TRUE},
                   {params \in MCParams : Undecodable(params)}, {"unloadable"})

=============================================================================
