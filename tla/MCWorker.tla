------------------------------ MODULE MCWorker ------------------------------
(***************************************************************************)
(* Worker on small instances: a handful of requests with one body for each *)
(* path through the request callback that treats the counters differently. *)
(***************************************************************************)
EXTENDS WorkerProperties, TLC

AllHex == [p \in Params |-> "hex"]

Send == [form |-> "document", id |-> "number", version |-> "2.0", method |-> "mhc_send",
         object |-> TRUE, params |-> AllHex, tx |-> "good"]

MCSendOnly == {Send}

MCGoodOrBad == {Send, [Send EXCEPT !.tx = "badsign"]}

MCBodies == {Send,
             [Send EXCEPT !.method = "mhc_test_send"],
             [Send EXCEPT !.tx = "badsign"],
             [Send EXCEPT !.form = "empty"]}

MCAllVerdicts == MCBodies \cup
            {[Send EXCEPT !.params["to"] = ""],
             [Send EXCEPT !.tx = "unloadable"],
             [Send EXCEPT !.method = "getinfo"]}

Symmetric == Permutations(Requests)

=============================================================================
