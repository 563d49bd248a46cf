--------------------------- MODULE MCCounterFlow ---------------------------
(***************************************************************************)
(* CounterFlow with a handful of requests: refused, erroneous, successful. *)
(***************************************************************************)
EXTENDS CounterFlow

MCKinds == {{"total"}, {"total", "trash"}, {"total", "success"}}

=============================================================================
