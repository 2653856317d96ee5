------------------------- MODULE MCHypercallChannel -------------------------
(* Small instances of HypercallChannel for TLC.                            *)
EXTENDS HypercallChannel

(* Two requests whose answers overlap in one value, and an unknown code,   *)
(* which handle_hypercall answers with u64::MAX.                           *)
SomeAnswers == [q \in {"write", "open", "unknown"} |->
                  CASE q = "write"   -> {"done", "count"}
                    [] q = "open"    -> {"done", "fd"}
                    [] q = "unknown" -> {"max"}]
=============================================================================
