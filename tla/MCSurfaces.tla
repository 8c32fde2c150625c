------------------------------ MODULE MCSurfaces ------------------------------
(* Small instances of the nine parts.                                          *)
EXTENDS Surfaces

(* Delay of the two problems: a silent node is reported at once.               *)
MCDelay == [k \in {"node-offline", "service"} |-> IF k = "node-offline" THEN 0 ELSE 1]
TwoRecipients == <<"r1", "r2">>

(* Lines 2 and 3 share a nanosecond, at the end of a page of two.                 *)
MCTime == <<1, 2, 2, 3, 4>>
MCKept == [f \in {"all", "errors"} |-> IF f = "all" THEN 1..5 ELSE {1, 3, 4}]
==============================================================================
