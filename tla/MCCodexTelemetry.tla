------------------------- MODULE MCCodexTelemetry -------------------------
(***************************************************************************)
(* Small instances of CodexTelemetry.                                      *)
(***************************************************************************)
EXTENDS CodexTelemetry

CONSTANTS h1, h2, h3

MCHook == {h1, h2, h3}

(* "total" stands for the counters that must be there, "cached" for the    *)
(* optional ones.  A line without counters is a rejected one.              *)
MCCounter == {"total", "cached"}
MCMandatory == {"total"}
Both(t, c) == [total |-> t, cached |-> c]
Total(t) == Both(t, Absent)

(* A reset, a repeated and a rejected line, a counter that comes late, and *)
(* one that goes and comes back.                                           *)
MCScript ==
    {<<Total(3), Total(1), Total(1)>>, <<Total(1), None, Total(2)>>,
     <<Total(1), Both(2, 1), Both(3, 2)>>, <<Both(1, 1), Total(2), Both(3, 2)>>}

(* Two hooks update the session and one ends it, in any order. *)
MCWork == {[h \in MCHook |-> IF h = h3 THEN "remove" ELSE "update"]}
=============================================================================
