----------------------------- MODULE MCOpenCode ----------------------------
(***************************************************************************)
(* Small instances of OpenCodeTelemetry.  The chains and the set meet only *)
(* in whether the followed session has a mark, so they are explored apart: *)
(* in one part no other session ends and no time passes, in the other the  *)
(* chains have not begun.                                                  *)
(***************************************************************************)
EXTENDS OpenCodeTelemetry, TLC

CONSTANTS p1, p2, s1, s2, s3, s4

OneTokenEach == [n \in 0..MaxStep |-> n]
SecondComesLater == (p1 :> 1) @@ (p2 :> 2)
SeededOrNot == {(p1 :> 1) @@ (p2 :> 2), [p \in Plugin |-> NoCount]}

VARIABLE part

MCInit == Init /\ part \in {"chains", "marks"}
MCNext ==
    /\ \/ part = "chains" /\ SessionNext
       \/ part = "marks" /\ SetNext
    /\ UNCHANGED part
MCSpec == MCInit /\ [][MCNext]_<<vars, part>>

Symmetry == Permutations(Key \ {Followed})
=============================================================================
