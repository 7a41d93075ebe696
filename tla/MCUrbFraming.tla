---------------------------- MODULE MCUrbFraming ----------------------------
(* Model-checking instances of UrbFraming. *)
EXTENDS UrbFraming

\* Commands whose direction and URB_DIR_IN flag agree.
MCShapes ==
    {s \in [direction : {0, 1}, in : BOOLEAN, length : 0..2] :
        s.in <=> s.direction = 1}
=============================================================================
