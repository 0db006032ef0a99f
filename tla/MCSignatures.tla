---------------------------- MODULE MCSignatures ----------------------------
(***************************************************************************)
(* Model-checking instance of the signatures: one of field elements, long  *)
(* powers, scalars, the tables of the real curve, a signature in the real  *)
(* size, and points and signatures over the small curve runs while the     *)
(* others rest.                                                            *)
(*                                                                         *)
(* Elements and scalars have their real size; the operands are those at    *)
(* the bounds of the code's comments and near the moduli, and two          *)
(* operations follow one another, so that a result is an operand.  The     *)
(* numbers that multiply points on the small curve have digits 7, 8, 9 and *)
(* 15 in a row, for every carry of the signed digits, and those spread     *)
(* over all; those of ge_double_scalarmult_vartime are below 2^13, as      *)
(* sc_reduce and the check in verify.c leave them.                         *)
(***************************************************************************)
EXTENDS Field, BasePoint, SmallCurve

MCBaseScalars ==
    {0, 1, 2, 7, 8, 9, 15, 16, 17, 127, 128, 136, 255, 256, 2184, 4110, 4111, 4112, 16384,
     30583, 32639, 32767} \cup {(k * 1223) % 32768 : k \in 1 .. 200}
MCScalars == {0, 1, 3, 15, 16, 17, 31, 2730, 5461, 8191, 4110, 6143, 4096}
MCEncodings ==
    {0, 1, 2, 15, 32748, 32749, 32750, 32767, 32768, 32769, 65535}
      \cup {(k * 5077) % 65536 : k \in 1 .. 30}

Init ==
    \/ FieldStart /\ PowersIdle /\ ScIdle /\ WalkIdle /\ RealIdle /\ PointsIdle /\ EdIdle
    \/ FieldIdle /\ PowersStart /\ ScIdle /\ WalkIdle /\ RealIdle /\ PointsIdle /\ EdIdle
    \/ FieldIdle /\ PowersIdle /\ ScStart /\ WalkIdle /\ RealIdle /\ PointsIdle /\ EdIdle
    \/ FieldIdle /\ PowersIdle /\ ScIdle /\ WalkStart /\ RealIdle /\ PointsIdle /\ EdIdle
    \/ FieldIdle /\ PowersIdle /\ ScIdle /\ WalkIdle /\ RealStart /\ PointsIdle /\ EdIdle
    \/ FieldIdle /\ PowersIdle /\ ScIdle /\ WalkIdle /\ RealIdle /\ PointsStart /\ EdIdle
    \/ FieldIdle /\ PowersIdle /\ ScIdle /\ WalkIdle /\ RealIdle /\ PointsIdle /\ EdStart

Next ==
    \/ FieldNext /\ UNCHANGED <<powerVars, scVars, walkVars, realVars, pointVars, edVars>>
    \/ PowersNext /\ UNCHANGED <<fieldVars, scVars, walkVars, realVars, pointVars, edVars>>
    \/ ScNext /\ UNCHANGED <<fieldVars, powerVars, walkVars, realVars, pointVars, edVars>>
    \/ WalkNext /\ UNCHANGED <<fieldVars, powerVars, scVars, realVars, pointVars, edVars>>
    \/ RealNext /\ UNCHANGED <<fieldVars, powerVars, scVars, walkVars, pointVars, edVars>>
    \/ PointsNext /\ UNCHANGED <<fieldVars, powerVars, scVars, walkVars, realVars, edVars>>
    \/ EdNext /\ UNCHANGED <<fieldVars, powerVars, scVars, walkVars, realVars, pointVars>>

Spec ==
    Init /\ [][Next]_<<fieldVars, powerVars, scVars, walkVars, realVars, pointVars, edVars>>
=============================================================================
