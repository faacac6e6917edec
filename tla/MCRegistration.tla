--------------------------- MODULE MCRegistration ----------------------------
(* Registration for TLC: functions are interchangeable.                    *)
EXTENDS Registration, TLC

FuncSymmetry == Permutations(Funcs)
=============================================================================
