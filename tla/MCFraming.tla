----------------------------- MODULE MCFraming -------------------------------
(* Framing for TLC: short byte strings.                                    *)
EXTENDS Framing

MCHandles == {<<72>>, <<72, 49>>}
MCDatas   == {<< >>, <<65>>, <<0>>, <<65, 0, 66>>}
MCNames   == {<< >>, <<70>>}
MCNumbers == {-1, 0, 10}
=============================================================================
