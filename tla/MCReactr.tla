------------------------------- MODULE MCReactr -------------------------------
(* Two Reactr objects, one job type, one Capabilities object the program  *)
(* builds, and the messages of the bus.                                    *)
EXTENDS Reactr, TLC

CONSTANTS r1, r2, c1, m1, m2

MCReactrs == {r1, r2}
MCOneReactr == {r1}
MCUserCaps == {c1}
MCTypes == {"t"}
MCMsgs1 == {m1}
MCMsgs2 == {m1, m2}
ReactrSymmetry == Permutations(MCReactrs)
=============================================================================
