------------------------------ MODULE MCWasmEnv ------------------------------
(* Model-checking instance of WasmEnv: users and the scaler are model      *)
(* values, the identifier space is a small set of naturals.                *)
EXTENDS WasmEnv, TLC

CONSTANTS u1, u2

MCUsers == {u1, u2}
MCIdents == {0, 1}

(* Users are interchangeable goroutines.                                   *)
UserSymmetry == Permutations(MCUsers)
=============================================================================
