---------------------------- MODULE MCRequestQueue ----------------------------
(***************************************************************************)
(* Small instances of RequestQueue: packets and addresses are model values *)
(* and interchangeable.                                                    *)
(***************************************************************************)
EXTENDS RequestQueue, TLC

Interchangeable == Permutations(Uid) \cup Permutations(Addr)

===============================================================================
