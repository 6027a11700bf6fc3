---------------------------- MODULE MCConnection ----------------------------
(* Small sets for the connection model.                                    *)
EXTENDS Connection, TLC

Symmetric == Permutations(Cams) \cup Permutations(Paths) \cup Permutations(Objs)
             \cup Permutations(Handles)
=============================================================================
