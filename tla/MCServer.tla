------------------------------ MODULE MCServer ------------------------------
(* Small instances of Server; sockets and addresses are interchangeable. *)
EXTENDS Server, TLC

Symmetry == Permutations(Sock) \cup Permutations(IP)
=============================================================================
