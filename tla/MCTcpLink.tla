----------------------------- MODULE MCTcpLink -----------------------------
(* TcpLink on a few handles.  The handles are interchangeable.             *)
EXTENDS TcpLink, TLC

Symmetry == Permutations(Handles)
=============================================================================
