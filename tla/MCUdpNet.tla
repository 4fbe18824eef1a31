------------------------------ MODULE MCUdpNet ------------------------------
(* UdpNet with interchangeable client sockets, links and items.            *)
EXTENDS UdpNet, TLC

Symmetry == Permutations(Sockets \ {ServerSocket}) \cup Permutations(Links)
            \cup Permutations(Items)
=============================================================================
