--------------------------- MODULE MCTunnelServer ---------------------------
(* TunnelServer with its clients interchangeable, for TLC's safety runs. *)
EXTENDS TunnelServer, TLC

Symmetry == Permutations(Clients)
=============================================================================
