--------------------------- MODULE MCEPollPoller ----------------------------
(***************************************************************************)
(* EPollPoller with three channels over two descriptors, so that at least    *)
(* two channels share a descriptor, one after the other, and one Connector.  *)
(***************************************************************************)
EXTENDS EPollPoller, TLC

Symmetry == Permutations(Channels) \cup Permutations(Fds)

=============================================================================
