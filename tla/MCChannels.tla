----------------------------- MODULE MCChannels -----------------------------
(* Instances of Channels for TLC.                                            *)
EXTENDS Channels, TLC

ListenerSymmetry == Permutations(Sockets \ Publishers)
=============================================================================
