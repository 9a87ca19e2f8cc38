----------------------------- MODULE MCMapping ------------------------------
(* MappingServer for TLC: the primes the two programs draw.                 *)
EXTENDS MappingServer

MCServerDraws == {<<17, 23>>, <<29, 31>>}
MCPeerDraws == {<<3, 5>>, <<2, 5>>}
=============================================================================
