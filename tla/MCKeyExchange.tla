--------------------------- MODULE MCKeyExchange ----------------------------
(* Instance of KeyExchange for TLC.                                          *)
EXTENDS KeyExchange

MCAdoptedKms == {Km(1, NoKey)}
MCPeerKms == {}
=============================================================================
