---------------------------- MODULE MCInbound ----------------------------
(* Small instances of Inbound, and with it of ElasticBuffer, for TLC; and of Pools. *)
EXTENDS Inbound, Pools

CONSTANTS nil, junk

MCKinds == {"Buffer", "RingBuffer", "unix", "windows"}
==========================================================================
