---------------------------- MODULE MCHandshake ----------------------------
(***************************************************************************)
(* Instances of Handshake.tla for TLC: peers just below, at and just above *)
(* the proxy's version, and of another major version, and a peer that is   *)
(* no Nix at all.                                                          *)
(***************************************************************************)
EXTENDS Handshake

Versions == { PROTOCOL_VERSION - 1, PROTOCOL_VERSION, PROTOCOL_VERSION + 1, 2 * 256 }

MCClients ==
    [magic : { WORKER_MAGIC_1 }, version : Versions]
        \cup { [magic |-> 7, version |-> PROTOCOL_VERSION] }

MCDaemons ==
    [magic : { WORKER_MAGIC_2 }, version : Versions]
        \cup { [magic |-> 7, version |-> PROTOCOL_VERSION] }
=============================================================================
