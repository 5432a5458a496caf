----------------------------- MODULE MCNarHash -----------------------------
(***************************************************************************)
(* NarHash.tla over the hashes of up to MaxLen bytes, made of bytes that   *)
(* have a bit at either end, alternating bits, all of them and none.  Five *)
(* bytes are eight characters exactly: a character begins at each of the   *)
(* eight bits of a byte.                                                   *)
(***************************************************************************)
EXTENDS NarHash

CONSTANT MaxLen

SomeBytes == { 0, 1, 128, 171, 255 }

SomeHashes == UNION { [ 1 .. m -> SomeBytes ] : m \in 0 .. MaxLen }
=============================================================================
