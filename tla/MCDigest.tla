------------------------------ MODULE MCDigest ------------------------------
(* A small instance of Digest for TLC, with a long of twice 32 bits. *)
EXTENDS Digest

MCPieces == {<<>>, <<1>>, <<1, 2>>, <<2, 1, 1, 2, 1, 1, 2, 1, 2>>}
=============================================================================
