---------------------------- MODULE MCByteReader ----------------------------
(***************************************************************************)
(* ByteReader with an array of two or three bytes; the slice is first made *)
(* with twice that, so a scratch of seven bytes outgrows it as well.       *)
(***************************************************************************)
EXTENDS ByteReader

MCBlocks == {<<1>>, <<1, 2>>, <<2, 1, 1>>}
============================================================================
