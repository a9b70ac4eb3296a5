---------------------------- MODULE MCMemMapper ----------------------------
(***************************************************************************)
(* An instance of the memory mapper for TLC: eight addresses, three memory *)
(* spaces, and accessors that nest, meet, overlap and are malformed.       *)
(***************************************************************************)
EXTENDS MemMapper

Acc(start, end, space, kind) == [start |-> start, end |-> end, space |-> space, kind |-> kind]

MCAccessors ==
  {Acc(0, 3, {"EL1N"}, "buffer"), Acc(2, 5, {"EL1N"}, "buffer"), Acc(4, 7, {"EL1N"}, "reader"),
   Acc(0, 7, {"EL2"}, "buffer"), Acc(2, 3, {"EL2"}, "callback"),
   Acc(0, 7, {"EL1N", "EL2"}, "buffer"), Acc(4, 5, {"EL2", "EL3"}, "reader"),
   Acc(1, 4, {"EL3"}, "buffer"), Acc(2, 2, {"EL3"}, "buffer")}

\* A single space, the two of MemSpaceN, and spaces that are part of none.
MCSpaces == {{"EL1N"}, {"EL2"}, {"EL3"}, {"EL1N", "EL2"}}
=============================================================================
