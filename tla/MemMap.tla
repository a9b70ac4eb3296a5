------------------------------- MODULE MemMap -------------------------------
(***************************************************************************)
(* What the memory mapper promises the decoders: the registered accessors  *)
(* never share an address in a memory space, and a read is served by the   *)
(* most specific accessor that is registered for the address.  Nothing is  *)
(* said of the order of registration or of what was read before.           *)
(***************************************************************************)
EXTENDS Integers, FiniteSets

CONSTANTS
  MaxAddr,     \* the largest VAddr
  CountMod,    \* one more than the largest byte count (uint32)
  Accessors,   \* the accessors that may be registered
  Spaces,      \* the memory spaces that may be asked for, sets of space bits
  Requests     \* the byte counts that may be asked for

VARIABLES mapped, reply

Addrs == 0..MaxAddr

\* An accessor may serve a request for address a in the spaces q.
Covers(acc, a, q) == a \in acc.start..acc.end /\ acc.space \cap q # {}

Overlaps(acc, other) ==
  /\ acc.start <= other.end /\ acc.end >= other.start
  /\ acc.space \cap other.space # {}

RangeValid(acc) == acc.start < acc.end /\ acc.start % 2 = 0 /\ (acc.end + 1) % 2 = 0

memSpaceSpecificity(acc) == Cardinality(acc.space)

\* Mutant: the end of the range is taken for exclusive.
ReadCountsShort(acc, a, req) == {IF acc.end - a < req THEN acc.end - a ELSE req}

\* The byte counts ReadBytes of an accessor may return: a buffer has all the
\* bytes of its range, the source behind a reader may be shorter, and a
\* callback may return anything.
ReadCounts(acc, a, req) ==
  LET avail == ((acc.end - a) + 1) % CountMod
      most  == IF avail < req THEN avail ELSE req
  IN  CASE acc.kind = "buffer"   -> {most}
        [] acc.kind = "reader"   -> 0..most
        [] acc.kind = "callback" -> 0..(req + 1)

\* A reply repeats what was asked, so that a step of the map is the step for
\* that very request.
NoReply == [op |-> "none", acc |-> {}, addr |-> 0, space |-> {}, req |-> 0, n |-> 0,
            err |-> "none"]
Added(acc, e) == [NoReply EXCEPT !.op = "add", !.acc = {acc}, !.err = e]

\* The answer to a read that acc serves with n bytes, or that nobody serves.
Served(acc, a, q, req, n) ==
  [op |-> "read", acc |-> {acc}, addr |-> a, space |-> q, req |-> req, n |-> n,
   err |-> IF n > req THEN "badLen" ELSE "none"]
Missing(a, q, req) ==
  [op |-> "read", acc |-> {}, addr |-> a, space |-> q, req |-> req, n |-> 0,
   err |-> "noAccessor"]

MostSpecific(a, q) ==
  {acc \in mapped : /\ Covers(acc, a, q)
                    /\ \A other \in mapped : Covers(other, a, q)
                         => memSpaceSpecificity(acc) <= memSpaceSpecificity(other)}

----------------------------------------------------------------------------
Init == mapped = {} /\ reply = NoReply

Add(acc) ==
  \/ /\ RangeValid(acc) /\ \A other \in mapped : ~Overlaps(acc, other)
     /\ mapped' = mapped \cup {acc} /\ reply' = Added(acc, "none")
  \/ /\ ~RangeValid(acc)
     /\ reply' = Added(acc, "range") /\ UNCHANGED mapped
  \/ /\ RangeValid(acc) /\ \E other \in mapped : Overlaps(acc, other)
     /\ reply' = Added(acc, "overlap") /\ UNCHANGED mapped

Read(a, q, req) ==
  /\ UNCHANGED mapped
  /\ \/ MostSpecific(a, q) = {} /\ reply' = Missing(a, q, req)
     \/ \E acc \in MostSpecific(a, q) : \E n \in ReadCounts(acc, a, req) :
          reply' = Served(acc, a, q, req, n)

RemoveAll == mapped' = {} /\ reply' = NoReply

Next ==
  \/ \E acc \in Accessors : Add(acc)
  \/ \E a \in Addrs, q \in Spaces, req \in Requests : Read(a, q, req)
  \/ RemoveAll

Spec == Init /\ [][Next]_<<mapped, reply>>
=============================================================================
