----------------------------- MODULE MemMapper -----------------------------
(***************************************************************************)
(* The memory mapper GlobalMapper (memacc_mapper.go): accessors in the     *)
(* order of their registration, and a cache of the accessor that served    *)
(* the last read.                                                          *)
(***************************************************************************)
EXTENDS Integers, Sequences, FiniteSetsExt

CONSTANTS MaxAddr, CountMod, Accessors, Spaces, Requests

ASSUME MaxAddrAssumption == MaxAddr \in Nat
ASSUME CountAssumption == CountMod \in Nat \ {0} /\ Requests \subseteq 0..(CountMod - 1)
ASSUME AccessorsAssumption ==
  \A acc \in Accessors :
    /\ acc.start \in 0..MaxAddr /\ acc.end \in 0..MaxAddr /\ IsFiniteSet(acc.space)
    /\ acc.kind \in {"buffer", "reader", "callback"}

VARIABLES
  entries,     \* the entries, each with its accessor's range and space
  last,        \* lastAcc and what is remembered of it, if any
  reply        \* what the last call returned

vars == <<entries, last, reply>>

Registered == {entries[n] : n \in DOMAIN entries}

M == INSTANCE MemMap WITH mapped <- Registered

Covers(acc, a, q)   == M!Covers(acc, a, q)
Overlaps(acc, other) == M!Overlaps(acc, other)
Score(n) == M!memSpaceSpecificity(entries[n])

NoAcc == [acc |-> 0, start |-> 0, end |-> 0, space |-> {}]

\* What findAccessor remembers of entry n.
Remember(n) == [acc |-> n, start |-> entries[n].start, end |-> entries[n].end,
                space |-> entries[n].space]

----------------------------------------------------------------------------
Candidates(a, q) == {n \in DOMAIN entries : Covers(entries[n], a, q)}

\* The loop of findAccessor: the first entry whose space is q itself, else
\* the first of the most specific ones; 0 if there is none.
Search(a, q) ==
  LET found == Candidates(a, q)
      exact == {n \in found : entries[n].space = q}
      best  == {n \in found : Score(n) = Min({Score(m) : m \in found})}
  IN  IF found = {} THEN 0 ELSE IF exact # {} THEN Min(exact) ELSE Min(best)

\* Mutant: the space asked for is not compared with the remembered one.
CachedAnySpace(a, q) == last.acc # 0 /\ a \in last.start..last.end

Cached(a, q) == last.acc # 0 /\ last.space = q /\ a \in last.start..last.end

findAccessor(a, q) == IF Cached(a, q) THEN last.acc ELSE Search(a, q)

----------------------------------------------------------------------------
Init == entries = <<>> /\ last = NoAcc /\ reply = M!NoReply

\* Mutant: only accessors of the very same space are compared.
overlapsSameSpace(acc) ==
  \E n \in DOMAIN entries : Overlaps(acc, entries[n]) /\ acc.space = entries[n].space

overlapsExisting(acc) == \E n \in DOMAIN entries : Overlaps(acc, entries[n])

AddAccessor(acc) ==
  \/ /\ M!RangeValid(acc) /\ ~overlapsExisting(acc)
     /\ entries' = Append(entries, acc) /\ last' = NoAcc /\ reply' = M!Added(acc, "none")
  \/ /\ ~M!RangeValid(acc)
     /\ reply' = M!Added(acc, "range") /\ UNCHANGED <<entries, last>>
  \/ /\ M!RangeValid(acc) /\ overlapsExisting(acc)
     /\ reply' = M!Added(acc, "overlap") /\ UNCHANGED <<entries, last>>

\* Read: a hit leaves the cache alone, a search refills or clears it.
Read(a, q, req) ==
  LET n == findAccessor(a, q)
  IN  /\ UNCHANGED entries
      /\ last' = IF Cached(a, q) THEN last ELSE IF n = 0 THEN NoAcc ELSE Remember(n)
      /\ \/ n = 0 /\ reply' = M!Missing(a, q, req)
         \/ /\ n # 0
            /\ \E count \in M!ReadCounts(entries[n], a, req) :
                 reply' = M!Served(entries[n], a, q, req, count)

\* Mutant: the entries go, what was remembered of one stays.
removeEntriesOnly == entries' = <<>> /\ reply' = M!NoReply /\ UNCHANGED last

removeAllAccessors == entries' = <<>> /\ last' = NoAcc /\ reply' = M!NoReply

Next ==
  \/ \E acc \in Accessors : AddAccessor(acc)
  \/ \E a \in 0..MaxAddr, q \in Spaces, req \in Requests : Read(a, q, req)
  \/ removeAllAccessors

Spec == Init /\ [][Next]_vars

----------------------------------------------------------------------------
\* Type invariant of the mapper.
TypeOK ==
  /\ entries \in Seq(Accessors)
  /\ last = NoAcc \/ \E n \in DOMAIN entries : last = Remember(n)
  /\ reply.acc \subseteq Accessors /\ reply.n \in Nat /\ reply.addr \in 0..MaxAddr
  /\ reply.err \in {"none", "range", "overlap", "noAccessor", "badLen"}

\* No two registered accessors share an address in a memory space, so that a
\* request for a single space has at most one possible answer
\* (AddAccessor, overlapsExisting).
Unambiguous ==
  \A m, n \in DOMAIN entries : m # n => ~Overlaps(entries[m], entries[n])

\* What was read before never changes an answer: the cached accessor is the
\* one the search would find, for every address and space
\* (findAccessor, lastAcc).
CacheTransparent ==
  \A a \in 0..MaxAddr, q \in Spaces : findAccessor(a, q) = Search(a, q)

\* The mapper implements the memory map, cache and order of registration
\* included.
ImplementsMap == M!Spec

\* A buffer that holds all the bytes asked for delivers them
\* (memacc_mapper.go:75 "Read attempts to read reqBytes from target memory").
ReadInFull ==
  reply.op = "read"
    => \A acc \in reply.acc :
         acc.kind = "buffer" /\ reply.addr + reply.req <= acc.end + 1 => reply.n = reply.req
=============================================================================
