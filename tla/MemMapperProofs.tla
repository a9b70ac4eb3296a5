-------------------------- MODULE MemMapperProofs --------------------------
(***************************************************************************)
(* Proofs about the memory mapper, for every set of accessors and spaces:  *)
(* no two registered accessors share an address in a space, the cache      *)
(* never changes an answer, a buffer below 4 GiB is read in full, and the  *)
(* mapper implements the memory map.                                       *)
(***************************************************************************)
EXTENDS MemMapper, CommonLemmas, SequenceTheorems, FiniteSetTheorems, TLAPS

\* What is remembered is an entry that can be found.
LastOK ==
  last = NoAcc \/ \E n \in DOMAIN entries : last = Remember(n) /\ entries[n].space # {}

IInv == entries \in Seq(Accessors) /\ LastOK /\ Unambiguous

----------------------------------------------------------------------------
\* Entries are counted from 1 and are accessors.
LEMMA EntryProperties ==
  ASSUME entries \in Seq(Accessors)
  PROVE  /\ DOMAIN entries = 1..Len(entries) /\ DOMAIN entries \in SUBSET Nat /\ 0 \notin DOMAIN entries
         /\ \A n \in DOMAIN entries : entries[n] \in Accessors /\ Score(n) \in Nat
<1>1. DOMAIN entries = 1..Len(entries) /\ Len(entries) \in Nat
  BY LenProperties
<1>2. \A n \in DOMAIN entries : entries[n] \in Accessors
  BY <1>1, ElementOfSeq
<1>3. \A n \in DOMAIN entries : Score(n) \in Nat
  <2> TAKE n \in DOMAIN entries
  <2>1. IsFiniteSet(entries[n].space)
    BY <1>2, AccessorsAssumption
  <2>2. Cardinality(entries[n].space) \in Nat
    BY <2>1, FS_CardinalityType
  <2>3. QED  BY <2>2 DEF Score, M!memSpaceSpecificity, M!Cardinality, Cardinality
<1>4. QED  BY <1>1, <1>2, <1>3

\* Two entries that both cover an address in a space q, one of them exactly,
\* are the same entry.
LEMMA ExactIsAlone ==
  ASSUME entries \in Seq(Accessors), Unambiguous, NEW a \in 0..MaxAddr, NEW q,
         NEW m \in Candidates(a, q), NEW n \in Candidates(a, q), entries[n].space = q
  PROVE  m = n
<1>1. m \in DOMAIN entries /\ n \in DOMAIN entries
  BY DEF Candidates
<1>2. entries[m] \in Accessors /\ entries[n] \in Accessors
  BY <1>1, EntryProperties
<1>3. /\ entries[m].start \in Int /\ entries[m].end \in Int
      /\ entries[n].start \in Int /\ entries[n].end \in Int
  BY <1>2, AccessorsAssumption, MaxAddrAssumption
<1>4. Overlaps(entries[m], entries[n])
  BY <1>3, MaxAddrAssumption DEF Candidates, Covers, M!Covers, Overlaps, M!Overlaps
<1>5. QED  BY <1>1, <1>4 DEF Unambiguous

\* The search finds a most specific candidate whenever there is one.
LEMMA SearchProperties ==
  ASSUME entries \in Seq(Accessors), Unambiguous, NEW a \in 0..MaxAddr, NEW q
  PROVE  /\ Candidates(a, q) = {} => Search(a, q) = 0
         /\ Candidates(a, q) # {} =>
              /\ Search(a, q) \in Candidates(a, q)
              /\ \A m \in Candidates(a, q) : Score(Search(a, q)) <= Score(m)
<1> DEFINE found  == Candidates(a, q)
           exact  == {n \in found : entries[n].space = q}
           scores == {Score(m) : m \in found}
           best   == {n \in found : Score(n) = Min(scores)}
<1>1. found \in SUBSET Nat /\ \A n \in found : Score(n) \in Nat
  BY EntryProperties DEF Candidates
<1>2. CASE found = {}
  BY <1>2 DEF Search
<1>3. CASE exact # {}
  <2>1. Search(a, q) = Min(exact)
    BY <1>3 DEF Search
  <2>2. Min(exact) \in exact
    BY <1>1, <1>3, MinMember
  <2>3. \A m \in found : m = Min(exact)
    BY <2>2, ExactIsAlone
  <2>4. QED  BY <1>1, <2>1, <2>2, <2>3
<1>4. CASE found # {} /\ exact = {}
  <2>1. Search(a, q) = Min(best)
    BY <1>4 DEF Search
  <2>2. scores \in SUBSET Nat /\ scores # {}
    BY <1>1, <1>4
  <2>3. Min(scores) \in scores /\ \A s \in scores : Min(scores) <= s
    BY <2>2, MinMember
  <2>4. best \in SUBSET Nat /\ best # {}
    BY <1>1, <2>3
  <2>5. Min(best) \in best
    BY <2>4, MinMember
  <2>6. QED  BY <2>1, <2>3, <2>5
<1>5. QED  BY <1>2, <1>3, <1>4

\* A hit of the cache is what the search would have found.
LEMMA CacheLemma ==
  ASSUME IInv, NEW a \in 0..MaxAddr, NEW q
  PROVE  findAccessor(a, q) = Search(a, q)
<1>1. CASE ~Cached(a, q)
  BY <1>1 DEF findAccessor
<1>2. CASE Cached(a, q)
  <2>1. last # NoAcc
    BY <1>2 DEF Cached, NoAcc
  <2>2. PICK n \in DOMAIN entries : last = Remember(n) /\ entries[n].space # {}
    BY <2>1 DEF IInv, LastOK
  <2>3. entries[n].space = q /\ a \in entries[n].start..entries[n].end /\ last.acc = n
    BY <1>2, <2>2 DEF Cached, Remember
  <2>4. n \in Candidates(a, q)
    BY <2>2, <2>3 DEF Candidates, Covers, M!Covers
  <2>5. Search(a, q) \in Candidates(a, q)
    BY <2>4, SearchProperties DEF IInv
  <2>6. Search(a, q) = n
    BY <2>3, <2>4, <2>5, ExactIsAlone DEF IInv
  <2>7. QED  BY <1>2, <2>3, <2>6 DEF findAccessor
<1>3. QED  BY <1>1, <1>2

\* The inductive invariant holds at the start.
LEMMA InitIInv == Init => IInv
BY EmptySeq DEF Init, IInv, LastOK, Unambiguous

\* Registration keeps the accessors apart and forgets the cached one.
LEMMA AddIInv == \A acc \in Accessors : IInv /\ AddAccessor(acc) => IInv'
<1> SUFFICES ASSUME NEW acc \in Accessors, IInv, AddAccessor(acc) PROVE IInv'
  OBVIOUS
<1>1. CASE UNCHANGED <<entries, last>>
  BY <1>1 DEF IInv, LastOK, Unambiguous, Remember
<1>2. CASE ~overlapsExisting(acc) /\ entries' = Append(entries, acc) /\ last' = NoAcc
  <2>1. /\ entries \in Seq(Accessors) /\ Len(entries) \in Nat
        /\ DOMAIN entries = 1..Len(entries)
    BY LenProperties DEF IInv
  <2>2. /\ entries' \in Seq(Accessors) /\ Len(entries') = Len(entries) + 1
        /\ \A n \in 1..Len(entries) : entries'[n] = entries[n]
        /\ entries'[Len(entries) + 1] = acc
    BY <1>2, <2>1, AppendProperties
  <2>3. DOMAIN entries' = 1..(Len(entries) + 1)
    BY <2>2, LenProperties
  <2>4. \A n \in DOMAIN entries : ~Overlaps(acc, entries[n])
    BY <1>2 DEF overlapsExisting
  <2>5. \A n \in DOMAIN entries : ~Overlaps(entries[n], acc)
    <3> SUFFICES ASSUME NEW n \in DOMAIN entries, Overlaps(entries[n], acc) PROVE FALSE
      OBVIOUS
    <3>1. entries[n] \in Accessors
      BY EntryProperties DEF IInv
    <3>2. /\ entries[n].start \in Int /\ entries[n].end \in Int
          /\ acc.start \in Int /\ acc.end \in Int
      BY <3>1, AccessorsAssumption, MaxAddrAssumption
    <3>3. Overlaps(acc, entries[n])
      BY <3>2 DEF Overlaps, M!Overlaps
    <3>4. QED  BY <3>3, <2>4
  <2>6. Unambiguous'
    <3> SUFFICES ASSUME NEW m \in DOMAIN entries', NEW n \in DOMAIN entries', m # n
                 PROVE  ~Overlaps(entries'[m], entries'[n])
      BY DEF Unambiguous, Overlaps, M!Overlaps
    <3>1. CASE m \in 1..Len(entries) /\ n \in 1..Len(entries)
      BY <3>1, <2>1, <2>2 DEF IInv, Unambiguous
    <3>2. CASE m = Len(entries) + 1 /\ n \in 1..Len(entries)
      BY <3>2, <2>1, <2>2, <2>4
    <3>3. CASE m \in 1..Len(entries) /\ n = Len(entries) + 1
      BY <3>3, <2>1, <2>2, <2>5
    <3>4. QED  BY <3>1, <3>2, <3>3, <2>1, <2>3
  <2>7. QED  BY <1>2, <2>2, <2>6 DEF IInv, LastOK, NoAcc
<1>3. QED  BY <1>1, <1>2 DEF AddAccessor

\* A read remembers only what it has found.
LEMMA ReadIInv ==
  \A a \in 0..MaxAddr, q \in Spaces, req \in Requests : IInv /\ Read(a, q, req) => IInv'
<1> SUFFICES ASSUME NEW a \in 0..MaxAddr, NEW q \in Spaces, NEW req \in Requests,
                    IInv, Read(a, q, req)
             PROVE  IInv'
  OBVIOUS
<1>1. UNCHANGED entries
  BY DEF Read
<1>2. last' = last \/ last' = NoAcc \/ (last' = Remember(findAccessor(a, q)) /\ findAccessor(a, q) # 0)
  BY DEF Read
<1>3. CASE last' = last
  BY <1>1, <1>3 DEF IInv, LastOK, Unambiguous, Remember
<1>4. CASE last' = NoAcc
  BY <1>1, <1>4 DEF IInv, LastOK, Unambiguous, NoAcc
<1>5. CASE last' = Remember(findAccessor(a, q)) /\ findAccessor(a, q) # 0
  <2>1. findAccessor(a, q) = Search(a, q)
    BY CacheLemma
  <2>2. Search(a, q) \in Candidates(a, q)
    BY <1>5, <2>1, SearchProperties DEF IInv
  <2>3. Search(a, q) \in DOMAIN entries /\ entries[Search(a, q)].space # {}
    BY <2>2 DEF Candidates, Covers, M!Covers
  <2>4. LastOK'
    BY <1>1, <1>5, <2>1, <2>3 DEF LastOK, Remember
  <2>5. QED  BY <1>1, <2>4 DEF IInv, Unambiguous
<1>6. QED  BY <1>2, <1>3, <1>4, <1>5

\* The inductive invariant is kept by every step.
LEMMA NextIInv == IInv /\ [Next]_vars => IInv'
<1> SUFFICES ASSUME IInv, [Next]_vars PROVE IInv'
  OBVIOUS
<1>1. CASE UNCHANGED vars
  BY <1>1 DEF vars, IInv, LastOK, Unambiguous, Remember
<1>2. CASE removeAllAccessors
  BY <1>2, EmptySeq DEF removeAllAccessors, IInv, LastOK, Unambiguous, NoAcc
<1>3. QED  BY <1>1, <1>2, AddIInv, ReadIInv DEF Next

\* The inductive invariant holds throughout.
LEMMA Inductive == Spec => []IInv
BY InitIInv, NextIInv, PTL DEF Spec

----------------------------------------------------------------------------
\* No two registered accessors ever share an address in a memory space.
THEOREM AlwaysUnambiguous == Spec => []Unambiguous
<1>1. IInv => Unambiguous
  BY DEF IInv
<1>2. QED  BY <1>1, Inductive, PTL

\* The cache of the last accessor never changes the answer to a read.
THEOREM AlwaysCacheTransparent == Spec => []CacheTransparent
<1>1. IInv => CacheTransparent
  BY CacheLemma DEF CacheTransparent
<1>2. QED  BY <1>1, Inductive, PTL

----------------------------------------------------------------------------
(* What a call returns.                                                    *)

\* A read is served by an entry that covers the address.
LEMMA FoundCovers ==
  ASSUME IInv, NEW a \in 0..MaxAddr, NEW q, findAccessor(a, q) # 0
  PROVE  /\ findAccessor(a, q) \in DOMAIN entries
         /\ entries[findAccessor(a, q)] \in Accessors
         /\ a \in entries[findAccessor(a, q)].start..entries[findAccessor(a, q)].end
<1>1. findAccessor(a, q) = Search(a, q)
  BY CacheLemma
<1>2. Search(a, q) \in Candidates(a, q)
  BY <1>1, SearchProperties DEF IInv
<1>3. entries \in Seq(Accessors)
  BY DEF IInv
<1>4. QED  BY <1>1, <1>2, <1>3, EntryProperties DEF Candidates, Covers, M!Covers

\* The bytes an accessor has from an address on, as ReadBytes counts them.
Avail(acc, a) == ((acc.end - a) + 1) % CountMod

\* The number of bytes an accessor answers with is a number.
LEMMA CountsTyped ==
  ASSUME NEW acc \in Accessors, NEW a \in 0..MaxAddr, NEW req \in Requests
  PROVE  /\ M!ReadCounts(acc, a, req) \subseteq Nat
         /\ Avail(acc, a) \in Nat /\ req \in Nat
         /\ acc.kind = "buffer"
              => M!ReadCounts(acc, a, req) = {IF Avail(acc, a) < req THEN Avail(acc, a) ELSE req}
<1>1. acc.end \in Int /\ acc.kind \in {"buffer", "reader", "callback"}
  BY AccessorsAssumption, MaxAddrAssumption
<1>2. req \in Nat
  BY CountAssumption
<1>3. (acc.end - a) + 1 \in Int
  BY <1>1, MaxAddrAssumption
<1>4. Avail(acc, a) \in Nat
  BY <1>3, CountAssumption DEF Avail
<1> DEFINE most == IF Avail(acc, a) < req THEN Avail(acc, a) ELSE req
<1>5. most \in Nat
  BY <1>2, <1>4
<1>6. M!ReadCounts(acc, a, req) = CASE acc.kind = "buffer"   -> {most}
                                    [] acc.kind = "reader"   -> 0..most
                                    [] acc.kind = "callback" -> 0..(req + 1)
  BY DEF M!ReadCounts, Avail
<1> HIDE DEF most
<1>7. /\ acc.kind = "buffer" => M!ReadCounts(acc, a, req) = {most}
      /\ acc.kind = "reader" => M!ReadCounts(acc, a, req) = 0..most
      /\ acc.kind = "callback" => M!ReadCounts(acc, a, req) = 0..(req + 1)
  BY <1>6
<1>8. {most} \subseteq Nat /\ 0..most \subseteq Nat /\ 0..(req + 1) \subseteq Nat
  BY <1>2, <1>5
<1>9. QED  BY <1>1, <1>2, <1>4, <1>7, <1>8 DEF most

\* The last reply is one of a call, with the types of its fields.
ReplyOK ==
  /\ reply.acc \subseteq Accessors /\ reply.n \in Nat /\ reply.addr \in 0..MaxAddr
  /\ reply.err \in {"none", "range", "overlap", "noAccessor", "badLen"}

\* Every call answers in its types.
LEMMA NextReplyOK == IInv /\ ReplyOK /\ [Next]_vars => ReplyOK'
<1> SUFFICES ASSUME IInv, ReplyOK, [Next]_vars PROVE ReplyOK'
  OBVIOUS
<1>0. 0 \in 0..MaxAddr
  BY MaxAddrAssumption
<1>1. CASE UNCHANGED vars
  BY <1>1 DEF vars, ReplyOK
<1>2. CASE removeAllAccessors
  BY <1>0, <1>2 DEF removeAllAccessors, ReplyOK, M!NoReply
<1>3. ASSUME NEW acc \in Accessors, AddAccessor(acc) PROVE ReplyOK'
  <2>1. PICK e \in {"none", "range", "overlap"} : reply' = M!Added(acc, e)
    BY <1>3 DEF AddAccessor
  <2>2. /\ reply'.acc = {acc} /\ reply'.n = 0 /\ reply'.addr = 0 /\ reply'.err = e
    BY <2>1 DEF M!Added, M!NoReply
  <2>3. QED  BY <1>0, <2>2 DEF ReplyOK
<1>4. ASSUME NEW a \in 0..MaxAddr, NEW q \in Spaces, NEW req \in Requests, Read(a, q, req)
      PROVE  ReplyOK'
  <2>1. CASE findAccessor(a, q) = 0
    <3>1. reply' = M!Missing(a, q, req)
      BY <1>4, <2>1 DEF Read
    <3>2. QED  BY <3>1 DEF ReplyOK, M!Missing
  <2>2. CASE findAccessor(a, q) # 0
    <3> DEFINE acc == entries[findAccessor(a, q)]
    <3>1. acc \in Accessors
      BY <2>2, FoundCovers
    <3>2. PICK n \in M!ReadCounts(acc, a, req) : reply' = M!Served(acc, a, q, req, n)
      BY <1>4, <2>2 DEF Read
    <3> HIDE DEF acc
    <3>3. n \in Nat
      BY <3>1, <3>2, <1>4, CountsTyped
    <3>4. QED  BY <3>1, <3>2, <3>3 DEF ReplyOK, M!Served
  <2>3. QED  BY <2>1, <2>2
<1>5. QED  BY <1>1, <1>2, <1>3, <1>4 DEF Next

\* The entries, what is remembered of one of them and every reply have their
\* types, for any sequence of calls.
THEOREM TypeCorrect == Spec => []TypeOK
<1>1. Init => ReplyOK
  BY MaxAddrAssumption DEF Init, ReplyOK, M!NoReply
<1>2. IInv /\ ReplyOK => TypeOK
  BY DEF IInv, LastOK, ReplyOK, TypeOK
<1>3. QED  BY <1>1, <1>2, Inductive, NextReplyOK, PTL DEF Spec

\* Every buffer has fewer bytes than a byte count can express (4 GiB): the
\* length of its range does not wrap to a smaller number.
BuffersCountable ==
  \A acc \in Accessors : acc.kind = "buffer" => (acc.end - acc.start) + 1 < CountMod

\* A read that a buffer can serve in full, it serves in full.
LEMMA NextReadInFull ==
  ASSUME BuffersCountable
  PROVE  IInv /\ ReadInFull /\ [Next]_vars => ReadInFull'
<1> SUFFICES ASSUME IInv, ReadInFull, [Next]_vars PROVE ReadInFull'
  OBVIOUS
<1>1. CASE UNCHANGED vars
  BY <1>1 DEF vars, ReadInFull
<1>2. CASE removeAllAccessors
  BY <1>2 DEF removeAllAccessors, ReadInFull, M!NoReply
<1>3. ASSUME NEW acc \in Accessors, AddAccessor(acc) PROVE ReadInFull'
  <2>1. reply'.op = "add"
    BY <1>3 DEF AddAccessor, M!Added, M!NoReply
  <2>2. QED  BY <2>1 DEF ReadInFull
<1>4. ASSUME NEW a \in 0..MaxAddr, NEW q \in Spaces, NEW req \in Requests, Read(a, q, req)
      PROVE  ReadInFull'
  <2>1. CASE findAccessor(a, q) = 0
    <3>1. reply' = M!Missing(a, q, req)
      BY <1>4, <2>1 DEF Read
    <3>2. QED  BY <3>1 DEF ReadInFull, M!Missing
  <2>2. CASE findAccessor(a, q) # 0
    <3> DEFINE acc == entries[findAccessor(a, q)]
    <3>1. acc \in Accessors /\ a \in acc.start..acc.end
      BY <2>2, FoundCovers
    <3>2. PICK n \in M!ReadCounts(acc, a, req) : reply' = M!Served(acc, a, q, req, n)
      BY <1>4, <2>2 DEF Read
    <3> HIDE DEF acc
    <3>3. /\ reply'.acc = {acc} /\ reply'.addr = a /\ reply'.req = req /\ reply'.n = n
      BY <3>2 DEF M!Served
    <3>4. ASSUME acc.kind = "buffer", a + req <= acc.end + 1 PROVE n = req
      <4>1. acc.start \in Nat /\ acc.end \in Nat /\ req \in Nat /\ a \in Nat
        BY <3>1, <1>4, CountsTyped, AccessorsAssumption, MaxAddrAssumption
      <4>2. (acc.end - acc.start) + 1 < CountMod
        BY <3>1, <3>4 DEF BuffersCountable
      <4>3. (acc.end - a) + 1 \in 0..(CountMod - 1)
        BY <3>1, <4>1, <4>2, CountAssumption
      <4>4. \A x \in 0..(CountMod - 1) : x % CountMod = x
        BY CountAssumption
      <4>5. Avail(acc, a) = (acc.end - a) + 1
        BY <4>3, <4>4, Zenon DEF Avail
      <4>6. n = IF Avail(acc, a) < req THEN Avail(acc, a) ELSE req
        BY <3>1, <3>2, <3>4, <1>4, CountsTyped
      <4>7. QED  BY <4>1, <4>5, <4>6, <3>4
    <3>5. QED  BY <3>3, <3>4 DEF ReadInFull
  <2>3. QED  BY <2>1, <2>2
<1>5. QED  BY <1>1, <1>2, <1>3, <1>4 DEF Next

\* As long as every buffer is smaller than 4 GiB, a buffer that holds all the
\* bytes asked for delivers them, through the cache or not.
THEOREM AlwaysReadInFull ==
  ASSUME BuffersCountable
  PROVE  Spec => []ReadInFull
<1>1. Init => ReadInFull
  BY DEF Init, ReadInFull, M!NoReply
<1>2. IInv /\ ReadInFull /\ [Next]_vars => ReadInFull'
  BY NextReadInFull
<1>3. QED  BY <1>1, <1>2, Inductive, PTL DEF Spec

----------------------------------------------------------------------------
(* The refinement of the memory map.                                       *)

\* A registration maps to one of the memory map.
LEMMA AddRefines ==
  ASSUME IInv, NEW acc \in Accessors, AddAccessor(acc)
  PROVE  M!Add(acc)
<1>1. DOMAIN entries = 1..Len(entries) /\ Len(entries) \in Nat /\ entries \in Seq(Accessors)
  BY LenProperties DEF IInv
<1>2. overlapsExisting(acc) <=> \E other \in Registered : M!Overlaps(acc, other)
  BY DEF overlapsExisting, Registered, Overlaps
<1>3. CASE M!RangeValid(acc) /\ ~overlapsExisting(acc) /\ entries' = Append(entries, acc)
           /\ reply' = M!Added(acc, "none")
  <2>1. /\ entries' \in Seq(Accessors) /\ Len(entries') = Len(entries) + 1
        /\ \A n \in 1..Len(entries) : entries'[n] = entries[n]
        /\ entries'[Len(entries) + 1] = acc
    BY <1>1, <1>3, AppendProperties
  <2>2. DOMAIN entries' = 1..(Len(entries) + 1)
    BY <2>1, LenProperties
  <2>3. Registered' = Registered \cup {acc}
    <3>1. Registered' \subseteq Registered \cup {acc}
      <4> SUFFICES ASSUME NEW n \in DOMAIN entries' PROVE entries'[n] \in Registered \cup {acc}
        BY DEF Registered
      <4>1. n \in 1..Len(entries) \/ n = Len(entries) + 1
        BY <1>1, <2>2
      <4>2. QED  BY <4>1, <1>1, <2>1 DEF Registered
    <3>2. Registered \subseteq Registered'
      <4> SUFFICES ASSUME NEW n \in DOMAIN entries PROVE entries[n] \in Registered'
        BY DEF Registered
      <4>1. n \in DOMAIN entries' /\ entries'[n] = entries[n]
        BY <1>1, <2>1, <2>2
      <4>2. QED  BY <4>1 DEF Registered
    <3>3. acc \in Registered'
      <4>1. Len(entries) + 1 \in DOMAIN entries'
        BY <1>1, <2>2
      <4>2. QED  BY <4>1, <2>1 DEF Registered
    <3>4. QED  BY <3>1, <3>2, <3>3
  <2>4. QED  BY <1>2, <1>3, <2>3 DEF M!Add
<1>4. CASE ~M!RangeValid(acc) /\ reply' = M!Added(acc, "range") /\ UNCHANGED <<entries, last>>
  BY <1>4 DEF M!Add, Registered
<1>5. CASE M!RangeValid(acc) /\ overlapsExisting(acc)
           /\ reply' = M!Added(acc, "overlap") /\ UNCHANGED <<entries, last>>
  BY <1>2, <1>5 DEF M!Add, Registered
<1>6. QED  BY <1>3, <1>4, <1>5 DEF AddAccessor

\* A read, from the cache or not, maps to one of the memory map.
LEMMA ReadRefines ==
  ASSUME IInv, NEW a \in 0..MaxAddr, NEW q \in Spaces, NEW req \in Requests, Read(a, q, req)
  PROVE  M!Read(a, q, req)
<1> DEFINE n == findAccessor(a, q)
<1>1. n = Search(a, q)
  BY CacheLemma
<1>2. UNCHANGED Registered
  BY DEF Read, Registered
<1>3. 0 \notin Candidates(a, q) /\ entries \in Seq(Accessors) /\ Unambiguous
  BY EntryProperties DEF IInv, Candidates
<1>4. CASE n = 0
  <2>1. Candidates(a, q) = {}
    BY <1>1, <1>3, <1>4, SearchProperties
  <2>2. M!MostSpecific(a, q) = {}
    BY <2>1 DEF M!MostSpecific, Candidates, Registered, Covers
  <2>3. reply' = M!Missing(a, q, req)
    BY <1>4 DEF Read
  <2>4. QED  BY <1>2, <2>2, <2>3 DEF M!Read
<1>5. CASE n # 0
  <2>1. n \in Candidates(a, q) /\ \A m \in Candidates(a, q) : Score(n) <= Score(m)
    BY <1>1, <1>3, <1>5, SearchProperties
  <2>2. \E count \in M!ReadCounts(entries[n], a, req) : reply' = M!Served(entries[n], a, q, req, count)
    BY <1>5 DEF Read
  <2> HIDE DEF n
  <2>3. entries[n] \in M!MostSpecific(a, q)
    <3>1. entries[n] \in Registered /\ M!Covers(entries[n], a, q)
      BY <2>1 DEF Candidates, Registered, Covers
    <3>2. ASSUME NEW other \in Registered, M!Covers(other, a, q)
          PROVE  M!memSpaceSpecificity(entries[n]) <= M!memSpaceSpecificity(other)
      <4>1. PICK m \in DOMAIN entries : other = entries[m]
        BY DEF Registered
      <4>2. m \in Candidates(a, q)
        BY <3>2, <4>1 DEF Candidates, Covers
      <4>3. Score(n) <= Score(m)
        BY <2>1, <4>2
      <4>4. QED  BY <4>1, <4>3 DEF Score
    <3>3. QED  BY <3>1, <3>2 DEF M!MostSpecific
  <2>4. QED  BY <1>2, <2>2, <2>3 DEF M!Read
<1>6. QED  BY <1>4, <1>5

\* The mapper, with its cache and its order of registration, implements the
\* memory map.
THEOREM MapperImplementsMap == Spec => ImplementsMap
<1>1. Init => M!Init
  BY DEF Init, M!Init, Registered
<1>2. IInv /\ [Next]_vars => [M!Next]_<<Registered, reply>>
  <2> SUFFICES ASSUME IInv, [Next]_vars PROVE [M!Next]_<<Registered, reply>>
    OBVIOUS
  <2>1. CASE \E acc \in Accessors : AddAccessor(acc)
    BY <2>1, AddRefines DEF M!Next
  <2>2. CASE \E a \in 0..MaxAddr, q \in Spaces, req \in Requests : Read(a, q, req)
    BY <2>2, ReadRefines DEF M!Next, M!Addrs
  <2>3. CASE removeAllAccessors
    BY <2>3 DEF removeAllAccessors, M!Next, M!RemoveAll, Registered
  <2>4. CASE UNCHANGED vars
    BY <2>4 DEF vars, Registered
  <2>5. QED  BY <2>1, <2>2, <2>3, <2>4 DEF Next
<1>3. QED  BY <1>1, <1>2, Inductive, PTL DEF Spec, M!Spec, ImplementsMap
=============================================================================
