----------------------------- MODULE PtmProofs -----------------------------
(***************************************************************************)
(* Proofs about the PTM decoder, for every program and memory, all         *)
(* streams, every way to cut them into blocks and any number of resets:    *)
(* behind a packet that could not be read nothing comes out before the     *)
(* next Async and the ISync behind it; and what a handler, a search for a  *)
(* sync and the return stack count never leaves its bounds.                *)
(***************************************************************************)
EXTENDS PtmProps, CommonLemmas

\* What the proofs use of a packet and of the state of the decoder.
WellFormed(p) == "type" \in DOMAIN p /\ "atoms" \in DOMAIN p /\ IsSeq(p.atoms)
HasFields(d) == "state" \in DOMAIN d /\ "index" \in DOMAIN d /\ "out" \in DOMAIN d

States == {"NoSync", "WaitSync", "WaitISync", "Pkts"}

Typed ==
  /\ pos \in Nat /\ IsSeq(scratch) /\ IsSeq(obs) /\ IsSeq(elems)
  /\ WellFormed(pkt) /\ HasFields(dec) /\ dec.out = <<>> /\ dec.state \in States

Control ==
  /\ pc \in {"idle", "loop", "sync", "panic"} /\ ps \in {"WaitSync", "ProcHdr", "ProcData", "SendPkt"}
  /\ pc = "sync" => ps = "WaitSync"
  /\ pc = "idle" /\ ~closed => ps # "SendPkt"
  /\ closed => pc = "idle"
  /\ ps \in {"ProcData", "SendPkt"} /\ ~closed => scratch # <<>>

\* The parser never waits for the first sync again, and until then at most one
\* element has come out, which says that there is no sync.
BeforeSync ==
  ~closed =>
    /\ dec.state = "NoSync" => elems = <<>>
    /\ ps = "WaitSync" => Len(elems) <= 1 /\ dec.state \in {"NoSync", "WaitSync"} /\ pkt.type = "NotSync"

\* Behind the first sync a packet has the index of its first byte.
Followed == dec.state \in {"WaitISync", "Pkts"} \/ Len(elems) >= 2
Indexed ==
  ~closed /\ ps \in {"ProcData", "SendPkt"} /\ Followed => pktIndex \in Nat /\ pktIndex < pos

\* The place in the stream that all indices so far lie before.
Edge == IF ps = "ProcHdr" THEN pos ELSE pktIndex

AsyncIn(o, a, i)    == o[a].pkt.type = "ASync" /\ o[a].index \in Nat /\ i < o[a].index
ISyncIn(o, a, b)    == o[b].pkt.type = "ISync" /\ o[b].index \in Nat /\ o[a].index < o[b].index
\* In o there is an Async behind i, and then an ISync, before j.
FoundAsync(o, i, j) == \E a \in 1..Len(o) : AsyncIn(o, a, i) /\ o[a].index < j
FoundBoth(o, i, j)  ==
  \E a, b \in 1..Len(o) : AsyncIn(o, a, i) /\ ISyncIn(o, a, b) /\ o[b].index < j

\* How far a decoder has come, with what was shown, since a loss of sync at i.
Come(i, edge, state, o) ==
  /\ i \in Nat /\ i < edge
  /\ state = "WaitISync" => FoundAsync(o, i, edge)
  /\ state = "Pkts" => FoundBoth(o, i, edge)
Since(i) == Come(i, Edge, dec.state, obs)
Behind ==
  ~closed /\ cfg.observer => \A k \in 2..Len(elems) : elems[k].kind = "NoSync" => Since(elems[k].index)

IInv == Typed /\ Control /\ BeforeSync /\ Indexed /\ Behind /\ ResyncedBehindBad

----------------------------------------------------------------------------
(* A packet that is taken from its bytes stays well formed.                *)

LEMMA ShortSeq ==
  ASSUME NEW n \in 1..5, NEW v \in [1..n -> {"E", "N"}]
  PROVE  IsSeq(v)
<1>1. v \in Seq({"E", "N"})
  BY SeqDef
<1>2. QED  BY <1>1 DEF IsSeq

LEMMA AtomsFromHeader ==
  ASSUME NEW p, NEW h, WellFormed(p)
  PROVE  WellFormed(SetAtomFromPHdr(p, h)) /\ WellFormed(SetCycleAccAtomFromPHdr(p, h))
<1> DEFINE n == AtomNum(h)
           v == [k \in 1..n |-> IF Bit(h, n - k + 1) = 0 THEN "E" ELSE "N"]
           one == IF Bit(h, 1) = 0 THEN "E" ELSE "N"
<1>1. n \in 1..5
  BY DEF AtomNum
<1>2. v \in [1..n -> {"E", "N"}]
  OBVIOUS
<1>3. IsSeq(v)
  <2> HIDE DEF n, v
  <2>1. QED  BY <1>1, <1>2, ShortSeq
<1>4. IsSeq(<<one>>)
  BY AnySingle
<1>5. SetAtomFromPHdr(p, h) = [p EXCEPT !.atoms = v]
  BY DEF SetAtomFromPHdr
<1>6. SetCycleAccAtomFromPHdr(p, h) = [p EXCEPT !.atoms = <<one>>]
  BY DEF SetCycleAccAtomFromPHdr
<1> HIDE DEF v, one
<1>7. QED  BY <1>3, <1>4, <1>5, <1>6 DEF WellFormed

LEMMA CountKeeps == ASSUME NEW p, NEW s, WellFormed(p) PROVE WellFormed(WithCycleCount(p, s))
BY DEF WithCycleCount, WellFormed

LEMMA AddressKeeps ==
  ASSUME NEW p, NEW isa, NEW val, NEW bits, WellFormed(p)
  PROVE  WellFormed(UpdateAddress(UpdateISA(p, isa), val, bits))
<1>1. WellFormed(UpdateISA(p, isa))
  BY DEF UpdateISA, WellFormed
<1>2. \A q : WellFormed(q) => WellFormed(UpdateAddress(q, val, bits))
  BY DEF UpdateAddress, WellFormed
<1>3. QED  BY <1>1, <1>2

LEMMA CtxtKeeps == ASSUME NEW p, NEW s, WellFormed(p) PROVE WellFormed(WithCtxtID(p, s))
<1>1. CASE cfg.ctxt = 0
  BY <1>1 DEF WithCtxtID
<1>2. CASE cfg.ctxt # 0
  BY <1>2 DEF WithCtxtID, WellFormed
<1>3. QED  BY <1>1, <1>2

LEMMA ISyncKeeps == ASSUME NEW p, NEW g, NEW s, WellFormed(p) PROVE WellFormed(ISyncPacket(p, g, s))
<1> DEFINE isa  == IF s[2] % 2 = 0 THEN "Arm" ELSE IF Bit(s[6], 2) = 1 THEN "Tee" ELSE "Thumb2"
           addr == (s[2] - (s[2] % 2)) + 2^8 * s[3] + 2^16 * s[4] + 2^24 * s[5]
           u    == UpdateAddress(UpdateISA(p, isa), addr, 32)
           q    == [u EXCEPT !.reason = (s[6] \div 32) % 4, !.ns = (Bit(s[6], 3) = 1)]
           at   == 7 + CCLen(From(s, 7))
<1>1. WellFormed(u)
  BY AddressKeeps
<1>2. WellFormed(q)
  <2> HIDE DEF u
  <2>1. QED  BY <1>1 DEF WellFormed
<1>3. ISyncPacket(p, g, s) =
        IF g.needCC THEN WithCtxtID(WithCycleCount(q, From(s, 7)), From(s, at))
        ELSE WithCtxtID(q, From(s, 7))
  BY DEF ISyncPacket
<1> HIDE DEF q, at
<1>4. WellFormed(WithCtxtID(WithCycleCount(q, From(s, 7)), From(s, at)))
  BY <1>2, CountKeeps, CtxtKeeps
<1>5. WellFormed(WithCtxtID(q, From(s, 7)))
  BY <1>2, CtxtKeeps
<1>6. QED  BY <1>3, <1>4, <1>5

LEMMA BranchKeeps == ASSUME NEW p, NEW g, NEW s, WellFormed(p) PROVE WellFormed(BranchPacket(p, g, s))
<1> DEFINE a == WithAddress(p, g, SubSeq(s, 1, g.numAddr))
           t == From(s, g.numAddr + 1)
           q == WithException(a, g, t)
           at == g.numAddr + g.numExcep + 1
<1>1. WellFormed(a)
  BY AddressKeeps DEF WithAddress
<1> HIDE DEF a, t
<1>2. WellFormed(q)
  <2>1. CASE g.numExcep = 0
    BY <1>1, <2>1 DEF WithException
  <2>2. CASE g.numExcep # 0
    BY <1>1, <2>2 DEF WithException, WellFormed
  <2>3. QED  BY <2>1, <2>2
<1>3. BranchPacket(p, g, s) = IF cfg.cc THEN WithCycleCount(q, From(s, at)) ELSE q
  BY DEF BranchPacket, a, t
<1> HIDE DEF q, at
<1>4. QED  BY <1>2, <1>3, CountKeeps

LEMMA TimestampKeeps == ASSUME NEW p, NEW s, WellFormed(p) PROVE WellFormed(TimestampPacket(p, s))
<1> DEFINE groups == extractTS(From(s, 2))
           q == UpdateTimestamp(p, groups)
           t == From(s, 2 + TSLen(From(s, 2)))
<1> HIDE DEF groups, t
<1>1. WellFormed(q)
  BY DEF UpdateTimestamp, WellFormed
<1>2. TimestampPacket(p, s) = IF cfg.cc THEN WithCycleCount(q, t) ELSE q
  BY DEF TimestampPacket, groups, t
<1> HIDE DEF q
<1>3. QED  BY <1>1, <1>2, CountKeeps

LEMMA AtomKeeps == ASSUME NEW p, NEW s, WellFormed(p) PROVE WellFormed(AtomPacket(p, s))
<1>1. WellFormed(WithCycleCount(p, s))
  BY CountKeeps
<1>2. WellFormed(SetCycleAccAtomFromPHdr(WithCycleCount(p, s), s[1])) /\ WellFormed(SetAtomFromPHdr(p, s[1]))
  BY <1>1, AtomsFromHeader
<1>3. QED  BY <1>2 DEF AtomPacket

LEMMA CompleteKeeps == ASSUME NEW p, NEW g, NEW s, WellFormed(p) PROVE WellFormed(Complete(p, g, s))
<1>1. WellFormed(BranchPacket(p, g, s)) /\ WellFormed(ISyncPacket(p, g, s))
  BY BranchKeeps, ISyncKeeps
<1>2. WellFormed(AtomPacket(p, s)) /\ WellFormed(TimestampPacket(p, s))
  BY AtomKeeps, TimestampKeeps
<1>3. WellFormed(WPointPacket(p, g, s))
  BY AddressKeeps DEF WPointPacket, WithAddress
<1>4. WellFormed(WithCtxtID(p, From(s, 2)))
  BY CtxtKeeps
<1>5. WellFormed([p EXCEPT !.vmid = s[2]])
  BY DEF WellFormed
<1>6. QED  BY <1>1, <1>2, <1>3, <1>4, <1>5 DEF Complete

----------------------------------------------------------------------------
(* The decoder, handed a packet that can be read: what comes out lies at   *)
(* the packet's index and does not report a loss, and the state stays.     *)

OutOK(d) ==
  IsSeq(d.out) /\ \A j \in 1..Len(d.out) : d.out[j].index = d.index /\ d.out[j].kind # "NoSync"
Good(d) == HasFields(d) /\ OutOK(d)
Tame(d, r) == Good(r) /\ r.state = d.state /\ r.index = d.index

LEMMA TameFollows == ASSUME NEW c, NEW d, NEW r, Tame(c, d), Tame(d, r) PROVE Tame(c, r)
BY DEF Tame

LEMMA EmitTame ==
  ASSUME NEW d, NEW kind, NEW val, Good(d), kind # "NoSync"
  PROVE  Tame(d, Emit(d, kind, val))
<1> DEFINE x == Elem(d, kind, val)
           o == d.out
           r == Emit(d, kind, val)
<1>1. IsSeq(o) /\ \A j \in 1..Len(o) : o[j].index = d.index /\ o[j].kind # "NoSync"
  BY DEF Good, OutOK
<1>2. x.index = d.index /\ x.kind # "NoSync"
  BY DEF Elem
<1>3. HasFields(r) /\ r.state = d.state /\ r.index = d.index /\ r.out = Append(o, x)
  BY DEF Emit, Good, HasFields
<1> HIDE DEF x, r
<1>4. Append(o, x) = o \o <<x>>
  BY <1>1, AnyAppend
<1>5. /\ IsSeq(o \o <<x>>) /\ Len(o) \in Nat /\ Len(o \o <<x>>) = Len(o) + 1
      /\ (o \o <<x>>)[Len(o) + 1] = x
      /\ \A k \in 1..Len(o) : (o \o <<x>>)[k] = o[k]
  BY <1>1, AnyOneMore
<1> HIDE DEF o
<1>6. ASSUME NEW j \in 1..(Len(o) + 1)
      PROVE  (o \o <<x>>)[j].index = d.index /\ (o \o <<x>>)[j].kind # "NoSync"
  <2>1. j \in 1..Len(o) \/ j = Len(o) + 1
    BY <1>5
  <2>2. QED  BY <1>1, <1>2, <1>5, <2>1
<1>7. \A j \in 1..Len(r.out) : r.out[j].index = r.index /\ r.out[j].kind # "NoSync"
  BY <1>3, <1>4, <1>5, <1>6
<1>8. IsSeq(r.out)
  BY <1>3, <1>4, <1>5
<1>9. QED  BY <1>3, <1>7, <1>8, Zenon DEF Tame, Good, OutOK, r


\* The other fields of the decoder are of no account.
Alike(d, r) == HasFields(r) /\ r.state = d.state /\ r.index = d.index /\ r.out = d.out

LEMMA AlikeTame == ASSUME NEW d, NEW r, Good(d), Alike(d, r) PROVE Tame(d, r)
BY DEF Alike, Tame, Good, OutOK

LEMMA SelfTame == ASSUME NEW d, Good(d) PROVE Tame(d, d)
BY DEF Tame

LEMMA NotInMemoryTame == ASSUME NEW d, NEW w, Good(d) PROVE Tame(d, NotInMemory(d, w))
<1> DEFINE range == RangeOf(d, w, 0, TRUE, -1)
           shown == IF w = d.addr THEN d ELSE Emit(d, "InstrRange", range)
           nacc  == [addr |-> w, ns |-> d.ns]
           e     == Emit(shown, "AddrNacc", nacc)
           r     == [e EXCEPT !.valid = FALSE]
<1>1. Tame(d, shown)
  <2> HIDE DEF range
  <2>1. Tame(d, Emit(d, "InstrRange", range))
    BY EmitTame
  <2>2. QED  BY <2>1, SelfTame
<1>2. NotInMemory(d, w) = r
  BY DEF NotInMemory
<1> HIDE DEF shown, nacc
<1>3. Tame(shown, e)
  BY <1>1, EmitTame DEF Tame
<1> HIDE DEF e
<1>4. Alike(e, r)
  BY <1>3 DEF Tame, Good, HasFields, Alike
<1>5. Tame(e, r)
  BY <1>3, <1>4, AlikeTame DEF Tame
<1>6. QED  BY <1>1, <1>2, <1>3, <1>5, TameFollows

LEMMA PushAlike == ASSUME NEW d, NEW a, NEW isa, HasFields(d) PROVE Alike(d, push(d, a, isa))
<1>1. CASE cfg.retStack
  BY <1>1 DEF push, HasFields, Alike
<1>2. CASE ~cfg.retStack
  BY <1>2 DEF push, HasFields, Alike
<1>3. QED  BY <1>1, <1>2

LEMMA LinkedAlike ==
  ASSUME NEW d, NEW ins, NEW next, NEW isa, HasFields(d)
  PROVE  Alike(d, Linked(d, ins, next, isa))
<1>1. Alike(d, push(d, next, isa)) /\ Alike(d, d)
  BY PushAlike DEF Alike
<1>2. QED  BY <1>1 DEF Linked

LEMMA AlikeFollows == ASSUME NEW c, NEW d, NEW r, Alike(c, d), Alike(d, r) PROVE Alike(c, r)
BY DEF Alike

LEMMA TakeIndirectAlike ==
  ASSUME NEW d, NEW p, NEW next, HasFields(d)
  PROVE  Alike(d, TakeIndirect(d, p, next))
<1> DEFINE x == [d EXCEPT !.addr = Last(d.stack).addr, !.isa = Last(d.stack).isa, !.stack = Front(@)]
           y == [d EXCEPT !.addr = next, !.valid = FALSE]
<1>1. Alike(d, x) /\ Alike(d, y)
  BY DEF HasFields, Alike
<1>2. TakeIndirect(d, p, next) = IF cfg.retStack /\ p.type = "Atom" THEN x ELSE y
  BY DEF TakeIndirect
<1> HIDE DEF x, y
<1>3. QED  BY <1>1, <1>2

LEMMA GoPastAlike ==
  ASSUME NEW d, NEW p, NEW ins, NEW next, NEW taken \in BOOLEAN, HasFields(d)
  PROVE  Alike(d, GoPast(d, p, ins, next, taken))
<1> DEFINE b == [d EXCEPT !.addr = ins.target, !.isa = ins.next]
           t == TakeIndirect(d, p, next)
           o == [d EXCEPT !.addr = next, !.isa = ins.next]
           r == GoPast(d, p, ins, next, taken)
<1>1. Alike(d, b) /\ Alike(d, o) /\ Alike(d, t)
  BY TakeIndirectAlike DEF HasFields, Alike
<1>2. r = IF ins.kind = "Br" /\ taken THEN Linked(b, ins, next, d.isa)
          ELSE IF ins.kind = "Ind" /\ taken THEN Linked(t, ins, next, d.isa) ELSE o
  BY DEF GoPast
<1> HIDE DEF b, t, o, r
<1>3. Alike(b, Linked(b, ins, next, d.isa)) /\ Alike(t, Linked(t, ins, next, d.isa))
  BY <1>1, LinkedAlike DEF Alike
<1>4. Alike(d, Linked(b, ins, next, d.isa)) /\ Alike(d, Linked(t, ins, next, d.isa))
  BY <1>1, <1>3, AlikeFollows
<1>5. Alike(d, r)
  BY <1>1, <1>2, <1>4
<1>6. QED  BY <1>5 DEF r

LEMMA AtWaypointTame ==
  ASSUME NEW d, NEW p, NEW taken \in BOOLEAN, NEW ins, NEW next, Good(d)
  PROVE  Tame(d, AtWaypoint(d, p, taken, ins, next))
<1> DEFINE range == RangeOf(d, next, ins.size, taken, p.cc)
           e == Emit(d, "InstrRange", range)
           g == GoPast(e, p, ins, next, taken)
           x == [d EXCEPT !.valid = FALSE, !.err = TRUE]
           stop == ins.kind = "Ind" /\ taken /\ cfg.retStack /\ p.type = "Atom" /\ d.stack = <<>>
<1>1. AtWaypoint(d, p, taken, ins, next) = IF stop THEN x ELSE g
  BY DEF AtWaypoint
<1>2. Alike(d, x)
  BY DEF Good, HasFields, Alike
<1> HIDE DEF range, stop, x
<1>3. Tame(d, e)
  BY EmitTame
<1> HIDE DEF e
<1>4. Good(e) /\ HasFields(e)
  BY <1>3 DEF Tame, Good
<1>5. Alike(e, g)
  BY <1>4, GoPastAlike
<1> HIDE DEF g
<1>6. Tame(e, g) /\ Tame(d, x)
  BY <1>2, <1>4, <1>5, AlikeTame
<1>7. Tame(d, g)
  BY <1>3, <1>6, TameFollows
<1>8. QED  BY <1>1, <1>6, <1>7

LEMMA AtomRangeTame ==
  ASSUME NEW d, NEW p, NEW taken \in BOOLEAN, NEW w, Good(d)
  PROVE  Tame(d, processAtomRange(d, p, taken, w))
<1> DEFINE ins == InstrAt(d.isa, w)
           next == w + InstrAt(d.isa, w).size
           x == [d EXCEPT !.valid = FALSE]
           r == processAtomRange(d, p, taken, w)
<1>1. \/ r = NotInMemory(d, w) \/ r = x \/ r = AtWaypoint(d, p, taken, ins, next)
  BY DEF processAtomRange
<1>2. Alike(d, x)
  BY DEF Good, HasFields, Alike
<1> HIDE DEF ins, next, x, r
<1>3. /\ Tame(d, NotInMemory(d, w)) /\ Tame(d, x)
      /\ Tame(d, AtWaypoint(d, p, taken, ins, next))
  BY <1>2, NotInMemoryTame, AlikeTame, AtWaypointTame
<1>4. Tame(d, r)
  BY <1>1, <1>3
<1>5. QED  BY <1>4 DEF r

LEMMA AfterAtomTame == ASSUME NEW d, NEW p, NEW a, Good(d) PROVE Tame(d, AfterAtom(d, p, a))
<1> DEFINE w == WalkEnd(d, -1)
           taken == a = "E"
<1>1. taken \in BOOLEAN
  OBVIOUS
<1>2. AfterAtom(d, p, a) = IF d.valid THEN processAtomRange(d, p, taken, w) ELSE d
  BY DEF AfterAtom
<1> HIDE DEF w, taken
<1>3. Tame(d, processAtomRange(d, p, taken, w)) /\ Tame(d, d)
  BY <1>1, AtomRangeTame, SelfTame
<1>4. QED  BY <1>2, <1>3


\* The decoder behind k atoms, as processAtom has it for every k.
AtomsOf(d, p, h) ==
  h = [k \in 0..Len(p.atoms) |-> IF k = 0 THEN d ELSE AfterAtom(h[k - 1], p, p.atoms[k])]

\* There is a decoder behind every one of the atoms.
LEMMA AtomsDefined == ASSUME NEW d, NEW p, IsSeq(p.atoms) PROVE \E h : AtomsOf(d, p, h)
<1> DEFINE N == Len(p.atoms)
           Upto(n, h) == h = [k \in 0..n |-> IF k = 0 THEN d ELSE AfterAtom(h[k - 1], p, p.atoms[k])]
           T == {n \in 0..N : \E h : Upto(n, h)}
<1>1. N \in Nat
  BY AnySeqLen
<1>2. 0 \in T
  <2> DEFINE h == [k \in 0..0 |-> d]
  <2>1. Upto(0, h)
    OBVIOUS
  <2> HIDE DEF Upto, h
  <2>2. QED  BY <1>1, <2>1
<1>3. ASSUME NEW n \in 1..N, n - 1 \in T PROVE n \in T
  <2>1. PICK h : Upto(n - 1, h)
    BY <1>3
  <2> DEFINE v == AfterAtom(h[n - 1], p, p.atoms[n])
             g == [k \in 0..n |-> IF k = n THEN v ELSE h[k]]
  <2>2. ASSUME NEW k \in 0..n
        PROVE  g[k] = IF k = 0 THEN d ELSE AfterAtom(g[k - 1], p, p.atoms[k])
    <3>1. CASE k = 0
      <4>1. g[k] = h[0] /\ 0 \in 0..(n - 1)
        BY <1>1, <3>1
      <4>2. h[0] = d
        BY <2>1, <4>1
      <4>3. QED  BY <3>1, <4>1, <4>2
    <3>2. CASE k # 0
      <4>1. k - 1 \in 0..n /\ k - 1 # n
        BY <1>1, <3>2
      <4>2. g[k - 1] = h[k - 1]
        BY <4>1
      <4>3. CASE k = n
        BY <3>2, <4>2, <4>3
      <4>4. CASE k # n
        <5>1. k \in 0..(n - 1) /\ g[k] = h[k]
          BY <1>1, <4>4
        <5> HIDE DEF g
        <5>2. h[k] = AfterAtom(h[k - 1], p, p.atoms[k])
          BY <2>1, <3>2, <5>1
        <5>3. QED  BY <3>2, <4>2, <5>1, <5>2
      <4>5. QED  BY <4>3, <4>4
    <3>3. QED  BY <3>1, <3>2
  <2>3. Upto(n, g)
    <3>1. g = [k \in 0..n |-> g[k]]
      OBVIOUS
    <3> HIDE DEF g
    <3>2. QED  BY <2>2, <3>1
  <2> HIDE DEF Upto
  <2>4. QED  BY <2>3
<1>4. 0..N \subseteq T
  <2> HIDE DEF T, N
  <2>1. \A n \in 1..N : n - 1 \in T => n \in T
    BY <1>3
  <2>2. QED  BY <1>1, <1>2, <2>1, IntervalInduction
<1>5. N \in T
  BY <1>1, <1>4
<1>6. PICK h : Upto(N, h)
  BY <1>5
<1>7. AtomsOf(d, p, h)
  BY <1>6 DEF AtomsOf
<1>8. QED  BY <1>7

LEMMA AtomTame ==
  ASSUME NEW d, NEW p, IsSeq(p.atoms), Good(d)
  PROVE  Tame(d, processAtom(d, p))
<1> DEFINE N == Len(p.atoms)
           g == CHOOSE h : AtomsOf(d, p, h)
           T == {k \in 0..N : Tame(d, g[k])}
<1>1. N \in Nat
  BY AnySeqLen
<1>2. AtomsOf(d, p, g)
  BY AtomsDefined
<1>3. processAtom(d, p) = g[N]
  BY DEF processAtom, AtomsOf
<1> HIDE DEF g
<1>4. \A k \in 0..N : g[k] = IF k = 0 THEN d ELSE AfterAtom(g[k - 1], p, p.atoms[k])
  BY <1>2 DEF AtomsOf
<1>5. 0 \in T
  BY <1>1, <1>4, SelfTame
<1>6. ASSUME NEW k \in 1..N, k - 1 \in T PROVE k \in T
  <2>1. k \in 0..N /\ k # 0 /\ Tame(d, g[k - 1])
    BY <1>6
  <2>2. g[k] = AfterAtom(g[k - 1], p, p.atoms[k])
    BY <1>4, <2>1
  <2>3. Good(g[k - 1])
    BY <2>1 DEF Tame
  <2>4. Tame(g[k - 1], g[k])
    BY <2>2, <2>3, AfterAtomTame
  <2>5. Tame(d, g[k])
    BY <2>1, <2>4, TameFollows
  <2>6. QED  BY <2>1, <2>5
<1>7. 0..N \subseteq T
  <2> HIDE DEF T, N
  <2>1. \A k \in 1..N : k - 1 \in T => k \in T
    BY <1>6
  <2>2. QED  BY <1>1, <1>5, <2>1, IntervalInduction
<1>8. N \in T
  BY <1>1, <1>7
<1>9. QED  BY <1>3, <1>8

LEMMA IsyncTame == ASSUME NEW d, NEW p, Good(d) PROVE Tame(d, processIsync(d, p))
<1> DEFINE here == [d EXCEPT !.addr = p.addr, !.isa = p.isa, !.valid = TRUE, !.ns = p.ns,
                             !.ctxt = IF p.updatedC THEN p.ctxt ELSE @,
                             !.ctxtValid = @ \/ p.updatedC, !.needIsync = FALSE]
           why  == [reason |-> p.reason, cc |-> p.cc]
           on   == Emit(here, "TraceOn", why)
           full == IF p.isa # p.prevISA \/ p.updatedC THEN Emit(on, "PeContext", Context(on)) ELSE on
           e    == IF d.needIsync \/ p.reason # 0 THEN full ELSE here
           r    == [e EXCEPT !.stack = <<>>]
<1>1. processIsync(d, p) = r
  BY DEF processIsync, flush
<1>2. Alike(d, here)
  BY DEF Good, HasFields, Alike
<1> HIDE DEF here, why
<1>3. Tame(d, here)
  BY <1>2, AlikeTame
<1>4. Tame(here, on)
  BY <1>3, EmitTame DEF Tame
<1> HIDE DEF on
<1>5. Tame(on, Emit(on, "PeContext", Context(on))) /\ Tame(on, on)
  BY <1>4, EmitTame, SelfTame DEF Tame
<1>6. Tame(on, full)
  BY <1>5
<1> HIDE DEF full
<1>7. Tame(d, full)
  BY <1>3, <1>4, <1>6, TameFollows
<1>8. Tame(d, e)
  BY <1>3, <1>7
<1> HIDE DEF e
<1>9. Alike(e, r) /\ Good(e)
  BY <1>8 DEF Tame, Good, HasFields, Alike
<1>10. Tame(e, r)
  BY <1>9, AlikeTame
<1>11. QED  BY <1>1, <1>8, <1>10, TameFollows

LEMMA BranchTame == ASSUME NEW d, NEW p, Good(d) PROVE Tame(d, processBranch(d, p))
<1> DEFINE exc == [num |-> p.exc, cc |-> p.cc, ret |-> IF d.valid THEN d.addr ELSE -1]
           w == WalkEnd(d, -1)
           before == IF p.exc # -1 THEN Emit(d, "Exception", exc)
                     ELSE IF d.valid THEN processAtomRange(d, p, TRUE, w) ELSE d
           r == [before EXCEPT !.isa = p.isa, !.addr = p.addr, !.valid = TRUE]
<1>1. processBranch(d, p) = r
  BY DEF processBranch
<1> HIDE DEF exc, w
<1>2. Tame(d, Emit(d, "Exception", exc)) /\ Tame(d, d) /\ Tame(d, processAtomRange(d, p, TRUE, w))
  BY EmitTame, SelfTame, AtomRangeTame
<1>3. Tame(d, before)
  BY <1>2
<1> HIDE DEF before
<1>4. Alike(before, r) /\ Good(before)
  BY <1>3 DEF Tame, Good, HasFields, Alike
<1>5. Tame(before, r)
  BY <1>4, AlikeTame
<1>6. QED  BY <1>1, <1>3, <1>5, TameFollows

LEMMA WPUpdateTame == ASSUME NEW d, NEW p, Good(d) PROVE Tame(d, processWPUpdate(d, p))
<1> DEFINE w == WalkEnd(d, p.addr)
<1>1. processWPUpdate(d, p) = IF d.valid THEN processAtomRange(d, p, TRUE, w) ELSE d
  BY DEF processWPUpdate
<1> HIDE DEF w
<1>2. Tame(d, d) /\ Tame(d, processAtomRange(d, p, TRUE, w))
  BY SelfTame, AtomRangeTame
<1>3. QED  BY <1>1, <1>2

LEMMA ContextTame == ASSUME NEW d, NEW p, Good(d) PROVE Tame(d, NewContextID(d, p)) /\ Tame(d, NewVMID(d, p))
<1> DEFINE x == [d EXCEPT !.ctxt = p.ctxt, !.ctxtValid = TRUE]
           y == [d EXCEPT !.vmid = p.vmid, !.vmidValid = TRUE]
<1>1. /\ NewContextID(d, p) = d \/ NewContextID(d, p) = Emit(x, "PeContext", Context(x))
      /\ NewVMID(d, p) = d \/ NewVMID(d, p) = Emit(y, "PeContext", Context(y))
  BY DEF NewContextID, NewVMID
<1>2. Alike(d, x) /\ Alike(d, y)
  BY DEF Good, HasFields, Alike
<1> HIDE DEF x, y
<1>3. Tame(d, x) /\ Tame(d, y) /\ Tame(d, d)
  BY <1>2, AlikeTame, SelfTame
<1>4. Tame(x, Emit(x, "PeContext", Context(x))) /\ Tame(y, Emit(y, "PeContext", Context(y)))
  BY <1>3, EmitTame DEF Tame
<1>5. Tame(d, Emit(x, "PeContext", Context(x))) /\ Tame(d, Emit(y, "PeContext", Context(y)))
  BY <1>3, <1>4, TameFollows
<1>6. QED  BY <1>1, <1>3, <1>5


----------------------------------------------------------------------------
(* What a packet makes of the decoder.                                     *)

\* Out of order, or not read: one element, which reports the loss.
LoneLoss(o, i) == \E x : o = <<x>> /\ x.index = i

\* What comes out in sync.
Follows(o, i) == IsSeq(o) /\ \A j \in 1..Len(o) : o[j].index = i /\ o[j].kind # "NoSync"

LEMMA DecodedPacket ==
  ASSUME NEW d, NEW p, Good(d), IsSeq(p.atoms), d.state = "Pkts", d.out = <<>>
  PROVE  LET r == decodePacket(d, p)
         IN  /\ HasFields(r)
             /\ \/ /\ p.type # "ISync" /\ r.state = "WaitSync" /\ LoneLoss(r.out, d.index)
                \/ r.state = "Pkts" /\ Follows(r.out, d.index)
<1> DEFINE r == decodePacket(d, p)
<1>1. CASE p.type \in {"BadSequence", "Reserved"}
  <2> DEFINE e == [d EXCEPT !.state = "WaitSync", !.needIsync = TRUE]
             x == Elem(e, "NoSync", "")
  <2>1. r = Emit(e, "NoSync", "")
    BY <1>1 DEF decodePacket, LoseSync
  <2>2. HasFields(e) /\ e.state = "WaitSync" /\ e.index = d.index /\ e.out = <<>>
    BY DEF Good, HasFields
  <2> HIDE DEF e
  <2>3. x.index = d.index
    BY <2>2 DEF Elem
  <2>4. HasFields(r) /\ r.state = "WaitSync" /\ r.out = Append(<<>>, x)
    BY <2>1, <2>2 DEF Emit, HasFields
  <2> HIDE DEF x
  <2>5. Append(<<>>, x) = <<x>>
    OBVIOUS
  <2>6. LoneLoss(r.out, d.index)
    BY <2>3, <2>4, <2>5 DEF LoneLoss
  <2>7. QED  BY <1>1, <2>4, <2>6
<1>2. CASE p.type \notin {"BadSequence", "Reserved"}
  <2> DEFINE ts == [ts |-> p.ts, cc |-> p.cc]
  <2>1. \/ r = processIsync(d, p) \/ r = processBranch(d, p) \/ r = Emit(d, "Event", "Trigger")
        \/ r = processWPUpdate(d, p) \/ r = NewContextID(d, p) \/ r = NewVMID(d, p)
        \/ r = processAtom(d, p) \/ r = Emit(d, "Timestamp", ts) \/ r = Emit(d, "ExceptionRet", "")
        \/ r = d
    BY <1>2 DEF decodePacket
  <2> HIDE DEF ts
  <2>2. /\ Tame(d, processIsync(d, p)) /\ Tame(d, processBranch(d, p))
        /\ Tame(d, processWPUpdate(d, p)) /\ Tame(d, processAtom(d, p))
    BY IsyncTame, BranchTame, WPUpdateTame, AtomTame
  <2>3. /\ Tame(d, NewContextID(d, p)) /\ Tame(d, NewVMID(d, p)) /\ Tame(d, d)
    BY ContextTame, SelfTame
  <2>4. /\ Tame(d, Emit(d, "Event", "Trigger")) /\ Tame(d, Emit(d, "Timestamp", ts))
        /\ Tame(d, Emit(d, "ExceptionRet", ""))
    BY EmitTame
  <2>5. Tame(d, r)
    BY <2>1, <2>2, <2>3, <2>4
  <2> HIDE DEF r
  <2>6. HasFields(r) /\ r.state = "Pkts" /\ Follows(r.out, d.index)
    BY <2>5 DEF Tame, Good, OutOK, Follows
  <2>7. QED  BY <2>6 DEF r
<1>3. QED  BY <1>1, <1>2

\* The decoder d, handed p at index i, becomes r.
Effect(d, p, i, r) ==
  /\ HasFields(r)
  /\ d.state = "NoSync" => /\ r.state = IF p.type = "ASync" THEN "WaitISync" ELSE "WaitSync"
                           /\ LoneLoss(r.out, i)
  /\ d.state = "WaitSync" => /\ r.state = IF p.type = "ASync" THEN "WaitISync" ELSE "WaitSync"
                             /\ r.out = <<>>
  /\ d.state = "WaitISync" =>
       \/ r.state = "WaitISync" /\ r.out = <<>>
       \/ p.type = "ISync" /\ r.state = "Pkts" /\ Follows(r.out, i)
  /\ d.state = "Pkts" =>
       \/ r.state = "WaitSync" /\ LoneLoss(r.out, i)
       \/ r.state = "Pkts" /\ Follows(r.out, i)

LEMMA Processed ==
  ASSUME NEW d, NEW p, NEW i, HasFields(d), d.out = <<>>, d.state \in States, IsSeq(p.atoms)
  PROVE  Effect(d, p, i, processPacket(d, p, i))
<1> DEFINE e == [d EXCEPT !.index = i]
           g == [e EXCEPT !.state = "Pkts"]
           r == processPacket(d, p, i)
<1>1. HasFields(e) /\ e.state = d.state /\ e.index = i /\ e.out = <<>>
  BY DEF HasFields
<1>2. HasFields(g) /\ g.state = "Pkts" /\ g.index = i /\ g.out = <<>>
  BY DEF HasFields
<1>3. r = CASE e.state = "NoSync" -> Waiting(Emit(e, "NoSync", e.unsync), p.type)
            [] e.state = "WaitSync" -> Waiting(e, p.type)
            [] e.state = "WaitISync" -> IF p.type = "ISync" THEN decodePacket(g, p) ELSE e
            [] e.state = "Pkts" -> decodePacket(e, p)
  BY DEF processPacket
<1> HIDE DEF e, g, r
<1>4. OutOK(e) /\ OutOK(g)
  BY <1>1, <1>2, AnyEmpty DEF OutOK
<1>5. CASE d.state = "NoSync"
  <2> DEFINE x == Elem(e, "NoSync", e.unsync)
             l == Emit(e, "NoSync", e.unsync)
  <2>1. x.index = i
    BY <1>1 DEF Elem
  <2>2. HasFields(l) /\ l.out = Append(<<>>, x)
    BY <1>1 DEF Emit, HasFields
  <2>3. r = Waiting(l, p.type)
    BY <1>1, <1>3, <1>5
  <2> HIDE DEF x, l
  <2>4. /\ HasFields(r) /\ r.out = Append(<<>>, x)
        /\ r.state = IF p.type = "ASync" THEN "WaitISync" ELSE "WaitSync"
    BY <2>2, <2>3 DEF Waiting, HasFields
  <2>5. Append(<<>>, x) = <<x>>
    OBVIOUS
  <2>6. LoneLoss(r.out, i)
    BY <2>1, <2>4, <2>5 DEF LoneLoss
  <2>7. QED  BY <1>5, <2>4, <2>6 DEF Effect, r
<1>6. CASE d.state = "WaitSync"
  <2>1. r = Waiting(e, p.type)
    BY <1>1, <1>3, <1>6
  <2>2. /\ HasFields(r) /\ r.out = <<>>
        /\ r.state = IF p.type = "ASync" THEN "WaitISync" ELSE "WaitSync"
    BY <1>1, <2>1 DEF Waiting, HasFields
  <2>3. QED  BY <1>6, <2>2 DEF Effect, r
<1>7. CASE d.state = "WaitISync"
  <2>1. r = IF p.type = "ISync" THEN decodePacket(g, p) ELSE e
    BY <1>1, <1>3, <1>7
  <2>2. CASE p.type = "ISync"
    <3>1. r = decodePacket(g, p)
      BY <2>1, <2>2
    <3>2. HasFields(r) /\ r.state = "Pkts" /\ Follows(r.out, i)
      BY <1>2, <1>4, <2>2, <3>1, DecodedPacket DEF Good
    <3>3. QED  BY <1>7, <2>2, <3>2 DEF Effect, r
  <2>3. CASE p.type # "ISync"
    BY <1>1, <1>7, <2>1, <2>3 DEF Effect, r
  <2>4. QED  BY <2>2, <2>3
<1>8. CASE d.state = "Pkts"
  <2>1. r = decodePacket(e, p)
    BY <1>1, <1>3, <1>8
  <2>2. /\ HasFields(r)
        /\ \/ r.state = "WaitSync" /\ LoneLoss(r.out, i)
           \/ r.state = "Pkts" /\ Follows(r.out, i)
    BY <1>1, <1>4, <1>8, <2>1, DecodedPacket DEF Good
  <2>3. QED  BY <1>8, <2>2 DEF Effect, r
<1>9. QED  BY <1>5, <1>6, <1>7, <1>8 DEF States


----------------------------------------------------------------------------
(* Bytes of a packet are read.                                             *)

LEMMA AppendNotEmpty == ASSUME NEW s, NEW x, IsSeq(s) PROVE IsSeq(Append(s, x)) /\ Append(s, x) # <<>>
<1>1. Append(s, x) = s \o <<x>>
  BY AnyAppend
<1>2. IsSeq(s \o <<x>>) /\ Len(s) \in Nat /\ Len(s \o <<x>>) = Len(s) + 1
  BY AnyOneMore
<1>3. Len(<<>>) = 0
  BY AnyEmpty
<1>4. s \o <<x>> # <<>>
  BY <1>2, <1>3
<1>5. QED  BY <1>1, <1>2, <1>4

Reading ==
  /\ pc = "loop" /\ ps \in {"ProcHdr", "ProcData"}
  /\ pos' = pos + 1 /\ scratch' = Append(scratch, Byte)
  /\ pktIndex' = IF ps = "ProcHdr" THEN pos ELSE pktIndex
  /\ ps' \in {"ProcData", "SendPkt"} /\ WellFormed(pkt')
  /\ UNCHANGED <<cfg, closed, pc, dec, obs, elems>>

LEMMA ProcHdrReads == WellFormed(pkt) /\ ProcHdr => Reading
<1> SUFFICES ASSUME WellFormed(pkt), ProcHdr PROVE Reading
  OBVIOUS
<1> DEFINE type == headerToPacketType(Byte)
           g    == HeaderFields(type, Byte)
           p    == [pkt EXCEPT !.type = type]
<1>1. /\ pc = "loop" /\ ps = "ProcHdr" /\ pos' = pos + 1
      /\ pktIndex' = pos /\ scratch' = Append(scratch, Byte)
      /\ UNCHANGED <<cfg, closed, pc, dec, obs, elems>>
  BY DEF ProcHdr, Turn, ReadByte, inputVars, outVars
<1>2. \/ ps' = "SendPkt" /\ pkt' = Complete(p, g, scratch')
      \/ ps' = "ProcData" /\ pkt' = p
  BY DEF ProcHdr
<1>3. WellFormed(p)
  BY DEF WellFormed
<1> HIDE DEF g, p
<1>4. WellFormed(Complete(p, g, scratch'))
  BY <1>3, CompleteKeeps
<1>5. ps' \in {"ProcData", "SendPkt"} /\ WellFormed(pkt')
  BY <1>2, <1>3, <1>4
<1>6. QED  BY <1>1, <1>5 DEF Reading

LEMMA NextByteReads ==
  ASSUME NEW g, NEW done, NEW type, WellFormed(pkt), Handles(type), NextByte(g, done)
  PROVE  Reading
<1>1. /\ pc = "loop" /\ ps = "ProcData" /\ pos' = pos + 1
      /\ UNCHANGED pktIndex /\ scratch' = Append(scratch, Byte)
      /\ UNCHANGED <<cfg, closed, pc, dec, obs, elems>>
  BY DEF Handles, NextByte, Turn, ReadByte, inputVars, outVars
<1>2. \/ ps' = "SendPkt" /\ pkt' = Complete(pkt, g, scratch')
      \/ ps' = ps /\ pkt' = pkt
  BY DEF NextByte
<1>3. WellFormed(Complete(pkt, g, scratch'))
  BY CompleteKeeps
<1>4. ps' \in {"ProcData", "SendPkt"} /\ WellFormed(pkt')
  BY <1>1, <1>2, <1>3
<1>5. QED  BY <1>1, <1>4 DEF Reading

LEMMA ASyncReads == WellFormed(pkt) /\ packetASync => Reading
<1> SUFFICES ASSUME WellFormed(pkt), packetASync PROVE Reading
  OBVIOUS
<1>1. /\ pc = "loop" /\ ps = "ProcData" /\ pos' = pos + 1
      /\ UNCHANGED pktIndex /\ scratch' = Append(scratch, Byte)
      /\ UNCHANGED <<cfg, closed, pc, dec, obs, elems>>
  BY DEF packetASync, Handles, Turn, ReadByte, inputVars, outVars
<1>2. /\ ps' = "SendPkt" \/ ps' = ps
      /\ pkt' = pkt \/ pkt' = [pkt EXCEPT !.type = "BadSequence"]
  BY DEF packetASync
<1>3. WellFormed([pkt EXCEPT !.type = "BadSequence"])
  BY DEF WellFormed
<1>4. ps' \in {"ProcData", "SendPkt"} /\ WellFormed(pkt')
  BY <1>1, <1>2, <1>3
<1>5. QED  BY <1>1, <1>4 DEF Reading

LEMMA HandlersRead ==
  ASSUME WellFormed(pkt),
         \/ ProcHdr \/ pktBranchAddr \/ packetWPointUpdate \/ packetISync \/ pktCtxtID \/ packetVMID
         \/ packetAtom \/ packetTimestamp \/ packetASync
  PROVE  Reading
<1>1. CASE ProcHdr
  BY <1>1, ProcHdrReads
<1>2. CASE pktBranchAddr
  BY <1>2, NextByteReads DEF pktBranchAddr
<1>3. CASE packetWPointUpdate
  BY <1>3, NextByteReads DEF packetWPointUpdate
<1>4. CASE packetISync
  BY <1>4, NextByteReads DEF packetISync
<1>5. CASE pktCtxtID
  BY <1>5, NextByteReads DEF pktCtxtID
<1>6. CASE packetVMID
  BY <1>6, NextByteReads DEF packetVMID
<1>7. CASE packetAtom
  BY <1>7, NextByteReads DEF packetAtom
<1>8. CASE packetTimestamp
  BY <1>8, NextByteReads DEF packetTimestamp
<1>9. CASE packetASync
  BY <1>9, ASyncReads
<1>10. QED  BY <1>1, <1>2, <1>3, <1>4, <1>5, <1>6, <1>7, <1>8, <1>9

LEMMA ReadingKeeps == IInv /\ Reading => IInv'
<1> SUFFICES ASSUME IInv, Reading PROVE IInv'
  OBVIOUS
<1>1. IsSeq(scratch') /\ scratch' # <<>>
  BY AppendNotEmpty DEF IInv, Typed, Reading
<1>2. Typed'
  BY <1>1 DEF IInv, Typed, Reading
<1>3. Control'
  BY <1>1 DEF IInv, Control, Reading
<1>4. BeforeSync'
  BY DEF IInv, BeforeSync, Reading
<1>5. Edge' = Edge
  BY DEF Reading, Edge
<1>6. Indexed'
  <2> SUFFICES ASSUME ~closed, Followed PROVE pktIndex' \in Nat /\ pktIndex' < pos'
    BY DEF Indexed, Followed, Reading
  <2>1. pos \in Nat /\ pos' = pos + 1
    BY DEF IInv, Typed, Reading
  <2>2. CASE ps = "ProcHdr"
    BY <2>1, <2>2 DEF Reading
  <2>3. CASE ps = "ProcData"
    <3>1. pktIndex \in Nat /\ pktIndex < pos /\ pktIndex' = pktIndex
      BY <2>3 DEF IInv, Indexed, Reading
    <3>2. QED  BY <2>1, <3>1
  <2>4. QED  BY <2>2, <2>3 DEF Reading
<1>7. Behind'
  <2>1. \A i : Since(i) => Since(i)'
    BY <1>5 DEF Since, Come, Reading
  <2>2. closed' = closed /\ cfg' = cfg /\ elems' = elems
    BY DEF Reading
  <2>3. QED  BY <2>1, <2>2 DEF IInv, Behind
<1>8. ResyncedBehindBad'
  BY DEF IInv, ResyncedBehindBad, Reading
<1>9. QED  BY <1>2, <1>3, <1>4, <1>6, <1>7, <1>8 DEF IInv


----------------------------------------------------------------------------
(* The search for the first sync.                                          *)

LEMMA FromIsSeq == ASSUME NEW s, NEW k \in Nat \ {0}, IsSeq(s) PROVE IsSeq(From(s, k))
<1>1. PICK S : s \in Seq(S)
  BY DEF IsSeq
<1>2. Len(s) \in Nat
  BY AnySeqLen
<1>3. CASE k <= Len(s) + 1
  <2>1. \A j \in k..Len(s) : s[j] \in S
    BY <1>1, <1>2, ElementOfSeq
  <2>2. SubSeq(s, k, Len(s)) \in Seq(S)
    BY <1>1, <1>2, <1>3, <2>1, SubSeqProperties
  <2>3. QED  BY <2>2 DEF IsSeq, From
<1>4. CASE k > Len(s) + 1
  <2>1. SubSeq(s, k, Len(s)) = <<>>
    BY <1>1, <1>2, <1>4
  <2>2. QED  BY <2>1, AnyEmpty DEF From
<1>5. QED  BY <1>2, <1>3, <1>4

LEMMA SeenIsSeq == ASSUME NEW p, NEW i, NEW raw PROVE IsSeq(Seen(p, i, raw))
<1>1. IsSeq(<<[index |-> i, raw |-> raw, pkt |-> Shown(p)]>>)
  BY AnySingle
<1>2. QED  BY <1>1, AnyEmpty DEF Seen

Searching ==
  /\ ps = "WaitSync" /\ pc \in {"loop", "sync"} /\ pos' \in {pos, pos + 1}
  /\ IsSeq(scratch') /\ IsSeq(obs') /\ WellFormed(pkt')
  /\ \/ ps' = "WaitSync" /\ pc' \in {"loop", "sync", "panic"} /\ pkt'.type = "NotSync"
     \/ ps' = "SendPkt" /\ pc' = "loop" /\ scratch' # <<>>
  /\ \/ UNCHANGED <<dec, elems>>
     \/ \E i : Decoded(processPacket(dec, pkt, i))
  /\ UNCHANGED <<cfg, closed>>

LEMMA SyncTurnSearches ==
  ASSUME IInv, NEW w, NEW s, SyncTurn(w, s), pc = "sync", ReadByte, IsSeq(s), IsAsync => s # <<>>
  PROVE  Searching
<1>1. /\ ps = "WaitSync" /\ ~closed /\ pkt.type = "NotSync" /\ WellFormed(pkt)
      /\ IsSeq(obs)
  BY DEF IInv, Typed, Control, BeforeSync
<1>2. pos' = pos + 1 /\ scratch' = s /\ UNCHANGED <<cfg, closed>>
  BY DEF SyncTurn, ReadByte, inputVars
<1>3. \/ UNCHANGED <<dec, elems>>
      \/ \E i : Decoded(processPacket(dec, pkt, i))
  BY DEF SyncTurn, outVars
<1>4. IsSeq(obs')
  <2>1. CASE ~Sends
    BY <1>1, <2>1 DEF SyncTurn, outVars
  <2>2. CASE Sends
    <3> DEFINE late == IF cfg.observer THEN sync.onEntry ELSE 0
               x == Seen(pkt, pktIndex, Zeros(late))
               y == Seen(pkt, pktIndex + late, UnsyncedRaw(UnsyncedAfter))
    <3>1. obs' = obs \o x \o y
      BY <2>2 DEF SyncTurn
    <3>2. IsSeq(x) /\ IsSeq(y)
      BY SeenIsSeq
    <3> HIDE DEF x, y
    <3>3. IsSeq(obs \o x)
      BY <1>1, <3>2, AnyConcat
    <3>4. IsSeq((obs \o x) \o y)
      BY <3>2, <3>3, AnyConcat
    <3>5. QED  BY <3>1, <3>4
  <2>3. QED  BY <2>1, <2>2
<1>5. CASE IsAsync
  <2>1. ps' = "SendPkt" /\ pc' = "loop" /\ pkt' = [pkt EXCEPT !.type = "ASync"]
    BY <1>5 DEF SyncTurn, SyncDone
  <2>2. WellFormed(pkt')
    BY <1>1, <2>1 DEF WellFormed
  <2>3. QED  BY <1>1, <1>2, <1>3, <1>4, <1>5, <2>1, <2>2 DEF Searching
<1>6. CASE ~IsAsync
  <2>1. ps' = ps /\ pc' \in {"loop", "sync"} /\ pkt' = pkt
    BY <1>6 DEF SyncTurn
  <2>2. QED  BY <1>1, <1>2, <1>3, <1>4, <2>1 DEF Searching
<1>7. QED  BY <1>5, <1>6

LEMMA SyncScanSearches == IInv /\ SyncScan => Searching
<1> SUFFICES ASSUME IInv, SyncScan PROVE Searching
  OBVIOUS
<1>1. pc = "sync" /\ ReadByte /\ ~IsAsync /\ IsSeq(scratch)
  BY DEF SyncScan, IsAsync, IInv, Typed
<1>2. IsSeq(Append(scratch, 0)) /\ IsSeq(<<>>)
  BY <1>1, AppendNotEmpty, AnyEmpty
<1>3. \/ SyncTurn([sync EXCEPT !.wait = TRUE, !.async0 = 1], Append(scratch, 0))
      \/ SyncTurn(sync, <<>>)
  BY DEF SyncScan
<1>4. QED  BY <1>1, <1>2, <1>3, SyncTurnSearches

LEMMA SyncZerosSearches == IInv /\ SyncZeros => Searching
<1> SUFFICES ASSUME IInv, SyncZeros PROVE Searching
  OBVIOUS
<1>1. pc = "sync" /\ ReadByte /\ IsSeq(scratch)
  BY DEF SyncZeros, IInv, Typed
<1> DEFINE t == From(Append(scratch, 0), asyncPad0Limit + 1)
<1>2. /\ IsSeq(Append(scratch, 0)) /\ IsSeq(<<>>) /\ IsSeq(Append(scratch, AsShown(Byte)))
      /\ Append(scratch, AsShown(Byte)) # <<>>
  BY <1>1, AppendNotEmpty, AnyEmpty
<1>3. IsSeq(t)
  <2>1. asyncPad0Limit + 1 \in Nat \ {0}
    BY DEF asyncPad0Limit
  <2>2. QED  BY <1>2, <2>1, FromIsSeq
<1> HIDE DEF t
<1>4. CASE IsAsync /\ SyncTurn([sync EXCEPT !.wait = FALSE], Append(scratch, AsShown(Byte)))
  BY <1>1, <1>2, <1>4, SyncTurnSearches
<1>5. CASE Throws0 /\ SyncTurn([sync EXCEPT !.wait = FALSE, !.async0 = @ + 1], t)
  <2>1. ~IsAsync
    BY <1>5 DEF Throws0, IsAsync
  <2>2. QED  BY <1>1, <1>3, <1>5, <2>1, SyncTurnSearches
<1>6. CASE Byte = 0 /\ SyncTurn([sync EXCEPT !.async0 = @ + 1], Append(scratch, 0))
  <2>1. ~IsAsync
    BY <1>6 DEF IsAsync
  <2>2. QED  BY <1>1, <1>2, <1>6, <2>1, SyncTurnSearches
<1>7. CASE ~IsAsync /\ SyncTurn([sync EXCEPT !.wait = FALSE], <<>>)
  BY <1>1, <1>2, <1>7, SyncTurnSearches
<1>8. QED  BY <1>4, <1>5, <1>6, <1>7 DEF SyncZeros, t

LEMMA SyncSearchSearches == IInv /\ (SyncSearch \/ SyncPanics) => Searching
<1> SUFFICES ASSUME IInv, SyncSearch \/ SyncPanics PROVE Searching
  OBVIOUS
<1>1. IsSeq(scratch) /\ IsSeq(obs) /\ WellFormed(pkt)
  BY DEF IInv, Typed
<1>2. CASE SyncPanics
  <2>1. ps = "WaitSync" /\ pc = "sync" /\ ~closed /\ pkt.type = "NotSync"
    BY <1>2 DEF SyncPanics, IInv, Control, BeforeSync
  <2>2. pc' = "panic" /\ UNCHANGED <<cfg, closed, pos, ps, scratch, pkt, dec, obs, elems>>
    BY <1>2 DEF SyncPanics, inputVars, outVars
  <2>3. QED  BY <1>1, <2>1, <2>2 DEF Searching
<1>3. CASE SyncSearch
  <2>1. ps = "WaitSync" /\ pc = "loop" /\ ~closed /\ pkt.type = "NotSync"
    BY <1>3 DEF SyncSearch, Turn, IInv, Control, BeforeSync
  <2>2. pc' = "sync" /\ UNCHANGED <<cfg, closed, pos, ps, scratch, dec, obs, elems>>
    BY <1>3 DEF SyncSearch, inputVars, outVars
  <2>3. pkt' = pkt \/ pkt' = [pkt EXCEPT !.type = "NotSync"]
    BY <1>3 DEF SyncSearch
  <2>4. WellFormed(pkt') /\ pkt'.type = "NotSync"
    BY <1>1, <2>1, <2>3 DEF WellFormed
  <2>5. QED  BY <1>1, <2>1, <2>2, <2>4 DEF Searching
<1>4. QED  BY <1>2, <1>3


\* The decoder behind a packet, ready for the next.
LEMMA DecodedFields ==
  ASSUME NEW r, HasFields(r), Decoded(r)
  PROVE  HasFields(dec') /\ dec'.state = r.state /\ dec'.out = <<>> /\ elems' = elems \o r.out
BY DEF HasFields, Decoded

\* Until the first sync has been handed over.
LEMMA SearchedElems ==
  ASSUME IInv, Searching
  PROVE  /\ ~closed /\ IsSeq(elems') /\ Len(elems') <= 1
         /\ HasFields(dec') /\ dec'.out = <<>> /\ dec'.state \in {"NoSync", "WaitSync"}
         /\ dec'.state = "NoSync" => elems' = <<>>
<1>1. /\ ~closed /\ IsSeq(elems) /\ Len(elems) <= 1 /\ pkt.type = "NotSync" /\ WellFormed(pkt)
      /\ HasFields(dec) /\ dec.out = <<>> /\ dec.state \in {"NoSync", "WaitSync"}
      /\ dec.state = "NoSync" => elems = <<>>
  <2>1. ~closed /\ ps = "WaitSync"
    BY DEF IInv, Control, Searching
  <2>2. QED  BY <2>1 DEF IInv, Typed, BeforeSync
<1>2. CASE UNCHANGED <<dec, elems>>
  BY <1>1, <1>2
<1>3. ASSUME NEW i, Decoded(processPacket(dec, pkt, i))
      PROVE  /\ IsSeq(elems') /\ Len(elems') <= 1
             /\ HasFields(dec') /\ dec'.out = <<>> /\ dec'.state = "WaitSync"
  <2> DEFINE r == processPacket(dec, pkt, i)
  <2>1. Effect(dec, pkt, i, r)
    BY <1>1, Processed DEF States, WellFormed
  <2> HIDE DEF r
  <2>2. HasFields(r) /\ r.state = "WaitSync" /\ Decoded(r)
    BY <1>1, <1>3, <2>1 DEF Effect, r
  <2>3. HasFields(dec') /\ dec'.state = "WaitSync" /\ dec'.out = <<>> /\ elems' = elems \o r.out
    BY <2>2, DecodedFields
  <2>4. CASE dec.state = "NoSync"
    <3>1. PICK x : r.out = <<x>>
      BY <2>1, <2>4 DEF Effect, LoneLoss
    <3>2. IsSeq(<<>>) /\ Len(<<>>) = 0
      BY AnyEmpty
    <3>3. IsSeq(<<>> \o <<x>>) /\ Len(<<>> \o <<x>>) = Len(<<>>) + 1
      BY <3>2, AnyOneMore
    <3>4. elems' = <<>> \o <<x>>
      BY <1>1, <2>3, <2>4, <3>1
    <3>5. Len(elems') <= 1
      BY <3>2, <3>3, <3>4
    <3>6. QED  BY <2>3, <3>3, <3>4, <3>5
  <2>5. CASE dec.state = "WaitSync"
    <3>1. r.out = <<>>
      BY <2>1, <2>5 DEF Effect
    <3>2. elems' = elems
      BY <1>1, <2>3, <3>1, AnyNoMore
    <3>3. QED  BY <1>1, <2>3, <3>2
  <2>6. QED  BY <1>1, <2>4, <2>5
<1>4. QED  BY <1>1, <1>2, <1>3 DEF Searching

\* While there is no more than one element, nothing is claimed of the elements.
LEMMA FewElems ==
  ASSUME IsSeq(elems'), Len(elems') <= 1, dec'.state \in {"NoSync", "WaitSync"}
  PROVE  Indexed' /\ Behind' /\ ResyncedBehindBad'
<1>1. Len(elems') \in Nat
  BY AnySeqLen
<1>2. ~(Followed')
  BY <1>1 DEF Followed
<1>3. \A k \in 2..Len(elems') : FALSE
  BY <1>1
<1>4. QED  BY <1>2, <1>3 DEF Indexed, Behind, ResyncedBehindBad

LEMMA SearchingKeeps == IInv /\ Searching => IInv'
<1> SUFFICES ASSUME IInv, Searching PROVE IInv'
  OBVIOUS
<1>1. /\ ~closed /\ IsSeq(elems') /\ Len(elems') <= 1
      /\ HasFields(dec') /\ dec'.out = <<>> /\ dec'.state \in {"NoSync", "WaitSync"}
      /\ dec'.state = "NoSync" => elems' = <<>>
  BY SearchedElems
<1>2. pos' \in Nat
  BY DEF IInv, Typed, Searching
<1>3. Typed'
  BY <1>1, <1>2 DEF Typed, States, Searching
<1>4. Control'
  BY <1>1 DEF Control, Searching
<1>5. BeforeSync'
  BY <1>1 DEF BeforeSync, Searching
<1>6. Indexed' /\ Behind' /\ ResyncedBehindBad'
  BY <1>1, FewElems
<1>7. QED  BY <1>3, <1>4, <1>5, <1>6 DEF IInv

----------------------------------------------------------------------------
(* A call begins or ends.                                                  *)

Turns ==
  /\ pc' \in {"idle", "loop"} /\ (pc' = "idle" => ps # "SendPkt") /\ ~closed
  /\ pc' = "loop" \/ pc = "loop"
  /\ UNCHANGED <<cfg, closed, pos, ps, scratch, pkt, pktIndex, dec, obs, elems>>

LEMMA UnmovedKeeps ==
  ASSUME IInv, UNCHANGED <<cfg, closed, pos, ps, scratch, pkt, pktIndex, dec, obs, elems>>
  PROVE  Typed' /\ BeforeSync' /\ Indexed' /\ Behind' /\ ResyncedBehindBad'
<1>1. Typed' /\ BeforeSync'
  BY DEF IInv, Typed, BeforeSync
<1>2. Indexed'
  BY DEF IInv, Indexed, Followed
<1>3. Behind'
  <2>1. \A i : Since(i) => Since(i)'
    BY DEF Since, Come, Edge
  <2>2. closed' = closed /\ cfg' = cfg /\ elems' = elems
    OBVIOUS
  <2>3. QED  BY <2>1, <2>2 DEF IInv, Behind
<1>4. ResyncedBehindBad'
  BY DEF IInv, ResyncedBehindBad
<1>5. QED  BY <1>1, <1>2, <1>3, <1>4

LEMMA TurnsKeeps == IInv /\ Turns => IInv'
<1> SUFFICES ASSUME IInv, Turns PROVE IInv'
  OBVIOUS
<1>1. Typed' /\ BeforeSync' /\ Indexed' /\ Behind' /\ ResyncedBehindBad'
  BY UnmovedKeeps DEF Turns
<1>2. Control'
  BY DEF IInv, Control, Turns
<1>3. QED  BY <1>1, <1>2 DEF IInv

LEMMA WriteTurns == ASSUME IInv, NEW n, Write(n) PROVE Turns
BY DEF Write, Turns, inputVars, outVars, IInv, Control

LEMMA ReturnTurns == IInv /\ Return => Turns
BY DEF Return, Turns, inputVars, outVars, IInv, Control

LEMMA StutterKeeps == IInv /\ UNCHANGED vars => IInv'
<1> SUFFICES ASSUME IInv, UNCHANGED vars PROVE IInv'
  OBVIOUS
<1>1. UNCHANGED <<cfg, closed, pos, ps, scratch, pkt, pktIndex, dec, obs, elems, pc>>
  BY DEF vars, inputVars, outVars
<1>2. Typed' /\ BeforeSync' /\ Indexed' /\ Behind' /\ ResyncedBehindBad'
  BY <1>1, UnmovedKeeps
<1>3. Control'
  BY <1>1 DEF IInv, Control
<1>4. QED  BY <1>2, <1>3 DEF IInv

----------------------------------------------------------------------------
(* A session begins.                                                       *)

Fresh ==
  /\ pos = 0 /\ ~closed /\ pc = "idle" /\ ps = "WaitSync" /\ scratch = <<>>
  /\ WellFormed(pkt) /\ pkt.type = "NotSync"
  /\ HasFields(dec) /\ dec.state = "NoSync" /\ dec.out = <<>>
  /\ obs = <<>> /\ elems = <<>>

LEMMA FreshHolds == Fresh => IInv
<1> SUFFICES ASSUME Fresh PROVE IInv
  OBVIOUS
<1>1. IsSeq(<<>>) /\ Len(<<>>) = 0
  BY AnyEmpty
<1>2. Typed
  BY <1>1 DEF Fresh, Typed, States
<1>3. Control
  BY DEF Fresh, Control
<1>4. BeforeSync
  BY <1>1 DEF Fresh, BeforeSync
<1>5. Len(elems) = 0 /\ \A k \in 2..Len(elems) : FALSE
  BY <1>1 DEF Fresh
<1>6. Indexed /\ Behind /\ ResyncedBehindBad
  BY <1>5 DEF Fresh, Indexed, Behind, ResyncedBehindBad
<1>7. QED  BY <1>2, <1>3, <1>4, <1>6 DEF IInv

LEMMA InitHolds == Init => IInv
<1> SUFFICES ASSUME Init PROVE IInv
  OBVIOUS
<1>1. WellFormed(pkt) /\ pkt.type = "NotSync"
  BY AnyEmpty DEF Init, StartPacket, WellFormed
<1>2. HasFields(dec) /\ dec.state = "NoSync" /\ dec.out = <<>>
  BY DEF Init, NewDecoder, HasFields
<1>3. Fresh
  BY <1>1, <1>2 DEF Init, Fresh
<1>4. QED  BY <1>3, FreshHolds

LEMMA ResetKeeps == ASSUME IInv, NEW s \in NextStreams, Reset(s) PROVE IInv'
<1>1. /\ pos' = 0 /\ closed' = FALSE /\ pc' = "idle" /\ ps' = "WaitSync" /\ scratch' = <<>>
      /\ obs' = <<>> /\ elems' = <<>>
      /\ pkt' = Clear([StartPacket EXCEPT !.reason = pkt.reason, !.atoms = pkt.atoms])
      /\ dec' = resetDecoder([dec EXCEPT !.unsync = "ResetDecoder"])
  BY DEF Reset
<1>2. WellFormed(pkt') /\ pkt'.type = "NotSync"
  <2>1. IsSeq(pkt.atoms)
    BY DEF IInv, Typed, WellFormed
  <2>2. "type" \in DOMAIN pkt' /\ "atoms" \in DOMAIN pkt' /\ pkt'.atoms = pkt.atoms /\ pkt'.type = "NotSync"
    BY <1>1 DEF Clear, StartPacket
  <2>3. QED  BY <2>1, <2>2 DEF WellFormed
<1>3. HasFields(dec') /\ dec'.state = "NoSync" /\ dec'.out = <<>>
  BY <1>1 DEF resetDecoder, HasFields, IInv, Typed
<1>4. Fresh'
  BY <1>1, <1>2, <1>3 DEF Fresh
<1>5. Fresh' => IInv'
  BY FreshHolds, PTL
<1>6. QED  BY <1>4, <1>5


----------------------------------------------------------------------------
(* What has been found stays found.                                        *)

Longer(s, t) ==
  Len(s) \in Nat /\ Len(t) \in Nat /\ Len(s) <= Len(t) /\ \A k \in 1..Len(s) : k \in 1..Len(t) /\ t[k] = s[k]

LEMMA ConcatLonger == ASSUME NEW s, NEW t, IsSeq(s), IsSeq(t) PROVE Longer(s, s \o t) /\ IsSeq(s \o t)
<1> DEFINE u == s \o t
<1>1. /\ IsSeq(u) /\ Len(u) = Len(s) + Len(t) /\ Len(s) \in Nat /\ Len(t) \in Nat
      /\ \A k \in 1..Len(s) : u[k] = s[k]
  BY AnyConcat
<1> HIDE DEF u
<1>2. Longer(s, u)
  BY <1>1 DEF Longer
<1>3. QED  BY <1>1, <1>2 DEF u

LEMMA FoundStays ==
  ASSUME NEW s, NEW t, Longer(s, t), NEW i, NEW j \in Nat, NEW l \in Nat, j <= l
  PROVE  /\ FoundAsync(s, i, j) => FoundAsync(t, i, l)
         /\ FoundBoth(s, i, j) => FoundBoth(t, i, l)
<1>1. ASSUME FoundAsync(s, i, j) PROVE FoundAsync(t, i, l)
  <2>1. PICK a \in 1..Len(s) : AsyncIn(s, a, i) /\ s[a].index < j
    BY <1>1 DEF FoundAsync
  <2>2. a \in 1..Len(t) /\ t[a] = s[a]
    BY <2>1 DEF Longer
  <2>3. AsyncIn(t, a, i) /\ t[a].index < l
    BY <2>1, <2>2 DEF AsyncIn
  <2>4. QED  BY <2>2, <2>3 DEF FoundAsync
<1>2. ASSUME FoundBoth(s, i, j) PROVE FoundBoth(t, i, l)
  <2>1. PICK a \in 1..Len(s), b \in 1..Len(s) : AsyncIn(s, a, i) /\ ISyncIn(s, a, b) /\ s[b].index < j
    BY <1>2 DEF FoundBoth
  <2>2. a \in 1..Len(t) /\ t[a] = s[a] /\ b \in 1..Len(t) /\ t[b] = s[b]
    BY <2>1 DEF Longer
  <2>3. AsyncIn(t, a, i) /\ ISyncIn(t, a, b) /\ t[b].index < l
    BY <2>1, <2>2 DEF AsyncIn, ISyncIn
  <2>4. QED  BY <2>2, <2>3 DEF FoundBoth
<1>3. QED  BY <1>1, <1>2

LEMMA AsyncFound ==
  ASSUME NEW t, NEW b \in 1..Len(t), NEW i \in Nat, NEW j \in Nat, NEW l \in Nat, i < j, j < l,
         t[b].pkt.type = "ASync", t[b].index = j
  PROVE  FoundAsync(t, i, l)
BY DEF FoundAsync, AsyncIn

LEMMA ISyncFound ==
  ASSUME NEW s, NEW t, Longer(s, t), NEW b \in 1..Len(t), NEW i, NEW j \in Nat, NEW l \in Nat, j < l,
         t[b].pkt.type = "ISync", t[b].index = j, FoundAsync(s, i, j)
  PROVE  FoundBoth(t, i, l)
<1>1. PICK a \in 1..Len(s) : AsyncIn(s, a, i) /\ s[a].index < j
  BY DEF FoundAsync
<1>2. a \in 1..Len(t) /\ t[a] = s[a]
  BY <1>1 DEF Longer
<1>3. AsyncIn(t, a, i) /\ ISyncIn(t, a, b) /\ t[b].index < l
  BY <1>1, <1>2 DEF AsyncIn, ISyncIn
<1>4. QED  BY <1>2, <1>3 DEF FoundBoth

\* An element at l that comes behind a loss at i is behind an Async and an ISync.
Reached(o, i, l) ==
  \E a, b \in 1..Len(o) :
    /\ o[a].pkt.type = "ASync" /\ o[b].pkt.type = "ISync"
    /\ i < o[a].index /\ o[a].index < o[b].index /\ o[b].index <= l

LEMMA FoundReached == ASSUME NEW o, NEW i, NEW l \in Nat, FoundBoth(o, i, l + 1) PROVE Reached(o, i, l)
<1>1. PICK a \in 1..Len(o), b \in 1..Len(o) : AsyncIn(o, a, i) /\ ISyncIn(o, a, b) /\ o[b].index < l + 1
  BY DEF FoundBoth
<1>2. /\ o[a].pkt.type = "ASync" /\ o[b].pkt.type = "ISync"
      /\ i < o[a].index /\ o[a].index < o[b].index /\ o[b].index <= l
  BY <1>1 DEF AsyncIn, ISyncIn
<1>3. QED  BY <1>2 DEF Reached

LEMMA ReachedStays == ASSUME NEW s, NEW t, Longer(s, t), NEW i, NEW l, Reached(s, i, l) PROVE Reached(t, i, l)
<1>1. PICK a \in 1..Len(s), b \in 1..Len(s) :
        /\ s[a].pkt.type = "ASync" /\ s[b].pkt.type = "ISync"
        /\ i < s[a].index /\ s[a].index < s[b].index /\ s[b].index <= l
  BY DEF Reached
<1>2. a \in 1..Len(t) /\ t[a] = s[a] /\ b \in 1..Len(t) /\ t[b] = s[b]
  BY <1>1 DEF Longer
<1>3. /\ t[a].pkt.type = "ASync" /\ t[b].pkt.type = "ISync"
      /\ i < t[a].index /\ t[a].index < t[b].index /\ t[b].index <= l
  BY <1>1, <1>2
<1>4. QED  BY <1>2, <1>3 DEF Reached

LEMMA ResyncedIsReached ==
  ResyncedBehindBad <=>
    (cfg.observer =>
       \A k \in 2..Len(elems) : \A m \in (k + 1)..Len(elems) :
         elems[k].kind = "NoSync" /\ elems[m].kind # "EOTrace" => Reached(obs, elems[k].index, elems[m].index))
BY DEF ResyncedBehindBad, Reached

----------------------------------------------------------------------------
(* A packet is sent.                                                       *)

\* What SendPkt hands over, in terms of the decoder's part of the invariant.
Sending(r) ==
  /\ pc = "loop" /\ ps = "SendPkt" /\ ~closed /\ ~(closed') /\ cfg' = cfg
  /\ pos \in Nat /\ pos' = pos /\ ps' = "ProcHdr"
  /\ IsSeq(elems) /\ IsSeq(obs)
  /\ Effect(dec, pkt, pktIndex, r) /\ dec.state \in States /\ dec'.state = r.state
  /\ elems' = elems \o r.out
  /\ Followed => pktIndex \in Nat /\ pktIndex < pos
  /\ dec.state = "NoSync" => elems = <<>>

LEMMA SendPktSends ==
  ASSUME IInv, SendPkt
  PROVE  /\ Sending(processPacket(dec, pkt, pktIndex))
         /\ HasFields(dec') /\ dec'.out = <<>> /\ WellFormed(pkt')
         /\ scratch # <<>> /\ obs' = obs \o Seen(pkt, pktIndex, scratch)
         /\ scratch' = <<>> /\ pc' \in {"idle", "loop"}
<1> DEFINE r == processPacket(dec, pkt, pktIndex)
<1>1. /\ pc = "loop" /\ ps = "SendPkt" /\ UNCHANGED <<cfg, closed, pos>> /\ ps' = "ProcHdr"
      /\ scratch' = <<>> /\ pc' \in {"idle", "loop"} /\ pkt' = Clear(pkt)
      /\ obs' = obs \o Seen(pkt, pktIndex, scratch) /\ Decoded(r)
  BY DEF SendPkt, Turn, inputVars
<1>2. /\ ~closed /\ pos \in Nat /\ IsSeq(elems) /\ IsSeq(obs) /\ WellFormed(pkt) /\ scratch # <<>>
      /\ HasFields(dec) /\ dec.out = <<>> /\ dec.state \in States
      /\ dec.state = "NoSync" => elems = <<>>
      /\ Followed => pktIndex \in Nat /\ pktIndex < pos
  BY <1>1 DEF IInv, Typed, Control, BeforeSync, Indexed
<1>3. Effect(dec, pkt, pktIndex, r)
  BY <1>2, Processed DEF WellFormed
<1> HIDE DEF r
<1>4. HasFields(dec') /\ dec'.state = r.state /\ dec'.out = <<>> /\ elems' = elems \o r.out
  BY <1>1, <1>3, DecodedFields DEF Effect
<1>5. WellFormed(pkt')
  BY <1>1, <1>2 DEF Clear, WellFormed
<1>6. Sending(r)
  BY <1>1, <1>2, <1>3, <1>4 DEF Sending
<1>7. QED  BY <1>1, <1>2, <1>4, <1>5, <1>6 DEF r

\* The new elements.
LEMMA SentElems ==
  ASSUME NEW r, Sending(r)
  PROVE  /\ IsSeq(r.out) /\ Longer(elems, elems') /\ IsSeq(elems')
         /\ \A k \in (Len(elems) + 1)..Len(elems') :
              /\ elems'[k].index = pktIndex
              /\ elems'[k].kind = "NoSync" => k = Len(elems) + 1 /\ Len(elems') = k
              /\ \/ dec.state = "NoSync" /\ k = 1
                 \/ dec.state = "WaitISync" /\ pkt.type = "ISync" /\ elems'[k].kind # "NoSync"
                 \/ dec.state = "Pkts" /\ (elems'[k].kind = "NoSync" => dec'.state # "Pkts")
<1> DEFINE n == Len(elems)
           o == r.out
           e == elems'
<1>1. /\ o = <<>> \/ LoneLoss(o, pktIndex) \/ Follows(o, pktIndex)
      /\ dec.state = "WaitSync" => o = <<>>
      /\ dec.state = "WaitISync" => o = <<>> \/ (pkt.type = "ISync" /\ Follows(o, pktIndex))
      /\ dec.state = "Pkts" => \/ LoneLoss(o, pktIndex) /\ dec'.state # "Pkts"
                               \/ Follows(o, pktIndex)
  BY DEF Sending, Effect, States
<1>2. IsSeq(o)
  <2>1. LoneLoss(o, pktIndex) => IsSeq(o)
    BY AnySingle DEF LoneLoss
  <2>2. QED  BY <1>1, <2>1, AnyEmpty DEF Follows
<1>3. Longer(elems, e) /\ IsSeq(e)
  BY <1>2, ConcatLonger DEF Sending
<1>4. /\ n \in Nat /\ Len(o) \in Nat /\ Len(e) = n + Len(o)
      /\ \A k \in (n + 1)..(n + Len(o)) : e[k] = o[k - n]
  BY <1>2, AnyConcat DEF Sending
<1>5. ASSUME NEW k \in (n + 1)..Len(e)
      PROVE  /\ e[k].index = pktIndex
             /\ e[k].kind = "NoSync" => k = n + 1 /\ Len(e) = k
             /\ \/ dec.state = "NoSync" /\ k = 1
                \/ dec.state = "WaitISync" /\ pkt.type = "ISync" /\ e[k].kind # "NoSync"
                \/ dec.state = "Pkts" /\ (e[k].kind = "NoSync" => dec'.state # "Pkts")
  <2> DEFINE j == k - n
  <2>1. j \in 1..Len(o) /\ e[k] = o[j]
    BY <1>4
  <2>2. o # <<>>
    BY <2>1, AnyEmpty
  <2>3. CASE LoneLoss(o, pktIndex) /\ (dec.state = "WaitISync" => pkt.type = "ISync" /\ Follows(o, pktIndex))
    <3>1. PICK x : o = <<x>> /\ x.index = pktIndex
      BY <2>3 DEF LoneLoss
    <3>2. Len(o) = 1 /\ o[1] = x
      BY <3>1, AnySingle
    <3>3. j = 1 /\ k = n + 1 /\ Len(e) = k /\ e[k].index = pktIndex
      BY <1>4, <2>1, <3>1, <3>2
    <3>4. dec.state = "NoSync" => k = 1
      BY <1>4, <3>3, AnyEmpty DEF Sending
    <3>5. dec.state = "WaitISync" => pkt.type = "ISync" /\ e[k].kind # "NoSync"
      BY <2>1, <2>3 DEF Follows
    <3>6. dec.state = "Pkts" => (e[k].kind = "NoSync" => dec'.state # "Pkts")
      BY <1>1, <2>1 DEF Follows
    <3>7. dec.state \in {"NoSync", "WaitISync", "Pkts"}
      BY <1>1, <2>2 DEF Sending, States
    <3>8. QED  BY <3>3, <3>4, <3>5, <3>6, <3>7
  <2>4. CASE Follows(o, pktIndex) /\ dec.state # "NoSync"
    <3>1. e[k].index = pktIndex /\ e[k].kind # "NoSync"
      BY <2>1, <2>4 DEF Follows
    <3>2. \/ dec.state = "WaitISync" /\ pkt.type = "ISync"
          \/ dec.state = "Pkts"
      BY <1>1, <2>2, <2>4 DEF Sending, States
    <3>3. QED  BY <3>1, <3>2
  <2>5. dec.state = "NoSync" => LoneLoss(o, pktIndex)
    BY DEF Sending, Effect
  <2>6. dec.state \in States
    BY DEF Sending
  <2>7. QED  BY <1>1, <2>2, <2>3, <2>4, <2>5, <2>6 DEF States
<1>6. QED  BY <1>2, <1>3, <1>5


\* The packet is the last that was shown.
ShownLast ==
  LET n == Len(obs) + 1
  IN  /\ Longer(obs, obs') /\ n \in 1..Len(obs')
      /\ obs'[n].index = pktIndex /\ obs'[n].pkt.type = pkt.type

LEMMA PacketShown ==
  ASSUME IsSeq(obs), cfg.observer, scratch # <<>>, obs' = obs \o Seen(pkt, pktIndex, scratch)
  PROVE  ShownLast
<1> DEFINE x == [index |-> pktIndex, raw |-> scratch, pkt |-> Shown(pkt)]
<1>1. Seen(pkt, pktIndex, scratch) = <<x>>
  BY DEF Seen
<1>2. x.index = pktIndex /\ x.pkt.type = pkt.type
  BY DEF Shown
<1> HIDE DEF x
<1>3. IsSeq(<<x>>)
  BY AnySingle
<1>4. Longer(obs, obs')
  BY <1>1, <1>3, ConcatLonger
<1>5. /\ Len(obs) \in Nat /\ Len(obs \o <<x>>) = Len(obs) + 1
      /\ (obs \o <<x>>)[Len(obs) + 1] = x
  BY AnyOneMore
<1>6. QED  BY <1>1, <1>2, <1>4, <1>5 DEF ShownLast

\* An older loss, behind the packet.
LEMMA OldLoss ==
  ASSUME NEW r, Sending(r), ShownLast, NEW i, Since(i), Len(elems) >= 2
  PROVE  Come(i, Edge', dec'.state, obs')
<1>1. /\ pktIndex \in Nat /\ pos \in Nat /\ pktIndex < pos /\ Edge = pktIndex /\ Edge' = pos
      /\ i \in Nat /\ i < pktIndex
  BY DEF Sending, Followed, Edge, Since, Come
<1>2. dec.state # "NoSync"
  BY AnyEmpty DEF Sending
<1>3. CASE dec'.state = "WaitISync"
  <2>1. CASE dec.state = "WaitSync"
    <3>1. pkt.type = "ASync"
      BY <1>3, <2>1 DEF Sending, Effect
    <3>2. FoundAsync(obs', i, pos)
      BY <1>1, <3>1, AsyncFound DEF ShownLast
    <3>3. QED  BY <1>1, <1>3, <3>2 DEF Since, Come
  <2>2. CASE dec.state = "WaitISync"
    <3>1. FoundAsync(obs, i, pktIndex)
      BY <1>1, <2>2 DEF Since, Come
    <3>2. FoundAsync(obs', i, pos)
      BY <1>1, <3>1, FoundStays DEF ShownLast
    <3>3. QED  BY <1>1, <1>3, <3>2 DEF Since, Come
  <2>3. dec.state # "Pkts"
    BY <1>3 DEF Sending, Effect
  <2>4. QED  BY <1>2, <2>1, <2>2, <2>3 DEF Sending, States
<1>4. CASE dec'.state = "Pkts"
  <2>1. CASE dec.state = "WaitISync"
    <3>1. pkt.type = "ISync"
      BY <1>4, <2>1 DEF Sending, Effect
    <3>2. FoundAsync(obs, i, pktIndex)
      BY <1>1, <2>1 DEF Since, Come
    <3>3. FoundBoth(obs', i, pos)
      BY <1>1, <3>1, <3>2, ISyncFound DEF ShownLast
    <3>4. QED  BY <1>1, <1>4, <3>3 DEF Since, Come
  <2>2. CASE dec.state = "Pkts"
    <3>1. FoundBoth(obs, i, pktIndex)
      BY <1>1, <2>2 DEF Since, Come
    <3>2. FoundBoth(obs', i, pos)
      BY <1>1, <3>1, FoundStays DEF ShownLast
    <3>3. QED  BY <1>1, <1>4, <3>2 DEF Since, Come
  <2>3. dec.state # "WaitSync"
    BY <1>4 DEF Sending, Effect
  <2>4. QED  BY <1>2, <2>1, <2>2, <2>3 DEF Sending, States
<1>5. CASE dec'.state \notin {"WaitISync", "Pkts"}
  <2>1. i < pos
    BY <1>1
  <2>2. QED  BY <1>1, <1>5, <2>1 DEF Since, Come
<1>6. QED  BY <1>3, <1>4, <1>5

\* What comes out for the packet is behind the syncs that an older loss asks for.
LEMMA NewReached ==
  ASSUME NEW r, Sending(r), ShownLast, NEW i, Since(i), Len(elems) >= 2,
         dec.state = "Pkts" \/ (dec.state = "WaitISync" /\ pkt.type = "ISync")
  PROVE  Reached(obs', i, pktIndex)
<1>1. pktIndex \in Nat /\ pktIndex + 1 \in Nat /\ Edge = pktIndex
  BY DEF Sending, Followed, Edge
<1>2. CASE dec.state = "Pkts"
  <2>1. FoundBoth(obs, i, pktIndex)
    BY <1>1, <1>2 DEF Since, Come
  <2>2. FoundBoth(obs', i, pktIndex + 1)
    BY <1>1, <2>1, FoundStays DEF ShownLast
  <2>3. QED  BY <1>1, <2>2, FoundReached
<1>3. CASE dec.state = "WaitISync" /\ pkt.type = "ISync"
  <2>1. FoundAsync(obs, i, pktIndex)
    BY <1>1, <1>3 DEF Since, Come
  <2>2. FoundBoth(obs', i, pktIndex + 1)
    BY <1>1, <1>3, <2>1, ISyncFound DEF ShownLast
  <2>3. QED  BY <1>1, <2>2, FoundReached
<1>4. QED  BY <1>2, <1>3

LEMMA SentBehind ==
  ASSUME NEW r, Sending(r), Behind, cfg.observer => ShownLast
  PROVE  Behind'
<1> SUFFICES ASSUME cfg.observer, NEW k \in 2..Len(elems'), elems'[k].kind = "NoSync"
             PROVE  Come(elems'[k].index, Edge', dec'.state, obs')
  BY DEF Behind, Sending, Since
<1>1. /\ Longer(elems, elems')
      /\ \A m \in (Len(elems) + 1)..Len(elems') :
           /\ elems'[m].index = pktIndex
           /\ \/ dec.state = "NoSync" /\ m = 1
              \/ dec.state = "WaitISync" /\ pkt.type = "ISync" /\ elems'[m].kind # "NoSync"
              \/ dec.state = "Pkts" /\ (elems'[m].kind = "NoSync" => dec'.state # "Pkts")
  BY SentElems
<1>2. Len(elems) \in Nat /\ Len(elems') \in Nat
  BY <1>1 DEF Longer
<1>3. CASE k <= Len(elems)
  <2>1. k \in 2..Len(elems) /\ elems'[k] = elems[k] /\ Len(elems) >= 2
    BY <1>1, <1>2, <1>3 DEF Longer
  <2>2. Since(elems[k].index)
    BY <2>1 DEF Behind, Sending
  <2>3. Come(elems[k].index, Edge', dec'.state, obs')
    BY <2>1, <2>2, OldLoss
  <2>4. QED  BY <2>1, <2>3
<1>4. CASE k > Len(elems)
  <2>1. k \in (Len(elems) + 1)..Len(elems') /\ k # 1
    BY <1>2, <1>4
  <2>2. elems'[k].index = pktIndex /\ dec.state = "Pkts" /\ dec'.state # "Pkts"
    BY <1>1, <2>1
  <2>3. dec'.state = "WaitSync"
    BY <2>2 DEF Sending, Effect
  <2>4. pktIndex \in Nat /\ pktIndex < pos /\ Edge' = pos
    BY <2>2 DEF Sending, Followed, Edge
  <2>5. QED  BY <2>2, <2>3, <2>4 DEF Come
<1>5. QED  BY <1>2, <1>3, <1>4

LEMMA SentResynced ==
  ASSUME NEW r, Sending(r), Behind, ResyncedBehindBad, cfg.observer => ShownLast
  PROVE  ResyncedBehindBad'
<1>1. ASSUME cfg.observer, NEW k \in 2..Len(elems'), NEW m \in (k + 1)..Len(elems'),
             elems'[k].kind = "NoSync", elems'[m].kind # "EOTrace"
      PROVE  Reached(obs', elems'[k].index, elems'[m].index)
  <2>1. /\ Longer(elems, elems')
        /\ \A j \in (Len(elems) + 1)..Len(elems') :
             /\ elems'[j].index = pktIndex
             /\ elems'[j].kind = "NoSync" => j = Len(elems) + 1 /\ Len(elems') = j
             /\ \/ dec.state = "NoSync" /\ j = 1
                \/ dec.state = "WaitISync" /\ pkt.type = "ISync"
                \/ dec.state = "Pkts"
    BY SentElems
  <2>2. Len(elems) \in Nat /\ Len(elems') \in Nat
    BY <2>1 DEF Longer
  <2>3. k <= Len(elems)
    <3> SUFFICES ASSUME ~(k <= Len(elems)) PROVE FALSE
      OBVIOUS
    <3>1. k \in (Len(elems) + 1)..Len(elems')
      BY <2>2
    <3>2. Len(elems') = k
      BY <1>1, <2>1, <3>1
    <3>3. QED  BY <2>2, <3>2
  <2>4. k \in 2..Len(elems) /\ elems'[k] = elems[k] /\ Len(elems) >= 2
    BY <2>1, <2>2, <2>3 DEF Longer
  <2>5. ShownLast /\ Longer(obs, obs')
    BY <1>1 DEF ShownLast
  <2>6. CASE m <= Len(elems)
    <3>1. m \in (k + 1)..Len(elems) /\ elems'[m] = elems[m]
      BY <2>1, <2>2, <2>6 DEF Longer
    <3>2. Reached(obs, elems[k].index, elems[m].index)
      BY <1>1, <2>4, <3>1, ResyncedIsReached
    <3>3. Reached(obs', elems[k].index, elems[m].index)
      BY <2>5, <3>2, ReachedStays
    <3>4. QED  BY <2>4, <3>1, <3>3
  <2>7. CASE m > Len(elems)
    <3>1. m \in (Len(elems) + 1)..Len(elems') /\ m # 1
      BY <2>2, <2>7
    <3>2. /\ elems'[m].index = pktIndex
          /\ dec.state = "Pkts" \/ (dec.state = "WaitISync" /\ pkt.type = "ISync")
      BY <2>1, <3>1
    <3>3. Since(elems[k].index)
      BY <1>1, <2>4 DEF Behind, Sending
    <3>4. Reached(obs', elems[k].index, pktIndex)
      BY <2>4, <2>5, <3>2, <3>3, NewReached
    <3>5. QED  BY <2>4, <3>2, <3>4
  <2>8. QED  BY <2>2, <2>6, <2>7
<1>2. cfg' = cfg
  BY DEF Sending
<1>3. QED  BY <1>1, <1>2 DEF ResyncedBehindBad, Reached

LEMMA SendPktKeeps == IInv /\ SendPkt => IInv'
<1> SUFFICES ASSUME IInv, SendPkt PROVE IInv'
  OBVIOUS
<1> DEFINE r == processPacket(dec, pkt, pktIndex)
<1>1. /\ Sending(r) /\ HasFields(dec') /\ dec'.out = <<>> /\ WellFormed(pkt')
      /\ scratch # <<>> /\ obs' = obs \o Seen(pkt, pktIndex, scratch)
      /\ scratch' = <<>> /\ pc' \in {"idle", "loop"}
  BY SendPktSends
<1> HIDE DEF r
<1>2. IsSeq(r.out) /\ IsSeq(elems')
  BY <1>1, SentElems
<1>3. IsSeq(obs')
  <2>1. IsSeq(obs) /\ IsSeq(Seen(pkt, pktIndex, scratch))
    BY <1>1, SeenIsSeq DEF Sending
  <2>2. QED  BY <1>1, <2>1, ConcatLonger
<1>4. cfg.observer => ShownLast
  BY <1>1, PacketShown DEF Sending
<1>5. dec'.state \in States \ {"NoSync"}
  BY <1>1 DEF Sending, Effect, States
<1>6. Typed'
  BY <1>1, <1>2, <1>3, <1>5, AnyEmpty DEF Typed, Sending
<1>7. Control'
  BY <1>1 DEF Control, Sending
<1>8. BeforeSync' /\ Indexed'
  BY <1>1, <1>5 DEF BeforeSync, Indexed, Sending
<1>9. Behind'
  BY <1>1, <1>4, SentBehind DEF IInv
<1>10. ResyncedBehindBad'
  BY <1>1, <1>4, SentResynced DEF IInv
<1>11. QED  BY <1>6, <1>7, <1>8, <1>9, <1>10 DEF IInv


----------------------------------------------------------------------------
(* The end of the trace.                                                   *)

\* Of a packet that is cut off nothing comes out in sync.
LEMMA CutOffQuiet ==
  ASSUME NEW d, NEW p, NEW i, p.type = "IncompleteEOT", HasFields(d), d.out = <<>>,
         d.state \in {"WaitSync", "WaitISync", "Pkts"}
  PROVE  processPacket(d, p, i).out = <<>>
<1> DEFINE e == [d EXCEPT !.index = i]
           r == processPacket(d, p, i)
<1>1. HasFields(e) /\ e.state = d.state /\ e.out = <<>>
  BY DEF HasFields
<1>2. \/ e.state = "WaitSync" /\ r = Waiting(e, p.type)
      \/ e.state = "WaitISync" /\ r = e
      \/ e.state = "Pkts" /\ r = decodePacket(e, p)
  BY <1>1 DEF processPacket
<1> HIDE DEF e, r
<1>3. decodePacket(e, p) = e
  BY DEF decodePacket
<1>4. Waiting(e, p.type).out = <<>>
  BY <1>1 DEF Waiting, HasFields
<1>5. r.out = <<>>
  BY <1>1, <1>2, <1>3, <1>4
<1>6. QED  BY <1>5 DEF r

Closing(r) ==
  /\ ~closed /\ closed' /\ pc = "idle" /\ pc' = "idle"
  /\ dec' = [r EXCEPT !.out = <<>>] /\ elems' = elems \o r.out \o <<EndElem(r)>>
  /\ IsSeq(elems) /\ IsSeq(r.out) /\ HasFields(r) /\ r.state \in States
  /\ \/ r.out = <<>>
     \/ elems = <<>> /\ \E x : r.out = <<x>>

LEMMA CloseCloses ==
  ASSUME IInv, Close
  PROVE  \E r : Closing(r)
<1> DEFINE p == [pkt EXCEPT !.type = "IncompleteEOT"]
           q == processPacket(dec, p, pktIndex)
           r == IF scratch = <<>> THEN dec ELSE q
<1>1. /\ ~closed /\ closed' /\ pc = "idle" /\ pc' = "idle"
      /\ dec' = [r EXCEPT !.out = <<>>] /\ elems' = elems \o r.out \o <<EndElem(r)>>
  BY DEF Close
<1>2. /\ IsSeq(elems) /\ WellFormed(pkt) /\ HasFields(dec) /\ dec.out = <<>> /\ dec.state \in States
      /\ dec.state = "NoSync" => elems = <<>>
  BY <1>1 DEF IInv, Typed, BeforeSync
<1>3. p.type = "IncompleteEOT" /\ IsSeq(p.atoms)
  BY <1>2 DEF WellFormed
<1> HIDE DEF p
<1>4. Effect(dec, p, pktIndex, q)
  BY <1>2, <1>3, Processed
<1>5. dec.state # "NoSync" => q.out = <<>>
  BY <1>2, <1>3, CutOffQuiet DEF States
<1> HIDE DEF q
<1>6. HasFields(q) /\ q.state \in States
  BY <1>2, <1>4 DEF Effect, States
<1>7. dec.state = "NoSync" => \E x : q.out = <<x>>
  BY <1>4 DEF Effect, LoneLoss
<1>8. IsSeq(q.out)
  BY <1>5, <1>7, AnyEmpty, AnySingle
<1>9. HasFields(r) /\ r.state \in States /\ IsSeq(r.out)
  BY <1>2, <1>6, <1>8, AnyEmpty
<1>10. r.out = <<>> \/ (elems = <<>> /\ \E x : r.out = <<x>>)
  BY <1>2, <1>5, <1>7
<1> HIDE DEF r
<1>11. Closing(r)
  BY <1>1, <1>2, <1>9, <1>10 DEF Closing
<1>12. QED  BY <1>11

LEMMA ClosedResynced ==
  ASSUME NEW r, Closing(r), ResyncedBehindBad, cfg' = cfg, Longer(obs, obs')
  PROVE  ResyncedBehindBad' /\ IsSeq(elems')
<1> DEFINE x == EndElem(r)
           o == r.out
           u == elems \o o
<1>1. x.kind = "EOTrace"
  BY DEF EndElem, Elem
<1> HIDE DEF x
<1>2. IsSeq(u) /\ Len(u) = Len(elems) + Len(o) /\ Len(elems) \in Nat /\ Len(o) \in Nat /\ elems' = u \o <<x>>
  BY AnyConcat DEF Closing, x
<1>3. o = <<>> => u = elems
  BY AnyNoMore DEF Closing
<1> HIDE DEF u
<1>4. /\ IsSeq(elems') /\ Len(u) \in Nat /\ Len(elems') = Len(u) + 1
      /\ elems'[Len(u) + 1] = x
      /\ \A k \in 1..Len(u) : elems'[k] = u[k]
  BY <1>2, AnyOneMore
<1>5. ASSUME cfg.observer, NEW k \in 2..Len(elems'), NEW m \in (k + 1)..Len(elems'),
             elems'[k].kind = "NoSync", elems'[m].kind # "EOTrace"
      PROVE  Reached(obs', elems'[k].index, elems'[m].index)
  <2>1. m # Len(u) + 1
    BY <1>1, <1>4, <1>5
  <2>2. k \in 1..Len(u) /\ m \in 1..Len(u)
    BY <1>4, <2>1
  <2>3. elems'[k] = u[k] /\ elems'[m] = u[m]
    BY <1>4, <2>2
  <2>4. CASE o = <<>>
    <3>1. k \in 2..Len(elems) /\ m \in (k + 1)..Len(elems)
      BY <1>3, <1>4, <2>2, <2>4
    <3>2. elems[k].kind = "NoSync" /\ elems[m].kind # "EOTrace"
      BY <1>3, <1>5, <2>3, <2>4
    <3>3. Reached(obs, elems[k].index, elems[m].index)
      BY <1>5, <3>1, <3>2, ResyncedIsReached
    <3>4. Reached(obs', elems[k].index, elems[m].index)
      BY <3>3, ReachedStays
    <3>5. QED  BY <1>3, <2>3, <2>4, <3>4
  <2>5. CASE elems = <<>> /\ \E y : o = <<y>>
    <3>1. Len(elems) = 0 /\ Len(o) = 1
      BY <2>5, AnyEmpty, AnySingle
    <3>2. Len(u) = 1
      BY <1>2, <3>1
    <3>3. QED  BY <2>2, <3>2
  <2>6. QED  BY <2>4, <2>5 DEF Closing
<1>6. QED  BY <1>4, <1>5 DEF ResyncedBehindBad, Reached

LEMMA CloseKeeps == IInv /\ Close => IInv'
<1> SUFFICES ASSUME IInv, Close PROVE IInv'
  OBVIOUS
<1>1. PICK r : Closing(r)
  BY CloseCloses
<1> DEFINE p == [pkt EXCEPT !.type = "IncompleteEOT"]
           s == Seen(p, pktIndex, scratch)
<1>2. /\ obs' = obs \o s /\ scratch' = <<>> /\ UNCHANGED <<cfg, pos, ps>>
      /\ pkt' = pkt \/ pkt' = p
  BY DEF Close
<1>3. WellFormed(p)
  BY DEF IInv, Typed, WellFormed
<1>4. IsSeq(s)
  BY SeenIsSeq
<1> HIDE DEF p, s
<1>5. Longer(obs, obs') /\ IsSeq(obs')
  BY <1>2, <1>4, ConcatLonger DEF IInv, Typed
<1>6. ResyncedBehindBad' /\ IsSeq(elems')
  BY <1>1, <1>2, <1>5, ClosedResynced DEF IInv
<1>7. HasFields(dec') /\ dec'.out = <<>> /\ dec'.state \in States
  BY <1>1 DEF Closing, HasFields
<1>8. Typed'
  BY <1>2, <1>3, <1>5, <1>6, <1>7, AnyEmpty DEF IInv, Typed
<1>9. Control'
  BY <1>1, <1>2 DEF IInv, Control, Closing
<1>10. BeforeSync' /\ Indexed' /\ Behind'
  BY <1>1 DEF BeforeSync, Indexed, Behind, Closing
<1>11. QED  BY <1>6, <1>8, <1>9, <1>10 DEF IInv

----------------------------------------------------------------------------
LEMMA NextKeeps == IInv /\ [Next]_vars => IInv'
<1> SUFFICES ASSUME IInv, [Next]_vars PROVE IInv'
  OBVIOUS
<1>1. CASE UNCHANGED vars
  BY <1>1, StutterKeeps
<1>2. ASSUME NEW n \in ChunkSizes(src), Write(n) PROVE IInv'
  BY <1>2, WriteTurns, TurnsKeeps
<1>3. CASE Return
  BY <1>3, ReturnTurns, TurnsKeeps
<1>4. CASE SyncSearch \/ SyncPanics
  BY <1>4, SyncSearchSearches, SearchingKeeps
<1>5. CASE SyncScan
  BY <1>5, SyncScanSearches, SearchingKeeps
<1>6. CASE SyncZeros
  BY <1>6, SyncZerosSearches, SearchingKeeps
<1>7. CASE \/ ProcHdr \/ pktBranchAddr \/ packetWPointUpdate \/ packetISync \/ pktCtxtID \/ packetVMID
           \/ packetAtom \/ packetTimestamp \/ packetASync
  <2>1. WellFormed(pkt)
    BY DEF IInv, Typed
  <2>2. Reading
    BY <1>7, <2>1, HandlersRead
  <2>3. QED  BY <2>2, ReadingKeeps
<1>8. CASE SendPkt
  BY <1>8, SendPktKeeps
<1>9. CASE Close
  BY <1>9, CloseKeeps
<1>10. ASSUME NEW s \in NextStreams, Reset(s) PROVE IInv'
  BY <1>10, ResetKeeps
<1>11. QED  BY <1>1, <1>2, <1>3, <1>4, <1>5, <1>6, <1>7, <1>8, <1>9, <1>10 DEF Next, Step

\* Behind a packet that could not be read (decodePacket, on a bad sequence or a
\* reserved header) no element comes out before the next Async and, behind that, an
\* ISync: the decoder does not go on from an address that is no longer known.
THEOREM AlwaysResyncedBehindBad == Spec => []ResyncedBehindBad
<1>1. Init => IInv
  BY InitHolds
<1>2. IInv /\ [Next]_vars => IInv'
  BY NextKeeps
<1>3. IInv => ResyncedBehindBad
  BY DEF IInv
<1>4. QED  BY <1>1, <1>2, <1>3, PTL DEF Spec

----------------------------------------------------------------------------
(* The bytes of a packet, and how far a handler is.                        *)

Streams == {s.bytes : s \in Sessions} \cup NextStreams

\* The configurations.
CfgRecs ==
  [cc : BOOLEAN, ctxt : {0, 1, 2, 4}, ts64 : BOOLEAN, retStack : BOOLEAN, observer : BOOLEAN]

\* What was read lies behind the block before and in what was handed over, and
\* between the calls of Write all of it was read.
Placed ==
  /\ cfg \in CfgRecs /\ src \in Streams /\ src \in Seq(Bytes)
  /\ base \in Nat /\ avail \in Nat /\ pos \in Nat
  /\ base <= pos /\ pos <= avail /\ avail <= Len(src)
  /\ pc = "idle" => pos = avail
  /\ resets \in 0..MaxResets /\ closed \in BOOLEAN

\* The bytes that are held were read, and at the header of a packet there are none.
Held ==
  /\ scratch \in Seq(Bytes) /\ Len(scratch) <= pos
  /\ ps = "ProcHdr" /\ ~closed => scratch = <<>>

\* A search holds at least the zeros that it counts, and the bytes that it holds
\* or counts as unsynced were read.
SyncRecs ==
  [wait : BOOLEAN, async0 : 0..16, shown : BOOLEAN, unsynced : Nat, start : Nat, onEntry : Nat]

Searched ==
  /\ sync \in SyncRecs
  /\ sync.wait => ps = "WaitSync" /\ sync.async0 <= 15 /\ (~closed => sync.async0 <= Len(scratch))
  /\ IF pc \in {"sync", "panic"} THEN sync.unsynced + Len(scratch) <= pos ELSE sync.unsynced = 0
  /\ ps = "ProcData" /\ pkt.type = "ASync" => sync.async0 <= 15

FieldRecs ==
  [gotAddr : BOOLEAN, numAddr : 0..5, gotExcep : BOOLEAN, numExcep : 0..2, isa : ISAs, alt : 0..1,
   needCC : BOOLEAN, gotCC : BOOLEAN, ccBytes : 0..5, ctxtBytes : 0..4, gotTS : BOOLEAN, req : Nat]

\* What a handler has found so far leaves room for what it may still find.
Room(g) == (~g.gotExcep => g.numExcep <= 1) /\ (~g.gotCC => g.ccBytes <= 4)

\* The fields g of a packet of a type that is not complete behind n bytes.
Midway(type, g, n) ==
  /\ type = "BranchAddress" =>
       /\ g.numAddr <= n /\ ~BranchDone(g)
       /\ ~g.gotAddr => g.numAddr = n /\ n <= 4 /\ g.numExcep = 0
  /\ type = "WPointUpdate" =>
       /\ g.numAddr + 1 <= n /\ ~(g.gotAddr /\ g.gotExcep)
       /\ ~g.gotAddr => g.numAddr + 1 = n /\ n <= 5 /\ g.numExcep = 0
  /\ type = "ISync" => g.req >= 6
  /\ type = "ContextID" => g.ctxtBytes < cfg.ctxt
  /\ type = "Timestamp" => ~(g.gotTS /\ (g.needCC => g.gotCC))

\* What a handler keeps, in the middle of a packet as well.
Fields ==
  /\ f \in FieldRecs /\ Room(f)
  /\ ps = "ProcData" /\ ~closed => Midway(pkt.type, f, Len(scratch))

\* What TypeOK says of a packet and of the decoder, and the ISAs on the stack.
PktShape(p) ==
  /\ {"type", "isa", "addr", "ts", "atoms"} \subseteq DOMAIN p
  /\ p.isa \in ISAs /\ p.addr \in Nat /\ Len(p.ts) = 9 /\ Len(p.atoms) <= 5

StackOK(s) == IsSeq(s) /\ Len(s) <= RetStackCap /\ \A k \in 1..Len(s) : s[k].isa \in ISAs

DecShape(d) == {"isa", "stack"} \subseteq DOMAIN d /\ d.isa \in ISAs /\ StackOK(d.stack)

Sized == Placed /\ Held /\ Searched /\ Fields /\ PktShape(pkt) /\ DecShape(dec)

----------------------------------------------------------------------------
(* Numbers: sums, and what is left of one in so many bits.                 *)

\* What is added up is a number.
LEMMA TotalNat == ASSUME NEW v \in Seq(Nat) PROVE Total(v) \in Nat
<1> DEFINE N == Len(v)
           step == [n \in 1..N |-> [x \in Nat |-> x + v[n]]]
           IsTotal(h) == h = [k \in 0..N |-> IF k = 0 THEN 0 ELSE h[k - 1] + v[k]]
<1>1. N \in Nat
  BY LenProperties
<1>2. \A n \in 1..N : v[n] \in Nat
  BY ElementOfSeq
<1>3. step \in [1..N -> [Nat -> Nat]]
  <2>1. \A n \in 1..N, x \in Nat : x + v[n] \in Nat
    BY <1>2
  <2>2. QED  BY <2>1, Zenon
<1>4. PICK r : Iterates(r, N, Nat, 0, step)
  <2> HIDE DEF step, N
  <2>1. 0 \in Nat
    OBVIOUS
  <2>2. QED  BY <1>1, <1>3, <2>1, Iteration, Zenon
<1>5. IsTotal(r)
  <2>1. ASSUME NEW n \in 0..N PROVE r[n] = IF n = 0 THEN 0 ELSE r[n - 1] + v[n]
    <3>1. CASE n = 0
      BY <3>1, <1>4 DEF Iterates
    <3>2. CASE n # 0
      <4>1. n \in 1..N /\ n - 1 \in 0..N
        BY <1>1, <3>2
      <4>2. r[n - 1] \in Nat
        BY <4>1, <1>4 DEF Iterates
      <4>3. QED  BY <3>2, <4>1, <4>2, <1>4 DEF Iterates
    <3>3. QED  BY <3>1, <3>2
  <2> HIDE DEF N
  <2>2. QED  BY <2>1, <1>4 DEF Iterates
<1> DEFINE g == CHOOSE h : IsTotal(h)
           T == {k \in 0..N : g[k] \in Nat}
<1>6. IsTotal(g)
  <2> HIDE DEF IsTotal
  <2>1. QED  BY <1>5, Zenon
<1>7. Total(v) = g[N]
  BY DEF Total
<1> HIDE DEF g
<1>8. \A n \in 0..N : g[n] = IF n = 0 THEN 0 ELSE g[n - 1] + v[n]
  BY <1>6
<1>9. 0..N \subseteq T
  <2>1. 0 \in T
    BY <1>1, <1>8
  <2>2. ASSUME NEW n \in 1..N, n - 1 \in T PROVE n \in T
    <3>1. n \in 0..N /\ n # 0
      BY <1>1
    <3>2. g[n] = g[n - 1] + v[n]
      BY <1>8, <3>1
    <3>3. QED  BY <1>2, <2>2, <3>1, <3>2
  <2> HIDE DEF T, N
  <2>3. QED  BY <1>1, <2>1, <2>2, IntervalInduction
<1>10. N \in T
  BY <1>1, <1>9
<1>11. QED  BY <1>7, <1>10

\* The powers of two of the widths that occur.
LEMMA Powers == \A k \in 0..30 : 2^k \in Nat \ {0}
<1>1. 2^0 \in Nat \ {0} /\ 2^1 \in Nat \ {0} /\ 2^2 \in Nat \ {0} /\ 2^3 \in Nat \ {0} /\ 2^4 \in Nat \ {0}
      /\ 2^5 \in Nat \ {0} /\ 2^6 \in Nat \ {0} /\ 2^7 \in Nat \ {0} /\ 2^8 \in Nat \ {0} /\ 2^9 \in Nat \ {0}
  OBVIOUS
<1>2. 2^10 \in Nat \ {0} /\ 2^11 \in Nat \ {0} /\ 2^12 \in Nat \ {0} /\ 2^13 \in Nat \ {0} /\ 2^14 \in Nat \ {0}
      /\ 2^15 \in Nat \ {0} /\ 2^16 \in Nat \ {0} /\ 2^17 \in Nat \ {0} /\ 2^18 \in Nat \ {0} /\ 2^19 \in Nat \ {0}
  OBVIOUS
<1>3. 2^20 \in Nat \ {0} /\ 2^21 \in Nat \ {0} /\ 2^22 \in Nat \ {0} /\ 2^23 \in Nat \ {0} /\ 2^24 \in Nat \ {0}
      /\ 2^25 \in Nat \ {0} /\ 2^26 \in Nat \ {0} /\ 2^27 \in Nat \ {0} /\ 2^28 \in Nat \ {0} /\ 2^29 \in Nat \ {0}
      /\ 2^30 \in Nat \ {0}
  OBVIOUS
<1> DEFINE P(k) == 2^k \in Nat \ {0}
<1>4. P(0) /\ P(1) /\ P(2) /\ P(3) /\ P(4) /\ P(5) /\ P(6) /\ P(7) /\ P(8) /\ P(9)
  BY <1>1
<1>5. P(10) /\ P(11) /\ P(12) /\ P(13) /\ P(14) /\ P(15) /\ P(16) /\ P(17) /\ P(18) /\ P(19)
  BY <1>2
<1>6. P(20) /\ P(21) /\ P(22) /\ P(23) /\ P(24) /\ P(25) /\ P(26) /\ P(27) /\ P(28) /\ P(29) /\ P(30)
  BY <1>3
<1> HIDE DEF P
<1>7. \A k \in 0..30 : P(k)
  BY <1>4, <1>5, <1>6
<1>8. QED  BY <1>7 DEF P

LEMMA Products == ASSUME NEW x \in Nat, NEW y \in Nat PROVE x * y \in Nat /\ x + y \in Nat
OBVIOUS

LEMMA LowBits == ASSUME NEW x \in Nat, NEW y \in Nat \ {0} PROVE x % y \in Nat /\ x - (x % y) \in Nat
OBVIOUS

----------------------------------------------------------------------------
(* The address of a packet.                                                *)

AddrBytes == {s \in Seq(Bytes) : Len(s) <= 5}

LEMMA AddrWidths ==
  ASSUME NEW isa, NEW n, NEW i \in 1..5
  PROVE  AddrBits(isa, i, n) \in 3..7 /\ AddrShift(isa, i) \in 0..30
<1>1. \A j \in 1..5 : AddrBits(isa, j, n) \in 3..7
  BY DEF AddrBits
<1>2. AddrBits(isa, 1, 5) \in 6..7
  BY DEF AddrBits
<1>3. CASE i = 1
  BY <1>1, <1>3 DEF AddrShift
<1>4. CASE i # 1
  <2>1. i - 2 \in 0..3 /\ AddrShift(isa, i) = AddrBits(isa, 1, 5) + 7 * (i - 2)
    BY <1>4 DEF AddrShift
  <2>2. QED  BY <1>1, <1>2, <2>1
<1>5. QED  BY <1>3, <1>4

LEMMA AddrParts ==
  ASSUME NEW isa, NEW s \in AddrBytes, NEW i \in 1..Len(s)
  PROVE  AddrPart(isa, s, i) \in Nat /\ AddrPart(isa, s, i) * 2^AddrShift(isa, i) \in Nat
<1>1. s[i] \in 0..255 /\ i \in 1..5
  <2>1. s \in Seq(Bytes) /\ Len(s) \in Nat /\ Len(s) <= 5
    BY LenProperties DEF AddrBytes
  <2>2. i \in 1..5
    BY <2>1
  <2>3. QED  BY <2>1, <2>2, ElementOfSeq DEF Bytes
<1> DEFINE w == AddrBits(isa, i, Len(s))
<1>2. w \in 0..30 /\ AddrShift(isa, i) \in 0..30
  <2>1. w \in 3..7 /\ AddrShift(isa, i) \in 0..30
    BY <1>1, AddrWidths
  <2>2. QED  BY <2>1
<1>3. 2^w \in Nat \ {0} /\ 2^AddrShift(isa, i) \in Nat
  <2> HIDE DEF w
  <2>1. QED  BY <1>2, Powers
<1>4. AddrPart(isa, s, i) \in Nat
  <2>1. CASE i = 1
    <3>1. \A b \in 0..255 : (b % 128) \div 2 \in Nat /\ (b % 128) - (b % 2) \in Nat
      OBVIOUS
    <3>2. AddrPart(isa, s, i) = IF isa = "Jazelle" THEN (s[i] % 128) \div 2 ELSE (s[i] % 128) - (s[i] % 2)
      BY <2>1, Zenon DEF AddrPart
    <3>3. QED  BY <1>1, <3>1, <3>2, Zenon
  <2>2. CASE i # 1
    <3>1. AddrPart(isa, s, i) = s[i] % 2^w
      BY <2>2, Zenon DEF AddrPart
    <3>2. \A b \in 0..255 : b \in Nat
      OBVIOUS
    <3>4. s[i] \in Nat
      BY <1>1, <3>2, Zenon
    <3> HIDE DEF w
    <3>3. QED  BY <1>3, <3>1, <3>4, LowBits, Zenon
  <2>3. QED  BY <2>1, <2>2
<1>5. QED  BY <1>3, <1>4, Products, Zenon

LEMMA AddressNumbers ==
  ASSUME NEW isa, NEW s \in AddrBytes
  PROVE  AddrVal(isa, s) \in Nat /\ AddrLen(isa, s) \in Nat
<1>1. Len(s) \in Nat /\ Len(s) <= 5
  BY LenProperties DEF AddrBytes
<1> DEFINE v(i) == AddrPart(isa, s, i) * 2^AddrShift(isa, i)
           w(i) == AddrBits(isa, i, Len(s))
           vs == [i \in 1..Len(s) |-> v(i)]
           ws == [i \in 1..Len(s) |-> w(i)]
<1>2. Total(vs) \in Nat
  <2>1. \A i \in 1..Len(s) : v(i) \in Nat
    BY AddrParts, Zenon
  <2> HIDE DEF v
  <2>2. vs \in Seq(Nat)
    BY <1>1, <2>1
  <2> HIDE DEF vs
  <2>3. QED  BY <2>2, TotalNat
<1>3. Total(ws) \in Nat
  <2>1. \A i \in 1..Len(s) : w(i) \in Nat
    <3> TAKE i \in 1..Len(s)
    <3>1. i \in 1..5
      BY <1>1
    <3>2. w(i) \in 3..7
      BY <3>1, AddrWidths, Zenon
    <3> HIDE DEF w
    <3>3. QED  BY <3>2
  <2> HIDE DEF w
  <2>2. ws \in Seq(Nat)
    BY <1>1, <2>1
  <2> HIDE DEF ws
  <2>3. QED  BY <2>2, TotalNat
<1>4. \A x \in Nat : (IF isa = "Arm" THEN 2 ELSE 1) * x \in Nat /\ (IF isa = "Arm" THEN 1 ELSE 0) + x \in Nat
  OBVIOUS
<1>5. AddrVal(isa, s) = (IF isa = "Arm" THEN 2 ELSE 1) * Total(vs)
  BY Zenon DEF AddrVal
<1>6. AddrLen(isa, s) = (IF isa = "Arm" THEN 1 ELSE 0) + Total(ws)
  BY Zenon DEF AddrLen
<1> HIDE DEF vs, ws
<1>7. QED  BY <1>2, <1>3, <1>4, <1>5, <1>6, Zenon

\* The address that is left with the bits of another one in it.
LEMMA UpdatedAddress ==
  ASSUME NEW a \in Nat, NEW val \in Nat, NEW bits \in Nat
  PROVE  (IF bits > 30 THEN val ELSE (a - (a % 2^bits)) + (val % 2^bits)) \in Nat
<1>1. CASE bits > 30
  BY <1>1
<1>2. CASE ~(bits > 30)
  <2>1. bits \in 0..30
    BY <1>2
  <2>2. 2^bits \in Nat \ {0}
    BY <2>1, Powers
  <2>3. \A m \in Nat \ {0} : (a - (a % m)) + (val % m) \in Nat
    <3> TAKE m \in Nat \ {0}
    <3>1. a - (a % m) \in Nat /\ val % m \in Nat
      BY LowBits
    <3>2. QED  BY <3>1, Products, Zenon
  <2>4. QED  BY <1>2, <2>2, <2>3, Zenon
<1>3. QED  BY <1>1, <1>2

----------------------------------------------------------------------------
(* A packet that is taken from its bytes keeps its shape.                  *)

LEMMA AtomsShape ==
  ASSUME NEW p, NEW h, PktShape(p)
  PROVE  PktShape(SetAtomFromPHdr(p, h)) /\ PktShape(SetCycleAccAtomFromPHdr(p, h))
<1> DEFINE n == AtomNum(h)
           v == [k \in 1..n |-> IF Bit(h, n - k + 1) = 0 THEN "E" ELSE "N"]
           one == IF Bit(h, 1) = 0 THEN "E" ELSE "N"
<1>1. n \in 1..5
  BY DEF AtomNum
<1>2. Len(v) <= 5
  <2>1. v \in [1..n -> {"E", "N"}]
    OBVIOUS
  <2> HIDE DEF n, v
  <2>2. \A k \in 1..5 : \A w \in [1..k -> {"E", "N"}] : Len(w) <= 5
    <3> TAKE k \in 1..5
    <3> TAKE w \in [1..k -> {"E", "N"}]
    <3>1. w \in Seq({"E", "N"}) /\ DOMAIN w = 1..k
      BY SeqDef
    <3>2. Len(w) \in Nat /\ 1..Len(w) = 1..k
      BY <3>1, LenProperties
    <3>3. QED  BY <3>2
  <2>3. QED  BY <1>1, <2>1, <2>2, Zenon
<1>3. Len(<<one>>) <= 5
  <2> HIDE DEF one
  <2>1. Len(<<one>>) = 1
    OBVIOUS
  <2>2. QED  BY <2>1
<1>4. SetAtomFromPHdr(p, h) = [p EXCEPT !.atoms = v]
  BY DEF SetAtomFromPHdr
<1>5. SetCycleAccAtomFromPHdr(p, h) = [p EXCEPT !.atoms = <<one>>]
  BY DEF SetCycleAccAtomFromPHdr
<1> HIDE DEF v, one
<1>6. QED  BY <1>2, <1>3, <1>4, <1>5 DEF PktShape

LEMMA CountShape == ASSUME NEW p, NEW s, PktShape(p) PROVE PktShape(WithCycleCount(p, s))
BY DEF WithCycleCount, PktShape

LEMMA CtxtShape == ASSUME NEW p, NEW s, PktShape(p) PROVE PktShape(WithCtxtID(p, s))
<1>1. CASE cfg.ctxt = 0
  BY <1>1 DEF WithCtxtID
<1>2. CASE cfg.ctxt # 0
  BY <1>2 DEF WithCtxtID, PktShape
<1>3. QED  BY <1>1, <1>2

LEMMA AddressShape ==
  ASSUME NEW p, NEW isa \in ISAs, NEW val \in Nat, NEW bits \in Nat, PktShape(p)
  PROVE  PktShape(UpdateAddress(UpdateISA(p, isa), val, bits))
<1> DEFINE q == UpdateISA(p, isa)
<1>1. PktShape(q)
  BY DEF UpdateISA, PktShape
<1> HIDE DEF q
<1> DEFINE a == IF bits > 30 THEN val ELSE (q.addr - (q.addr % 2^bits)) + (val % 2^bits)
<1>2. a \in Nat
  BY <1>1, UpdatedAddress DEF PktShape
<1>3. UpdateAddress(q, val, bits) = [q EXCEPT !.addr = a]
  BY DEF UpdateAddress
<1> HIDE DEF a
<1>4. PktShape([q EXCEPT !.addr = a])
  BY <1>1, <1>2 DEF PktShape
<1>5. QED  BY <1>3, <1>4 DEF q

LEMMA WithAddressShape ==
  ASSUME NEW p, NEW g, NEW s \in AddrBytes, PktShape(p), g.isa \in ISAs
  PROVE  PktShape(WithAddress(p, g, s))
<1> DEFINE isa == AddrISA(p, g)
<1>1. isa \in ISAs
  BY DEF AddrISA, PktShape, ISAs
<1> HIDE DEF isa
<1>2. AddrVal(isa, s) \in Nat /\ AddrLen(isa, s) \in Nat
  BY AddressNumbers
<1>3. PktShape(UpdateAddress(UpdateISA(p, isa), AddrVal(isa, s), AddrLen(isa, s)))
  BY <1>1, <1>2, AddressShape
<1>4. QED  BY <1>3 DEF WithAddress, isa

LEMMA AddrSlice ==
  ASSUME NEW s \in Seq(Bytes), NEW i \in 1..2, NEW n \in 0..5, n + i - 1 <= Len(s)
  PROVE  SubSeq(s, i, n + i - 1) \in AddrBytes
<1> DEFINE t == SubSeq(s, i, n + i - 1)
<1>1. Len(s) \in Nat
  BY LenProperties
<1>2. i \in 1..(Len(s) + 1) /\ n + i - 1 \in (i - 1)..Len(s)
  BY <1>1
<1>3. t \in Seq(Bytes) /\ Len(t) = IF i <= n + i - 1 THEN (n + i - 1) - i + 1 ELSE 0
  BY <1>2, SubSeqProperties
<1>4. Len(t) <= 5
  BY <1>3
<1>5. QED  BY <1>3, <1>4 DEF AddrBytes

LEMMA ISyncShape ==
  ASSUME NEW p, NEW g, NEW s \in Seq(Bytes), PktShape(p), Len(s) >= 6
  PROVE  PktShape(ISyncPacket(p, g, s))
<1> DEFINE isa  == IF s[2] % 2 = 0 THEN "Arm" ELSE IF Bit(s[6], 2) = 1 THEN "Tee" ELSE "Thumb2"
           addr == (s[2] - (s[2] % 2)) + 2^8 * s[3] + 2^16 * s[4] + 2^24 * s[5]
           u    == UpdateAddress(UpdateISA(p, isa), addr, 32)
           q    == [u EXCEPT !.reason = (s[6] \div 32) % 4, !.ns = (Bit(s[6], 3) = 1)]
           at   == 7 + CCLen(From(s, 7))
<1>1. addr \in Nat
  <2>1. s[2] \in Nat /\ s[3] \in Nat /\ s[4] \in Nat /\ s[5] \in Nat
    <3>1. Len(s) \in Nat
      BY LenProperties
    <3>2. 2 \in 1..Len(s) /\ 3 \in 1..Len(s) /\ 4 \in 1..Len(s) /\ 5 \in 1..Len(s)
      BY <3>1
    <3>3. s[2] \in Bytes /\ s[3] \in Bytes /\ s[4] \in Bytes /\ s[5] \in Bytes
      BY <3>2, ElementOfSeq, Zenon
    <3>4. \A b \in Bytes : b \in Nat
      BY DEF Bytes
    <3>5. QED  BY <3>3, <3>4, Zenon
  <2>2. s[2] - (s[2] % 2) \in Nat
    BY <2>1, LowBits
  <2>3. 8 \in 0..30 /\ 16 \in 0..30 /\ 24 \in 0..30
    OBVIOUS
  <2>4. 2^8 \in Nat /\ 2^16 \in Nat /\ 2^24 \in Nat
    BY <2>3, Powers
  <2>5. 2^8 * s[3] \in Nat /\ 2^16 * s[4] \in Nat /\ 2^24 * s[5] \in Nat
    BY <2>1, <2>4, Products, Zenon
  <2>6. QED  BY <2>2, <2>5, Products, Zenon
<1>2. isa \in ISAs
  BY DEF ISAs
<1>3. PktShape(u)
  <2> HIDE DEF isa, addr
  <2>1. QED  BY <1>1, <1>2, AddressShape
<1>4. PktShape(q)
  <2> HIDE DEF u
  <2>1. QED  BY <1>3 DEF PktShape
<1>5. ISyncPacket(p, g, s) =
        IF g.needCC THEN WithCtxtID(WithCycleCount(q, From(s, 7)), From(s, at))
        ELSE WithCtxtID(q, From(s, 7))
  BY DEF ISyncPacket
<1> HIDE DEF q, at
<1>6. PktShape(WithCtxtID(WithCycleCount(q, From(s, 7)), From(s, at)))
  BY <1>4, CountShape, CtxtShape
<1>7. PktShape(WithCtxtID(q, From(s, 7)))
  BY <1>4, CtxtShape
<1>8. QED  BY <1>5, <1>6, <1>7

LEMMA BranchShape ==
  ASSUME NEW p, NEW g, NEW s \in Seq(Bytes), PktShape(p), g.isa \in ISAs,
         g.numAddr \in 0..5, g.numAddr <= Len(s)
  PROVE  PktShape(BranchPacket(p, g, s))
<1> DEFINE t == SubSeq(s, 1, g.numAddr)
           a == WithAddress(p, g, t)
           r == From(s, g.numAddr + 1)
           q == WithException(a, g, r)
           at == g.numAddr + g.numExcep + 1
<1>1. t \in AddrBytes
  <2>1. g.numAddr + 1 - 1 = g.numAddr /\ 1 \in 1..2
    OBVIOUS
  <2>2. QED  BY <2>1, AddrSlice
<1>2. PktShape(a)
  <2> HIDE DEF t
  <2>1. QED  BY <1>1, WithAddressShape
<1>3. BranchPacket(p, g, s) = IF cfg.cc THEN WithCycleCount(q, From(s, at)) ELSE q
  BY DEF BranchPacket
<1> HIDE DEF a, r
<1>4. PktShape(q)
  <2>1. CASE g.numExcep = 0
    BY <1>2, <2>1 DEF WithException
  <2>2. CASE g.numExcep # 0
    BY <1>2, <2>2 DEF WithException, PktShape
  <2>3. QED  BY <2>1, <2>2
<1> HIDE DEF q, at
<1>5. QED  BY <1>3, <1>4, CountShape

LEMMA TimestampShape == ASSUME NEW p, NEW s, PktShape(p) PROVE PktShape(TimestampPacket(p, s))
<1> DEFINE groups == extractTS(From(s, 2))
           v == [k \in 1..9 |-> IF k <= Len(groups) THEN groups[k] ELSE p.ts[k]]
           q == UpdateTimestamp(p, groups)
           t == From(s, 2 + TSLen(From(s, 2)))
<1> HIDE DEF groups, t
<1>1. Len(v) = 9
  OBVIOUS
<1>2. q = [p EXCEPT !.ts = v]
  BY DEF UpdateTimestamp
<1>3. TimestampPacket(p, s) = IF cfg.cc THEN WithCycleCount(q, t) ELSE q
  BY DEF TimestampPacket, groups, t
<1> HIDE DEF q, v
<1>4. PktShape(q)
  BY <1>1, <1>2 DEF PktShape
<1>5. QED  BY <1>3, <1>4, CountShape

LEMMA AtomShape == ASSUME NEW p, NEW s, PktShape(p) PROVE PktShape(AtomPacket(p, s))
<1>1. PktShape(WithCycleCount(p, s))
  BY CountShape
<1>2. PktShape(SetCycleAccAtomFromPHdr(WithCycleCount(p, s), s[1])) /\ PktShape(SetAtomFromPHdr(p, s[1]))
  BY <1>1, AtomsShape
<1>3. QED  BY <1>2 DEF AtomPacket

\* The bytes s of a complete packet hold the address bytes that were counted.
Fits(type, g, s) ==
  /\ s \in Seq(Bytes) /\ g.isa \in ISAs /\ g.numAddr \in 0..5
  /\ type = "BranchAddress" => g.numAddr <= Len(s)
  /\ type = "WPointUpdate" => g.numAddr + 1 <= Len(s)
  /\ type = "ISync" => Len(s) >= 6

LEMMA CompleteShape ==
  ASSUME NEW p, NEW g, NEW s, PktShape(p), Fits(p.type, g, s)
  PROVE  PktShape(Complete(p, g, s))
<1>1. p.type = "BranchAddress" => PktShape(BranchPacket(p, g, s))
  BY BranchShape DEF Fits
<1>2. p.type = "ISync" => PktShape(ISyncPacket(p, g, s))
  BY ISyncShape DEF Fits
<1>3. PktShape(AtomPacket(p, s)) /\ PktShape(TimestampPacket(p, s))
  BY AtomShape, TimestampShape
<1>4. p.type = "WPointUpdate" => PktShape(WPointPacket(p, g, s))
  <2> SUFFICES ASSUME p.type = "WPointUpdate" PROVE PktShape(WPointPacket(p, g, s))
    OBVIOUS
  <2>1. 2 \in 1..2 /\ g.numAddr + 2 - 1 = g.numAddr + 1 /\ g.numAddr + 2 - 1 <= Len(s)
    BY DEF Fits
  <2>2. SubSeq(s, 2, g.numAddr + 2 - 1) \in AddrBytes
    BY <2>1, AddrSlice, Zenon DEF Fits
  <2>3. SubSeq(s, 2, g.numAddr + 1) \in AddrBytes
    BY <2>1, <2>2, Zenon
  <2>4. QED  BY <2>3, WithAddressShape, Zenon DEF WPointPacket, Fits
<1>5. PktShape(WithCtxtID(p, From(s, 2)))
  BY CtxtShape
<1>6. PktShape([p EXCEPT !.vmid = s[2]])
  BY DEF PktShape
<1>7. QED  BY <1>1, <1>2, <1>3, <1>4, <1>5, <1>6 DEF Complete

----------------------------------------------------------------------------
(* The return stack and the ISA of the decoder, whatever packet comes.     *)

LEMMA PushedStack ==
  ASSUME NEW s, NEW a, NEW isa \in ISAs, StackOK(s)
  PROVE  StackOK(Append(IF Len(s) = RetStackCap THEN Tail(s) ELSE s, [addr |-> a, isa |-> isa]))
<1> DEFINE x == [addr |-> a, isa |-> isa]
           t == IF Len(s) = RetStackCap THEN Tail(s) ELSE s
<1>1. x.isa \in ISAs
  OBVIOUS
<1> HIDE DEF x
<1>2. PICK S : s \in Seq(S)
  BY DEF StackOK, IsSeq
<1>3. Len(s) \in Nat /\ Len(s) <= RetStackCap /\ RetStackCap \in Nat \ {0}
  BY <1>2, LenProperties, BoundsAssumption DEF StackOK
<1>4. t \in Seq(S) /\ Len(t) + 1 <= RetStackCap /\ \A k \in 1..Len(t) : t[k].isa \in ISAs
  <2>1. CASE Len(s) = RetStackCap
    <3>1. s # <<>>
      BY <1>3, <2>1
    <3>2. t = Tail(s)
      BY <2>1
    <3>3. t \in Seq(S) /\ Len(t) = Len(s) - 1 /\ \A i \in 1..Len(t) : t[i] = s[i + 1]
      BY <1>2, <3>1, <3>2, HeadTailProperties
    <3>4. \A i \in 1..Len(t) : i + 1 \in 1..Len(s)
      BY <1>3, <3>3
    <3>5. \A k \in 1..Len(t) : t[k].isa \in ISAs
      BY <3>3, <3>4 DEF StackOK
    <3>6. Len(s) - 1 + 1 <= RetStackCap
      BY <1>3
    <3> HIDE DEF t
    <3>7. QED  BY <3>3, <3>5, <3>6, Zenon
  <2>2. CASE Len(s) # RetStackCap
    <3>1. t = s
      BY <2>2
    <3> HIDE DEF t
    <3>2. QED  BY <1>2, <1>3, <2>2, <3>1 DEF StackOK
  <2>3. QED  BY <2>1, <2>2
<1> HIDE DEF t
<1>5. IsSeq(t)
  BY <1>4 DEF IsSeq
<1>6. /\ IsSeq(t \o <<x>>) /\ Len(t) \in Nat /\ Len(t \o <<x>>) = Len(t) + 1
      /\ (t \o <<x>>)[Len(t) + 1] = x
      /\ \A k \in 1..Len(t) : (t \o <<x>>)[k] = t[k]
  BY <1>5, AnyOneMore
<1>7. Append(t, x) = t \o <<x>>
  BY <1>5, AnyAppend
<1> DEFINE u == Append(t, x)
<1>8. ASSUME NEW k \in 1..Len(u) PROVE u[k].isa \in ISAs
  <2>1. k \in 1..Len(t) \/ k = Len(t) + 1
    BY <1>6, <1>7
  <2>2. QED  BY <1>1, <1>4, <1>6, <1>7, <2>1
<1>9. IsSeq(u) /\ Len(u) <= RetStackCap
  BY <1>4, <1>6, <1>7
<1> HIDE DEF u
<1>10. StackOK(u)
  BY <1>8, <1>9 DEF StackOK
<1>11. QED  BY <1>10 DEF u, t, x

LEMMA PoppedStack ==
  ASSUME NEW s, StackOK(s), s # <<>>
  PROVE  Last(s).isa \in ISAs /\ StackOK(Front(s))
<1>1. PICK S : s \in Seq(S)
  BY DEF StackOK, IsSeq
<1>2. Len(s) \in Nat \ {0}
  BY <1>1, LenProperties, EmptySeq
<1>3. Last(s).isa \in ISAs
  BY <1>2 DEF Last, StackOK
<1>4. \A i \in 1..(Len(s) - 1) : s[i] \in S
  BY <1>1, <1>2, ElementOfSeq
<1> DEFINE t == Front(s)
<1>5. t \in Seq(S) /\ Len(t) = Len(s) - 1 /\ \A i \in 1..(Len(s) - 1) : t[i] = s[i]
  <2>1. /\ t \in Seq(S) /\ Len(t) = IF 1 <= Len(s) - 1 THEN (Len(s) - 1) - 1 + 1 ELSE 0
        /\ \A i \in 1..((Len(s) - 1) - 1 + 1) : t[i] = s[1 + i - 1]
    BY <1>2, <1>4, SubSeqProperties DEF Front
  <2>2. /\ (Len(s) - 1) - 1 + 1 = Len(s) - 1 /\ \A i \in 1..(Len(s) - 1) : 1 + i - 1 = i
        /\ (IF 1 <= Len(s) - 1 THEN (Len(s) - 1) - 1 + 1 ELSE 0) = Len(s) - 1
    <3>1. \A n \in Nat : (n > 0) =>
            /\ (n - 1) - 1 + 1 = n - 1 /\ \A i \in 1..(n - 1) : 1 + i - 1 = i
            /\ (IF 1 <= n - 1 THEN (n - 1) - 1 + 1 ELSE 0) = n - 1
      OBVIOUS
    <3>2. Len(s) \in Nat /\ Len(s) > 0
      BY <1>2
    <3>3. QED  BY <3>1, <3>2, Zenon
  <2> HIDE DEF t
  <2>3. \A i \in 1..(Len(s) - 1) : t[i] = s[i]
    BY <2>1, <2>2, Zenon
  <2>4. QED  BY <2>1, <2>2, <2>3, Zenon
<1> HIDE DEF t
<1>6. \A k \in 1..Len(t) : t[k].isa \in ISAs
  <2>1. \A k \in 1..Len(t) : k \in 1..Len(s) /\ k \in 1..(Len(s) - 1)
    BY <1>2, <1>5
  <2>2. QED  BY <1>5, <2>1 DEF StackOK
<1>7. Len(t) <= RetStackCap
  BY <1>2, <1>5, BoundsAssumption DEF StackOK
<1>8. IsSeq(t)
  BY <1>5 DEF IsSeq
<1>9. QED  BY <1>3, <1>6, <1>7, <1>8 DEF StackOK, t

LEMMA EmitShape == ASSUME NEW d, NEW kind, NEW val, DecShape(d) PROVE DecShape(Emit(d, kind, val))
BY DEF Emit, DecShape

LEMMA InstrISA == ASSUME NEW isa \in ISAs, NEW a PROVE InstrAt(isa, a).next \in ISAs
<1>1. CASE <<isa, a>> \in DOMAIN Program
  <2>1. InstrAt(isa, a) = Program[<<isa, a>>]
    BY <1>1 DEF InstrAt
  <2>2. Program[<<isa, a>>] \in [kind : {"Other", "Br", "Ind", "Isb"}, size : {2, 4}, link : BOOLEAN,
                                 target : Nat, next : {"Arm", "Thumb2"}]
    BY <1>1, ProgramAssumption
  <2>3. QED  BY <2>1, <2>2 DEF ISAs
<1>2. CASE <<isa, a>> \notin DOMAIN Program
  BY <1>2 DEF InstrAt
<1>3. QED  BY <1>1, <1>2

LEMMA NotInMemoryShape == ASSUME NEW d, NEW w, DecShape(d) PROVE DecShape(NotInMemory(d, w))
<1> DEFINE range == RangeOf(d, w, 0, TRUE, -1)
           shown == IF w = d.addr THEN d ELSE Emit(d, "InstrRange", range)
           nacc  == [addr |-> w, ns |-> d.ns]
           e     == Emit(shown, "AddrNacc", nacc)
<1>1. DecShape(shown)
  <2> HIDE DEF range
  <2>1. QED  BY EmitShape
<1>2. NotInMemory(d, w) = [e EXCEPT !.valid = FALSE]
  BY DEF NotInMemory
<1> HIDE DEF shown, nacc
<1>3. DecShape(e)
  BY <1>1, EmitShape
<1> HIDE DEF e
<1>4. QED  BY <1>2, <1>3 DEF DecShape

LEMMA LinkedShape ==
  ASSUME NEW d, NEW ins, NEW next, NEW isa \in ISAs, DecShape(d)
  PROVE  DecShape(Linked(d, ins, next, isa))
<1> DEFINE s == Append(IF Len(d.stack) = RetStackCap THEN Tail(d.stack) ELSE d.stack,
                       [addr |-> next, isa |-> isa])
<1>1. StackOK(s)
  BY PushedStack DEF DecShape
<1>2. push(d, next, isa) = IF ~cfg.retStack THEN d ELSE [d EXCEPT !.stack = s]
  BY DEF push
<1> HIDE DEF s
<1>3. DecShape(push(d, next, isa))
  BY <1>1, <1>2 DEF DecShape
<1>4. QED  BY <1>3 DEF Linked

LEMMA TakeIndirectShape ==
  ASSUME NEW d, NEW p, NEW next, DecShape(d), cfg.retStack /\ p.type = "Atom" => d.stack # <<>>
  PROVE  DecShape(TakeIndirect(d, p, next))
<1>1. CASE cfg.retStack /\ p.type = "Atom"
  <2> DEFINE l == Last(d.stack)
             s == Front(d.stack)
  <2>1. l.isa \in ISAs /\ StackOK(s)
    BY <1>1, PoppedStack DEF DecShape
  <2>2. TakeIndirect(d, p, next) = [d EXCEPT !.addr = l.addr, !.isa = l.isa, !.stack = s]
    BY <1>1 DEF TakeIndirect
  <2> HIDE DEF l, s
  <2>3. QED  BY <2>1, <2>2 DEF DecShape
<1>2. CASE ~(cfg.retStack /\ p.type = "Atom")
  BY <1>2 DEF TakeIndirect, DecShape
<1>3. QED  BY <1>1, <1>2

LEMMA GoPastShape ==
  ASSUME NEW d, NEW p, NEW ins, NEW next, NEW taken \in BOOLEAN, DecShape(d), ins.next \in ISAs,
         ins.kind = "Ind" /\ taken /\ cfg.retStack /\ p.type = "Atom" => d.stack # <<>>
  PROVE  DecShape(GoPast(d, p, ins, next, taken))
<1> DEFINE b == [d EXCEPT !.addr = ins.target, !.isa = ins.next]
           t == TakeIndirect(d, p, next)
           o == [d EXCEPT !.addr = next, !.isa = ins.next]
           r == GoPast(d, p, ins, next, taken)
<1>1. DecShape(b) /\ DecShape(o)
  BY DEF DecShape
<1>2. r = IF ins.kind = "Br" /\ taken THEN Linked(b, ins, next, d.isa)
          ELSE IF ins.kind = "Ind" /\ taken THEN Linked(t, ins, next, d.isa) ELSE o
  BY DEF GoPast
<1>3. ins.kind = "Ind" /\ taken => DecShape(t)
  BY TakeIndirectShape
<1>4. d.isa \in ISAs
  BY DEF DecShape
<1> HIDE DEF b, t, o, r
<1>5. DecShape(Linked(b, ins, next, d.isa)) /\ (ins.kind = "Ind" /\ taken => DecShape(Linked(t, ins, next, d.isa)))
  BY <1>1, <1>3, <1>4, LinkedShape
<1>6. DecShape(r)
  BY <1>1, <1>2, <1>5
<1>7. QED  BY <1>6 DEF r

LEMMA AtWaypointShape ==
  ASSUME NEW d, NEW p, NEW taken \in BOOLEAN, NEW ins, NEW next, DecShape(d), ins.next \in ISAs
  PROVE  DecShape(AtWaypoint(d, p, taken, ins, next))
<1> DEFINE range == RangeOf(d, next, ins.size, taken, p.cc)
           e == Emit(d, "InstrRange", range)
           stop == ins.kind = "Ind" /\ taken /\ cfg.retStack /\ p.type = "Atom" /\ d.stack = <<>>
           x == [d EXCEPT !.valid = FALSE, !.err = TRUE]
<1>1. AtWaypoint(d, p, taken, ins, next) = IF stop THEN x ELSE GoPast(e, p, ins, next, taken)
  BY DEF AtWaypoint
<1>2. DecShape(x)
  BY DEF DecShape
<1> HIDE DEF range, x
<1>3. DecShape(e) /\ e.stack = d.stack
  <2>1. e.stack = d.stack
    BY DEF Emit, DecShape
  <2>2. QED  BY <2>1, EmitShape
<1> HIDE DEF e
<1>4. ~stop => DecShape(GoPast(e, p, ins, next, taken))
  BY <1>3, GoPastShape
<1>5. QED  BY <1>1, <1>2, <1>4

LEMMA AtomRangeShape ==
  ASSUME NEW d, NEW p, NEW taken \in BOOLEAN, NEW w, DecShape(d)
  PROVE  DecShape(processAtomRange(d, p, taken, w))
<1> DEFINE ins == InstrAt(d.isa, w)
           next == w + InstrAt(d.isa, w).size
           x == [d EXCEPT !.valid = FALSE]
           r == processAtomRange(d, p, taken, w)
<1>1. \/ r = NotInMemory(d, w) \/ r = x \/ r = AtWaypoint(d, p, taken, ins, next)
  BY DEF processAtomRange
<1>2. DecShape(x)
  BY DEF DecShape
<1>3. ins.next \in ISAs
  BY InstrISA DEF DecShape
<1> HIDE DEF ins, next, x, r
<1>4. DecShape(NotInMemory(d, w)) /\ DecShape(AtWaypoint(d, p, taken, ins, next))
  BY <1>3, NotInMemoryShape, AtWaypointShape
<1>5. DecShape(r)
  BY <1>1, <1>2, <1>4
<1>6. QED  BY <1>5 DEF r

LEMMA AfterAtomShape == ASSUME NEW d, NEW p, NEW a, DecShape(d) PROVE DecShape(AfterAtom(d, p, a))
<1> DEFINE w == WalkEnd(d, -1)
           taken == a = "E"
<1>1. taken \in BOOLEAN
  OBVIOUS
<1>2. AfterAtom(d, p, a) = IF d.valid THEN processAtomRange(d, p, taken, w) ELSE d
  BY DEF AfterAtom
<1> HIDE DEF w, taken
<1>3. QED  BY <1>1, <1>2, AtomRangeShape

LEMMA AtomDecShape ==
  ASSUME NEW d, NEW p, IsSeq(p.atoms), DecShape(d)
  PROVE  DecShape(processAtom(d, p))
<1> DEFINE N == Len(p.atoms)
           g == CHOOSE h : AtomsOf(d, p, h)
           T == {k \in 0..N : DecShape(g[k])}
<1>1. N \in Nat
  BY AnySeqLen
<1>2. AtomsOf(d, p, g)
  BY AtomsDefined
<1>3. processAtom(d, p) = g[N]
  BY DEF processAtom, AtomsOf
<1> HIDE DEF g
<1>4. \A k \in 0..N : g[k] = IF k = 0 THEN d ELSE AfterAtom(g[k - 1], p, p.atoms[k])
  BY <1>2 DEF AtomsOf
<1>5. 0 \in T
  BY <1>1, <1>4
<1>6. ASSUME NEW k \in 1..N, k - 1 \in T PROVE k \in T
  <2>1. k \in 0..N /\ k # 0 /\ DecShape(g[k - 1])
    BY <1>6
  <2>2. g[k] = AfterAtom(g[k - 1], p, p.atoms[k])
    BY <1>4, <2>1
  <2>3. DecShape(g[k])
    BY <2>1, <2>2, AfterAtomShape
  <2>4. QED  BY <2>1, <2>3
<1>7. 0..N \subseteq T
  <2> HIDE DEF T, N
  <2>1. \A k \in 1..N : k - 1 \in T => k \in T
    BY <1>6
  <2>2. QED  BY <1>1, <1>5, <2>1, IntervalInduction
<1>8. N \in T
  BY <1>1, <1>7
<1>9. QED  BY <1>3, <1>8

LEMMA IsyncShape == ASSUME NEW d, NEW p, DecShape(d), p.isa \in ISAs PROVE DecShape(processIsync(d, p))
<1> DEFINE here == [d EXCEPT !.addr = p.addr, !.isa = p.isa, !.valid = TRUE, !.ns = p.ns,
                             !.ctxt = IF p.updatedC THEN p.ctxt ELSE @,
                             !.ctxtValid = @ \/ p.updatedC, !.needIsync = FALSE]
           why  == [reason |-> p.reason, cc |-> p.cc]
           on   == Emit(here, "TraceOn", why)
           full == IF p.isa # p.prevISA \/ p.updatedC THEN Emit(on, "PeContext", Context(on)) ELSE on
           e    == IF d.needIsync \/ p.reason # 0 THEN full ELSE here
           r    == [e EXCEPT !.stack = <<>>]
<1>1. processIsync(d, p) = r
  BY DEF processIsync, flush
<1>2. DecShape(here)
  BY DEF DecShape
<1> HIDE DEF here, why
<1>3. DecShape(on)
  BY <1>2, EmitShape
<1> HIDE DEF on
<1>4. DecShape(full)
  BY <1>3, EmitShape
<1> HIDE DEF full
<1>5. DecShape(e)
  BY <1>2, <1>4
<1> HIDE DEF e
<1>6. StackOK(<<>>)
  <2>1. Len(<<>>) <= RetStackCap /\ 1..Len(<<>>) = {}
    BY AnyEmpty, BoundsAssumption
  <2>2. QED  BY <2>1, AnyEmpty DEF StackOK
<1>7. DecShape(r)
  BY <1>5, <1>6 DEF DecShape
<1>8. QED  BY <1>1, <1>7

LEMMA BranchDecShape == ASSUME NEW d, NEW p, DecShape(d), p.isa \in ISAs PROVE DecShape(processBranch(d, p))
<1> DEFINE exc == [num |-> p.exc, cc |-> p.cc, ret |-> IF d.valid THEN d.addr ELSE -1]
           w == WalkEnd(d, -1)
           before == IF p.exc # -1 THEN Emit(d, "Exception", exc)
                     ELSE IF d.valid THEN processAtomRange(d, p, TRUE, w) ELSE d
<1>1. processBranch(d, p) = [before EXCEPT !.isa = p.isa, !.addr = p.addr, !.valid = TRUE]
  BY DEF processBranch
<1> HIDE DEF exc, w
<1>2. DecShape(before)
  BY EmitShape, AtomRangeShape
<1> HIDE DEF before
<1>3. QED  BY <1>1, <1>2 DEF DecShape

LEMMA OtherDecShape ==
  ASSUME NEW d, NEW p, DecShape(d)
  PROVE  DecShape(processWPUpdate(d, p)) /\ DecShape(NewContextID(d, p)) /\ DecShape(NewVMID(d, p))
<1> DEFINE w == WalkEnd(d, p.addr)
           x == [d EXCEPT !.ctxt = p.ctxt, !.ctxtValid = TRUE]
           y == [d EXCEPT !.vmid = p.vmid, !.vmidValid = TRUE]
<1>1. processWPUpdate(d, p) = IF d.valid THEN processAtomRange(d, p, TRUE, w) ELSE d
  BY DEF processWPUpdate
<1>2. /\ NewContextID(d, p) = d \/ NewContextID(d, p) = Emit(x, "PeContext", Context(x))
      /\ NewVMID(d, p) = d \/ NewVMID(d, p) = Emit(y, "PeContext", Context(y))
  BY DEF NewContextID, NewVMID
<1>3. DecShape(x) /\ DecShape(y)
  BY DEF DecShape
<1> HIDE DEF w, x, y
<1>4. DecShape(Emit(x, "PeContext", Context(x))) /\ DecShape(Emit(y, "PeContext", Context(y)))
  BY <1>3, EmitShape
<1>5. QED  BY <1>1, <1>2, <1>4, AtomRangeShape

LEMMA DecodedShape ==
  ASSUME NEW d, NEW p, DecShape(d), p.isa \in ISAs, IsSeq(p.atoms)
  PROVE  DecShape(decodePacket(d, p))
<1> DEFINE r == decodePacket(d, p)
           ts == [ts |-> p.ts, cc |-> p.cc]
<1>1. \/ r = LoseSync(d) \/ r = processIsync(d, p) \/ r = processBranch(d, p)
      \/ r = Emit(d, "Event", "Trigger") \/ r = processWPUpdate(d, p) \/ r = NewContextID(d, p)
      \/ r = NewVMID(d, p) \/ r = processAtom(d, p) \/ r = Emit(d, "Timestamp", ts)
      \/ r = Emit(d, "ExceptionRet", "") \/ r = d
  BY DEF decodePacket
<1>2. DecShape(LoseSync(d))
  <2> DEFINE e == [d EXCEPT !.state = "WaitSync", !.needIsync = TRUE]
  <2>1. DecShape(e)
    BY DEF DecShape
  <2> HIDE DEF e
  <2>2. QED  BY <2>1, EmitShape DEF LoseSync, e
<1> HIDE DEF r, ts
<1>3. /\ DecShape(processIsync(d, p)) /\ DecShape(processBranch(d, p)) /\ DecShape(processWPUpdate(d, p))
      /\ DecShape(NewContextID(d, p)) /\ DecShape(NewVMID(d, p)) /\ DecShape(processAtom(d, p))
  BY IsyncShape, BranchDecShape, OtherDecShape, AtomDecShape
<1>4. /\ DecShape(Emit(d, "Event", "Trigger")) /\ DecShape(Emit(d, "Timestamp", ts))
      /\ DecShape(Emit(d, "ExceptionRet", ""))
  BY EmitShape
<1>5. DecShape(r)
  BY <1>1, <1>2, <1>3, <1>4
<1>6. QED  BY <1>5 DEF r

LEMMA ProcessedShape ==
  ASSUME NEW d, NEW p, NEW i, HasFields(d), d.state \in States, DecShape(d), p.isa \in ISAs, IsSeq(p.atoms)
  PROVE  DecShape(processPacket(d, p, i))
<1> DEFINE e == [d EXCEPT !.index = i]
           g == [e EXCEPT !.state = "Pkts"]
           l == Emit(e, "NoSync", e.unsync)
           r == processPacket(d, p, i)
<1>1. DecShape(e)
  BY DEF DecShape
<1>2. DecShape(g)
  BY DEF DecShape
<1>3. e.state \in States
  BY DEF HasFields
<1>4. r = CASE e.state = "NoSync" -> Waiting(l, p.type)
            [] e.state = "WaitSync" -> Waiting(e, p.type)
            [] e.state = "WaitISync" -> IF p.type = "ISync" THEN decodePacket(g, p) ELSE e
            [] e.state = "Pkts" -> decodePacket(e, p)
  BY DEF processPacket
<1> HIDE DEF e, g, r
<1>5. DecShape(l)
  BY <1>1, EmitShape
<1> HIDE DEF l
<1>6. DecShape(Waiting(l, p.type)) /\ DecShape(Waiting(e, p.type))
  BY <1>1, <1>5 DEF Waiting, DecShape
<1>7. DecShape(decodePacket(g, p)) /\ DecShape(decodePacket(e, p))
  BY <1>1, <1>2, DecodedShape
<1>8. DecShape(r)
  BY <1>1, <1>3, <1>4, <1>6, <1>7 DEF States
<1>9. QED  BY <1>8 DEF r

----------------------------------------------------------------------------
(* What a handler makes of its fields with a byte.                         *)

LEMMA BitIs == ASSUME NEW b \in Bytes, NEW k \in 0..30 PROVE Bit(b, k) \in 0..1
<1>1. 2^k \in Nat \ {0}
  BY Powers
<1>2. \A m \in Nat \ {0}, c \in 0..255 : (c \div m) % 2 \in 0..1
  OBVIOUS
<1>3. QED  BY <1>1, <1>2 DEF Bit, Bytes

LEMMA CCFields ==
  ASSUME NEW g \in FieldRecs, NEW b \in Bytes, Room(g), ~g.gotCC
  PROVE  CCByte(g, b) \in FieldRecs /\ Room(CCByte(g, b))
<1> DEFINE ends == CCEnds(b, g.ccBytes)
           n == g.ccBytes + 1
           q == [g EXCEPT !.ccBytes = n]
           r == [q EXCEPT !.gotCC = ends]
<1>1. ends \in BOOLEAN /\ (n = 5 => ends) /\ n \in 0..5
  <2>1. g.ccBytes \in 0..4
    BY DEF Room, FieldRecs
  <2>2. ends \in BOOLEAN
    BY Zenon DEF CCEnds, Continues
  <2>3. n = 5 => g.ccBytes = 4 /\ g.ccBytes # 0
    BY <2>1
  <2>4. n = 5 => ends
    BY <2>3 DEF CCEnds
  <2>5. n \in 0..5
    BY <2>1
  <2> HIDE DEF ends, n
  <2>6. QED  BY <2>2, <2>4, <2>5
<1>2. CCByte(g, b) = r
  BY DEF CCByte, FieldRecs
<1> HIDE DEF ends, n
<1>3. q \in FieldRecs /\ q.ccBytes = n /\ q.gotExcep = g.gotExcep /\ q.numExcep = g.numExcep
  BY <1>1 DEF FieldRecs
<1> HIDE DEF q
<1>4. r \in FieldRecs /\ r.gotCC = ends /\ r.ccBytes = n /\ r.gotExcep = g.gotExcep /\ r.numExcep = g.numExcep
  BY <1>1, <1>3 DEF FieldRecs
<1> HIDE DEF r
<1>5. Room(r)
  <2>1. ~ends => n <= 4
    BY <1>1
  <2>2. QED  BY <1>4, <2>1 DEF Room
<1>6. QED  BY <1>2, <1>4, <1>5

\* The fields r of a packet behind the byte that comes after n others; done: it is the last.
Taken(type, r, done, n) ==
  /\ r \in FieldRecs /\ Room(r)
  /\ ~done => Midway(type, r, n + 1)
  /\ done => /\ type = "BranchAddress" => r.numAddr <= n + 1
             /\ type = "WPointUpdate" => r.numAddr + 1 <= n + 1
             /\ type = "ISync" => n + 1 >= 6

LEMMA CCSame ==
  ASSUME NEW g \in FieldRecs, NEW b
  PROVE  LET r == CCByte(g, b)
         IN  /\ r.gotAddr = g.gotAddr /\ r.gotExcep = g.gotExcep /\ r.numAddr = g.numAddr
             /\ r.numExcep = g.numExcep /\ r.req = g.req /\ r.needCC = g.needCC /\ r.gotTS = g.gotTS
BY DEF CCByte, FieldRecs

LEMMA BranchTaken ==
  ASSUME NEW g \in FieldRecs, NEW b \in Bytes, NEW n \in Nat \ {0}, Room(g), Midway("BranchAddress", g, n)
  PROVE  LET r == BranchByte(g, b, n) IN Taken("BranchAddress", r, BranchDone(r), n)
<1> DEFINE r == BranchByte(g, b, n)
<1>1. /\ g.numAddr \in 0..5 /\ g.numAddr <= n /\ ~BranchDone(g)
      /\ ~g.gotAddr => g.numAddr = n /\ n <= 4 /\ g.numExcep = 0
  BY DEF Midway, FieldRecs
<1>2. r \in FieldRecs /\ Room(r) /\ r.numAddr <= n + 1
      /\ (~r.gotAddr => r.numAddr = n + 1 /\ n + 1 <= 4 /\ r.numExcep = 0)
  <2>1. CASE ~g.gotAddr /\ n < 4
    <3> DEFINE ga == ~Continues(b)
               ge == ~Continues(b) /\ Bit(b, 6) = 0
               x == [g EXCEPT !.numAddr = g.numAddr + 1]
               y == [x EXCEPT !.gotAddr = ga]
               z == [y EXCEPT !.gotExcep = ge]
    <3>1. r = z
      BY <1>1, <2>1 DEF BranchByte, FieldRecs
    <3>2. ga \in BOOLEAN /\ ge \in BOOLEAN
      OBVIOUS
    <3> HIDE DEF ga, ge
    <3>3. x \in FieldRecs /\ x.numAddr = n + 1 /\ x.numExcep = 0 /\ x.gotCC = g.gotCC /\ x.ccBytes = g.ccBytes
      <4>1. n + 1 \in 0..5 /\ g.numAddr + 1 = n + 1
        BY <1>1, <2>1
      <4>2. QED  BY <1>1, <2>1, <4>1 DEF FieldRecs
    <3> HIDE DEF x
    <3>4. y \in FieldRecs /\ y.numAddr = n + 1 /\ y.numExcep = 0 /\ y.gotCC = g.gotCC /\ y.ccBytes = g.ccBytes
      BY <3>2, <3>3 DEF FieldRecs
    <3> HIDE DEF y
    <3>5. z \in FieldRecs /\ z.numAddr = n + 1 /\ z.numExcep = 0 /\ z.gotCC = g.gotCC /\ z.ccBytes = g.ccBytes
      BY <3>2, <3>4 DEF FieldRecs
    <3> HIDE DEF z
    <3>6. n + 1 <= 4 /\ n + 1 <= n + 1 /\ 0 <= 1
      BY <2>1
    <3> HIDE DEF r
    <3>7. QED  BY <3>1, <3>5, <3>6 DEF Room
  <2>2. CASE ~g.gotAddr /\ n >= 4
    <3> DEFINE ge == Bit(b, 6) = 0
               isa == BranchISA(b)
               w == [g EXCEPT !.numAddr = g.numAddr + 1]
               x == [w EXCEPT !.gotAddr = TRUE]
               y == [x EXCEPT !.gotExcep = ge]
               z == [y EXCEPT !.isa = isa]
    <3>1. r = z
      BY <1>1, <2>2 DEF BranchByte, FieldRecs
    <3>2. ge \in BOOLEAN /\ isa \in ISAs
      BY DEF BranchISA, ISAs
    <3> HIDE DEF ge, isa
    <3>3. w \in FieldRecs /\ w.numAddr = 5 /\ w.numExcep = 0 /\ w.gotCC = g.gotCC /\ w.ccBytes = g.ccBytes
      <4>1. 5 \in 0..5 /\ g.numAddr + 1 = 5
        BY <1>1, <2>2
      <4>2. QED  BY <1>1, <2>2, <4>1 DEF FieldRecs
    <3> HIDE DEF w
    <3>4. /\ x \in FieldRecs /\ x.gotAddr /\ x.numAddr = 5
          /\ x.numExcep = 0 /\ x.gotCC = g.gotCC /\ x.ccBytes = g.ccBytes
      BY <3>3 DEF FieldRecs
    <3> HIDE DEF x
    <3>5. /\ y \in FieldRecs /\ y.gotAddr /\ y.numAddr = 5
          /\ y.numExcep = 0 /\ y.gotCC = g.gotCC /\ y.ccBytes = g.ccBytes
      BY <3>2, <3>4 DEF FieldRecs
    <3> HIDE DEF y
    <3>6. /\ z \in FieldRecs /\ z.gotAddr /\ z.numAddr = 5
          /\ z.numExcep = 0 /\ z.gotCC = g.gotCC /\ z.ccBytes = g.ccBytes
      BY <3>2, <3>5 DEF FieldRecs
    <3> HIDE DEF z
    <3>7. 5 <= n + 1 /\ 0 <= 1
      BY <2>2
    <3> HIDE DEF r
    <3>8. QED  BY <3>1, <3>6, <3>7 DEF Room
  <2>3. CASE g.gotAddr /\ ~g.gotExcep
    <3> DEFINE m == g.numExcep + 1
               ge == ~Continues(b) \/ g.numExcep = 1
               a == IF g.numExcep = 0 THEN Bit(b, 6) ELSE g.alt
               x == [g EXCEPT !.numExcep = m]
               y == [x EXCEPT !.gotExcep = ge]
               z == [y EXCEPT !.alt = a]
    <3>1. r = z
      BY <2>3 DEF BranchByte, FieldRecs
    <3>2. ge \in BOOLEAN /\ m \in 0..2 /\ (~ge => m <= 1) /\ a \in 0..1
      <4>1. g.numExcep \in 0..1
        BY <2>3 DEF Room, FieldRecs
      <4>2. m \in 0..2 /\ (g.numExcep # 1 => m <= 1)
        BY <4>1
      <4>3. 6 \in 0..30
        OBVIOUS
      <4>4. Bit(b, 6) \in 0..1
        BY <4>3, BitIs
      <4>5. a \in 0..1
        BY <4>4 DEF FieldRecs
      <4>6. QED  BY <4>2, <4>5
    <3> HIDE DEF m, ge, a
    <3>3. /\ x \in FieldRecs /\ x.gotAddr /\ x.numAddr = g.numAddr
          /\ x.numExcep = m /\ x.gotCC = g.gotCC /\ x.ccBytes = g.ccBytes
      BY <2>3, <3>2 DEF FieldRecs
    <3> HIDE DEF x
    <3>4. /\ y \in FieldRecs /\ y.gotAddr /\ y.gotExcep = ge
          /\ y.numAddr = g.numAddr /\ y.numExcep = m /\ y.gotCC = g.gotCC /\ y.ccBytes = g.ccBytes
      BY <3>2, <3>3 DEF FieldRecs
    <3> HIDE DEF y
    <3>5. /\ z \in FieldRecs /\ z.gotAddr /\ z.gotExcep = ge
          /\ z.numAddr = g.numAddr /\ z.numExcep = m /\ z.gotCC = g.gotCC /\ z.ccBytes = g.ccBytes
      BY <3>2, <3>4 DEF FieldRecs
    <3> HIDE DEF z
    <3>6. g.numAddr <= n + 1
      BY <1>1
    <3> HIDE DEF r
    <3>7. QED  BY <3>1, <3>2, <3>5, <3>6 DEF Room
  <2>4. CASE g.gotAddr /\ g.gotExcep
    <3>1. r = CCByte(g, b)
      BY <2>4 DEF BranchByte
    <3>2. ~g.gotCC
      BY <1>1, <2>4 DEF BranchDone
    <3>3. r \in FieldRecs /\ Room(r)
      BY <3>1, <3>2, CCFields
    <3>4. r.gotAddr /\ r.numAddr = g.numAddr
      BY <2>4, <3>1, CCSame
    <3>5. g.numAddr <= n + 1
      BY <1>1
    <3> HIDE DEF r
    <3>6. QED  BY <3>3, <3>4, <3>5
  <2>5. QED  BY <2>1, <2>2, <2>3, <2>4
<1> HIDE DEF r
<1>3. Taken("BranchAddress", r, BranchDone(r), n)
  BY <1>2 DEF Taken, Midway
<1>4. QED  BY <1>3 DEF r

LEMMA WPointTaken ==
  ASSUME NEW g \in FieldRecs, NEW b \in Bytes, NEW n \in Nat \ {0}, Room(g), Midway("WPointUpdate", g, n)
  PROVE  LET r == WPointByte(g, b, n) IN Taken("WPointUpdate", r, r.gotAddr /\ r.gotExcep, n)
<1> DEFINE r == WPointByte(g, b, n)
<1>1. /\ g.numAddr \in 0..5 /\ g.numAddr + 1 <= n /\ ~(g.gotAddr /\ g.gotExcep)
      /\ ~g.gotAddr => g.numAddr + 1 = n /\ n <= 5 /\ g.numExcep = 0
  BY DEF Midway, FieldRecs
<1>2. r \in FieldRecs /\ Room(r) /\ r.numAddr + 1 <= n + 1
      /\ (~r.gotAddr => r.numAddr + 1 = n + 1 /\ n + 1 <= 5 /\ r.numExcep = 0)
  <2>1. CASE ~g.gotAddr /\ n <= 4
    <3> DEFINE ga == ~Continues(b)
               x == [g EXCEPT !.numAddr = g.numAddr + 1]
               y == [x EXCEPT !.gotAddr = ga]
               z == [y EXCEPT !.gotExcep = ga]
    <3>1. r = z
      BY <1>1, <2>1 DEF WPointByte, FieldRecs
    <3>2. ga \in BOOLEAN /\ n \in 0..5 /\ n + 1 <= 5 /\ n + 1 <= n + 1
      BY <2>1
    <3> HIDE DEF ga
    <3>3. x \in FieldRecs /\ x.numAddr = n /\ x.numExcep = 0 /\ x.gotCC = g.gotCC /\ x.ccBytes = g.ccBytes
      <4>1. g.numAddr + 1 = n
        BY <1>1, <2>1
      <4>2. QED  BY <1>1, <2>1, <3>2, <4>1 DEF FieldRecs
    <3> HIDE DEF x
    <3>4. y \in FieldRecs /\ y.numAddr = n /\ y.numExcep = 0 /\ y.gotCC = g.gotCC /\ y.ccBytes = g.ccBytes
      BY <3>2, <3>3 DEF FieldRecs
    <3> HIDE DEF y
    <3>5. z \in FieldRecs /\ z.numAddr = n /\ z.numExcep = 0 /\ z.gotCC = g.gotCC /\ z.ccBytes = g.ccBytes
      BY <3>2, <3>4 DEF FieldRecs
    <3> HIDE DEF z
    <3> HIDE DEF r
    <3>7. QED  BY <3>1, <3>2, <3>5 DEF Room
  <2>2. CASE ~g.gotAddr /\ n > 4
    <3> DEFINE ge == Bit(b, 6) = 0
               isa == BranchISA(b)
               w == [g EXCEPT !.numAddr = g.numAddr + 1]
               x == [w EXCEPT !.gotAddr = TRUE]
               y == [x EXCEPT !.gotExcep = ge]
               z == [y EXCEPT !.isa = isa]
    <3>1. r = z
      BY <1>1, <2>2 DEF WPointByte, FieldRecs
    <3>2. ge \in BOOLEAN /\ isa \in ISAs
      BY DEF BranchISA, ISAs
    <3> HIDE DEF ge, isa
    <3>3. w \in FieldRecs /\ w.numAddr = 5 /\ w.numExcep = 0 /\ w.gotCC = g.gotCC /\ w.ccBytes = g.ccBytes
      <4>1. 5 \in 0..5 /\ g.numAddr + 1 = 5
        BY <1>1, <2>2
      <4>2. QED  BY <1>1, <2>2, <4>1 DEF FieldRecs
    <3> HIDE DEF w
    <3>4. /\ x \in FieldRecs /\ x.gotAddr /\ x.numAddr = 5
          /\ x.numExcep = 0 /\ x.gotCC = g.gotCC /\ x.ccBytes = g.ccBytes
      BY <3>3 DEF FieldRecs
    <3> HIDE DEF x
    <3>5. /\ y \in FieldRecs /\ y.gotAddr /\ y.numAddr = 5
          /\ y.numExcep = 0 /\ y.gotCC = g.gotCC /\ y.ccBytes = g.ccBytes
      BY <3>2, <3>4 DEF FieldRecs
    <3> HIDE DEF y
    <3>6. /\ z \in FieldRecs /\ z.gotAddr /\ z.numAddr = 5
          /\ z.numExcep = 0 /\ z.gotCC = g.gotCC /\ z.ccBytes = g.ccBytes
      BY <3>2, <3>5 DEF FieldRecs
    <3> HIDE DEF z
    <3>7. 5 + 1 <= n + 1 /\ 0 <= 1
      BY <2>2
    <3> HIDE DEF r
    <3>8. QED  BY <3>1, <3>6, <3>7 DEF Room
  <2>3. CASE g.gotAddr /\ ~g.gotExcep
    <3> DEFINE m == g.numExcep + 1
               a == Bit(b, 6)
               x == [g EXCEPT !.numExcep = m]
               y == [x EXCEPT !.gotExcep = TRUE]
               z == [y EXCEPT !.alt = a]
    <3>1. r = z
      BY <2>3 DEF WPointByte, FieldRecs
    <3>2. m \in 0..2 /\ a \in 0..1
      <4>1. g.numExcep \in 0..1
        BY <2>3 DEF Room, FieldRecs
      <4>2. 6 \in 0..30
        OBVIOUS
      <4>3. a \in 0..1
        BY <4>2, BitIs
      <4>4. QED  BY <4>1, <4>3
    <3> HIDE DEF m, a
    <3>3. x \in FieldRecs /\ x.gotAddr /\ x.numAddr = g.numAddr /\ x.gotCC = g.gotCC /\ x.ccBytes = g.ccBytes
      BY <2>3, <3>2 DEF FieldRecs
    <3> HIDE DEF x
    <3>4. /\ y \in FieldRecs /\ y.gotAddr /\ y.gotExcep
          /\ y.numAddr = g.numAddr /\ y.gotCC = g.gotCC /\ y.ccBytes = g.ccBytes
      BY <3>3 DEF FieldRecs
    <3> HIDE DEF y
    <3>5. /\ z \in FieldRecs /\ z.gotAddr /\ z.gotExcep
          /\ z.numAddr = g.numAddr /\ z.gotCC = g.gotCC /\ z.ccBytes = g.ccBytes
      BY <3>2, <3>4 DEF FieldRecs
    <3> HIDE DEF z
    <3>6. g.numAddr + 1 <= n + 1
      BY <1>1
    <3> HIDE DEF r
    <3>7. QED  BY <3>1, <3>2, <3>5, <3>6 DEF Room
  <2>4. QED  BY <1>1, <2>1, <2>2, <2>3
<1> HIDE DEF r
<1>3. Taken("WPointUpdate", r, r.gotAddr /\ r.gotExcep, n)
  BY <1>2 DEF Taken, Midway
<1>4. QED  BY <1>3 DEF r

LEMMA ISyncTaken ==
  ASSUME NEW g \in FieldRecs, NEW b \in Bytes, NEW n \in Nat \ {0}, Room(g), Midway("ISync", g, n),
         cfg \in CfgRecs
  PROVE  LET r == ISyncByte(g, b, n) IN Taken("ISync", r, r.req = n + 1, n)
<1> DEFINE r == ISyncByte(g, b, n)
<1>1. g.req \in Nat /\ g.req >= 6 /\ g.req + 1 \in Nat /\ g.req + 1 >= 6
  BY DEF Midway, FieldRecs
<1>2. r \in FieldRecs /\ Room(r) /\ r.req >= 6
  <2>1. CASE n = 5
    <3> DEFINE cc == cfg.cc /\ (b \div 32) % 4 # 0
               q  == IF cc THEN g.req + 1 ELSE g.req
               x  == [g EXCEPT !.needCC = cc]
               y  == [x EXCEPT !.req = q]
    <3>1. r = y
      BY <2>1 DEF ISyncByte, FieldRecs
    <3>2. cc \in BOOLEAN /\ q \in Nat /\ q >= 6
      <4>1. cc \in BOOLEAN
        BY DEF CfgRecs
      <4> HIDE DEF cc
      <4>2. QED  BY <1>1, <4>1
    <3> HIDE DEF cc, q
    <3>3. /\ x \in FieldRecs /\ x.numExcep = g.numExcep
          /\ x.gotExcep = g.gotExcep /\ x.gotCC = g.gotCC /\ x.ccBytes = g.ccBytes
      BY <3>2 DEF FieldRecs
    <3> HIDE DEF x
    <3>4. /\ y \in FieldRecs /\ y.req = q /\ y.numExcep = g.numExcep
          /\ y.gotExcep = g.gotExcep /\ y.gotCC = g.gotCC /\ y.ccBytes = g.ccBytes
      BY <3>2, <3>3 DEF FieldRecs
    <3> HIDE DEF y, r
    <3>5. QED  BY <3>1, <3>2, <3>4 DEF Room
  <2>2. CASE n # 5 /\ n > 5 /\ g.needCC /\ ~g.gotCC
    <3> DEFINE x == CCByte(g, b)
               q == IF CCEnds(b, g.ccBytes) THEN g.req ELSE g.req + 1
               y == [x EXCEPT !.req = q]
    <3>1. x \in FieldRecs /\ Room(x) /\ x.req = g.req
      BY <2>2, CCFields, CCSame
    <3>2. r = y
      BY <2>2, <3>1 DEF ISyncByte, FieldRecs
    <3>3. q \in Nat /\ q >= 6
      BY <1>1
    <3> HIDE DEF x, q
    <3>4. /\ y \in FieldRecs /\ y.req = q /\ y.numExcep = x.numExcep
          /\ y.gotExcep = x.gotExcep /\ y.gotCC = x.gotCC /\ y.ccBytes = x.ccBytes
      BY <3>1, <3>3 DEF FieldRecs
    <3> HIDE DEF y, r
    <3>5. QED  BY <3>1, <3>2, <3>3, <3>4 DEF Room
  <2>3. CASE n # 5 /\ ~(n > 5 /\ g.needCC /\ ~g.gotCC)
    <3>1. r = g
      BY <2>3 DEF ISyncByte
    <3> HIDE DEF r
    <3>2. QED  BY <1>1, <3>1
  <2>4. QED  BY <2>1, <2>2, <2>3
<1> HIDE DEF r
<1>3. r.req = n + 1 => n + 1 >= 6
  BY <1>2
<1>4. Taken("ISync", r, r.req = n + 1, n)
  BY <1>2, <1>3 DEF Taken, Midway
<1>5. QED  BY <1>4 DEF r

LEMMA TimestampTaken ==
  ASSUME NEW g \in FieldRecs, NEW b \in Bytes, NEW n \in Nat \ {0}, Room(g), Midway("Timestamp", g, n)
  PROVE  LET r == TimestampByte(g, b, n) IN Taken("Timestamp", r, r.gotTS /\ (r.needCC => r.gotCC), n)
<1> DEFINE r == TimestampByte(g, b, n)
<1>1. r \in FieldRecs /\ Room(r)
  <2>1. CASE g.gotTS
    <3>1. ~g.gotCC
      BY <2>1 DEF Midway
    <3>2. r = CCByte(g, b)
      BY <2>1 DEF TimestampByte
    <3>3. QED  BY <3>1, <3>2, CCFields
  <2>2. CASE ~g.gotTS
    <3> DEFINE ts == ~Continues(b) \/ n = TSMax
               x  == [g EXCEPT !.gotTS = ts]
    <3>1. r = x
      BY <2>2 DEF TimestampByte
    <3>2. ts \in BOOLEAN
      OBVIOUS
    <3> HIDE DEF ts, r
    <3>3. /\ x \in FieldRecs /\ x.numExcep = g.numExcep
          /\ x.gotExcep = g.gotExcep /\ x.gotCC = g.gotCC /\ x.ccBytes = g.ccBytes
      BY <3>2 DEF FieldRecs
    <3>4. QED  BY <3>1, <3>3 DEF Room
  <2>3. QED  BY <2>1, <2>2
<1> HIDE DEF r
<1>2. Taken("Timestamp", r, r.gotTS /\ (r.needCC => r.gotCC), n)
  BY <1>1 DEF Taken, Midway
<1>3. QED  BY <1>2 DEF r

LEMMA CtxtTaken ==
  ASSUME NEW g \in FieldRecs, NEW n \in Nat \ {0}, Room(g), Midway("ContextID", g, n), cfg \in CfgRecs
  PROVE  Taken("ContextID", [g EXCEPT !.ctxtBytes = g.ctxtBytes + 1], g.ctxtBytes + 1 = cfg.ctxt, n)
<1> DEFINE m == g.ctxtBytes + 1
           r == [g EXCEPT !.ctxtBytes = m]
<1>1. m \in 0..4 /\ (m # cfg.ctxt => m < cfg.ctxt)
  <2>1. g.ctxtBytes \in 0..4 /\ g.ctxtBytes < cfg.ctxt /\ cfg.ctxt \in {0, 1, 2, 4}
    BY DEF Midway, FieldRecs, CfgRecs
  <2>2. QED  BY <2>1
<1> HIDE DEF m
<1>2. /\ r \in FieldRecs /\ r.ctxtBytes = m /\ r.numExcep = g.numExcep /\ r.gotExcep = g.gotExcep
      /\ r.gotCC = g.gotCC /\ r.ccBytes = g.ccBytes
  BY <1>1 DEF FieldRecs
<1> HIDE DEF r
<1>3. Taken("ContextID", r, m = cfg.ctxt, n)
  BY <1>1, <1>2 DEF Taken, Midway, Room
<1>4. QED  BY <1>3 DEF m, r

\* Nothing is counted in packets of the other types.
OtherTypes == {"VMID", "Atom", "ASync", "Trigger", "ExceptionRet", "Ignore", "Reserved", "BadSequence"}

LEMMA OtherTaken ==
  ASSUME NEW g \in FieldRecs, NEW n, NEW type \in OtherTypes, NEW done \in BOOLEAN, Room(g)
  PROVE  Taken(type, g, done, n)
BY DEF Taken, Midway, OtherTypes

LEMMA HeaderTaken ==
  ASSUME NEW b \in Bytes, cfg \in CfgRecs
  PROVE  LET type == headerToPacketType(b)
             g    == HeaderFields(type, b)
         IN  Taken(type, g, DoneAtHeader(type, b, g), 0)
<1> DEFINE type == headerToPacketType(b)
           g    == HeaderFields(type, b)
<1>1. type \in OtherTypes \cup {"BranchAddress", "ISync", "WPointUpdate", "ContextID", "Timestamp"}
  BY DEF headerToPacketType, OtherTypes
<1>2. NoFields \in FieldRecs
  BY DEF NoFields, FieldRecs, ISAs
<1>3. /\ NoFields.numAddr = 0 /\ NoFields.numExcep = 0 /\ NoFields.ccBytes = 0 /\ NoFields.ctxtBytes = 0
      /\ ~NoFields.gotAddr /\ ~NoFields.gotTS
  BY DEF NoFields
<1>4. 0 <= 1 /\ 0 <= 4 /\ 0 + 1 = 1 /\ 1 <= 4 /\ 1 <= 5 /\ 1 <= 1 /\ 1 <= 0 + 1
  OBVIOUS
<1>5. cfg.cc \in BOOLEAN /\ cfg.ctxt \in {0, 1, 2, 4}
  BY DEF CfgRecs
<1> HIDE DEF type
<1>6. ASSUME type = "BranchAddress" PROVE Taken(type, g, DoneAtHeader(type, b, g), 0)
  <2> DEFINE ga == ~Continues(b)
             v == [NoFields EXCEPT !.numAddr = 1]
             w == [v EXCEPT !.needCC = cfg.cc]
             y == [w EXCEPT !.gotAddr = ga]
             x == [y EXCEPT !.gotExcep = ga]
  <2>1. g = x
    BY <1>2, <1>6 DEF HeaderFields, FieldRecs
  <2>2. ga \in BOOLEAN
    OBVIOUS
  <2> HIDE DEF ga
  <2>7. v \in FieldRecs /\ v.numAddr = 1 /\ v.numExcep = 0 /\ v.ccBytes = 0
    BY <1>2, <1>3 DEF FieldRecs
  <2> HIDE DEF v
  <2>8. w \in FieldRecs /\ w.numAddr = 1 /\ w.numExcep = 0 /\ w.ccBytes = 0
    BY <1>5, <2>7 DEF FieldRecs
  <2> HIDE DEF w
  <2>9. y \in FieldRecs /\ y.numAddr = 1 /\ y.numExcep = 0 /\ y.ccBytes = 0
    BY <2>2, <2>8 DEF FieldRecs
  <2> HIDE DEF y
  <2>3. x \in FieldRecs /\ x.numAddr = 1 /\ x.numExcep = 0 /\ x.ccBytes = 0
    BY <2>2, <2>9 DEF FieldRecs
  <2> HIDE DEF g, x
  <2>4. DoneAtHeader(type, b, g) <=> BranchDone(g)
    BY <1>6 DEF DoneAtHeader
  <2>5. Taken(type, g, DoneAtHeader(type, b, g), 0)
    BY <1>4, <1>6, <2>1, <2>3, <2>4 DEF Taken, Midway, Room
  <2>6. QED  BY <2>5 DEF g
<1>7. ASSUME type = "ISync" PROVE Taken(type, g, DoneAtHeader(type, b, g), 0)
  <2> DEFINE q == 6 + cfg.ctxt
             x == [NoFields EXCEPT !.req = q]
  <2>1. g = x
    BY <1>7 DEF HeaderFields
  <2>2. q \in Nat /\ q >= 6
    BY <1>5
  <2> HIDE DEF q
  <2>3. x \in FieldRecs /\ x.req = q /\ x.numExcep = 0 /\ x.ccBytes = 0
    BY <1>2, <1>3, <2>2 DEF FieldRecs
  <2> HIDE DEF g, x
  <2>4. ~DoneAtHeader(type, b, g)
    BY <1>7 DEF DoneAtHeader
  <2>5. Taken(type, g, DoneAtHeader(type, b, g), 0)
    BY <1>4, <1>7, <2>1, <2>2, <2>3, <2>4 DEF Taken, Midway, Room
  <2>6. QED  BY <2>5 DEF g
<1>8. ASSUME type = "Timestamp" PROVE Taken(type, g, DoneAtHeader(type, b, g), 0)
  <2> DEFINE x == [NoFields EXCEPT !.needCC = cfg.cc]
  <2>1. g = x
    BY <1>8 DEF HeaderFields
  <2>2. x \in FieldRecs /\ x.numExcep = 0 /\ x.ccBytes = 0 /\ ~x.gotTS
    BY <1>2, <1>3, <1>5 DEF FieldRecs
  <2> HIDE DEF g, x
  <2>3. Taken(type, g, DoneAtHeader(type, b, g), 0)
    BY <1>4, <1>8, <2>1, <2>2 DEF Taken, Midway, Room
  <2>4. QED  BY <2>3 DEF g
<1>9. ASSUME type \notin {"BranchAddress", "ISync", "Timestamp"} PROVE Taken(type, g, DoneAtHeader(type, b, g), 0)
  <2>1. g = NoFields
    BY <1>9 DEF HeaderFields
  <2> HIDE DEF g
  <2>2. type = "ContextID" => (DoneAtHeader(type, b, g) <=> cfg.ctxt = 0)
    BY DEF DoneAtHeader
  <2>3. type = "WPointUpdate" => ~DoneAtHeader(type, b, g)
    BY DEF DoneAtHeader
  <2>4. cfg.ctxt # 0 => 0 < cfg.ctxt
    BY <1>5
  <2>5. Taken(type, g, DoneAtHeader(type, b, g), 0)
    BY <1>2, <1>3, <1>4, <1>9, <2>1, <2>2, <2>3, <2>4 DEF Taken, Midway, Room
  <2>6. QED  BY <2>5 DEF g
<1>10. Taken(type, g, DoneAtHeader(type, b, g), 0)
  BY <1>6, <1>7, <1>8, <1>9, Zenon
<1>11. QED  BY <1>10 DEF type

----------------------------------------------------------------------------
(* The steps that read a byte of a packet.                                 *)

LEMMA ByteIs == Placed /\ More => Byte \in Bytes
<1> SUFFICES ASSUME Placed, More PROVE Byte \in Bytes
  OBVIOUS
<1>1. src \in Seq(Bytes) /\ Len(src) \in Nat
  BY LenProperties DEF Placed
<1>2. pos + 1 \in 1..Len(src)
  <2>1. pos \in Nat /\ avail \in Nat /\ pos < avail /\ avail <= Len(src)
    BY DEF Placed, More
  <2>2. QED  BY <1>1, <2>1
<1>3. QED  BY <1>1, <1>2, ElementOfSeq DEF Byte

LEMMA PlacedRead ==
  ASSUME Placed, ReadByte, pc' # "idle", UNCHANGED <<inputVars, base, avail>>
  PROVE  Placed'
<1>1. pos' \in Nat /\ base <= pos' /\ pos' <= avail
  BY DEF Placed, ReadByte, More
<1>2. cfg' = cfg /\ src' = src /\ resets' = resets /\ closed' = closed /\ base' = base /\ avail' = avail
  BY DEF inputVars
<1>3. QED  BY <1>1, <1>2 DEF Placed, Streams

LEMMA ScratchGrows ==
  ASSUME NEW b \in Bytes, Held
  PROVE  /\ Append(scratch, b) \in Seq(Bytes) /\ Len(Append(scratch, b)) = Len(scratch) + 1
         /\ Len(scratch) \in Nat
<1>1. scratch \in Seq(Bytes)
  BY DEF Held
<1>2. QED  BY <1>1, AppendProperties, LenProperties

LEMMA HeldRead ==
  ASSUME Held, Placed, ReadByte, NEW b \in Bytes, scratch' = Append(scratch, b), ps' # "ProcHdr"
  PROVE  Held'
<1>1. scratch' \in Seq(Bytes) /\ Len(scratch') = Len(scratch) + 1 /\ Len(scratch) \in Nat
  BY ScratchGrows, Zenon
<1>2. Len(scratch) <= pos /\ pos \in Nat /\ pos' = pos + 1
  BY DEF Held, Placed, ReadByte
<1>3. Len(scratch') <= pos'
  BY <1>1, <1>2
<1>4. QED  BY <1>1, <1>3 DEF Held

\* While packets are read the search for a sync rests.
LEMMA SearchRests ==
  ASSUME Searched, pc = "loop", pc' = "loop", ps \in {"ProcHdr", "ProcData", "SendPkt"},
         sync' \in SyncRecs, sync'.wait = sync.wait, sync'.unsynced = sync.unsynced,
         ps' = "ProcData" /\ pkt'.type = "ASync" => sync'.async0 <= 15
  PROVE  Searched'
<1>1. ~sync'.wait /\ sync'.unsynced = 0
  BY DEF Searched
<1>2. QED  BY <1>1 DEF Searched, SyncRecs

LEMMA FieldsTaken ==
  ASSUME NEW type, NEW g, NEW done \in BOOLEAN, NEW n, Taken(type, g, done, n), f' = g, cfg' = cfg,
         ~done => pkt'.type = type /\ Len(scratch') = n + 1, done => ps' = "SendPkt"
  PROVE  Fields'
<1>1. f' \in FieldRecs /\ Room(f')
  BY DEF Taken
<1>2. ~done => Midway(type, g, n + 1)
  BY DEF Taken
<1>3. ASSUME ps' = "ProcData" PROVE pkt'.type = type /\ f' = g /\ Len(scratch') = n + 1 /\ ~done
  BY <1>3
<1>4. QED  BY <1>1, <1>2, <1>3 DEF Fields, Midway, BranchDone

LEMMA TakenFits ==
  ASSUME NEW type, NEW g, NEW s \in Seq(Bytes), NEW n \in Nat, Len(s) = n + 1, Taken(type, g, TRUE, n)
  PROVE  Fits(type, g, s)
<1>1. g.isa \in ISAs /\ g.numAddr \in 0..5
  BY DEF Taken, FieldRecs
<1>2. QED  BY <1>1 DEF Taken, Fits

\* A handler takes a byte.
LEMMA HandledSized ==
  ASSUME IInv, Sized, NEW g, NEW done \in BOOLEAN, Turn("ProcData"), ReadByte, NextByte(g, done),
         Taken(pkt.type, g, done, Len(scratch))
  PROVE  Sized'
<1>1. pc = "loop" /\ ps = "ProcData" /\ More
  BY DEF Turn, ReadByte
<1>2. Placed /\ Held /\ Searched /\ Fields /\ PktShape(pkt) /\ DecShape(dec)
  BY DEF Sized
<1>3. /\ scratch' = Append(scratch, Byte) /\ f' = g /\ pc' = pc /\ sync' = sync /\ dec' = dec /\ cfg' = cfg
      /\ UNCHANGED <<inputVars, base, avail>>
      /\ done => ps' = "SendPkt" /\ pkt' = Complete(pkt, g, scratch')
      /\ ~done => ps' = ps /\ pkt' = pkt
  BY DEF NextByte, outVars, inputVars
<1>4. Byte \in Bytes
  BY <1>1, <1>2, ByteIs
<1>5. scratch' \in Seq(Bytes) /\ Len(scratch') = Len(scratch) + 1 /\ Len(scratch) \in Nat
  BY <1>2, <1>3, <1>4, ScratchGrows, Zenon
<1>6. Placed'
  BY <1>1, <1>2, <1>3, PlacedRead
<1>7. Held'
  <2>1. ps' # "ProcHdr"
    BY <1>1, <1>3
  <2>2. QED  BY <1>2, <1>3, <1>4, <2>1, HeldRead
<1>8. Searched'
  <2>1. ps' = "ProcData" => pkt' = pkt
    BY <1>3
  <2>2. sync' \in SyncRecs /\ (ps' = "ProcData" /\ pkt'.type = "ASync" => sync'.async0 <= 15)
    BY <1>1, <1>2, <1>3, <2>1 DEF Searched
  <2>3. QED  BY <1>1, <1>2, <1>3, <2>2, SearchRests
<1>9. Fields'
  BY <1>3, <1>5, FieldsTaken
<1>10. PktShape(pkt')
  <2>1. CASE done
    <3>1. Fits(pkt.type, g, scratch')
      <4> DEFINE n == Len(scratch)
                 s == scratch'
      <4>1. Taken(pkt.type, g, TRUE, n) /\ s \in Seq(Bytes) /\ Len(s) = n + 1 /\ n \in Nat
        BY <1>5, <2>1
      <4> HIDE DEF n, s
      <4>2. Fits(pkt.type, g, s)
        BY <4>1, TakenFits
      <4>3. QED  BY <4>2 DEF s
    <3>2. QED  BY <1>2, <1>3, <2>1, <3>1, CompleteShape
  <2>2. CASE ~done
    BY <1>2, <1>3, <2>2
  <2>3. QED  BY <2>1, <2>2
<1>11. DecShape(dec')
  BY <1>2, <1>3
<1>12. QED  BY <1>6, <1>7, <1>8, <1>9, <1>10, <1>11 DEF Sized, PktShape, DecShape, StackOK, IsSeq

\* What is known when a handler takes a byte.
LEMMA BeforeByte ==
  ASSUME IInv, Sized, NEW type, Handles(type)
  PROVE  /\ Turn("ProcData") /\ ReadByte /\ pkt.type = type /\ Byte \in Bytes /\ cfg \in CfgRecs
         /\ f \in FieldRecs /\ Room(f) /\ Len(scratch) \in Nat \ {0} /\ Midway(type, f, Len(scratch))
<1>1. Turn("ProcData") /\ ReadByte /\ pkt.type = type /\ pc = "loop" /\ ps = "ProcData" /\ More
  BY DEF Handles, Turn, ReadByte
<1>2. Placed /\ Held /\ Fields
  BY DEF Sized
<1>3. Byte \in Bytes
  BY <1>1, <1>2, ByteIs
<1>4. ~closed /\ scratch # <<>>
  BY <1>1 DEF IInv, Control
<1>5. Len(scratch) \in Nat \ {0}
  <2>1. scratch \in Seq(Bytes)
    BY <1>2 DEF Held
  <2>2. QED  BY <1>4, <2>1, LenProperties, EmptySeq
<1>6. QED  BY <1>1, <1>2, <1>3, <1>4, <1>5 DEF Fields, Placed

LEMMA BranchAddrSized == IInv /\ Sized /\ pktBranchAddr => Sized'
<1> SUFFICES ASSUME IInv, Sized, pktBranchAddr PROVE Sized'
  OBVIOUS
<1> DEFINE g == BranchByte(f, Byte, Len(scratch))
<1>1. Handles("BranchAddress") /\ NextByte(g, BranchDone(g))
  BY DEF pktBranchAddr
<1>2. Taken("BranchAddress", g, BranchDone(g), Len(scratch))
  BY <1>1, BeforeByte, BranchTaken
<1>3. pkt.type = "BranchAddress" /\ Turn("ProcData") /\ ReadByte
  BY <1>1, BeforeByte
<1>4. BranchDone(g) \in BOOLEAN
  BY Zenon DEF BranchDone
<1> HIDE DEF g
<1>5. QED  BY <1>1, <1>2, <1>3, <1>4, HandledSized

LEMMA WPointUpdateSized == IInv /\ Sized /\ packetWPointUpdate => Sized'
<1> SUFFICES ASSUME IInv, Sized, packetWPointUpdate PROVE Sized'
  OBVIOUS
<1> DEFINE g == WPointByte(f, Byte, Len(scratch))
           done == g.gotAddr /\ g.gotExcep
<1>1. Handles("WPointUpdate") /\ NextByte(g, done)
  BY DEF packetWPointUpdate
<1>2. Taken("WPointUpdate", g, done, Len(scratch))
  BY <1>1, BeforeByte, WPointTaken
<1>3. pkt.type = "WPointUpdate" /\ Turn("ProcData") /\ ReadByte
  BY <1>1, BeforeByte
<1>4. done \in BOOLEAN
  OBVIOUS
<1> HIDE DEF g, done
<1>5. QED  BY <1>1, <1>2, <1>3, <1>4, HandledSized

LEMMA PacketISyncSized == IInv /\ Sized /\ packetISync => Sized'
<1> SUFFICES ASSUME IInv, Sized, packetISync PROVE Sized'
  OBVIOUS
<1> DEFINE g == ISyncByte(f, Byte, Len(scratch))
           done == g.req = Len(scratch) + 1
<1>1. Handles("ISync") /\ NextByte(g, done)
  BY DEF packetISync
<1>2. Taken("ISync", g, done, Len(scratch))
  BY <1>1, BeforeByte, ISyncTaken
<1>3. pkt.type = "ISync" /\ Turn("ProcData") /\ ReadByte
  BY <1>1, BeforeByte
<1>4. done \in BOOLEAN
  OBVIOUS
<1> HIDE DEF g, done
<1>5. QED  BY <1>1, <1>2, <1>3, <1>4, HandledSized

LEMMA PacketTimestampSized == IInv /\ Sized /\ packetTimestamp => Sized'
<1> SUFFICES ASSUME IInv, Sized, packetTimestamp PROVE Sized'
  OBVIOUS
<1> DEFINE g == TimestampByte(f, Byte, Len(scratch))
           done == g.gotTS /\ (g.needCC => g.gotCC)
<1>1. Handles("Timestamp") /\ NextByte(g, done)
  BY DEF packetTimestamp
<1>2. Taken("Timestamp", g, done, Len(scratch))
  BY <1>1, BeforeByte, TimestampTaken
<1>3. pkt.type = "Timestamp" /\ Turn("ProcData") /\ ReadByte
  BY <1>1, BeforeByte
<1>4. done \in BOOLEAN
  OBVIOUS
<1> HIDE DEF g, done
<1>5. QED  BY <1>1, <1>2, <1>3, <1>4, HandledSized

LEMMA CtxtIDSized == IInv /\ Sized /\ pktCtxtID => Sized'
<1> SUFFICES ASSUME IInv, Sized, pktCtxtID PROVE Sized'
  OBVIOUS
<1> DEFINE g == [f EXCEPT !.ctxtBytes = f.ctxtBytes + 1]
           done == f.ctxtBytes + 1 = cfg.ctxt
<1>1. Handles("ContextID") /\ NextByte([f EXCEPT !.ctxtBytes = @ + 1], done)
  BY DEF pktCtxtID
<1>2. f \in FieldRecs /\ Taken("ContextID", g, done, Len(scratch))
  BY <1>1, BeforeByte, CtxtTaken
<1>3. NextByte(g, done)
  BY <1>1, <1>2 DEF FieldRecs
<1>4. pkt.type = "ContextID" /\ Turn("ProcData") /\ ReadByte
  BY <1>1, BeforeByte
<1>5. done \in BOOLEAN
  OBVIOUS
<1> HIDE DEF g, done
<1>6. QED  BY <1>2, <1>3, <1>4, <1>5, HandledSized

LEMMA OtherSized == IInv /\ Sized /\ (packetVMID \/ packetAtom) => Sized'
<1> SUFFICES ASSUME IInv, Sized, packetVMID \/ packetAtom PROVE Sized'
  OBVIOUS
<1>1. PICK type \in {"VMID", "Atom"}, done \in BOOLEAN : Handles(type) /\ NextByte(f, done)
  <2>1. CASE packetVMID
    BY <2>1 DEF packetVMID
  <2>2. CASE packetAtom
    <3> DEFINE done == ~Continues(Byte) \/ Len(scratch) = 4
    <3>1. done \in BOOLEAN /\ Handles("Atom") /\ NextByte(f, done)
      BY <2>2 DEF packetAtom
    <3> HIDE DEF done
    <3>2. QED  BY <3>1
  <2>3. QED  BY <2>1, <2>2
<1>2. pkt.type = type /\ Turn("ProcData") /\ ReadByte /\ f \in FieldRecs /\ Room(f)
  BY <1>1, BeforeByte
<1>3. Taken(type, f, done, Len(scratch))
  BY <1>2, OtherTaken DEF OtherTypes
<1>4. QED  BY <1>1, <1>2, <1>3, HandledSized

LEMMA ProcHdrSized == IInv /\ Sized /\ ProcHdr => Sized'
<1> SUFFICES ASSUME IInv, Sized, ProcHdr PROVE Sized'
  OBVIOUS
<1> DEFINE type == headerToPacketType(Byte)
           g    == HeaderFields(type, Byte)
           done == DoneAtHeader(type, Byte, g)
           p    == [pkt EXCEPT !.type = type]
           w    == IF type = "ASync" THEN [sync EXCEPT !.async0 = 1] ELSE sync
<1>1. pc = "loop" /\ ps = "ProcHdr" /\ More /\ ReadByte
  BY DEF ProcHdr, Turn, ReadByte
<1>2. Placed /\ Held /\ Searched /\ Fields /\ PktShape(pkt) /\ DecShape(dec)
  BY DEF Sized
<1>3. /\ scratch' = Append(scratch, Byte) /\ f' = g /\ pc' = pc /\ sync' = w /\ dec' = dec /\ cfg' = cfg
      /\ UNCHANGED <<inputVars, base, avail>>
      /\ done => ps' = "SendPkt" /\ pkt' = Complete(p, g, scratch')
      /\ ~done => ps' = "ProcData" /\ pkt' = p
  BY DEF ProcHdr, outVars, inputVars
<1>4. Byte \in Bytes /\ cfg \in CfgRecs
  BY <1>1, <1>2, ByteIs DEF Placed
<1>5. scratch = <<>>
  BY <1>1, <1>2 DEF Held, IInv, Control
<1>6. scratch' \in Seq(Bytes) /\ Len(scratch') = 0 + 1
  <2>1. scratch' \in Seq(Bytes) /\ Len(scratch') = Len(scratch) + 1
    BY <1>2, <1>3, <1>4, ScratchGrows, Zenon
  <2>2. QED  BY <1>5, <2>1, AnyEmpty
<1>7. Taken(type, g, done, 0)
  BY <1>4, HeaderTaken
<1>8. done \in BOOLEAN
  BY DEF DoneAtHeader
<1>9. p.type = type /\ PktShape(p)
  BY <1>2 DEF PktShape
<1>10. w \in SyncRecs /\ w.wait = sync.wait /\ w.unsynced = sync.unsynced /\ (type = "ASync" => w.async0 <= 15)
  <2>1. sync \in SyncRecs
    BY <1>2 DEF Searched
  <2>2. CASE type = "ASync"
    <3>1. w = [sync EXCEPT !.async0 = 1] /\ 1 \in 0..16 /\ 1 <= 15
      BY <2>2
    <3> HIDE DEF w
    <3>2. QED  BY <2>1, <3>1 DEF SyncRecs
  <2>3. CASE type # "ASync"
    BY <2>1, <2>3
  <2>4. QED  BY <2>2, <2>3
<1> HIDE DEF type, g, done, p, w
<1>11. Placed'
  BY <1>1, <1>2, <1>3, PlacedRead
<1>12. Held'
  <2>1. ps' # "ProcHdr"
    BY <1>3, <1>8
  <2>2. QED  BY <1>1, <1>2, <1>3, <1>4, <2>1, HeldRead
<1>13. Searched'
  <2>1. ps' = "ProcData" => pkt' = p
    BY <1>3, <1>8
  <2>2. sync' \in SyncRecs /\ (ps' = "ProcData" /\ pkt'.type = "ASync" => sync'.async0 <= 15)
    BY <1>3, <1>9, <1>10, <2>1
  <2>3. sync'.wait = sync.wait /\ sync'.unsynced = sync.unsynced
    BY <1>3, <1>10
  <2>4. QED  BY <1>1, <1>2, <1>3, <2>2, <2>3, SearchRests
<1>14. Fields'
  <2>1. ~done => pkt'.type = type /\ Len(scratch') = 0 + 1
    BY <1>3, <1>6, <1>9
  <2>2. done => ps' = "SendPkt"
    BY <1>3
  <2>3. QED  BY <1>3, <1>7, <1>8, <2>1, <2>2, FieldsTaken
<1>15. PktShape(pkt')
  <2>1. CASE done
    <3>1. Fits(p.type, g, scratch')
      <4> DEFINE s == scratch'
      <4>1. Taken(p.type, g, TRUE, 0) /\ s \in Seq(Bytes) /\ Len(s) = 0 + 1 /\ 0 \in Nat
        BY <1>6, <1>7, <1>9, <2>1
      <4> HIDE DEF s
      <4>2. Fits(p.type, g, s)
        BY <4>1, TakenFits
      <4>3. QED  BY <4>2 DEF s
    <3>2. QED  BY <1>3, <1>9, <2>1, <3>1, CompleteShape
  <2>2. CASE ~done
    BY <1>3, <1>9, <2>2
  <2>3. QED  BY <2>1, <2>2
<1>16. DecShape(dec')
  BY <1>2, <1>3
<1>17. QED  BY <1>11, <1>12, <1>13, <1>14, <1>15, <1>16 DEF Sized, PktShape, DecShape, StackOK, IsSeq

\* Of an Async inside of the stream at most 16 zeros are taken.
LEMMA PacketASyncSized == IInv /\ Sized /\ packetASync => Sized'
<1> SUFFICES ASSUME IInv, Sized, packetASync PROVE Sized'
  OBVIOUS
<1> DEFINE w == IF Byte = 0 THEN [sync EXCEPT !.async0 = @ + 1] ELSE sync
           bad == [pkt EXCEPT !.type = "BadSequence"]
<1>1. /\ pc = "loop" /\ ps = "ProcData" /\ More /\ ReadByte /\ pkt.type = "ASync"
      /\ Byte \in Bytes /\ f \in FieldRecs /\ Room(f) /\ Len(scratch) \in Nat
  BY BeforeByte DEF packetASync, Handles, Turn, ReadByte
<1>2. Placed /\ Held /\ Searched /\ Fields /\ PktShape(pkt) /\ DecShape(dec)
  BY DEF Sized
<1>3. /\ scratch' = Append(scratch, Byte) /\ f' = f /\ pc' = pc /\ sync' = w /\ dec' = dec /\ cfg' = cfg
      /\ UNCHANGED <<inputVars, base, avail>>
      /\ \/ ps' = "SendPkt" /\ pkt' \in {pkt, bad}
         \/ ps' = "ProcData" /\ pkt' = pkt /\ Byte = 0 /\ w.async0 < 11 + 5
  BY <1>1 DEF packetASync, outVars, inputVars, asyncPad0Limit, asyncReq0
<1>4. scratch' \in Seq(Bytes) /\ Len(scratch') = Len(scratch) + 1
  BY <1>1, <1>2, <1>3, ScratchGrows, Zenon
<1>5. w \in SyncRecs /\ w.wait = sync.wait /\ w.unsynced = sync.unsynced
  <2>1. sync \in SyncRecs /\ sync.async0 \in 0..16 /\ sync.async0 <= 15
    <3>1. ~closed
      BY <1>1 DEF IInv, Control
    <3>2. QED  BY <1>1, <1>2, <3>1 DEF Searched, SyncRecs
  <2>2. sync.async0 + 1 \in 0..16
    BY <2>1
  <2>3. QED  BY <2>1, <2>2 DEF SyncRecs
<1>6. PktShape(bad)
  BY <1>2 DEF PktShape
<1> HIDE DEF w, bad
<1>7. Placed'
  BY <1>1, <1>2, <1>3, PlacedRead
<1>8. Held'
  <2>1. ps' # "ProcHdr"
    BY <1>3
  <2>2. QED  BY <1>1, <1>2, <1>3, <2>1, HeldRead
<1>9. Searched'
  <2>1. ps' = "ProcData" => w.async0 <= 15
    <3>1. ps' = "ProcData" => w.async0 < 11 + 5
      BY <1>3
    <3>2. w.async0 \in 0..16
      BY <1>5 DEF SyncRecs
    <3>3. QED  BY <3>1, <3>2
  <2>2. sync'.wait = sync.wait /\ sync'.unsynced = sync.unsynced /\ sync' \in SyncRecs
    BY <1>3, <1>5
  <2>3. ps' = "ProcData" => sync'.async0 <= 15
    BY <1>3, <2>1
  <2>4. QED  BY <1>1, <1>2, <1>3, <2>2, <2>3, SearchRests
<1>10. Fields'
  <2> DEFINE done == ps' = "SendPkt"
  <2>1. done \in BOOLEAN /\ Taken("ASync", f, done, Len(scratch))
    BY <1>1, OtherTaken DEF OtherTypes
  <2>2. ~done => pkt'.type = "ASync" /\ Len(scratch') = Len(scratch) + 1
    BY <1>1, <1>3, <1>4
  <2>3. done => ps' = "SendPkt"
    OBVIOUS
  <2> HIDE DEF done
  <2>4. QED  BY <1>3, <2>1, <2>2, <2>3, FieldsTaken
<1>11. PktShape(pkt')
  BY <1>2, <1>3, <1>6
<1>12. DecShape(dec')
  BY <1>2, <1>3
<1>13. QED  BY <1>7, <1>8, <1>9, <1>10, <1>11, <1>12 DEF Sized, PktShape, DecShape, StackOK, IsSeq

----------------------------------------------------------------------------
(* The search for the first sync.                                          *)

LEMMA DecodedKeeps ==
  ASSUME IInv, DecShape(dec), PktShape(pkt), NEW i, Decoded(processPacket(dec, pkt, i))
  PROVE  DecShape(dec')
<1> DEFINE r == processPacket(dec, pkt, i)
<1>1. HasFields(dec) /\ dec.state \in States /\ IsSeq(pkt.atoms) /\ pkt.isa \in ISAs
  BY DEF IInv, Typed, WellFormed, PktShape
<1>2. DecShape(r)
  BY <1>1, ProcessedShape
<1>3. dec' = [r EXCEPT !.out = <<>>, !.err = FALSE]
  BY DEF Decoded
<1> HIDE DEF r
<1>4. QED  BY <1>2, <1>3 DEF DecShape

SameSearch(w, x, u) == x \in SyncRecs /\ x.wait = w.wait /\ x.async0 = w.async0 /\ x.unsynced = u

LEMMA SearchShown ==
  ASSUME NEW w \in SyncRecs, NEW m \in Nat, NEW e \in Nat
  PROVE  SameSearch(w, [w EXCEPT !.unsynced = 0, !.start = m, !.shown = TRUE, !.onEntry = e], 0)
<1> DEFINE a == [w EXCEPT !.unsynced = 0]
           b == [a EXCEPT !.start = m]
           c == [b EXCEPT !.shown = TRUE]
           d == [c EXCEPT !.onEntry = e]
           x == [w EXCEPT !.unsynced = 0, !.start = m, !.shown = TRUE, !.onEntry = e]
<1>1. x = d
  BY DEF SyncRecs
<1>2. SameSearch(w, a, 0)
  BY DEF SameSearch, SyncRecs
<1> HIDE DEF a
<1>3. SameSearch(w, b, 0)
  BY <1>2 DEF SameSearch, SyncRecs
<1> HIDE DEF b
<1>4. SameSearch(w, c, 0)
  BY <1>3 DEF SameSearch, SyncRecs
<1> HIDE DEF c
<1>5. SameSearch(w, d, 0)
  BY <1>4 DEF SameSearch, SyncRecs
<1> HIDE DEF d, x
<1>6. SameSearch(w, x, 0)
  BY <1>1, <1>5
<1>7. QED  BY <1>6 DEF x

LEMMA SearchCounts ==
  ASSUME NEW w \in SyncRecs, NEW u \in Nat
  PROVE  SameSearch(w, [w EXCEPT !.unsynced = u], u)
BY DEF SameSearch, SyncRecs

LEMMA SearchLeft ==
  ASSUME NEW w, NEW w1 \in SyncRecs, NEW u, SameSearch(w, w1, u)
  PROVE  SameSearch(w, NoLocals(w1), 0)
<1> DEFINE p == [w1 EXCEPT !.unsynced = 0]
           q == [p EXCEPT !.start = 0]
           r == [q EXCEPT !.onEntry = 0]
<1>1. NoLocals(w1) = r
  BY DEF NoLocals, SyncRecs
<1>2. SameSearch(w, p, 0)
  BY DEF SameSearch, SyncRecs
<1> HIDE DEF p
<1>3. SameSearch(w, q, 0)
  BY <1>2 DEF SameSearch, SyncRecs
<1> HIDE DEF q
<1>4. SameSearch(w, r, 0)
  BY <1>3 DEF SameSearch, SyncRecs
<1> HIDE DEF r
<1>5. QED  BY <1>1, <1>4

\* One turn of the search, after which the bytes s are held.
LEMMA SyncTurnSized ==
  ASSUME IInv, Sized, pc = "sync", ReadByte, NEW w \in SyncRecs, NEW s \in Seq(Bytes), SyncTurn(w, s),
         UnsyncedAfter \in Nat, Len(s) <= pos + 1, UnsyncedAfter + Len(s) <= pos + 1,
         w.wait => ~IsAsync /\ w.async0 <= 15 /\ w.async0 <= Len(s)
  PROVE  Sized'
<1> DEFINE u  == UnsyncedAfter
           w1 == IF Sends THEN [w EXCEPT !.unsynced = 0, !.start = @ + u, !.shown = TRUE,
                                         !.onEntry = IF cfg.observer THEN 0 ELSE @]
                 ELSE [w EXCEPT !.unsynced = u]
           z == NoLocals(w1)
           i == pktIndex + IF cfg.observer THEN sync.onEntry ELSE 0
           q == [pkt EXCEPT !.type = "ASync"]
<1>1. Placed /\ Held /\ Searched /\ Fields /\ PktShape(pkt) /\ DecShape(dec)
  BY DEF Sized
<1>2. /\ sync' = IF SyncDone THEN z ELSE w1
      /\ scratch' = s /\ UNCHANGED <<inputVars, base, avail, f>>
      /\ pc' = IF SyncDone THEN "loop" ELSE "sync"
      /\ ps' = IF IsAsync THEN "SendPkt" ELSE ps
      /\ pkt' = IF IsAsync THEN q ELSE pkt
  BY DEF SyncTurn
<1>3. dec' = dec \/ Decoded(processPacket(dec, pkt, i))
  BY DEF SyncTurn, outVars
<1>4. /\ w1 \in SyncRecs /\ w1.wait = w.wait /\ w1.async0 = w.async0 /\ w1.unsynced \in {0, u}
      /\ z \in SyncRecs /\ z.wait = w.wait /\ z.async0 = w.async0 /\ z.unsynced = 0
  <2> DEFINE m == w.start + u
             e == IF cfg.observer THEN 0 ELSE w.onEntry
             x == [w EXCEPT !.unsynced = 0, !.start = m, !.shown = TRUE, !.onEntry = e]
             y == [w EXCEPT !.unsynced = u]
  <2>1. w1 = IF Sends THEN x ELSE y
    BY DEF SyncRecs
  <2>2. m \in Nat /\ e \in Nat
    BY DEF SyncRecs
  <2>3. u \in Nat
    OBVIOUS
  <2>4. SameSearch(w, x, 0)
    <3> HIDE DEF m, e
    <3>1. QED  BY <2>2, SearchShown
  <2>5. SameSearch(w, y, u)
    <3> HIDE DEF u
    <3>1. QED  BY <2>3, SearchCounts
  <2> HIDE DEF x, y, w1, u
  <2>6. SameSearch(w, w1, 0) \/ SameSearch(w, w1, u)
    BY <2>1, <2>4, <2>5
  <2>7. w1 \in SyncRecs
    BY <2>6 DEF SameSearch
  <2>8. SameSearch(w, z, 0)
    BY <2>6, <2>7, SearchLeft
  <2> HIDE DEF z
  <2>9. QED  BY <2>6, <2>8 DEF SameSearch
<1>5. ps = "WaitSync" /\ ~closed
  BY DEF IInv, Control
<1>6. pos' = pos + 1 /\ pos \in Nat /\ Len(s) \in Nat
  BY <1>1, LenProperties DEF ReadByte, Placed
<1> HIDE DEF w1, z, i
<1>7. Placed'
  <2>1. pc' # "idle"
    BY <1>2
  <2>2. QED  BY <1>1, <1>2, <2>1, PlacedRead
<1>8. Held'
  <2>1. ps' # "ProcHdr"
    BY <1>2, <1>5
  <2>2. Len(scratch') <= pos'
    BY <1>2, <1>6
  <2>3. QED  BY <1>2, <2>1, <2>2 DEF Held
<1>9. Searched'
  <2>1. sync' \in SyncRecs /\ sync'.wait = w.wait /\ sync'.async0 = w.async0
    BY <1>2, <1>4
  <2>2. sync'.wait => ps' = "WaitSync" /\ sync'.async0 <= 15 /\ sync'.async0 <= Len(scratch')
    BY <1>2, <1>5, <2>1
  <2>3. IF pc' \in {"sync", "panic"} THEN sync'.unsynced + Len(scratch') <= pos' ELSE sync'.unsynced = 0
    <3>1. CASE SyncDone
      BY <1>2, <1>4, <3>1
    <3>2. CASE ~SyncDone
      <4>1. pc' = "sync" /\ sync' = w1
        BY <1>2, <3>2
      <4>2. u + Len(s) <= pos + 1 /\ 0 + Len(s) <= pos + 1
        BY <1>6
      <4> HIDE DEF u
      <4>3. sync'.unsynced + Len(s) <= pos + 1
        BY <1>4, <4>1, <4>2
      <4>4. QED  BY <1>2, <1>6, <4>1, <4>3
    <3>3. QED  BY <3>1, <3>2
  <2>4. ps' # "ProcData"
    BY <1>2, <1>5
  <2>5. QED  BY <2>1, <2>2, <2>3, <2>4 DEF Searched, SyncRecs
<1>10. Fields'
  <2>1. ps' # "ProcData" /\ f' = f
    BY <1>2, <1>5
  <2>2. QED  BY <1>1, <2>1 DEF Fields
<1>11. PktShape(pkt')
  <2>1. PktShape(q)
    BY <1>1 DEF PktShape
  <2> HIDE DEF q
  <2>2. QED  BY <1>1, <1>2, <2>1
<1>12. DecShape(dec')
  BY <1>1, <1>3, DecodedKeeps
<1>13. QED  BY <1>7, <1>8, <1>9, <1>10, <1>11, <1>12 DEF Sized, PktShape, DecShape, StackOK, IsSeq

\* What is known at a turn of the search.
LEMMA AtTurn ==
  ASSUME IInv, Sized, pc = "sync", ReadByte
  PROVE  /\ sync \in SyncRecs /\ sync.unsynced \in Nat /\ Byte \in Bytes
         /\ sync.wait => sync.async0 \in 0..15 /\ sync.async0 <= Len(scratch)
         /\ scratch \in Seq(Bytes) /\ Len(scratch) \in Nat /\ pos \in Nat
         /\ sync.unsynced + Len(scratch) <= pos
<1>1. Placed /\ Held /\ Searched /\ More
  BY DEF Sized, ReadByte
<1>2. ~closed
  BY DEF IInv, Control
<1>3. scratch \in Seq(Bytes) /\ Len(scratch) \in Nat
  BY <1>1, LenProperties DEF Held
<1>4. Byte \in Bytes
  BY <1>1, ByteIs
<1>5. sync \in SyncRecs /\ sync.unsynced \in Nat /\ sync.async0 \in 0..16
  BY <1>1 DEF Searched, SyncRecs
<1>6. sync.wait => sync.async0 <= 15 /\ sync.async0 <= Len(scratch)
  BY <1>1, <1>2 DEF Searched
<1>7. sync.wait => sync.async0 \in 0..15
  BY <1>5, <1>6
<1>8. sync.unsynced + Len(scratch) <= pos
  BY <1>1 DEF Searched
<1>9. QED  BY <1>1, <1>3, <1>4, <1>5, <1>6, <1>7, <1>8 DEF Placed

LEMMA EmptyHeld == <<>> \in Seq(Bytes) /\ Len(<<>>) = 0
OBVIOUS

LEMMA ZeroHeld ==
  ASSUME NEW b \in Bytes, scratch \in Seq(Bytes)
  PROVE  Append(scratch, b) \in Seq(Bytes) /\ Len(Append(scratch, b)) = Len(scratch) + 1
BY AppendProperties

LEMMA SyncScanSized == IInv /\ Sized /\ SyncScan => Sized'
<1> SUFFICES ASSUME IInv, Sized, SyncScan PROVE Sized'
  OBVIOUS
<1>1. pc = "sync" /\ ~sync.wait /\ ReadByte
  BY DEF SyncScan
<1>2. /\ sync \in SyncRecs /\ sync.unsynced \in Nat /\ scratch \in Seq(Bytes) /\ Len(scratch) \in Nat /\ pos \in Nat
      /\ sync.unsynced + Len(scratch) <= pos
  BY <1>1, AtTurn
<1>3. ~IsAsync /\ ~Throws0
  BY <1>1 DEF IsAsync, Throws0
<1>4. CASE Byte = 0 /\ SyncTurn([sync EXCEPT !.wait = TRUE, !.async0 = 1], Append(scratch, 0))
  <2> DEFINE v == [sync EXCEPT !.async0 = 1]
             w == [v EXCEPT !.wait = TRUE]
             s == Append(scratch, 0)
  <2>1. v \in SyncRecs /\ v.async0 = 1
    BY <1>2 DEF SyncRecs
  <2>2. SyncTurn(w, s)
    <3>1. w = [sync EXCEPT !.wait = TRUE, !.async0 = 1]
      BY <1>2 DEF SyncRecs
    <3> HIDE DEF w
    <3>2. QED  BY <1>4, <3>1
  <2> HIDE DEF v
  <2>3. w \in SyncRecs /\ w.async0 = 1
    BY <2>1 DEF SyncRecs
  <2>4. s \in Seq(Bytes) /\ Len(s) = Len(scratch) + 1
    <3>1. 0 \in Bytes
      BY DEF Bytes
    <3>2. QED  BY <1>2, <3>1, ZeroHeld
  <2>5. UnsyncedAfter = sync.unsynced
    BY <1>3, <1>4 DEF UnsyncedAfter
  <2> HIDE DEF w, s
  <2>6. UnsyncedAfter \in Nat /\ Len(s) <= pos + 1 /\ UnsyncedAfter + Len(s) <= pos + 1 /\ 1 <= 15 /\ 1 <= Len(s)
    BY <1>2, <2>4, <2>5
  <2>7. QED  BY <1>1, <1>3, <2>2, <2>3, <2>4, <2>6, SyncTurnSized
<1>5. CASE Byte # 0 /\ SyncTurn(sync, <<>>)
  <2>1. UnsyncedAfter = sync.unsynced + 1
    BY <1>1, <1>3, <1>5 DEF UnsyncedAfter
  <2>2. UnsyncedAfter \in Nat /\ Len(<<>>) <= pos + 1 /\ UnsyncedAfter + Len(<<>>) <= pos + 1
    BY <1>2, <2>1, EmptyHeld
  <2>3. QED  BY <1>1, <1>2, <1>5, <2>2, EmptyHeld, SyncTurnSized
<1>6. QED  BY <1>4, <1>5 DEF SyncScan

\* Of the zeros that are too many the last ones are kept.
LEMMA LastKept ==
  ASSUME NEW s \in Seq(Bytes), Len(s) >= 16
  PROVE  From(s, 12) \in Seq(Bytes) /\ Len(From(s, 12)) = Len(s) - 11
<1> DEFINE n == Len(s)
<1>1. n \in Nat /\ n >= 16
  BY LenProperties
<1>2. \A i \in 12..n : s[i] \in Bytes
  BY <1>1, ElementOfSeq
<1> HIDE DEF n
<1>3. 12 \in Int /\ n \in Int /\ 12 <= n /\ n - 12 + 1 = n - 11
  BY <1>1
<1>4. SubSeq(s, 12, n) \in Seq(Bytes) /\ Len(SubSeq(s, 12, n)) = IF 12 <= n THEN n - 12 + 1 ELSE 0
  BY <1>2, <1>3, SubSeqProperties
<1>5. From(s, 12) = SubSeq(s, 12, n)
  BY DEF From, n
<1>6. From(s, 12) \in Seq(Bytes) /\ Len(From(s, 12)) = n - 11
  BY <1>3, <1>4, <1>5
<1>7. QED  BY <1>6 DEF n

LEMMA ZeroCount ==
  ASSUME NEW a \in 0..15, NEW k \in Nat, a <= k
  PROVE  /\ a + 1 \in 0..16 /\ a + 1 <= k + 1
         /\ a + 1 >= 16 => k + 1 >= 16
         /\ ~(a + 1 >= 16) => a + 1 <= 15
OBVIOUS

LEMMA SyncZerosSized == IInv /\ Sized /\ SyncZeros => Sized'
<1> SUFFICES ASSUME IInv, Sized, SyncZeros PROVE Sized'
  OBVIOUS
<1>1. pc = "sync" /\ sync.wait /\ ReadByte
  BY DEF SyncZeros
<1>2. /\ sync \in SyncRecs /\ sync.unsynced \in Nat /\ Byte \in Bytes /\ sync.async0 \in 0..15
      /\ sync.async0 <= Len(scratch) /\ scratch \in Seq(Bytes) /\ Len(scratch) \in Nat /\ pos \in Nat
      /\ sync.unsynced + Len(scratch) <= pos
  BY <1>1, AtTurn
<1> DEFINE w == [sync EXCEPT !.wait = FALSE]
           n == sync.async0 + 1
           v == [w EXCEPT !.async0 = n]
           x == [sync EXCEPT !.async0 = n]
           z == Append(scratch, 0)
<1>3. w \in SyncRecs /\ ~w.wait /\ w.async0 = sync.async0
  BY <1>2 DEF SyncRecs
<1>4. /\ n \in 0..16 /\ n <= Len(scratch) + 1
      /\ n >= 16 => Len(scratch) + 1 >= 16
      /\ ~(n >= 16) => n <= 15
  BY <1>2, ZeroCount, Zenon
<1>5. v = [sync EXCEPT !.wait = FALSE, !.async0 = @ + 1] /\ x = [sync EXCEPT !.async0 = @ + 1]
  BY <1>2 DEF SyncRecs
<1>6. z \in Seq(Bytes) /\ Len(z) = Len(scratch) + 1
  <2>1. 0 \in Bytes
    BY DEF Bytes
  <2>2. QED  BY <1>2, <2>1, ZeroHeld
<1>7. x \in SyncRecs /\ x.async0 = n
  <2> HIDE DEF n
  <2>1. QED  BY <1>2, <1>4 DEF SyncRecs
<1> HIDE DEF w
<1>8. v \in SyncRecs /\ ~v.wait
  <2> HIDE DEF n
  <2>1. QED  BY <1>3, <1>4 DEF SyncRecs
<1> HIDE DEF v, x, z, n
<1>9. CASE IsAsync /\ SyncTurn(w, Append(scratch, AsShown(Byte)))
  <2> DEFINE s == Append(scratch, AsShown(Byte))
  <2>0. AsShown(Byte) \in Bytes
    BY <1>2 DEF AsShown, Bytes
  <2>1. s \in Seq(Bytes) /\ Len(s) = Len(scratch) + 1
    BY <1>2, <2>0, ZeroHeld
  <2> HIDE DEF s
  <2>2. UnsyncedAfter = sync.unsynced
    BY <1>9 DEF UnsyncedAfter, IsAsync, Throws0
  <2>3. UnsyncedAfter \in Nat /\ Len(s) <= pos + 1 /\ UnsyncedAfter + Len(s) <= pos + 1
    BY <1>2, <2>1, <2>2
  <2>4. SyncTurn(w, s)
    BY <1>9 DEF s
  <2>5. QED  BY <1>1, <1>3, <2>1, <2>3, <2>4, SyncTurnSized
<1>10. CASE Throws0 /\ SyncTurn(v, From(z, 12))
  <2>1. UnsyncedAfter = sync.unsynced + 11
    BY <1>10 DEF UnsyncedAfter, asyncPad0Limit
  <2>2. sync.async0 + 1 >= 16
    BY <1>10 DEF Throws0, asyncPad0Limit, asyncReq0
  <2>3. Len(z) >= 16
    BY <1>4, <1>6, <2>2, Zenon DEF n
  <2> DEFINE s == From(z, 12)
  <2>4. s \in Seq(Bytes) /\ Len(s) = Len(z) - 11
    BY <1>6, <2>3, LastKept
  <2> HIDE DEF s
  <2>5. UnsyncedAfter \in Nat /\ Len(s) <= pos + 1 /\ UnsyncedAfter + Len(s) <= pos + 1
    BY <1>2, <1>6, <2>1, <2>4
  <2>6. SyncTurn(v, s)
    BY <1>10 DEF s
  <2>7. QED  BY <1>1, <1>8, <2>4, <2>5, <2>6, SyncTurnSized
<1>11. CASE Byte = 0 /\ ~Throws0 /\ SyncTurn(x, z)
  <2>1. UnsyncedAfter = sync.unsynced
    BY <1>11 DEF UnsyncedAfter
  <2>2. ~(sync.async0 + 1 >= 16)
    BY <1>1, <1>11 DEF Throws0, asyncPad0Limit, asyncReq0
  <2>3. ~IsAsync
    BY <1>11 DEF IsAsync
  <2>4. n <= 15 /\ n <= Len(z)
    BY <1>4, <1>6, <2>2, Zenon DEF n
  <2>5. UnsyncedAfter \in Nat /\ Len(z) <= pos + 1 /\ UnsyncedAfter + Len(z) <= pos + 1
    BY <1>2, <1>6, <2>1
  <2>6. QED  BY <1>1, <1>6, <1>7, <1>11, <2>3, <2>4, <2>5, SyncTurnSized
<1>12. CASE Byte # 0 /\ ~IsAsync /\ SyncTurn(w, <<>>)
  <2>1. UnsyncedAfter = sync.unsynced + (Len(scratch) + 1)
    BY <1>1, <1>12 DEF UnsyncedAfter, Throws0
  <2>2. UnsyncedAfter \in Nat /\ Len(<<>>) <= pos + 1 /\ UnsyncedAfter + Len(<<>>) <= pos + 1
    BY <1>2, <2>1, EmptyHeld
  <2>3. QED  BY <1>1, <1>3, <1>12, <2>2, EmptyHeld, SyncTurnSized
<1>13. asyncPad0Limit + 1 = 12
  BY DEF asyncPad0Limit
<1>14. \/ IsAsync /\ SyncTurn(w, Append(scratch, AsShown(Byte)))
       \/ Throws0 /\ SyncTurn(v, From(z, 12))
       \/ Byte = 0 /\ ~Throws0 /\ SyncTurn(x, z)
       \/ Byte # 0 /\ ~IsAsync /\ SyncTurn(w, <<>>)
  BY <1>5, <1>13, Zenon DEF SyncZeros, w, z
<1>15. QED  BY <1>9, <1>10, <1>11, <1>12, <1>14

LEMMA SyncSearchSized == IInv /\ Sized /\ SyncSearch => Sized'
<1> SUFFICES ASSUME IInv, Sized, SyncSearch PROVE Sized'
  OBVIOUS
<1> DEFINE m == pos - base
           n == Len(scratch)
           w == [sync EXCEPT !.unsynced = 0, !.start = m, !.onEntry = n]
           q == [pkt EXCEPT !.type = "NotSync"]
<1>1. /\ pc = "loop" /\ ps = "WaitSync" /\ pc' = "sync" /\ sync' = w /\ pkt' \in {pkt, q}
      /\ UNCHANGED <<inputVars, base, avail, pos, ps, scratch, f, dec>>
  BY DEF SyncSearch, Turn, outVars
<1>2. Placed /\ Held /\ Searched /\ Fields /\ PktShape(pkt) /\ DecShape(dec)
  BY DEF Sized
<1>3. m \in Nat /\ n \in Nat /\ 0 + n <= pos
  <2>1. n \in Nat
    BY <1>2, LenProperties DEF Held
  <2>2. n <= pos
    BY <1>2 DEF Held
  <2> HIDE DEF n
  <2>3. QED  BY <1>2, <2>1, <2>2 DEF Placed
<1>4. sync \in SyncRecs
  BY <1>2 DEF Searched
<1>5. w \in SyncRecs /\ w.wait = sync.wait /\ w.async0 = sync.async0 /\ w.unsynced = 0
  <2> DEFINE a == [sync EXCEPT !.unsynced = 0]
             b == [a EXCEPT !.start = m]
             c == [b EXCEPT !.onEntry = n]
  <2>1. w = c
    BY <1>4 DEF SyncRecs
  <2>2. SameSearch(sync, a, 0)
    BY <1>4 DEF SameSearch, SyncRecs
  <2> HIDE DEF a, m, n
  <2>3. SameSearch(sync, b, 0)
    BY <1>3, <2>2 DEF SameSearch, SyncRecs
  <2> HIDE DEF b
  <2>4. SameSearch(sync, c, 0)
    BY <1>3, <2>3 DEF SameSearch, SyncRecs
  <2> HIDE DEF c, w
  <2>5. QED  BY <2>1, <2>4 DEF SameSearch
<1>6. PktShape(q)
  BY <1>2 DEF PktShape
<1> HIDE DEF w, q
<1>7. Placed'
  BY <1>1, <1>2 DEF Placed, Streams, inputVars
<1>8. Held'
  BY <1>1, <1>2 DEF Held, inputVars
<1>9. Searched'
  <2>1. sync'.unsynced + Len(scratch') <= pos'
    BY <1>1, <1>3, <1>5
  <2>2. sync'.wait => ps' = "WaitSync" /\ sync'.async0 <= 15 /\ (~closed' => sync'.async0 <= Len(scratch'))
    BY <1>1, <1>2, <1>5 DEF Searched, inputVars
  <2>3. QED  BY <1>1, <1>5, <2>1, <2>2 DEF Searched, SyncRecs
<1>10. Fields'
  BY <1>1, <1>2 DEF Fields
<1>11. PktShape(pkt')
  BY <1>1, <1>2, <1>6
<1>12. DecShape(dec')
  BY <1>1, <1>2
<1>13. QED  BY <1>7, <1>8, <1>9, <1>10, <1>11, <1>12 DEF Sized, PktShape, DecShape, StackOK, IsSeq

LEMMA SyncPanicsSized == IInv /\ Sized /\ SyncPanics => Sized'
<1> SUFFICES ASSUME IInv, Sized, SyncPanics PROVE Sized'
  OBVIOUS
<1>1. /\ pc = "sync" /\ pc' = "panic"
      /\ cfg' = cfg /\ src' = src /\ resets' = resets /\ closed' = closed
      /\ UNCHANGED <<base, avail, pos, ps, scratch, f, pkt, sync, dec>>
  BY DEF SyncPanics, outVars, inputVars
<1>2. Placed /\ Held /\ Searched /\ Fields /\ PktShape(pkt) /\ DecShape(dec)
  BY DEF Sized
<1>3. Placed' /\ Held'
  BY <1>1, <1>2 DEF Placed, Streams, Held
<1>4. Searched'
  BY <1>1, <1>2 DEF Searched, SyncRecs
<1>5. ps = "WaitSync"
  BY <1>1 DEF IInv, Control
<1>6. Fields'
  BY <1>1, <1>2, <1>5 DEF Fields
<1>7. PktShape(pkt') /\ DecShape(dec')
  BY <1>1, <1>2
<1>8. QED  BY <1>3, <1>4, <1>6, <1>7 DEF Sized, PktShape, DecShape, StackOK, IsSeq

LEMMA ReturnSized == IInv /\ Sized /\ Return => Sized'
<1> SUFFICES ASSUME IInv, Sized, Return PROVE Sized'
  OBVIOUS
<1>1. /\ pc = "loop" /\ pc' = "idle" /\ ~More
      /\ cfg' = cfg /\ src' = src /\ resets' = resets /\ closed' = closed
      /\ UNCHANGED <<base, avail, pos, ps, scratch, f, pkt, sync, dec>>
  BY DEF Return, outVars, inputVars
<1>2. Placed /\ Held /\ Searched /\ Fields /\ PktShape(pkt) /\ DecShape(dec)
  BY DEF Sized
<1>3. pos' = avail'
  BY <1>1, <1>2 DEF Placed, More
<1>4. Placed' /\ Held'
  BY <1>1, <1>2, <1>3 DEF Placed, Streams, Held
<1>5. Searched'
  BY <1>1, <1>2 DEF Searched, SyncRecs
<1>6. Fields'
  BY <1>1, <1>2 DEF Fields, Midway, BranchDone
<1>7. PktShape(pkt') /\ DecShape(dec')
  BY <1>1, <1>2
<1>8. QED  BY <1>4, <1>5, <1>6, <1>7 DEF Sized, PktShape, DecShape, StackOK, IsSeq

LEMMA WriteSized == ASSUME IInv, Sized, NEW n \in ChunkSizes(src), Write(n) PROVE Sized'
<1>1. /\ pc = "idle" /\ pc' = "loop" /\ avail < Len(src)
      /\ base' = avail /\ avail' = Min({avail + n, Len(src)})
      /\ cfg' = cfg /\ src' = src /\ resets' = resets /\ closed' = closed
      /\ UNCHANGED <<pos, ps, scratch, f, pkt, sync, dec>>
  BY DEF Write, outVars, inputVars
<1>2. Placed /\ Held /\ Searched /\ Fields /\ PktShape(pkt) /\ DecShape(dec)
  BY DEF Sized
<1>3. n \in Nat \ {0}
  BY <1>2, ChunkAssumption DEF Placed, Streams
<1>4. Len(src) \in Nat /\ avail \in Nat /\ pos = avail
  BY <1>1, <1>2, LenProperties DEF Placed
<1>5. avail' \in Nat /\ avail <= avail' /\ avail' <= Len(src)
  <2> DEFINE L == Len(src)
             S == {avail + n, L}
  <2> HIDE DEF L
  <2>1. L \in Nat /\ avail < L
    BY <1>1, <1>4 DEF L
  <2>2. S \in SUBSET Nat /\ S # {}
    BY <1>3, <1>4, <2>1
  <2>3. Min(S) \in S /\ \A x \in S : Min(S) <= x
    BY <2>2, MinMember
  <2>4. avail' = Min(S)
    BY <1>1 DEF L
  <2>5. avail' \in S /\ avail' <= L
    BY <2>3, <2>4
  <2>6. avail' \in Nat /\ avail <= avail' /\ avail' <= L
    BY <1>3, <1>4, <2>1, <2>5
  <2>7. QED  BY <2>6 DEF L
<1>6. Placed'
  BY <1>1, <1>2, <1>4, <1>5 DEF Placed, Streams
<1>7. Held'
  BY <1>1, <1>2 DEF Held
<1>8. Searched'
  BY <1>1, <1>2 DEF Searched, SyncRecs
<1>9. Fields'
  BY <1>1, <1>2 DEF Fields, Midway, BranchDone
<1>10. PktShape(pkt') /\ DecShape(dec')
  BY <1>1, <1>2
<1>11. QED  BY <1>6, <1>7, <1>8, <1>9, <1>10 DEF Sized, PktShape, DecShape, StackOK, IsSeq

LEMMA NoFieldsAre == NoFields \in FieldRecs /\ Room(NoFields)
<1>1. NoFields \in FieldRecs
  BY DEF NoFields, FieldRecs, ISAs
<1>2. NoFields.numExcep = 0 /\ NoFields.ccBytes = 0
  BY DEF NoFields
<1>3. QED  BY <1>1, <1>2 DEF Room

LEMMA SendPktSized == IInv /\ Sized /\ SendPkt => Sized'
<1> SUFFICES ASSUME IInv, Sized, SendPkt PROVE Sized'
  OBVIOUS
<1> DEFINE r == processPacket(dec, pkt, pktIndex)
<1>1. /\ pc = "loop" /\ ps = "SendPkt" /\ Decoded(r)
      /\ IF r.err THEN pc' = "idle" /\ avail' = pos ELSE UNCHANGED <<pc, avail>>
      /\ pkt' = Clear(pkt) /\ f' = NoFields /\ scratch' = <<>> /\ ps' = "ProcHdr"
      /\ cfg' = cfg /\ src' = src /\ resets' = resets /\ closed' = closed
      /\ UNCHANGED <<base, pos, sync>>
  BY DEF SendPkt, Turn, inputVars
<1>2. Placed /\ Held /\ Searched /\ Fields /\ PktShape(pkt) /\ DecShape(dec)
  BY DEF Sized
<1>3. DecShape(dec')
  BY <1>1, <1>2, DecodedKeeps
<1> HIDE DEF r
<1>4. (pc' = "idle" /\ avail' = pos) \/ (pc' = "loop" /\ avail' = avail)
  BY <1>1
<1>5. Placed'
  <2>1. Len(src) \in Nat
    BY <1>2, LenProperties DEF Placed
  <2>2. avail' \in Nat /\ pos <= avail' /\ avail' <= Len(src)
    BY <1>2, <1>4, <2>1 DEF Placed
  <2>3. pc' = "idle" => pos = avail'
    BY <1>4
  <2>4. QED  BY <1>1, <1>2, <2>2, <2>3 DEF Placed, Streams
<1>6. Held'
  <2>1. Len(scratch') <= pos'
    BY <1>1, <1>2, EmptyHeld DEF Placed
  <2>2. QED  BY <1>1, <2>1, EmptyHeld DEF Held
<1>7. Searched'
  BY <1>1, <1>2, <1>4 DEF Searched, SyncRecs
<1>8. Fields'
  BY <1>1, NoFieldsAre DEF Fields, Room
<1>9. PktShape(pkt')
  <2>1. PktShape(Clear(pkt))
    BY <1>2 DEF Clear, PktShape
  <2>2. QED  BY <1>1, <2>1
<1>10. QED  BY <1>3, <1>5, <1>6, <1>7, <1>8, <1>9 DEF Sized, PktShape, DecShape, StackOK, IsSeq

LEMMA CloseSized == IInv /\ Sized /\ Close => Sized'
<1> SUFFICES ASSUME IInv, Sized, Close PROVE Sized'
  OBVIOUS
<1> DEFINE p == [pkt EXCEPT !.type = "IncompleteEOT"]
           q == processPacket(dec, p, pktIndex)
           r == IF scratch = <<>> THEN dec ELSE q
<1>1. /\ pc = "idle" /\ closed' = TRUE /\ scratch' = <<>> /\ dec' = [r EXCEPT !.out = <<>>]
      /\ pkt' = IF scratch = <<>> THEN pkt ELSE p
      /\ UNCHANGED <<cfg, src, resets, base, avail, pos, pc, ps, f, sync>>
  BY DEF Close
<1>2. Placed /\ Held /\ Searched /\ Fields /\ PktShape(pkt) /\ DecShape(dec)
  BY DEF Sized
<1>3. PktShape(p) /\ p.type = "IncompleteEOT" /\ IsSeq(p.atoms)
  BY <1>2 DEF PktShape, IInv, Typed, WellFormed
<1> HIDE DEF p
<1>4. DecShape(q)
  <2>1. HasFields(dec) /\ dec.state \in States /\ p.isa \in ISAs
    BY <1>3 DEF IInv, Typed, PktShape
  <2>2. QED  BY <1>2, <1>3, <2>1, ProcessedShape
<1> HIDE DEF q
<1>5. DecShape(r)
  BY <1>2, <1>4
<1> HIDE DEF r
<1>6. DecShape(dec')
  BY <1>1, <1>5 DEF DecShape
<1>7. PktShape(pkt')
  BY <1>1, <1>2, <1>3
<1>8. Placed'
  BY <1>1, <1>2 DEF Placed, Streams
<1>9. Held'
  <2>1. Len(scratch') <= pos'
    BY <1>1, <1>2, EmptyHeld DEF Placed
  <2>2. QED  BY <1>1, <2>1, EmptyHeld DEF Held
<1>10. Searched'
  <2>1. pkt'.type = "ASync" => pkt'.type = pkt.type
    BY <1>1, <1>3
  <2>2. sync.unsynced = 0
    BY <1>1, <1>2 DEF Searched
  <2>3. QED  BY <1>1, <1>2, <2>1, <2>2 DEF Searched, SyncRecs
<1>11. Fields'
  BY <1>1, <1>2 DEF Fields
<1>12. QED  BY <1>6, <1>7, <1>8, <1>9, <1>10, <1>11 DEF Sized, PktShape, DecShape, StackOK, IsSeq

LEMMA StartShape == PktShape(StartPacket)
<1> DEFINE z == Zeros(9)
<1>1. Len(z) = 9
  BY DEF Zeros
<1>2. /\ {"type", "isa", "addr", "ts", "atoms"} \subseteq DOMAIN StartPacket
      /\ StartPacket.isa = "Unknown" /\ StartPacket.addr = 0 /\ StartPacket.ts = z /\ StartPacket.atoms = <<>>
  BY DEF StartPacket
<1> HIDE DEF z
<1>3. Len(<<>>) <= 5
  BY AnyEmpty
<1>4. QED  BY <1>1, <1>2, <1>3 DEF PktShape, ISAs

LEMMA EmptyStack == StackOK(<<>>)
<1>1. Len(<<>>) <= RetStackCap /\ 1..Len(<<>>) = {}
  BY AnyEmpty, BoundsAssumption
<1>2. QED  BY <1>1, AnyEmpty DEF StackOK

LEMMA StartSyncIs ==
  StartSync \in SyncRecs /\ ~StartSync.wait /\ StartSync.async0 = 0 /\ StartSync.unsynced = 0
BY DEF StartSync, SyncRecs

LEMMA InitSized == Init => Sized
<1> SUFFICES ASSUME Init PROVE Sized
  OBVIOUS
<1>1. /\ base = 0 /\ avail = 0 /\ pos = 0 /\ resets = 0 /\ closed = FALSE
      /\ pc = "idle" /\ ps = "WaitSync" /\ scratch = <<>> /\ f = NoFields
      /\ pkt = StartPacket /\ sync = StartSync /\ dec = NewDecoder
  BY DEF Init
<1>2. PICK s \in Sessions : cfg = s.cfg /\ src = s.bytes
  BY DEF Init
<1>3. src \in Seq(Bytes) /\ cfg \in CfgRecs /\ src \in Streams
  BY <1>2, SessionsAssumption DEF CfgRecs, Streams
<1>4. Placed
  <2>1. Len(src) \in Nat /\ 0 <= Len(src) /\ 0 \in Nat /\ 0 <= 0 /\ 0 \in 0..MaxResets
    BY <1>3, LenProperties, BoundsAssumption
  <2>2. QED  BY <1>1, <1>3, <2>1 DEF Placed
<1>5. Held
  <2>1. Len(scratch) <= pos
    BY <1>1, EmptyHeld
  <2>2. QED  BY <1>1, <2>1, EmptyHeld DEF Held
<1>6. Searched
  BY <1>1, StartSyncIs DEF Searched
<1>7. Fields
  BY <1>1, NoFieldsAre DEF Fields
<1>8. PktShape(pkt)
  BY <1>1, StartShape
<1>9. DecShape(dec)
  <2>1. {"isa", "stack"} \subseteq DOMAIN NewDecoder /\ NewDecoder.isa \in ISAs /\ NewDecoder.stack = <<>>
    BY DEF NewDecoder, ISAs
  <2>2. QED  BY <1>1, <2>1, EmptyStack DEF DecShape
<1>10. QED  BY <1>4, <1>5, <1>6, <1>7, <1>8, <1>9 DEF Sized

LEMMA ResetSized == ASSUME IInv, Sized, NEW s \in NextStreams, Reset(s) PROVE Sized'
<1> DEFINE p == [StartPacket EXCEPT !.reason = pkt.reason, !.atoms = pkt.atoms]
           d == [dec EXCEPT !.unsync = "ResetDecoder"]
<1>1. /\ pc = "idle" /\ resets < MaxResets
      /\ src' = s /\ base' = 0 /\ avail' = 0 /\ pos' = 0 /\ resets' = resets + 1 /\ closed' = FALSE
      /\ ps' = "WaitSync" /\ scratch' = <<>> /\ f' = NoFields
      /\ pkt' = Clear(p) /\ sync' = StartSync /\ dec' = resetDecoder(d)
      /\ cfg' = cfg /\ pc' = pc
  BY DEF Reset
<1>2. Placed /\ Held /\ Searched /\ Fields /\ PktShape(pkt) /\ DecShape(dec)
  BY DEF Sized
<1>3. s \in Seq(Bytes) /\ s \in Streams
  BY StreamsAssumption DEF Streams
<1>4. Placed'
  <2>1. Len(s) \in Nat /\ 0 <= Len(s) /\ 0 \in Nat /\ 0 <= 0
    BY <1>3, LenProperties
  <2>2. resets + 1 \in 0..MaxResets
    BY <1>1, <1>2, BoundsAssumption DEF Placed
  <2>3. QED  BY <1>1, <1>2, <1>3, <2>1, <2>2 DEF Placed, Streams
<1>5. Held'
  <2>1. Len(scratch') <= pos'
    BY <1>1, EmptyHeld
  <2>2. QED  BY <1>1, <2>1, EmptyHeld DEF Held
<1>6. Searched'
  BY <1>1, StartSyncIs DEF Searched, SyncRecs
<1>7. Fields'
  BY <1>1, NoFieldsAre DEF Fields, Room
<1>8. PktShape(pkt')
  <2> DEFINE a == pkt.atoms
             r == pkt.reason
             u == [StartPacket EXCEPT !.reason = r]
             v == [u EXCEPT !.atoms = a]
  <2>1. p = v
    BY DEF StartPacket
  <2>2. Len(a) <= 5
    BY <1>2 DEF PktShape
  <2> HIDE DEF a, r
  <2>3. PktShape(u)
    BY StartShape DEF PktShape
  <2> HIDE DEF u
  <2>4. PktShape(v)
    BY <2>2, <2>3 DEF PktShape
  <2> HIDE DEF v, p
  <2>5. PktShape(Clear(p))
    BY <2>1, <2>4 DEF Clear, PktShape
  <2>6. QED  BY <1>1, <2>5
<1>9. DecShape(dec')
  <2>1. DecShape(d)
    BY <1>2 DEF DecShape
  <2> HIDE DEF d
  <2>2. DecShape(resetDecoder(d))
    BY <2>1 DEF resetDecoder, DecShape, ISAs
  <2>3. QED  BY <1>1, <2>2
<1>10. QED  BY <1>4, <1>5, <1>6, <1>7, <1>8, <1>9 DEF Sized, PktShape, DecShape, StackOK, IsSeq

LEMMA StutterSized == ASSUME Sized, UNCHANGED vars PROVE Sized'
<1>1. /\ cfg' = cfg /\ src' = src /\ resets' = resets /\ closed' = closed
      /\ UNCHANGED <<base, avail, pos, pc, ps, scratch, f, pkt, sync, dec>>
  BY DEF vars, inputVars, outVars
<1>2. Placed /\ Held /\ Searched /\ Fields /\ PktShape(pkt) /\ DecShape(dec)
  BY DEF Sized
<1>3. Placed' /\ Held'
  BY <1>1, <1>2 DEF Placed, Streams, Held
<1>4. Searched'
  BY <1>1, <1>2 DEF Searched, SyncRecs
<1>5. Fields'
  BY <1>1, <1>2 DEF Fields, Midway, BranchDone
<1>6. PktShape(pkt') /\ DecShape(dec')
  BY <1>1, <1>2
<1>7. QED  BY <1>3, <1>4, <1>5, <1>6 DEF Sized, PktShape, DecShape, StackOK, IsSeq

LEMMA NextSized == IInv /\ Sized /\ [Next]_vars => Sized'
<1> SUFFICES ASSUME IInv, Sized, [Next]_vars PROVE Sized'
  OBVIOUS
<1>1. ASSUME NEW n \in ChunkSizes(src), Write(n) PROVE Sized'
  BY <1>1, WriteSized
<1>2. ASSUME NEW s \in NextStreams, Reset(s) PROVE Sized'
  BY <1>2, ResetSized
<1>3. CASE Close
  BY <1>3, CloseSized
<1>4. CASE Step
  <2>1. CASE Return \/ SyncSearch \/ SyncScan \/ SyncZeros \/ SyncPanics
    BY <2>1, ReturnSized, SyncSearchSized, SyncScanSized, SyncZerosSized, SyncPanicsSized
  <2>2. CASE ProcHdr \/ packetASync \/ SendPkt
    BY <2>2, ProcHdrSized, PacketASyncSized, SendPktSized
  <2>3. CASE pktBranchAddr \/ packetWPointUpdate \/ packetISync \/ pktCtxtID \/ packetTimestamp
    BY <2>3, BranchAddrSized, WPointUpdateSized, PacketISyncSized, CtxtIDSized, PacketTimestampSized
  <2>4. CASE packetVMID \/ packetAtom
    BY <2>4, OtherSized
  <2>5. QED  BY <1>4, <2>1, <2>2, <2>3, <2>4 DEF Step
<1>5. CASE UNCHANGED vars
  BY <1>5, StutterSized
<1>6. QED  BY <1>1, <1>2, <1>3, <1>4, <1>5 DEF Next

LEMMA SizedTyped == IInv /\ Sized => TypeOK
<1> SUFFICES ASSUME IInv, Sized PROVE TypeOK
  OBVIOUS
<1>1. Placed /\ Held /\ Searched /\ Fields /\ PktShape(pkt) /\ DecShape(dec)
  BY DEF Sized
<1>2. /\ base \in Nat /\ avail \in Nat /\ pos \in Nat /\ base <= pos /\ pos <= avail /\ avail <= Len(src)
      /\ Len(src) \in Nat /\ Len(scratch) \in Nat /\ Len(scratch) <= pos
  BY <1>1, LenProperties DEF Placed, Held
<1>3. base <= avail /\ pos \in 0..avail /\ Len(scratch) <= Len(src)
  BY <1>2
<1>4. sync.unsynced \in 0..Len(src)
  <2>1. sync.unsynced \in Nat
    BY <1>1 DEF Searched, SyncRecs
  <2>2. sync.unsynced + Len(scratch) <= pos \/ sync.unsynced = 0
    BY <1>1 DEF Searched
  <2>3. QED  BY <1>2, <2>1, <2>2
<1>5. sync.async0 \in 0..16
  BY <1>1 DEF Searched, SyncRecs
<1>6. f.numAddr \in 0..5 /\ f.numExcep \in 0..2 /\ f.ccBytes \in 0..5 /\ f.ctxtBytes \in 0..4
  BY <1>1 DEF Fields, FieldRecs
<1>7. /\ pc \in {"idle", "loop", "sync", "panic"} /\ ps \in {"WaitSync", "ProcHdr", "ProcData", "SendPkt"}
      /\ dec.state \in {"NoSync", "WaitSync", "WaitISync", "Pkts"}
  BY DEF IInv, Control, Typed, States
<1>8. /\ pkt.isa \in ISAs /\ pkt.addr \in Nat /\ Len(pkt.ts) = 9 /\ Len(pkt.atoms) <= 5
      /\ dec.isa \in ISAs /\ Len(dec.stack) <= RetStackCap
  BY <1>1 DEF PktShape, DecShape, StackOK
<1>9. avail <= Len(src) /\ resets \in 0..MaxResets /\ closed \in BOOLEAN
  BY <1>1 DEF Placed
<1>10. QED  BY <1>3, <1>4, <1>5, <1>6, <1>7, <1>8, <1>9 DEF TypeOK

\* No handler ever counts past the bytes, fields and bounds that it has: an address has
\* at most five bytes, a cycle count five and an exception two, a search for a sync
\* counts at most 16 zeros and never more bytes than were read, and the return stack
\* does not grow beyond its size (pktBranchAddr, packetISync, waitASync, AddrReturnStack).
THEOREM TypeCorrect == Spec => []TypeOK
<1>1. Init => IInv /\ Sized
  BY InitHolds, InitSized
<1>2. IInv /\ Sized /\ [Next]_vars => (IInv /\ Sized)'
  BY NextKeeps, NextSized
<1>3. IInv /\ Sized => TypeOK
  BY SizedTyped
<1>4. QED  BY <1>1, <1>2, <1>3, PTL DEF Spec
=============================================================================
