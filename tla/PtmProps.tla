------------------------------ MODULE PtmProps ------------------------------
(***************************************************************************)
(* PTM packets read off a whole byte stream, the path that ranges may      *)
(* take through the program, and the properties that compare Ptm with      *)
(* them.                                                                   *)
(***************************************************************************)
EXTENDS Ptm

\* The search for a sync counts zeros in blocks of 16: behind 16 of them it starts
\* again, and the 5 that an Async needs must come in the last block.
ZerosBefore(s, j) == LET ks == {k \in 1..(j - 1) : s[k] # 0} IN j - 1 - Max(ks \cup {0})
SyncEndsAt(s) == {j \in 6..Len(s) : s[j] = 128 /\ ZerosBefore(s, j) % 16 >= 5}

\* How many bytes a field takes that t starts with: up to the first byte without
\* continuation bit, and not more than max.
FieldLen(t, max) == Min({j \in 1..max : j = max \/ t[j] < 128})

CountLen(t) == IF Bit(t[1], 6) = 0 THEN 1 ELSE 1 + FieldLen(Tail(t), 4)
Count(t) ==
  Total([i \in 1..CountLen(t) |->
           IF i = 1 THEN (t[1] % 64) \div 4 ELSE (t[i] % 128) * 16 * 128^(i - 2)])

CountIf(wanted, t) == IF wanted THEN CountLen(t) ELSE 0

\* The parts of a packet that t starts with: its address bytes, exception bytes and
\* time bytes, whether a cycle count goes along, and the bytes of a context.
Parts(h, a, e, ts, cc, ctxt) == [h |-> h, a |-> a, e |-> e, ts |-> ts, cc |-> cc, ctxt |-> ctxt]

PartsOf(type, t) ==
  LET a  == FieldLen(t, 5)
      wa == FieldLen(Tail(t), 5)
  IN  CASE type = "BranchAddress" ->
             Parts(0, a, IF a = 1 \/ Bit(t[a], 6) = 0 THEN 0 ELSE FieldLen(From(t, a + 1), 2),
                   0, cfg.cc, 0)
        [] type = "WPointUpdate" ->
             Parts(1, wa, IF wa = 5 /\ Bit(t[6], 6) = 1 THEN 1 ELSE 0, 0, FALSE, 0)
        [] type = "ISync"     -> Parts(6, 0, 0, 0, cfg.cc /\ (t[6] \div 32) % 4 # 0, cfg.ctxt)
        [] type = "Timestamp" -> Parts(1, 0, 0, FieldLen(Tail(t), IF cfg.ts64 THEN 9 ELSE 7), cfg.cc, 0)
        [] type = "Atom"      -> IF cfg.cc THEN Parts(0, 0, 0, 0, TRUE, 0) ELSE Parts(1, 0, 0, 0, FALSE, 0)
        [] type = "ContextID" -> Parts(1, 0, 0, 0, FALSE, cfg.ctxt)
        [] type = "VMID"      -> Parts(2, 0, 0, 0, FALSE, 0)
        [] OTHER              -> Parts(1, 0, 0, 0, FALSE, 0)

\* Where the cycle count begins, and where the packet ends.
CountAt(x)   == x.h + x.a + x.e + x.ts + 1
LenOf(x, t)  == x.h + x.a + x.e + x.ts + CountIf(x.cc, From(t, CountAt(x))) + x.ctxt

\* A run of zeros: 5 to 15 of them and 128 are an Async.
ZeroPacket(i, t) ==
  LET z == Min({k \in 0..16 : k = 16 \/ t[k + 1] # 0})
  IN  IF z < 16 /\ t[z + 1] = 128 /\ z >= 5 THEN [at |-> i, type |-> "ASync", len |-> z + 1]
      ELSE [at |-> i, type |-> "BadSequence", len |-> IF z = 16 THEN 16 ELSE z + 1]

PacketAt(i, t) ==
  LET type == headerToPacketType(t[1])
  IN  IF type = "ASync" THEN ZeroPacket(i, t)
      ELSE [at |-> i, type |-> type, len |-> LenOf(PartsOf(type, t), t)]

\* A byte that is not there is read as one that ends whatever field it is in.
BytesFrom(s, i) == From(s, i + 1) \o [k \in 1..24 |-> 1]

\* The packets of s behind its first sync, without the one that is cut off.
PacketsOf(s) ==
  LET parse[i \in 0..Len(s)] ==
        LET p == PacketAt(i, BytesFrom(s, i))
        IN  IF i = Len(s) \/ i + p.len > Len(s) THEN <<>> ELSE <<p>> \o parse[i + p.len]
  IN  IF SyncEndsAt(s) = {} THEN <<>> ELSE parse[Min(SyncEndsAt(s))]

----------------------------------------------------------------------------
(* What packet p with the bytes t says, after packets that left q.         *)

\* An address counts words, halfwords or bytes; a packet brings its low bits.
Unit(isa) == IF isa = "Arm" THEN 4 ELSE IF isa = "Jazelle" THEN 1 ELSE 2
UnitBits(isa) == IF isa = "Arm" THEN 2 ELSE IF isa = "Jazelle" THEN 0 ELSE 1
Payload(s, i, last) ==
  CASE i = 1 -> (s[1] % 128) \div 2
    [] i = 5 -> s[5] % 2^last
    [] OTHER -> s[i] % IF i = Len(s) THEN 64 ELSE 128
AddressAfter(old, isa, s) ==
  LET top   == 5 - UnitBits(isa)
      value == Unit(isa) * Total([i \in 1..Len(s) |-> Payload(s, i, top) * IF i = 1 THEN 1 ELSE 2^(7 * i - 8)])
      known == UnitBits(isa) + IF Len(s) = 1 THEN 6 ELSE 7 * Len(s) - 2
  IN  IF Len(s) = 5 THEN value ELSE (old \div 2^known) * 2^known + value

ThumbOf(isa, t, x) ==
  IF isa \notin {"Thumb2", "Tee"} THEN isa
  ELSE IF x.e > 0 /\ Bit(t[x.h + x.a + 1], 6) = 1 THEN "Tee" ELSE "Thumb2"

ISAAfter(q, type, t, x) ==
  CASE type = "ISync" -> IF t[2] % 2 = 0 THEN "Arm" ELSE IF Bit(t[6], 2) = 1 THEN "Tee" ELSE "Thumb2"
    [] x.a = 5 -> ThumbOf(BranchISA(t[x.h + 5]), t, x)
    [] x.a \in 1..4 -> ThumbOf(q.isa, t, x)
    [] OTHER -> q.isa

Says(q, p, t) ==
  LET x   == PartsOf(p.type, t)
      isa == ISAAfter(q, p.type, t, x)
      ex  == x.h + x.a + 1
  IN  [type |-> p.type, isa |-> isa,
       addr |-> IF p.type = "ISync"
                THEN 2 * (t[2] \div 2) + 256 * (t[3] + 256 * (t[4] + 256 * t[5]))
                ELSE IF x.a > 0 THEN AddressAfter(q.addr, isa, SubSeq(t, x.h + 1, x.h + x.a)) ELSE q.addr,
       ctxt |-> IF x.ctxt > 0 THEN SubSeq(t, p.len - x.ctxt + 1, p.len) ELSE q.ctxt,
       vmid |-> IF p.type = "VMID" THEN t[2] ELSE q.vmid,
       cc   |-> IF x.cc THEN Count(From(t, CountAt(x))) ELSE -1,
       ts   |-> [k \in 1..9 |-> IF k > x.ts THEN q.ts[k]
                                ELSE IF k < 7 \/ (cfg.ts64 /\ k < 9) THEN t[k + 1] % 128
                                ELSE t[k + 1] % IF cfg.ts64 THEN 256 ELSE 64],
       exc  |-> IF p.type # "BranchAddress" \/ x.e = 0 THEN -1
                ELSE ((t[ex] % 32) \div 2) + IF x.e = 2 THEN (t[ex + 1] % 32) * 16 ELSE 0,
       atoms |-> IF p.type # "Atom" THEN <<>>
                 ELSE LET n == IF cfg.cc THEN 1
                               ELSE Min({k \in 1..5 : t[1] < <<136, 144, 160, 192, 256>>[k]})
                      IN  [k \in 1..n |-> IF Bit(t[1], n + 1 - k) = 1 THEN "N" ELSE "E"]]

Said(s, ps0) ==
  LET said[k \in 0..Len(ps0)] ==
        IF k = 0 THEN Shown(StartPacket)
        ELSE Says(said[k - 1], ps0[k], BytesFrom(s, ps0[k].at))
  IN  [k \in 1..Len(ps0) |->
         [index |-> ps0[k].at, raw |-> SubSeq(s, ps0[k].at + 1, ps0[k].at + ps0[k].len),
          pkt |-> said[k]]]

\* What the observer has been shown behind the Async that ended the search.
Synced ==
  LET as == {n \in DOMAIN obs : obs[n].pkt.type = "ASync"}
  IN  IF as = {} THEN <<>> ELSE From(obs, Min(as) + 1)

----------------------------------------------------------------------------
Prefix == SubSeq(src, 1, pos)

\* Between calls of Write the observer has seen the packets of the bytes so far,
\* each with its place, its bytes and its fields, however the blocks cut them and
\* whatever was malformed in between; addresses, ISA, context and time are carried
\* from packet to packet.
PacketsOfStream ==
  pc = "idle" /\ ~closed /\ cfg.observer => Synced = Said(Prefix, PacketsOf(Prefix))

\* An element that came out after a loss of sync is behind an Async and, behind
\* that, an ISync: a packet that cannot be read is the end of what can be followed.
ResyncedBehindBad ==
  cfg.observer =>
    \A k \in 2..Len(elems) : \A m \in (k + 1)..Len(elems) :
      elems[k].kind = "NoSync" /\ elems[m].kind # "EOTrace" =>
        \E a, b \in 1..Len(obs) :
          /\ obs[a].pkt.type = "ASync" /\ obs[b].pkt.type = "ISync"
          /\ elems[k].index < obs[a].index /\ obs[a].index < obs[b].index
          /\ obs[b].index <= elems[m].index

Ranges == SelectSeq(elems, LAMBDA e : e.kind = "InstrRange")
LastInstr(r) == InstrAt(r.val.isa, r.val.to - r.val.size)
AtomsAt(i) == \E n \in DOMAIN Synced : Synced[n].index = i /\ Synced[n].pkt.type = "Atom"

Calls(r)   == cfg.retStack /\ r.val.taken /\ r.val.size > 0 /\ LastInstr(r).link
                /\ LastInstr(r).kind # "Other"
Returns(r) == cfg.retStack /\ r.val.taken /\ r.val.size > 0 /\ LastInstr(r).kind = "Ind"
                /\ AtomsAt(r.index)

\* The call that the return at the end of range k belongs to: as many calls as
\* returns lie between them, and no ISync.
CallsOf(rs, k) ==
  LET isync == Max({Synced[n].index : n \in {x \in DOMAIN Synced :
                      Synced[x].pkt.type = "ISync" /\ Synced[x].index < rs[k].index}})
      net(j) == Cardinality({x \in (j + 1)..(k - 1) : Calls(rs[x])})
                - Cardinality({x \in (j + 1)..(k - 1) : Returns(rs[x])})
  IN  {j \in 1..(k - 1) : Calls(rs[j]) /\ rs[j].index > isync /\ net(j) = 0}

\* The packets that gave an address between ranges k - 1 and k.
Given(rs, k) ==
  {Synced[n] : n \in {x \in DOMAIN Synced :
     /\ Synced[x].pkt.type \in {"ISync", "BranchAddress"}
     /\ Synced[x].index < rs[k].index
     /\ k = 1 \/ Synced[x].index >= rs[k - 1].index}}

\* Every range begins where the last packet with an address said, else where the
\* last instruction of the range before leads to: the target of a branch, the
\* return address of the call that a return belongs to, or the next instruction.
FollowsProgram ==
  LET rs == Ranges
  IN  cfg.observer =>
        \A k \in DOMAIN rs :
          LET given == Given(rs, k)
              r     == rs[k - 1]
          IN  \/ /\ given # {}
                 /\ \E g \in given : /\ \A h \in given : h.index <= g.index
                                     /\ rs[k].val.from = g.pkt.addr /\ rs[k].val.isa = g.pkt.isa
              \/ /\ given = {} /\ k > 1 /\ r.val.size > 0
                 /\ \/ Returns(r) /\ CallsOf(rs, k - 1) # {}
                       /\ rs[k].val.from = rs[Max(CallsOf(rs, k - 1))].val.to
                    \/ r.val.taken /\ LastInstr(r).kind = "Br"
                       /\ rs[k].val.from = LastInstr(r).target /\ rs[k].val.isa = LastInstr(r).next
                    \/ ~(r.val.taken /\ LastInstr(r).kind \in {"Br", "Ind"})
                       /\ rs[k].val.from = r.val.to

\* "PacketObserver is the public type for observing raw packets off the decode
\* path": an observer does not stop the decoder.
ObserverOffPath == pc # "panic"

TypeOK ==
  /\ base <= avail /\ avail <= Len(src) /\ pos \in 0..avail /\ resets \in 0..MaxResets
  /\ pc \in {"idle", "loop", "sync", "panic"} /\ ps \in {"WaitSync", "ProcHdr", "ProcData", "SendPkt"}
  /\ closed \in BOOLEAN /\ Len(scratch) <= Len(src)
  /\ f.numAddr \in 0..5 /\ f.numExcep \in 0..2 /\ f.ccBytes \in 0..5 /\ f.ctxtBytes \in 0..4
  /\ sync.async0 \in 0..16 /\ sync.unsynced \in 0..Len(src)
  /\ pkt.isa \in ISAs /\ pkt.addr \in Nat /\ Len(pkt.ts) = 9 /\ Len(pkt.atoms) <= 5
  /\ dec.state \in {"NoSync", "WaitSync", "WaitISync", "Pkts"} /\ dec.isa \in ISAs
  /\ Len(dec.stack) <= RetStackCap
=============================================================================
