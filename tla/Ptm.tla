-------------------------------- MODULE Ptm --------------------------------
(***************************************************************************)
(* The PTM decoder (ptm_parser.go, ptm_packet.go, ptm_decoder.go): bytes   *)
(* become packets, packets steer a walk through the traced program.        *)
(*                                                                         *)
(* Inside a call of Write there is one step for every byte and for every   *)
(* packet sent.  A packet's fields are taken from its bytes (the scratch)  *)
(* when it is complete; f holds what a handler keeps from byte to byte.    *)
(* Addresses and cycle counts are numbers; a timestamp is its groups of 7  *)
(* bits, the lowest first, and a context ID its bytes.  The state of the   *)
(* PE that is only displayed (Hyp, AltISA, exception names) is left out,   *)
(* and so are the error returns for fields that lie outside of their       *)
(* packet, which the handlers' own counting rules out.                     *)
(***************************************************************************)
EXTENDS Integers, Sequences, SequencesExt, FiniteSetsExt

CONSTANTS
  Sessions,      \* [cfg, bytes]: a configuration and the bytes a caller feeds
  NextStreams,   \* the bytes after a Reset
  ChunkSizes(_), \* how many bytes one call of Write may bring, by stream
  Memory,        \* the addresses at which four bytes can be read
  Program,       \* the instructions there that are not ordinary, by <<isa, address>>
  RetStackCap,   \* 16 in the code
  Inline,        \* the array of the reader's scratch: 64 in the code
  MaxResets      \* bound on the calls of Reset

Bytes == 0..255
ISAs == {"Arm", "Thumb2", "Tee", "Jazelle", "Unknown"}

ASSUME SessionsAssumption ==
  \A s \in Sessions :
    /\ s.bytes \in Seq(Bytes)
    /\ s.cfg \in [cc : BOOLEAN, ctxt : {0, 1, 2, 4}, ts64 : BOOLEAN, retStack : BOOLEAN,
                  observer : BOOLEAN]
ASSUME StreamsAssumption == \A s \in NextStreams : s \in Seq(Bytes)
ASSUME ChunkAssumption ==
  \A s \in {x.bytes : x \in Sessions} \cup NextStreams : ChunkSizes(s) \subseteq Nat \ {0}
ASSUME MemoryAssumption == Memory \subseteq Nat /\ IsFiniteSet(Memory)
ASSUME ProgramAssumption ==
  \A x \in DOMAIN Program :
    /\ x[1] \in {"Arm", "Thumb2"} /\ x[2] \in Memory
    /\ Program[x] \in [kind : {"Other", "Br", "Ind", "Isb"}, size : {2, 4}, link : BOOLEAN,
                       target : Nat, next : {"Arm", "Thumb2"}]
    /\ Program[x].kind = "Br" \/ Program[x].next = x[1]
ASSUME BoundsAssumption == RetStackCap \in Nat \ {0} /\ MaxResets \in Nat
\* No packet behind the sync is longer than the array.
ASSUME InlineAssumption == Inline \in Nat /\ Inline > 16

VARIABLES
  cfg, src,                \* the session
  base, avail, pos,        \* bytes before the block at hand; handed over; read
  resets, closed,
  pc,                      \* "idle", "loop" (processData), "sync" (waitASync) or "panic"
  ps,                      \* processState
  scratch, f,              \* the bytes shown for the packet, and how far its handler is
  pkt, pktIndex,           \* currPacket and currPacketIndex
  sync,                    \* what waitASync and findAsync keep, and the locals of waitASync
  dec,                     \* the state of the decoder
  obs, elems               \* history: packets shown to the observer, and elements

inputVars == <<cfg, src, resets, closed>>
outVars   == <<dec, obs, elems>>
vars == <<inputVars, base, avail, pos, pc, ps, scratch, f, pkt, pktIndex, sync, outVars>>

Bit(b, k) == (b \div 2^k) % 2
Continues(b) == b >= 128
Total(s) ==
  LET upTo[k \in 0..Len(s)] == IF k = 0 THEN 0 ELSE upTo[k - 1] + s[k] IN upTo[Len(s)]
Zeros(n) == [k \in 1..n |-> 0]

----------------------------------------------------------------------------
(* The packet                                                              *)

\* -1: there is no cycle count, or no exception, in this packet.
StartPacket ==
  [type |-> "NotSync", isa |-> "Unknown", prevISA |-> "Unknown", addr |-> 0,
   ctxt |-> <<>>, updatedC |-> FALSE, vmid |-> 0, ns |-> FALSE, reason |-> 0,
   cc |-> -1, ts |-> Zeros(9), exc |-> -1, atoms |-> <<>>]

Clear(p) ==
  [p EXCEPT !.cc = -1, !.updatedC = FALSE, !.exc = -1, !.prevISA = p.isa]

UpdateISA(p, isa) == [p EXCEPT !.prevISA = p.isa, !.isa = isa]

UpdateAddress(p, val, bits) ==
  [p EXCEPT !.addr = IF bits > 30 THEN val ELSE (@ - (@ % 2^bits)) + (val % 2^bits)]

UpdateTimestamp(p, groups) ==
  [p EXCEPT !.ts = [k \in 1..9 |-> IF k <= Len(groups) THEN groups[k] ELSE @[k]]]

\* The atoms of a header, in the order in which Pop takes them.
AtomNum(h) ==
  CASE h \div 16 = 8 -> IF Bit(h, 3) = 1 THEN 2 ELSE 1
    [] h \div 16 = 9 -> 3
    [] h \div 32 = 5 -> 4
    [] OTHER -> 5

SetAtomFromPHdr(p, h) ==
  [p EXCEPT !.atoms = [k \in 1..AtomNum(h) |->
                         IF Bit(h, AtomNum(h) - k + 1) = 0 THEN "E" ELSE "N"]]

SetCycleAccAtomFromPHdr(p, h) ==
  [p EXCEPT !.atoms = <<IF Bit(h, 1) = 0 THEN "E" ELSE "N">>]

----------------------------------------------------------------------------
(* The fields of a packet, from its bytes                                  *)

\* The cycle count in the bytes s, and how many of them it takes.
CCLen(s) ==
  IF Bit(s[1], 6) = 0 THEN 1 ELSE Min({i \in 2..Len(s) : i = 5 \/ ~Continues(s[i])})

extractCycleCount(s) ==
  Total([i \in 1..CCLen(s) |->
         IF i = 1 THEN (s[1] \div 4) % 16 ELSE (s[i] % 128) * 2^(4 + 7 * (i - 2))])

WithCycleCount(p, s) == [p EXCEPT !.cc = extractCycleCount(s)]

WithCtxtID(p, s) ==
  IF cfg.ctxt = 0 THEN p ELSE [p EXCEPT !.ctxt = SubSeq(s, 1, cfg.ctxt), !.updatedC = TRUE]

TSMax == IF cfg.ts64 THEN 9 ELSE 7

\* The last byte of a time of full length has no continuation bit.
TSGroup(s, i) ==
  IF i < TSMax THEN s[i] % 128 ELSE IF cfg.ts64 THEN s[i] ELSE s[i] % 64

TSLen(s) == Min({i \in 1..Len(s) : i = TSMax \/ ~Continues(s[i])})

extractTS(s) == [i \in 1..TSLen(s) |-> TSGroup(s, i)]

\* The bits that byte i of n address bytes brings.
AddrBits(isa, i, n) ==
  CASE i = 1 -> IF isa = "Jazelle" THEN 6 ELSE 7
    [] i = 5 -> IF isa = "Jazelle" THEN 5 ELSE IF isa = "Arm" THEN 3 ELSE 4
    [] OTHER -> IF i = n THEN 6 ELSE 7

AddrPart(isa, s, i) ==
  CASE i = 1 -> IF isa = "Jazelle" THEN (s[1] % 128) \div 2 ELSE (s[1] % 128) - (s[1] % 2)
    [] OTHER -> s[i] % 2^AddrBits(isa, i, Len(s))

AddrShift(isa, i) ==
  IF i = 1 THEN 0 ELSE AddrBits(isa, 1, 5) + 7 * (i - 2)

\* extractAddress: the value of the address bytes s, and the number of its bits.
AddrVal(isa, s) ==
  (IF isa = "Arm" THEN 2 ELSE 1) * Total([i \in 1..Len(s) |-> AddrPart(isa, s, i) * 2^AddrShift(isa, i)])

AddrLen(isa, s) ==
  (IF isa = "Arm" THEN 1 ELSE 0) + Total([i \in 1..Len(s) |-> AddrBits(isa, i, Len(s))])

BranchISA(b) ==
  CASE (b \div 16) % 4 = 2 -> "Jazelle" [] (b \div 16) % 4 = 1 -> "Thumb2" [] OTHER -> "Arm"

\* The ISA of an address packet: that of its fifth byte, else the one in force;
\* the exception byte tells the two kinds of Thumb apart.
AddrISA(p, g) ==
  LET isa == IF g.isa = "Unknown" THEN p.isa ELSE g.isa
  IN  IF isa = "Tee" /\ g.alt = 0 THEN "Thumb2"
      ELSE IF isa = "Thumb2" /\ g.alt = 1 THEN "Tee" ELSE isa

WithAddress(p, g, s) ==
  UpdateAddress(UpdateISA(p, AddrISA(p, g)), AddrVal(AddrISA(p, g), s), AddrLen(AddrISA(p, g), s))

WithException(p, g, s) ==
  IF g.numExcep = 0 THEN p
  ELSE [p EXCEPT !.ns = (s[1] % 2 = 1),
                 !.exc = ((s[1] \div 2) % 16) + IF g.numExcep > 1 THEN 16 * (s[2] % 32) ELSE 0]

From(s, k) == SubSeq(s, k, Len(s))

\* The end of pktBranchAddr, and of the other handlers.
BranchPacket(p, g, s) ==
  LET q == WithException(WithAddress(p, g, SubSeq(s, 1, g.numAddr)), g, From(s, g.numAddr + 1))
  IN  IF cfg.cc THEN WithCycleCount(q, From(s, g.numAddr + g.numExcep + 1)) ELSE q

WPointPacket(p, g, s) == WithAddress(p, g, SubSeq(s, 2, g.numAddr + 1))

ISyncPacket(p, g, s) ==
  LET isa  == IF s[2] % 2 = 0 THEN "Arm" ELSE IF Bit(s[6], 2) = 1 THEN "Tee" ELSE "Thumb2"
      addr == (s[2] - (s[2] % 2)) + 2^8 * s[3] + 2^16 * s[4] + 2^24 * s[5]
      q    == [UpdateAddress(UpdateISA(p, isa), addr, 32) EXCEPT
                 !.reason = (s[6] \div 32) % 4, !.ns = (Bit(s[6], 3) = 1)]
  IN  IF g.needCC THEN WithCtxtID(WithCycleCount(q, From(s, 7)), From(s, 7 + CCLen(From(s, 7))))
      ELSE WithCtxtID(q, From(s, 7))

AtomPacket(p, s) ==
  IF cfg.cc THEN SetCycleAccAtomFromPHdr(WithCycleCount(p, s), s[1])
  ELSE SetAtomFromPHdr(p, s[1])

TimestampPacket(p, s) ==
  LET q == UpdateTimestamp(p, extractTS(From(s, 2)))
  IN  IF cfg.cc THEN WithCycleCount(q, From(s, 2 + TSLen(From(s, 2)))) ELSE q

----------------------------------------------------------------------------
(* The decoder                                                             *)

resetDecoder(d) ==
  [d EXCEPT !.state = "NoSync", !.needIsync = TRUE, !.ctxtValid = FALSE, !.vmidValid = FALSE,
            !.ns = FALSE, !.addr = 0, !.isa = "Unknown", !.valid = FALSE]

\* err: the packet at hand ends Write with an error.
NewDecoder ==
  [state |-> "NoSync", unsync |-> "InitDecoder", index |-> 0, needIsync |-> TRUE,
   ctxt |-> <<>>, ctxtValid |-> FALSE, vmid |-> 0, vmidValid |-> FALSE, ns |-> FALSE,
   addr |-> 0, isa |-> "Unknown", valid |-> FALSE, stack |-> <<>>, err |-> FALSE, out |-> <<>>]

Elem(d, kind, val) == [kind |-> kind, index |-> d.index, val |-> val]
Emit(d, kind, val) == [d EXCEPT !.out = Append(@, Elem(d, kind, val))]

Context(d) ==
  [ctxt |-> IF d.ctxtValid THEN d.ctxt ELSE <<>>, vmid |-> IF d.vmidValid THEN d.vmid ELSE -1,
   ns |-> d.ns]

\* Mutant: the return addresses from before the ISync stay.
FlushNothing(d) == d

flush(d) == [d EXCEPT !.stack = <<>>]

\* Mutant: the oldest return address is not dropped.
pushAll(d, a, isa) ==
  IF ~cfg.retStack THEN d ELSE [d EXCEPT !.stack = Append(@, [addr |-> a, isa |-> isa])]

push(d, a, isa) ==
  IF ~cfg.retStack THEN d
  ELSE [d EXCEPT !.stack = Append(IF Len(@) = RetStackCap THEN Tail(@) ELSE @,
                                  [addr |-> a, isa |-> isa])]

InstrAt(isa, a) ==
  IF <<isa, a>> \in DOMAIN Program THEN Program[<<isa, a>>]
  ELSE [kind |-> "Other", size |-> IF isa = "Arm" THEN 4 ELSE 2, link |-> FALSE,
        target |-> 0, next |-> isa]

\* traceInstrToWP: the first instruction from the current one on that is a waypoint,
\* or is at the address to be met (match, unless it is -1), or is not in memory.
traceInstrToWP(d, match) ==
  LET to[a \in Memory \cup {x + 2 : x \in Memory} \cup {x + 4 : x \in Memory}] ==
        IF a \notin Memory \/ (match = -1 /\ InstrAt(d.isa, a).kind # "Other") \/ a = match THEN a
        ELSE to[a + InstrAt(d.isa, a).size]
  IN  IF d.addr \in Memory THEN to[d.addr] ELSE d.addr

RangeOf(d, to, size, taken, cc) ==
  [from |-> d.addr, to |-> to, size |-> size, taken |-> taken, isa |-> d.isa, cc |-> cc]

\* The walk left the memory: what was walked comes out, and checkPendingNacc
\* reports the address behind it.
NotInMemory(d, w) ==
  LET shown == IF w = d.addr THEN d ELSE Emit(d, "InstrRange", RangeOf(d, w, 0, TRUE, -1))
  IN  [Emit(shown, "AddrNacc", [addr |-> w, ns |-> d.ns]) EXCEPT !.valid = FALSE]

\* Where the taken indirect branch at the waypoint leads: an atom is answered from
\* the return stack, after any other packet the address is unknown.
TakeIndirect(d, p, next) ==
  IF cfg.retStack /\ p.type = "Atom"
  THEN [d EXCEPT !.addr = Last(d.stack).addr, !.isa = Last(d.stack).isa, !.stack = Front(@)]
  ELSE [d EXCEPT !.addr = next, !.valid = FALSE]

Linked(d, ins, next, isa) == IF ins.link THEN push(d, next, isa) ELSE d

\* Past the waypoint ins, whose successor in memory is next.
GoPast(d, p, ins, next, taken) ==
  CASE ins.kind = "Br" /\ taken ->
         Linked([d EXCEPT !.addr = ins.target, !.isa = ins.next], ins, next, d.isa)
    [] ins.kind = "Ind" /\ taken -> Linked(TakeIndirect(d, p, next), ins, next, d.isa)
    [] OTHER -> [d EXCEPT !.addr = next, !.isa = ins.next]

AtWaypoint(d, p, taken, ins, next) ==
  IF ins.kind = "Ind" /\ taken /\ cfg.retStack /\ p.type = "Atom" /\ d.stack = <<>>
  THEN [d EXCEPT !.valid = FALSE, !.err = TRUE]
  ELSE GoPast(Emit(d, "InstrRange", RangeOf(d, next, ins.size, taken, p.cc)), p, ins, next, taken)

\* processAtomRange for the walk that ends at w.
processAtomRange(d, p, taken, w) ==
  CASE w \notin Memory -> NotInMemory(d, w)
    [] w \in Memory /\ d.isa \notin {"Arm", "Thumb2"} -> [d EXCEPT !.valid = FALSE]
    [] OTHER -> AtWaypoint(d, p, taken, InstrAt(d.isa, w), w + InstrAt(d.isa, w).size)

\* What is walked in an ISA that cannot be decoded ends where it begins.
WalkEnd(d, match) ==
  IF d.isa \in {"Arm", "Thumb2"} THEN traceInstrToWP(d, match) ELSE d.addr

\* Behind an error, or an address that is not known, the atoms that are left are dropped.
AfterAtom(d, p, a) == IF d.valid THEN processAtomRange(d, p, a = "E", WalkEnd(d, -1)) ELSE d

processAtom(d, p) ==
  LET after[k \in 0..Len(p.atoms)] == IF k = 0 THEN d ELSE AfterAtom(after[k - 1], p, p.atoms[k])
  IN  after[Len(p.atoms)]

processIsync(d, p) ==
  LET here == [d EXCEPT !.addr = p.addr, !.isa = p.isa, !.valid = TRUE, !.ns = p.ns,
                        !.ctxt = IF p.updatedC THEN p.ctxt ELSE @,
                        !.ctxtValid = @ \/ p.updatedC, !.needIsync = FALSE]
      on   == Emit(here, "TraceOn", [reason |-> p.reason, cc |-> p.cc])
      full == IF p.isa # p.prevISA \/ p.updatedC THEN Emit(on, "PeContext", Context(on)) ELSE on
  IN  flush(IF d.needIsync \/ p.reason # 0 THEN full ELSE here)

processBranch(d, p) ==
  LET before == IF p.exc # -1 THEN Emit(d, "Exception", [num |-> p.exc, cc |-> p.cc,
                                                          ret |-> IF d.valid THEN d.addr ELSE -1])
                ELSE IF d.valid THEN processAtomRange(d, p, TRUE, WalkEnd(d, -1))
                ELSE d
  IN  [before EXCEPT !.isa = p.isa, !.addr = p.addr, !.valid = TRUE]

processWPUpdate(d, p) ==
  IF d.valid THEN processAtomRange(d, p, TRUE, WalkEnd(d, p.addr)) ELSE d

NewContextID(d, p) ==
  IF d.ctxtValid /\ d.ctxt = p.ctxt THEN d
  ELSE LET e == [d EXCEPT !.ctxt = p.ctxt, !.ctxtValid = TRUE] IN Emit(e, "PeContext", Context(e))

NewVMID(d, p) ==
  IF d.vmidValid /\ d.vmid = p.vmid THEN d
  ELSE LET e == [d EXCEPT !.vmid = p.vmid, !.vmidValid = TRUE] IN Emit(e, "PeContext", Context(e))

\* Mutant: a packet that could not be read leaves the decoder in sync.
LoseSyncNot(d) == Emit(d, "NoSync", "")

LoseSync(d) == Emit([d EXCEPT !.state = "WaitSync", !.needIsync = TRUE], "NoSync", "")

decodePacket(d, p) ==
  CASE p.type \in {"BadSequence", "Reserved"} -> LoseSync(d)
    [] p.type = "ISync"         -> processIsync(d, p)
    [] p.type = "BranchAddress" -> processBranch(d, p)
    [] p.type = "Trigger"       -> Emit(d, "Event", "Trigger")
    [] p.type = "WPointUpdate"  -> processWPUpdate(d, p)
    [] p.type = "ContextID"     -> NewContextID(d, p)
    [] p.type = "VMID"          -> NewVMID(d, p)
    [] p.type = "Atom"          -> processAtom(d, p)
    [] p.type = "Timestamp"     -> Emit(d, "Timestamp", [ts |-> p.ts, cc |-> p.cc])
    [] p.type = "ExceptionRet"  -> Emit(d, "ExceptionRet", "")
    [] OTHER -> d

\* The state that an Async, or anything else, leads to.
Waiting(d, type) == [d EXCEPT !.state = IF type = "ASync" THEN "WaitISync" ELSE "WaitSync"]

processPacket(d0, p, index) ==
  LET d == [d0 EXCEPT !.index = index]
  IN  CASE d.state = "NoSync"    -> Waiting(Emit(d, "NoSync", d.unsync), p.type)
        [] d.state = "WaitSync"  -> Waiting(d, p.type)
        [] d.state = "WaitISync" ->
             IF p.type = "ISync" THEN decodePacket([d EXCEPT !.state = "Pkts"], p) ELSE d
        [] d.state = "Pkts"      -> decodePacket(d, p)

----------------------------------------------------------------------------
(* The parser                                                              *)

NoFields == [gotAddr |-> FALSE, numAddr |-> 0, gotExcep |-> FALSE, numExcep |-> 0,
             isa |-> "Unknown", alt |-> 0, needCC |-> FALSE, gotCC |-> FALSE, ccBytes |-> 0,
             ctxtBytes |-> 0, gotTS |-> FALSE, req |-> 0]

\* wait, async0 and shown stay over calls of Write; the rest are locals of waitASync.
NoLocals(w) == [w EXCEPT !.unsynced = 0, !.start = 0, !.onEntry = 0]
StartSync == [wait |-> FALSE, async0 |-> 0, shown |-> FALSE, unsynced |-> 0, start |-> 0, onEntry |-> 0]

Init ==
  /\ \E s \in Sessions : cfg = s.cfg /\ src = s.bytes
  /\ base = 0 /\ avail = 0 /\ pos = 0 /\ resets = 0 /\ closed = FALSE
  /\ pc = "idle" /\ ps = "WaitSync" /\ scratch = <<>> /\ f = NoFields
  /\ pkt = StartPacket /\ pktIndex = 0 /\ sync = StartSync
  /\ dec = NewDecoder /\ obs = <<>> /\ elems = <<>>

More == pos < avail
Turn(state) == pc = "loop" /\ ps = state /\ (More \/ state = "SendPkt")

Byte == src[pos + 1]

ReadByte == More /\ pos' = pos + 1

\* The last block is as long as what is left.
Write(n) ==
  /\ pc = "idle" /\ ~closed /\ avail < Len(src)
  /\ base' = avail /\ avail' = Min({avail + n, Len(src)}) /\ pc' = "loop"
  /\ UNCHANGED <<inputVars, pos, ps, scratch, f, pkt, pktIndex, sync, outVars>>

Return ==
  /\ pc = "loop" /\ ~More /\ ps # "SendPkt"
  /\ pc' = "idle"
  /\ UNCHANGED <<inputVars, base, avail, pos, ps, scratch, f, pkt, pktIndex, sync, outVars>>

\* What a packet shows of itself.
Shown(p) ==
  [type |-> p.type, addr |-> p.addr, isa |-> p.isa, ctxt |-> p.ctxt, vmid |-> p.vmid, cc |-> p.cc,
   ts |-> p.ts, exc |-> p.exc, atoms |-> IF p.type = "Atom" THEN p.atoms ELSE <<>>]

Seen(p, index, raw) ==
  IF cfg.observer /\ raw # <<>> THEN <<[index |-> index, raw |-> raw, pkt |-> Shown(p)]>> ELSE <<>>

\* The decoder after a packet; its elements go to elems.
Decoded(r) == dec' = [r EXCEPT !.out = <<>>, !.err = FALSE] /\ elems' = elems \o r.out

\* waitASync is called.
SyncSearch ==
  /\ Turn("WaitSync")
  /\ pc' = "sync"
  /\ pktIndex' = IF sync.wait THEN pktIndex ELSE pos
  /\ pkt' = IF sync.wait THEN pkt ELSE [pkt EXCEPT !.type = "NotSync"]
  /\ sync' = [sync EXCEPT !.unsynced = 0, !.start = pos - base, !.onEntry = Len(scratch)]
  /\ UNCHANGED <<inputVars, base, avail, pos, ps, scratch, f, outVars>>

\* The bytes that are shown for u bytes without sync.  They are taken from the
\* block; what u counts beyond its end is filled up.
UnsyncedRaw(u) ==
  LET len == avail - base
  IN  IF sync.start >= len /\ sync.start + u > len THEN <<>>
      ELSE [k \in 1..u |-> IF sync.start + k <= len THEN src[base + sync.start + k] ELSE len % 256]

asyncPad0Limit == 11
asyncReq0 == 5

\* findAsync with the byte at hand, after async0 zeros.
IsAsync == sync.wait /\ Byte = 128 /\ sync.async0 >= asyncReq0
Throws0 == sync.wait /\ Byte = 0 /\ sync.async0 + 1 >= asyncPad0Limit + asyncReq0

\* What the scratch shows of b behind the zeros of the search.  Zeros that a discard
\* kept of more than the array are a slice apart: b goes to the array, which is not
\* shown until it is full, and the slice shows the zeros it had there before.
Kept == Len(scratch) - sync.async0
AsShown(b) ==
  IF Kept > 0 /\ Kept + asyncPad0Limit > Inline /\ Len(scratch) < Inline THEN 0 ELSE b

\* The bytes without sync after the byte at hand.
UnsyncedAfter ==
  CASE Throws0 -> sync.unsynced + asyncPad0Limit
    [] ~Throws0 /\ (Byte = 0 \/ IsAsync) -> sync.unsynced
    [] OTHER -> sync.unsynced + IF sync.wait THEN Len(scratch) + 1 ELSE 1

SyncDone == IsAsync \/ pos + 1 = avail
Sends    == UnsyncedAfter > 0 /\ (SyncDone \/ UnsyncedAfter >= 16)

\* Bytes kept from the block before are shown as zeros, out of an array of 16.
ZerosPanic == Sends /\ cfg.observer /\ sync.onEntry > 16

\* One turn of the loop in waitASync, with w the state of the search behind it.
SyncTurn(w, s) ==
  LET u    == UnsyncedAfter
      late == IF cfg.observer THEN sync.onEntry ELSE 0
      w1   == IF Sends THEN [w EXCEPT !.unsynced = 0, !.start = @ + u, !.shown = TRUE,
                                      !.onEntry = IF cfg.observer THEN 0 ELSE @]
              ELSE [w EXCEPT !.unsynced = u]
  IN  /\ ~ZerosPanic
      /\ sync' = IF SyncDone THEN NoLocals(w1) ELSE w1
      /\ scratch' = s
      /\ \/ ~Sends /\ UNCHANGED <<pktIndex, outVars>>
         \/ /\ Sends /\ pktIndex' = pktIndex + late + u
            /\ obs' = obs \o Seen(pkt, pktIndex, Zeros(late)) \o Seen(pkt, pktIndex + late, UnsyncedRaw(u))
            /\ IF sync.shown THEN UNCHANGED <<dec, elems>>
               ELSE Decoded(processPacket(dec, pkt, pktIndex + late))
      /\ pc' = IF SyncDone THEN "loop" ELSE "sync"
      /\ ps' = IF IsAsync THEN "SendPkt" ELSE ps
      /\ pkt' = IF IsAsync THEN [pkt EXCEPT !.type = "ASync"] ELSE pkt
      /\ UNCHANGED <<inputVars, base, avail, f>>

SyncScan ==
  /\ pc = "sync" /\ ~sync.wait /\ ReadByte
  /\ \/ Byte = 0 /\ SyncTurn([sync EXCEPT !.wait = TRUE, !.async0 = 1], Append(scratch, 0))
     \/ Byte # 0 /\ SyncTurn(sync, <<>>)

\* findAsync: an Async, zeros of which too many are thrown away, or no Async.
SyncZeros ==
  /\ pc = "sync" /\ sync.wait /\ ReadByte
  /\ \/ IsAsync /\ SyncTurn([sync EXCEPT !.wait = FALSE], Append(scratch, AsShown(Byte)))
     \/ Throws0 /\ SyncTurn([sync EXCEPT !.wait = FALSE, !.async0 = @ + 1],
                            From(Append(scratch, 0), asyncPad0Limit + 1))
     \/ Byte = 0 /\ ~Throws0 /\ SyncTurn([sync EXCEPT !.async0 = @ + 1], Append(scratch, 0))
     \/ Byte # 0 /\ ~IsAsync /\ SyncTurn([sync EXCEPT !.wait = FALSE], <<>>)

\* More zeros were kept than the array has: the call of Write panics.
SyncPanics ==
  /\ pc = "sync" /\ More /\ ZerosPanic
  /\ pc' = "panic"
  /\ UNCHANGED <<inputVars, base, avail, pos, ps, scratch, f, pkt, pktIndex, sync, outVars>>

----------------------------------------------------------------------------
(* Headers and handlers.  A handler makes f of f with every byte; n is the *)
(* place of the byte in its packet, the header being 0.                    *)

headerToPacketType(h) ==
  CASE h % 2 = 1 -> "BranchAddress"
    [] h >= 128 /\ h % 2 = 0 -> "Atom"
    [] h = 0   -> "ASync"
    [] h = 8   -> "ISync"
    [] h = 114 -> "WPointUpdate"
    [] h = 12  -> "Trigger"
    [] h = 110 -> "ContextID"
    [] h = 60  -> "VMID"
    [] h \in {66, 70} -> "Timestamp"
    [] h = 118 -> "ExceptionRet"
    [] h = 102 -> "Ignore"
    [] OTHER -> "Reserved"

\* f right behind the header.
HeaderFields(type, h) ==
  CASE type = "BranchAddress" ->
         [NoFields EXCEPT !.numAddr = 1, !.needCC = cfg.cc, !.gotAddr = ~Continues(h),
                          !.gotExcep = ~Continues(h)]
    [] type = "ISync" -> [NoFields EXCEPT !.req = 6 + cfg.ctxt]
    [] type = "Timestamp" -> [NoFields EXCEPT !.needCC = cfg.cc]
    [] OTHER -> NoFields

BranchDone(g) == g.gotAddr /\ g.gotExcep /\ (g.needCC => g.gotCC)

\* The packets that consist of their header.
DoneAtHeader(type, h, g) ==
  \/ type \in {"Trigger", "ExceptionRet", "Ignore", "Reserved"}
  \/ type = "BranchAddress" /\ BranchDone(g)
  \/ type = "ContextID" /\ cfg.ctxt = 0
  \/ type = "Atom" /\ (~cfg.cc \/ Bit(h, 6) = 0)

\* A complete packet, made of its bytes s.
Complete(p, g, s) ==
  CASE p.type = "BranchAddress" -> BranchPacket(p, g, s)
    [] p.type = "WPointUpdate"  -> WPointPacket(p, g, s)
    [] p.type = "ISync"         -> ISyncPacket(p, g, s)
    [] p.type = "Atom"          -> AtomPacket(p, s)
    [] p.type = "Timestamp"     -> TimestampPacket(p, s)
    [] p.type = "ContextID"     -> WithCtxtID(p, From(s, 2))
    [] p.type = "VMID"          -> [p EXCEPT !.vmid = s[2]]
    [] OTHER -> p

ProcHdr ==
  /\ Turn("ProcHdr") /\ ReadByte
  /\ pktIndex' = pos /\ scratch' = Append(scratch, Byte)
  /\ LET type == headerToPacketType(Byte)
         g    == HeaderFields(type, Byte)
         p    == [pkt EXCEPT !.type = type]
     IN  /\ f' = g
         /\ sync' = IF type = "ASync" THEN [sync EXCEPT !.async0 = 1] ELSE sync
         /\ IF DoneAtHeader(type, Byte, g)
            THEN ps' = "SendPkt" /\ pkt' = Complete(p, g, scratch')
            ELSE ps' = "ProcData" /\ pkt' = p
  /\ UNCHANGED <<inputVars, base, avail, pc, outVars>>

\* The next byte of a packet of a type, behind which f is g; done: it is the last.
NextByte(g, done) ==
  /\ scratch' = Append(scratch, Byte) /\ f' = g
  /\ IF done THEN ps' = "SendPkt" /\ pkt' = Complete(pkt, g, scratch')
     ELSE UNCHANGED <<ps, pkt>>
  /\ UNCHANGED <<inputVars, base, avail, pc, pktIndex, sync, outVars>>

Handles(type) == Turn("ProcData") /\ pkt.type = type /\ ReadByte

\* The last byte of a cycle count that has n bytes before it.
CCEnds(b, n) == IF n = 0 THEN Bit(b, 6) = 0 ELSE ~Continues(b) \/ n = 4

CCByte(g, b) == [g EXCEPT !.ccBytes = @ + 1, !.gotCC = CCEnds(b, g.ccBytes)]

\* Mutant: the exception byte that says that another one follows is taken for the last.
BranchByteShort(g, b, n) ==
  CASE ~g.gotAddr /\ n < 4 ->
         [g EXCEPT !.numAddr = @ + 1, !.gotAddr = ~Continues(b),
                   !.gotExcep = ~Continues(b) /\ Bit(b, 6) = 0]
    [] ~g.gotAddr /\ n >= 4 ->
         [g EXCEPT !.numAddr = @ + 1, !.gotAddr = TRUE, !.gotExcep = (Bit(b, 6) = 0),
                   !.isa = BranchISA(b)]
    [] g.gotAddr /\ ~g.gotExcep -> [g EXCEPT !.numExcep = @ + 1, !.gotExcep = TRUE]
    [] OTHER -> CCByte(g, b)

BranchByte(g, b, n) ==
  CASE ~g.gotAddr /\ n < 4 ->
         [g EXCEPT !.numAddr = @ + 1, !.gotAddr = ~Continues(b),
                   !.gotExcep = ~Continues(b) /\ Bit(b, 6) = 0]
    [] ~g.gotAddr /\ n >= 4 ->
         [g EXCEPT !.numAddr = @ + 1, !.gotAddr = TRUE, !.gotExcep = (Bit(b, 6) = 0),
                   !.isa = BranchISA(b)]
    [] g.gotAddr /\ ~g.gotExcep ->
         [g EXCEPT !.numExcep = @ + 1, !.gotExcep = ~Continues(b) \/ g.numExcep = 1,
                   !.alt = IF g.numExcep = 0 THEN Bit(b, 6) ELSE @]
    [] OTHER -> CCByte(g, b)

pktBranchAddr ==
  /\ Handles("BranchAddress")
  /\ LET g == BranchByte(f, Byte, Len(scratch)) IN NextByte(g, BranchDone(g))

WPointByte(g, b, n) ==
  CASE ~g.gotAddr /\ n <= 4 ->
         [g EXCEPT !.numAddr = @ + 1, !.gotAddr = ~Continues(b), !.gotExcep = ~Continues(b)]
    [] ~g.gotAddr /\ n > 4 ->
         [g EXCEPT !.numAddr = @ + 1, !.gotAddr = TRUE, !.gotExcep = (Bit(b, 6) = 0),
                   !.isa = BranchISA(b)]
    [] OTHER -> [g EXCEPT !.numExcep = @ + 1, !.gotExcep = TRUE, !.alt = Bit(b, 6)]

packetWPointUpdate ==
  /\ Handles("WPointUpdate")
  /\ LET g == WPointByte(f, Byte, Len(scratch)) IN NextByte(g, g.gotAddr /\ g.gotExcep)

\* req grows with every byte of a cycle count.
ISyncByte(g, b, n) ==
  CASE n = 5 ->
         LET cc == cfg.cc /\ (b \div 32) % 4 # 0
         IN  [g EXCEPT !.needCC = cc, !.req = IF cc THEN @ + 1 ELSE @]
    [] n > 5 /\ g.needCC /\ ~g.gotCC ->
         [CCByte(g, b) EXCEPT !.req = IF CCEnds(b, g.ccBytes) THEN @ ELSE @ + 1]
    [] OTHER -> g

packetISync ==
  /\ Handles("ISync")
  /\ LET g == ISyncByte(f, Byte, Len(scratch)) IN NextByte(g, g.req = Len(scratch) + 1)

pktCtxtID ==
  /\ Handles("ContextID")
  /\ NextByte([f EXCEPT !.ctxtBytes = @ + 1], f.ctxtBytes + 1 = cfg.ctxt)

packetVMID == Handles("VMID") /\ NextByte(f, TRUE)

packetAtom ==
  Handles("Atom") /\ NextByte(f, ~Continues(Byte) \/ Len(scratch) = 4)

TimestampByte(g, b, n) ==
  IF g.gotTS THEN CCByte(g, b) ELSE [g EXCEPT !.gotTS = ~Continues(b) \/ n = TSMax]

packetTimestamp ==
  /\ Handles("Timestamp")
  /\ LET g == TimestampByte(f, Byte, Len(scratch))
     IN  NextByte(g, g.gotTS /\ (g.needCC => g.gotCC))

\* Too many zeros, or too few of them: the packet is sent as a bad one.
packetASync ==
  /\ Handles("ASync")
  /\ scratch' = Append(scratch, Byte)
  /\ sync' = IF Byte = 0 THEN [sync EXCEPT !.async0 = @ + 1] ELSE sync
  /\ \/ /\ Byte = 128 /\ sync.async0 >= asyncReq0
        /\ ps' = "SendPkt" /\ UNCHANGED pkt
     \/ /\ Byte = 0 /\ sync'.async0 < asyncPad0Limit + asyncReq0
        /\ UNCHANGED <<ps, pkt>>
     \/ /\ IF Byte = 0 THEN sync'.async0 >= asyncPad0Limit + asyncReq0
           ELSE ~(Byte = 128 /\ sync.async0 >= asyncReq0)
        /\ ps' = "SendPkt" /\ pkt' = [pkt EXCEPT !.type = "BadSequence"]
  /\ UNCHANGED <<inputVars, base, avail, pc, f, pktIndex, outVars>>

\* outputPacket and resetPacketState.  An error of the decoder ends Write, and
\* the caller goes on behind the packet.
SendPkt ==
  /\ Turn("SendPkt")
  /\ LET r == processPacket(dec, pkt, pktIndex)
     IN  /\ Decoded(r)
         /\ IF r.err THEN pc' = "idle" /\ avail' = pos ELSE UNCHANGED <<pc, avail>>
  /\ obs' = obs \o Seen(pkt, pktIndex, scratch)
  /\ pkt' = Clear(pkt) /\ f' = NoFields /\ scratch' = <<>> /\ ps' = "ProcHdr"
  /\ UNCHANGED <<inputVars, base, pos, pktIndex, sync>>

EndElem(d) == Elem(d, "EOTrace", "EOT")

\* What is left of a packet is shown; no atoms and no failed access are ever left
\* for Close to work off.
Close ==
  /\ pc = "idle" /\ ~closed
  /\ closed' = TRUE /\ scratch' = <<>>
  /\ LET p == [pkt EXCEPT !.type = "IncompleteEOT"]
         r == IF scratch = <<>> THEN dec ELSE processPacket(dec, p, pktIndex)
     IN  /\ dec' = [r EXCEPT !.out = <<>>]
         /\ elems' = elems \o r.out \o <<EndElem(r)>>
         /\ obs' = obs \o Seen(p, pktIndex, scratch)
         /\ pkt' = IF scratch = <<>> THEN pkt ELSE p
  /\ UNCHANGED <<cfg, src, resets, base, avail, pos, pc, ps, f, pktIndex, sync>>

\* Reset and resetProcessorState.
Reset(s) ==
  /\ pc = "idle" /\ resets < MaxResets
  /\ src' = s /\ base' = 0 /\ avail' = 0 /\ pos' = 0 /\ resets' = resets + 1 /\ closed' = FALSE
  /\ ps' = "WaitSync" /\ scratch' = <<>> /\ f' = NoFields
  /\ pkt' = Clear([StartPacket EXCEPT !.reason = pkt.reason, !.atoms = pkt.atoms])
  /\ sync' = StartSync
  /\ dec' = resetDecoder([dec EXCEPT !.unsync = "ResetDecoder"])
  /\ obs' = <<>> /\ elems' = <<>>
  /\ UNCHANGED <<cfg, pc, pktIndex>>

Step ==
  \/ Return \/ SyncSearch \/ SyncScan \/ SyncZeros \/ SyncPanics
  \/ ProcHdr \/ pktBranchAddr \/ packetWPointUpdate \/ packetISync \/ pktCtxtID \/ packetVMID
  \/ packetAtom \/ packetTimestamp \/ packetASync \/ SendPkt

Next ==
  \/ \E n \in ChunkSizes(src) : Write(n)
  \/ Close \/ Step
  \/ \E s \in NextStreams : Reset(s)

Spec == Init /\ [][Next]_vars
=============================================================================
