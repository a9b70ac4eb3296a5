---------------------------- MODULE Etmv4Parser ----------------------------
(***************************************************************************)
(* The ETMv4 and ETE packet parser (etmv4_parser.go, etmv4_packet.go): the *)
(* loop of processData, one step for every byte and for every packet sent, *)
(* the search for a sync, and the packet with what it carries over to the  *)
(* next one.  The decoder behind it is Etmv4; here it takes a packet or    *)
(* returns an error.                                                       *)
(*                                                                         *)
(* What a handler keeps from byte to byte is set by the header and depends *)
(* on the bytes in raw alone, so it is read off raw.  An address is its    *)
(* upper and lower 32 bits, a timestamp its groups of 7 bits, the lowest   *)
(* first; sizes and valid bits of addresses, which are only printed, are   *)
(* left out.                                                               *)
(***************************************************************************)
EXTENDS Integers, Sequences, SequencesExt, FiniteSetsExt

CONSTANTS
  Sessions,       \* [cfg, bytes, blocks, said]: a configuration, the bytes a caller feeds,
                  \* how many of them a call may bring, and what the trace source put
                  \* into them (looked at by properties only)
  MaxErrors,      \* bound on the errors of the decoder in a session
  MaxResets       \* bound on the calls of Reset

\* The registers of etmv4Config, as far as the parser asks for them; version is that
\* of an ETMv4 (40..) or of an ETE (50..), ctxt and vmid are sizes in bytes.
Configs == [version : 40..59, commitOpt1 : BOOLEAN, maxSpec : Nat, q : BOOLEAN,
            dataTrace : BOOLEAN, cond : BOOLEAN, ctxt : {0, 4}, vmid : {0, 1, 2, 4}, ccSize : 12..27]

ASSUME SessionsAssumption ==
  \A s \in Sessions :
    /\ s.cfg \in Configs /\ (s.cfg.vmid > 1 => s.cfg.version > 40)
    /\ s.bytes \in Seq(0..255) /\ s.blocks \subseteq Nat \ {0}
ASSUME BoundsAssumption == MaxErrors \in Nat /\ MaxResets \in Nat

VARIABLES
  session, avail, pos,     \* the bytes: handed over and read so far
  closed, resets, errs,
  pc,                      \* "idle", or "loop" inside of processData
  ps,                      \* processState
  handler, raw, pkt, packetIndex,
  isSync, firstTraceInfo, sentNotSync,
  dump, upd,               \* dumpUnsyncedBytes, updateUnsyncPacketIndex
  handed,                  \* history: the packets the decoder was given and did not refuse,
                           \* and whether there was a sync
  shown                    \* history: the packets the observer saw

callVars == <<session, closed, resets>>
syncVars == <<isSync, sentNotSync>>
outVars  == <<handed, shown, errs>>
vars == <<callVars, avail, pos, pc, ps, handler, raw, pkt, packetIndex, syncVars,
          firstTraceInfo, dump, upd, outVars>>

cfg == session.cfg
src == session.bytes
IsETE == cfg.version >= 50

Bit(b, k) == (b \div 2^k) % 2
Continues(b) == b >= 128
Total(s) == FoldLeft(LAMBDA x, y : x + y, 0, s)
From(s, k) == SubSeq(s, k, Len(s))

----------------------------------------------------------------------------
(* The packet.  A cycle count, commit or cancel of -1 is not valid.        *)

ZeroAddr == [hi |-> 0, lo |-> 0, is |-> 0]
NoContext == [el |-> 0, sf |-> FALSE, ns |-> FALSE, nse |-> FALSE, updated |-> FALSE,
              ctxt |-> 0, updatedC |-> FALSE, vmid |-> 0, updatedV |-> FALSE]
NoInfo == [cc |-> FALSE, trans |-> FALSE, initial |-> FALSE, spec |-> FALSE]

InitStartState ==
  [type |-> "NotSync", addr |-> ZeroAddr, stack |-> <<ZeroAddr, ZeroAddr, ZeroAddr>>,
   ts |-> [k \in 1..9 |-> 0], tsBits |-> 0, cc |-> -1, ccThreshold |-> 0, commit |-> -1,
   cancel |-> -1, specDepth |-> 0, p0Key |-> 0, atom |-> [bits |-> 0, num |-> 0],
   ctx |-> NoContext, info |-> NoInfo, exc |-> [type |-> 0, interp |-> 0, fault |-> FALSE],
   q |-> [type |-> 0, count |-> -1, addr |-> FALSE, match |-> FALSE], val |-> 0, ite |-> <<>>]

InitNextPacket(p) ==
  [p EXCEPT !.cc = -1, !.commit = -1, !.cancel = -1, !.atom = [bits |-> 0, num |-> 0],
            !.ctx = [@ EXCEPT !.updated = FALSE, !.updatedC = FALSE, !.updatedV = FALSE],
            !.info = [@ EXCEPT !.initial = FALSE, !.spec = FALSE]]

pushAddr(p, a) == [p EXCEPT !.addr = a, !.stack = <<a, @[1], @[2]>>]

setAddressExactMatch(p, k) == IF k < 3 THEN pushAddr(p, p.stack[k + 1]) ELSE p

setTimestamp(p, groups, all) ==
  [p EXCEPT !.ts = [k \in 1..9 |-> IF k <= Len(groups) THEN groups[k] ELSE IF all THEN 0 ELSE @[k]],
            !.tsBits = IF all \/ Len(groups) = 9 THEN 64 ELSE 7 * Len(groups)]

----------------------------------------------------------------------------
(* The fields of a packet in its bytes, raw = s, from byte i on            *)

\* extractContField: the bytes it takes, and its value.
ContLen(s, i, limit) ==
  LET most == Min({limit, Len(s) - i + 1})
      ends == {k \in 1..most : ~Continues(s[i + k - 1])}
  IN  IF ends = {} THEN most ELSE Min(ends)

extractContField(s, i, limit) ==
  Total([k \in 1..ContLen(s, i, limit) |-> (s[i + k - 1] % 128) * 128^(k - 1)])

\* extractTSField64: the ninth byte brings eight bits and is the last.
TSLen(s) == LET ends == {k \in 1..9 : k < Len(s) /\ (k = 9 \/ ~Continues(s[k + 1]))}
            IN  IF ends = {} THEN 0 ELSE Min(ends)
extractTSField64(s) == [k \in 1..TSLen(s) |-> IF k = 9 THEN s[10] ELSE s[k + 1] % 128]

\* extractShortAddr, put into the low bits of the last address.
ShortLen(s) == IF Continues(s[2]) THEN 2 ELSE 1
Shift(is) == IF is = 0 THEN 2 ELSE 1
withShortAddr(p, s, is) ==
  LET bits  == Shift(is) + IF ShortLen(s) = 2 THEN 15 ELSE 7
      value == 2^Shift(is) * ((s[2] % 128) + IF ShortLen(s) = 2 THEN 128 * s[3] ELSE 0)
  IN  pushAddr(p, [p.addr EXCEPT !.lo = (@ - (@ % 2^bits)) + value, !.is = is])

setLongAddr(p, s, is, is64) ==
  LET low == IF is = 0 THEN 4 * (s[2] % 128) + 2^9 * (s[3] % 128) ELSE 2 * (s[2] % 128) + 2^8 * s[3]
  IN  pushAddr(p, [hi |-> IF is64 THEN s[6] + 2^8 * s[7] + 2^16 * s[8] + 2^24 * s[9]
                          ELSE IF p.ctx.sf THEN p.addr.hi ELSE 0,
                   lo |-> low + 2^16 * s[4] + 2^24 * s[5], is |-> is])

\* contextPayloadBytes
VMIDBytes(info) == IF Bit(info, 6) = 1 THEN cfg.vmid ELSE 0
CtxtBytes(info) == IF Bit(info, 7) = 1 THEN cfg.ctxt ELSE 0
PayloadBytes(info) == VMIDBytes(info) + CtxtBytes(info)

\* The ID in n bytes, merged with the one of the last context.
BitOr(x, y) == Total([k \in 1..31 |-> 2^(k - 1) * Max({Bit(x, k - 1), Bit(y, k - 1)})])
MergedID(old, s, i, n) == BitOr(old, Total([k \in 1..n |-> s[i + k - 1] * 2^(8 * (k - 1))]))

extractAndSetContextInfo(p, s, i) ==
  LET info == s[i]
      v    == VMIDBytes(info)
      c    == CtxtBytes(info)
  IN  [p EXCEPT !.ctx =
         [el |-> info % 4, ns |-> Bit(info, 5) = 1, sf |-> Bit(info, 4) = 1, nse |-> Bit(info, 3) = 1,
          updated |-> TRUE, updatedV |-> v > 0, updatedC |-> c > 0,
          vmid |-> MergedID(@.vmid, s, i + 1, v), ctxt |-> MergedID(@.ctxt, s, i + 1 + v, c)]]

----------------------------------------------------------------------------
(* The table of headers                                                    *)

packetAddrIS(type) ==
  IF type \in {"AddrCtxtL32IS1", "AddrCtxtL64IS1", "AddrSIS1", "AddrL32IS1", "AddrL64IS1",
               "SrcAddrSIS1", "SrcAddrL32IS1", "SrcAddrL64IS1"} THEN 1 ELSE 0

ISName(b, even, type0, type1) == IF b = even THEN type0 ELSE type1

Configured(yes, h) == IF yes THEN h ELSE "iPktInvalidCfg"
CondHandler == IF cfg.cond THEN "iPktNoPayload" ELSE "iPktUnsupported"

Entry(type, h) == [type |-> type, handler |-> h]
ReservedEntry == Entry("Reserved", "iPktReserved")
EntryIf(yes, type, h) == IF yes THEN Entry(type, h) ELSE ReservedEntry

\* buildPacketTable: headers below 128, and the others.
LowTable(b) ==
  CASE b = 0        -> Entry("Extension", "iPktExtension")
    [] b = 1        -> Entry("TraceInfo", "iPktTraceInfo")
    [] b \in 2..3   -> Entry("Timestamp", "iPktTimestamp")
    [] b = 4        -> Entry("TraceOn", "iPktNoPayload")
    [] b = 5        -> Entry("FuncRet", "iPktNoPayload")
    [] b = 6        -> Entry("Exception", "iPktException")
    [] b = 7        -> Entry("ExceptionReturn", Configured(~IsETE, "iPktNoPayload"))
    [] b = 9        -> EntryIf(IsETE, "ITE", "iPktITE")
    [] b = 10       -> EntryIf(IsETE, "TransStart", "iPktNoPayload")
    [] b = 11       -> EntryIf(IsETE, "TransCommit", "iPktNoPayload")
    [] b \in 12..13 -> Entry("CycleCountF2", "iPktCycleCntF123")
    [] b \in 14..15 -> Entry("CycleCountF1", "iPktCycleCntF123")
    [] b \in 16..31 -> Entry("CycleCountF3", "iPktCycleCntF123")
    [] b \in 32..39 -> Entry("NumDSMarker", Configured(cfg.dataTrace, "iPktNoPayload"))
    [] b \in 40..44 -> Entry("UnnumDSMarker", Configured(cfg.dataTrace, "iPktNoPayload"))
    [] b = 45       -> Entry("Commit", "iPktSpeclRes")
    [] b = 46       -> Entry("CancelF1", "iPktSpeclRes")
    [] b = 47       -> Entry("CancelF1Mispred", "iPktSpeclRes")
    [] b \in 48..51 -> Entry("Mispredict", "iPktSpeclRes")
    [] b \in 52..55 -> Entry("CancelF2", "iPktSpeclRes")
    [] b \in 56..63 -> Entry("CancelF3", "iPktSpeclRes")
    [] b \in (64..70) \cup (72..74) \cup (76..78) \cup (80..95) \cup (104..111) -> Entry("Cond", CondHandler)
    [] b = 112      -> EntryIf(cfg.version >= 43, "Ignore", "iPktNoPayload")
    [] b \in 113..127 -> Entry("Event", "iPktNoPayload")
    [] OTHER        -> ReservedEntry

HighTable(b) ==
  CASE b \in 128..129 -> Entry("Context", "iPktContext")
    [] b \in 130..131 -> Entry(ISName(b, 130, "AddrCtxtL32IS0", "AddrCtxtL32IS1"), "iPktAddrCtxt")
    [] b \in 133..134 -> Entry(ISName(b, 133, "AddrCtxtL64IS0", "AddrCtxtL64IS1"), "iPktAddrCtxt")
    [] b = 136        -> EntryIf(cfg.version >= 46, "TSMarker", "iPktNoPayload")
    [] b \in 144..146 -> Entry("AddrMatch", "iPktNoPayload")
    [] b \in 149..150 -> Entry(ISName(b, 149, "AddrSIS0", "AddrSIS1"), "iPktShortAddr")
    [] b \in 154..155 -> Entry(ISName(b, 154, "AddrL32IS0", "AddrL32IS1"), "iPktLongAddr")
    [] b \in 157..158 -> Entry(ISName(b, 157, "AddrL64IS0", "AddrL64IS1"), "iPktLongAddr")
    [] b \in {160 + k : k \in {0, 1, 2, 5, 6, 10, 11, 12, 15}} -> EntryIf(cfg.q, "Q", "iPktQ")
    [] b \in 176..178 -> EntryIf(IsETE, "SrcAddrMatch", "iPktNoPayload")
    [] b \in 180..181 -> EntryIf(IsETE, ISName(b, 180, "SrcAddrSIS0", "SrcAddrSIS1"), "iPktShortAddr")
    [] b \in 182..183 -> EntryIf(IsETE, ISName(b, 182, "SrcAddrL32IS0", "SrcAddrL32IS1"), "iPktLongAddr")
    [] b \in 184..185 -> EntryIf(IsETE, ISName(b, 184, "SrcAddrL64IS0", "SrcAddrL64IS1"), "iPktLongAddr")
    [] b \in (192..212) \cup (224..244) -> Entry("AtomF6", "iAtom")
    [] b \in (213..215) \cup {245}      -> Entry("AtomF5", "iAtom")
    [] b \in 216..219 -> Entry("AtomF2", "iAtom")
    [] b \in 220..223 -> Entry("AtomF4", "iAtom")
    [] b \in 246..247 -> Entry("AtomF1", "iAtom")
    [] b \in 248..255 -> Entry("AtomF3", "iAtom")
    [] OTHER          -> ReservedEntry

Table(b) == IF b < 128 THEN LowTable(b) ELSE HighTable(b)

----------------------------------------------------------------------------
(* The handlers of packets with a payload: whether the packet is complete  *)
(* with the byte just added to raw = s, and the packet it then is.         *)

\* The bytes behind the header that end a field.
Ends(s) == {k \in 2..Len(s) : ~Continues(s[k])}

Sections(s) == {k \in 0..4 : Bit(s[2], k) = 1}
TraceInfoComplete(s) == Len(s) >= 2 /\ Cardinality(Ends(s)) = 1 + Cardinality(Sections(s))

\* Where the field of a section is, if the section is present.
SectionAt(s, sect) ==
  LET at[k \in 0..4] == IF k = 0 THEN 1 + Min(Ends(s))
                        ELSE at[k - 1] + IF k - 1 \in Sections(s) THEN ContLen(s, at[k - 1], 5) ELSE 0
  IN  at[sect]
Section(s, sect, absent) ==
  IF sect \in Sections(s) THEN extractContField(s, SectionAt(s, sect), 5) ELSE absent

iPktTraceInfo(p, s) ==
  LET info == Section(s, 0, 0)
  IN  [p EXCEPT !.info = [cc |-> Bit(info, 0) = 1, trans |-> Bit(info, 6) = 1,
                          initial |-> ~firstTraceInfo, spec |-> 2 \in Sections(s)],
                !.p0Key = Section(s, 1, @), !.specDepth = Section(s, 2, @),
                !.ccThreshold = Section(s, 3, @)]

TimestampComplete(s) ==
  TSLen(s) > 0 /\ (s[1] % 2 = 1 => \E k \in (2 + TSLen(s))..Len(s) : ~Continues(s[k]))

iPktTimestamp(p, s) ==
  LET q == setTimestamp(p, extractTSField64(s), p.tsBits = 0 /\ firstTraceInfo)
  IN  IF s[1] % 2 = 0 THEN q
      ELSE [q EXCEPT !.cc = extractContField(s, 2 + TSLen(s), 3) % 2^cfg.ccSize]

\* An ETE sends a reset or a failed transaction as an exception of three bytes.
ShortExcType(s) == (s[2] \div 2) % 32
ExceptionComplete(s) ==
  Len(s) = IF Len(s) < 2 \/ (IsETE /\ ShortExcType(s) \in {0, 24}) \/ Continues(s[2]) THEN 3 ELSE 2

iPktException(p, s) ==
  LET type == ShortExcType(s) + IF Continues(s[2]) THEN 32 * (s[3] % 32) ELSE 0
      q    == [p EXCEPT !.exc = [type |-> type, interp |-> 2 * Bit(s[2], 6) + (s[2] % 2),
                                 fault |-> Continues(s[2]) /\ Bit(s[3], 5) = 1]]
  IN  IF IsETE /\ type \in {0, 24}
      THEN [q EXCEPT !.type = IF type = 0 THEN "PEReset" ELSE "TransFail", !.addr = ZeroAddr]
      ELSE q

iPktITE(p, s) == [p EXCEPT !.ite = From(s, 2)]

\* Format 1 has a commit field, a count, both or neither.
F1Fields(s) == (IF s[1] % 2 = 0 THEN 1 ELSE 0) + (IF cfg.commitOpt1 THEN 0 ELSE 1)
CycleCntComplete(type, s) ==
  CASE type = "CycleCountF3" -> TRUE
    [] type = "CycleCountF2" -> Len(s) = 2
    [] OTHER                 -> Cardinality(Ends(s)) = F1Fields(s)

WithCommit(p, n) == IF cfg.commitOpt1 THEN p ELSE [p EXCEPT !.commit = n]
iPktCycleCntF123(p, s) ==
  CASE p.type = "CycleCountF3" ->
         WithCommit([p EXCEPT !.cc = p.ccThreshold + (s[1] % 4)], ((s[1] \div 4) % 4) + 1)
    [] p.type = "CycleCountF2" ->
         WithCommit([p EXCEPT !.cc = p.ccThreshold + (s[2] % 16)],
                    (s[2] \div 16) + IF s[1] % 2 = 1 THEN cfg.maxSpec - 15 ELSE 1)
    [] OTHER ->
         LET count == 2 + IF cfg.commitOpt1 THEN 0 ELSE ContLen(s, 2, 5)
         IN  WithCommit([p EXCEPT !.cc = IF s[1] % 2 = 1 THEN 0
                                         ELSE p.ccThreshold + extractContField(s, count, 3)],
                        extractContField(s, 2, 5))

SpeclResComplete(type, s) ==
  type \in {"Mispredict", "CancelF2", "CancelF3"} \/ (Len(s) > 1 /\ ~Continues(Last(s)))

AtomsOf(bits, num) == [bits |-> bits, num |-> num]
iPktSpeclRes(p, s) ==
  LET h    == s[1]
      atom == CASE h % 4 = 0 -> AtomsOf(0, 0) [] h % 4 = 1 -> AtomsOf(1, 1)
                [] h % 4 = 2 -> AtomsOf(3, 2) [] OTHER -> AtomsOf(0, 1)
  IN  CASE p.type = "Mispredict" -> [p EXCEPT !.atom = atom, !.cancel = 0]
        [] p.type = "CancelF2"   -> [p EXCEPT !.atom = atom, !.cancel = 1]
        [] p.type = "CancelF3"   -> [p EXCEPT !.cancel = ((h \div 2) % 4) + 2,
                                              !.atom = IF h % 2 = 1 THEN AtomsOf(1, 1) ELSE @]
        [] p.type = "Commit"     -> [p EXCEPT !.commit = extractContField(s, 2, 5)]
        [] OTHER                 -> [p EXCEPT !.cancel = extractContField(s, 2, 5)]

ContextComplete(s) == IF Len(s) = 1 THEN s[1] % 2 = 0 ELSE Len(s) >= 2 + PayloadBytes(s[2])
iPktContext(p, s) == IF Len(s) = 1 THEN p ELSE extractAndSetContextInfo(p, s, 2)

\* A long address with a context behind it.
InfoAt(s) == 2 + IF s[1] >= 133 THEN 8 ELSE 4
AddrCtxtComplete(s) == Len(s) >= InfoAt(s) /\ Len(s) >= InfoAt(s) + PayloadBytes(s[InfoAt(s)])
iPktAddrCtxt(p, s) ==
  extractAndSetContextInfo(setLongAddr(p, s, packetAddrIS(p.type), s[1] >= 133), s, InfoAt(s))

ShortAddrComplete(s) == Len(s) = 3 \/ (Len(s) = 2 /\ ~Continues(s[2]))
iPktShortAddr(p, s) == withShortAddr(p, s, packetAddrIS(p.type))

IsLong64(h) == (h >= 157 /\ h < 176) \/ h >= 184
LongAddrComplete(s) == Len(s) = 1 + IF IsLong64(s[1]) THEN 8 ELSE 4
iPktLongAddr(p, s) == setLongAddr(p, s, packetAddrIS(p.type), IsLong64(s[1]))

\* The bytes of the address in a Q packet.  A Q without count and address is complete
\* only with the byte that follows it.
QAddrLen(s) ==
  CASE s[1] % 16 \in {5, 6}   -> ShortLen(s)
    [] s[1] % 16 \in {10, 11} -> 4
    [] OTHER                  -> 0
QComplete(s) ==
  Len(s) >= 2 /\ (s[1] % 16 = 15 \/ (Len(s) > 1 + QAddrLen(s) /\ ~Continues(Last(s))))

iPktQ(p, s) ==
  LET type == s[1] % 16
      is   == IF type \in {5, 10} THEN 0 ELSE 1
      q    == CASE type \in {0, 1, 2}  -> setAddressExactMatch(p, type)
                [] type \in {5, 6}     -> withShortAddr(p, s, is)
                [] type \in {10, 11}   -> setLongAddr(p, s, is, FALSE)
                [] OTHER               -> p
  IN  [q EXCEPT !.q = [type |-> type, addr |-> type \notin {12, 15}, match |-> type \in {0, 1, 2},
                       count |-> IF type = 15 THEN -1 ELSE extractContField(s, 2 + QAddrLen(s), 5)]]

iAtom(p, s) ==
  LET h    == s[1]
      ones == (h % 32) + 3
  IN  [p EXCEPT !.atom =
         CASE p.type = "AtomF1" -> AtomsOf(h % 2, 1)
           [] p.type = "AtomF2" -> AtomsOf(h % 4, 2)
           [] p.type = "AtomF3" -> AtomsOf(h % 8, 3)
           [] p.type = "AtomF4" -> AtomsOf(<<14, 0, 10, 5>>[(h % 4) + 1], 4)
           [] p.type = "AtomF5" -> AtomsOf(IF h = 245 THEN 30 ELSE <<0, 10, 21>>[h % 4], 5)
           [] OTHER -> AtomsOf((2^ones - 1) + IF Bit(h, 5) = 0 THEN 2^ones ELSE 0, ones + 1)]

iPktNoPayload(p, s) ==
  CASE p.type \in {"AddrMatch", "SrcAddrMatch"}     -> setAddressExactMatch(p, s[1] % 4)
    [] p.type = "Event"                             -> [p EXCEPT !.val = s[1] % 16]
    [] p.type \in {"NumDSMarker", "UnnumDSMarker"}  -> [p EXCEPT !.val = s[1] % 8]
    [] OTHER -> p

updateErr(p, type) == [p EXCEPT !.type = type]

Complete(s) ==
  CASE handler = "iPktTraceInfo"    -> TraceInfoComplete(s)
    [] handler = "iPktTimestamp"    -> TimestampComplete(s)
    [] handler = "iPktException"    -> ExceptionComplete(s)
    [] handler = "iPktITE"          -> Len(s) = 10
    [] handler = "iPktCycleCntF123" -> CycleCntComplete(pkt.type, s)
    [] handler = "iPktSpeclRes"     -> SpeclResComplete(pkt.type, s)
    [] handler = "iPktContext"      -> ContextComplete(s)
    [] handler = "iPktAddrCtxt"     -> AddrCtxtComplete(s)
    [] handler = "iPktShortAddr"    -> ShortAddrComplete(s)
    [] handler = "iPktLongAddr"     -> LongAddrComplete(s)
    [] handler = "iPktQ"            -> QComplete(s)
    [] OTHER                        -> TRUE

PacketOf(s) ==
  CASE handler = "iPktTraceInfo"    -> iPktTraceInfo(pkt, s)
    [] handler = "iPktTimestamp"    -> iPktTimestamp(pkt, s)
    [] handler = "iPktException"    -> iPktException(pkt, s)
    [] handler = "iPktITE"          -> iPktITE(pkt, s)
    [] handler = "iPktCycleCntF123" -> iPktCycleCntF123(pkt, s)
    [] handler = "iPktSpeclRes"     -> iPktSpeclRes(pkt, s)
    [] handler = "iPktContext"      -> iPktContext(pkt, s)
    [] handler = "iPktAddrCtxt"     -> iPktAddrCtxt(pkt, s)
    [] handler = "iPktShortAddr"    -> iPktShortAddr(pkt, s)
    [] handler = "iPktLongAddr"     -> iPktLongAddr(pkt, s)
    [] handler = "iPktQ"            -> iPktQ(pkt, s)
    [] handler = "iAtom"            -> iAtom(pkt, s)
    [] handler = "iPktNoPayload"    -> iPktNoPayload(pkt, s)
    [] handler = "iPktReserved"     -> updateErr(pkt, "Reserved")
    [] handler = "iPktInvalidCfg"   -> updateErr(pkt, "ReservedCfg")
    [] OTHER                        -> updateErr(pkt, "BadTraceMode")

----------------------------------------------------------------------------
(* The loop of processData                                                 *)

Init ==
  /\ session \in Sessions /\ avail = 0 /\ pos = 0 /\ pc = "idle"
  /\ closed = FALSE /\ resets = 0 /\ errs = 0
  /\ ps = "ProcHdr" /\ handler = "iNotSync" /\ raw = <<>> /\ pkt = InitStartState
  /\ packetIndex = 0 /\ isSync = FALSE /\ firstTraceInfo = FALSE /\ sentNotSync = FALSE /\ upd = 0
  /\ dump = 0 /\ handed = <<>> /\ shown = <<>>

\* The caller goes on behind the bytes it was told are consumed, after an error too.
Write(k) ==
  /\ pc = "idle" /\ ~closed /\ pos < Len(src)
  /\ avail' = Min({pos + k, Len(src)}) /\ pc' = "loop"
  /\ UNCHANGED <<callVars, pos, ps, handler, raw, pkt, packetIndex, syncVars, firstTraceInfo,
                 dump, upd, outVars>>

More == pc = "loop" /\ pos < avail

ProcHdr ==
  /\ More /\ ps = "ProcHdr"
  /\ packetIndex' = pos /\ ps' = "ProcData"
  /\ IF isSync
     THEN handler' = Table(src[pos + 1]).handler /\ pkt' = [pkt EXCEPT !.type = Table(src[pos + 1]).type]
     ELSE handler' = "iNotSync" /\ pkt' = [pkt EXCEPT !.type = "NotSync"]
  /\ UNCHANGED <<callVars, avail, pos, pc, raw, syncVars, firstTraceInfo, dump, upd, outVars>>

\* The byte a handler is called with, and what all handlers leave alone.
Byte == src[pos + 1]
Read ==
  /\ More /\ ps = "ProcData"
  /\ pos' = pos + 1 /\ raw' = Append(raw, Byte)
  /\ UNCHANGED <<callVars, avail, pc, sentNotSync, outVars>>

\* Mutant: unsynced bytes are never shown before a zero.
DumpNever == FALSE

DumpDue == Len(raw) + 1 >= 8

\* Outside of a sync a zero may be the start of one; what came before it is shown.
iNotSync ==
  /\ handler = "iNotSync" /\ Read
  /\ \/ /\ Byte = 0 /\ raw # <<>>
        /\ dump' = Len(raw) /\ ps' = "SendUnsynced" /\ upd' = pos
        /\ handler' = "iPktExtension" /\ UNCHANGED packetIndex
     \/ /\ Byte = 0 /\ raw = <<>>
        /\ packetIndex' = pos /\ handler' = "iPktExtension" /\ UNCHANGED <<dump, ps, upd>>
     \/ /\ Byte # 0 /\ DumpDue
        /\ dump' = Len(raw) + 1 /\ ps' = "SendUnsynced" /\ upd' = pos + 1
        /\ UNCHANGED <<handler, packetIndex>>
     \/ /\ Byte # 0 /\ ~DumpDue
        /\ UNCHANGED <<dump, ps, upd, handler, packetIndex>>
  /\ UNCHANGED <<pkt, isSync, firstTraceInfo>>

ExtensionType(b) ==
  CASE b = 0 -> "ASync" [] b = 3 -> "Discard" [] b = 5 -> "Overflow" [] OTHER -> "BadSequence"

iPktExtension ==
  /\ handler = "iPktExtension" /\ Read
  /\ \/ /\ raw = <<>>
        /\ UNCHANGED <<pkt, handler, ps>>
     \/ /\ raw # <<>> /\ ~isSync /\ Byte # 0
        /\ pkt' = [pkt EXCEPT !.type = "NotSync"] /\ handler' = "iNotSync" /\ UNCHANGED ps
     \/ /\ raw # <<>> /\ (isSync \/ Byte = 0)
        /\ pkt' = [pkt EXCEPT !.type = ExtensionType(Byte)]
        /\ IF Byte = 0 THEN handler' = "iPktASync" /\ UNCHANGED ps
                       ELSE ps' = "SendPkt" /\ UNCHANGED handler
  /\ UNCHANGED <<packetIndex, isSync, firstTraceInfo, dump, upd>>

\* Eleven zeros and 0x80; outside of a sync there may be more zeros, which are shown
\* one by one.
iPktASync ==
  LET n == Len(raw) + 1
  IN  /\ handler = "iPktASync" /\ Read
      /\ \/ /\ Byte # 0 /\ ~isSync /\ n # 12
            /\ pkt' = [pkt EXCEPT !.type = "NotSync"] /\ handler' = "iNotSync"
            /\ UNCHANGED <<ps, isSync, dump>>
         \/ /\ n = 12 /\ Byte = 128
            /\ ps' = "SendPkt" /\ isSync' = TRUE /\ UNCHANGED <<pkt, handler, dump>>
         \/ /\ \/ Byte # 0 /\ (isSync \/ n = 12) /\ ~(n = 12 /\ Byte = 128)
               \/ Byte = 0 /\ n = 12 /\ isSync
            /\ ps' = "SendPkt" /\ pkt' = updateErr(pkt, "BadSequence")
            /\ UNCHANGED <<handler, isSync, dump>>
         \/ /\ Byte = 0 /\ n = 12 /\ ~isSync
            /\ dump' = 1 /\ ps' = "SendUnsynced" /\ UNCHANGED <<pkt, handler, isSync>>
         \/ /\ Byte = 0 /\ n # 12
            /\ UNCHANGED <<pkt, handler, ps, isSync, dump>>
      /\ UNCHANGED <<packetIndex, firstTraceInfo, upd>>

\* Every other handler.
Payload ==
  LET s == Append(raw, Byte)
  IN  /\ handler \notin {"iNotSync", "iPktExtension", "iPktASync"} /\ Read
      /\ \/ Complete(s) /\ ps' = "SendPkt" /\ pkt' = PacketOf(s)
            /\ firstTraceInfo' = (firstTraceInfo \/ handler = "iPktTraceInfo")
         \/ ~Complete(s) /\ UNCHANGED <<ps, pkt, firstTraceInfo>>
      /\ UNCHANGED <<handler, packetIndex, isSync, dump, upd>>

Handed(p) == [pkt |-> p, synced |-> isSync]

\* EmitPacket, with what the decoder made of the packet.
Show(bytes, ok) ==
  shown' = IF bytes = <<>> THEN shown
           ELSE Append(shown, [index |-> packetIndex, type |-> pkt.type, raw |-> bytes, ok |-> ok])

\* Mutant: the packet is given up when the decoder returns an error.
GiveUp == ps' = "ProcHdr" /\ raw' = <<>> /\ pkt' = InitNextPacket(pkt) /\ upd' = 0

StaysToSend == UNCHANGED <<ps, raw, pkt, upd>>

\* outputPacket; an error of the decoder ends the call, and the packet stays to be sent.
SendPkt ==
  /\ pc = "loop" /\ ps = "SendPkt"
  /\ \/ /\ Show(raw, TRUE) /\ handed' = Append(handed, Handed(pkt))
        /\ ps' = "ProcHdr" /\ raw' = <<>> /\ pkt' = InitNextPacket(pkt) /\ upd' = 0
        /\ UNCHANGED <<pc, errs>>
     \/ /\ errs < MaxErrors
        /\ errs' = errs + 1 /\ Show(raw, FALSE) /\ StaysToSend
        /\ pc' = "idle" /\ UNCHANGED handed
  /\ UNCHANGED <<callVars, avail, pos, handler, packetIndex, syncVars, firstTraceInfo, dump>>

\* Mutant: what stays of the bytes starts one too late.
RawBehindLate(n) == From(raw, n + 2)

RawBehind(n) == From(raw, n + 1)

\* outputUnsyncedRawPacket; the decoder is given the first of these packets, and its
\* answer is not looked at.
SendUnsynced ==
  LET n == Min({dump, Len(raw)})
  IN  /\ More /\ ps = "SendUnsynced"
      /\ Show(SubSeq(raw, 1, n), TRUE) /\ raw' = RawBehind(n)
      /\ sentNotSync' = (sentNotSync \/ n > 0)
      /\ handed' = (IF n > 0 /\ ~sentNotSync THEN Append(handed, Handed(pkt)) ELSE handed)
      /\ packetIndex' = (IF upd # 0 THEN upd ELSE packetIndex) /\ upd' = 0
      /\ ps' = "ProcData"
      /\ UNCHANGED <<callVars, avail, pos, pc, handler, pkt, isSync, firstTraceInfo, dump, errs>>

Return ==
  /\ pc = "loop" /\ pos = avail /\ ps # "SendPkt"
  /\ pc' = "idle"
  /\ UNCHANGED <<callVars, avail, pos, ps, handler, raw, pkt, packetIndex, syncVars,
                 firstTraceInfo, dump, upd, outVars>>

\* Close shows what there is of an unfinished packet.
Close ==
  /\ pc = "idle" /\ ~closed
  /\ closed' = TRUE
  /\ IF raw = <<>> THEN UNCHANGED <<pkt, handed, shown>>
     ELSE LET p == updateErr(pkt, "IncompleteEOT")
          IN  /\ pkt' = p /\ handed' = Append(handed, Handed(p))
              /\ shown' = Append(shown, [index |-> packetIndex, type |-> p.type, raw |-> raw, ok |-> TRUE])
  /\ UNCHANGED <<session, resets, errs, avail, pos, pc, ps, handler, raw, packetIndex, syncVars,
                 firstTraceInfo, dump, upd>>

\* Reset, at any time; the caller then decodes the session again.
Reset ==
  /\ pc = "idle" /\ resets < MaxResets
  /\ resets' = resets + 1 /\ closed' = FALSE
  /\ ps' = "ProcHdr" /\ handler' = "iNotSync" /\ raw' = <<>> /\ pkt' = InitStartState
  /\ packetIndex' = 0 /\ isSync' = FALSE /\ firstTraceInfo' = FALSE /\ sentNotSync' = FALSE /\ upd' = 0
  /\ avail' = 0 /\ pos' = 0 /\ handed' = <<>> /\ shown' = <<>> /\ errs' = 0
  /\ UNCHANGED <<session, pc, dump>>

Step == \/ ProcHdr \/ iNotSync \/ iPktExtension \/ iPktASync \/ Payload
        \/ SendPkt \/ SendUnsynced \/ Return

Next == Step \/ (\E k \in session.blocks : Write(k)) \/ Close \/ Reset

Spec == Init /\ [][Next]_vars
=============================================================================
