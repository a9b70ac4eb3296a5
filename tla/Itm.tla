-------------------------------- MODULE Itm --------------------------------
(***************************************************************************)
(* The ITM decoder (itm_parser.go, itm_decoder.go): software trace bytes,  *)
(* handed over in blocks of any size, become packets, and packets become   *)
(* elements.                                                               *)
(*                                                                         *)
(* One call of Write is a run of steps under pc: one step for every turn   *)
(* of processData's loop, and inside the sync search one for every turn of *)
(* waitASync's loop.  scratch holds the bytes that were read; stale is     *)
(* what the reader shows in their place after a discard from a scratch     *)
(* that has outgrown its array (see ByteReader).  Numbers of 40 bits and   *)
(* more are not truncated.                                                 *)
(***************************************************************************)
EXTENDS Integers, Sequences, SequencesExt, FiniteSetsExt

CONSTANTS
  Streams,       \* the byte sequences a caller may feed in its first session
  NextStreams,   \* and after a Reset
  ChunkSizes,    \* how many bytes one call of Write may bring
  Inline,        \* the size of the reader's array, 64 in the code
  Prescale,      \* TSPrescaleValue of the configuration
  MaxResets      \* bound on the calls of Reset

ASSUME StreamsAssumption == Streams \cup NextStreams \subseteq Seq(0..255)
ASSUME ChunkAssumption == ChunkSizes \subseteq Nat \ {0}
ASSUME InlineAssumption == Inline \in Nat /\ Inline >= 8
ASSUME PrescaleAssumption == Prescale \in {1, 4, 16, 64}
ASSUME ResetsAssumption == MaxResets \in Nat

VARIABLES
  src, avail, pos,       \* the session's bytes; handed over, and read, so far
  resets, closed,        \* calls of Reset; Close was called
  pc,                    \* "idle", "loop" (processData) or "sync" (waitASync)
  ps,                    \* processState
  scratch,               \* the bytes of the packet so far
  stale,                 \* <<>>, or the memory the reader shows instead of them
  pkt, pktIndex, headerByte, bytesExpected,
  bStreamSync, sentNotSync, syncStart, dump,
  dec,                   \* the state of the decoder
  obs, elems             \* history: packets shown to the observer, elements

inputVars == <<src, avail, resets, closed>>
syncVars  == <<bStreamSync, sentNotSync, syncStart, dump>>
pktVars   == <<scratch, stale, pkt, pktIndex, headerByte, bytesExpected>>
outVars   == <<dec, obs, elems>>
vars == <<inputVars, pos, pc, ps, pktVars, syncVars, outVars>>

Bit(b, n) == (b \div 2^n) % 2

\* itmPacket.Clear
Cleared == [type |-> "Reserved", srcID |-> 0, value |-> 0, valSz |-> 0]

----------------------------------------------------------------------------
(* The decoder                                                             *)

\* Mutant: the stimulus page outlives a loss of sync.
resetDecoderKeepsPage(d) ==
  [d EXCEPT !.state = "NoSync", !.localTS = 0, !.globalTS = [hi |-> 0, lo |-> 0],
            !.needGTS2 = TRUE, !.prevOverflow = FALSE, !.freqChange = FALSE]

resetDecoder(d) ==
  [d EXCEPT !.state = "NoSync", !.localTS = 0, !.globalTS = [hi |-> 0, lo |-> 0],
            !.stimPage = 0, !.needGTS2 = TRUE, !.prevOverflow = FALSE,
            !.freqChange = FALSE]

NewDecoder(reason) ==
  resetDecoder([state |-> "NoSync", localTS |-> 0, globalTS |-> [hi |-> 0, lo |-> 0],
                stimPage |-> 0, needGTS2 |-> TRUE, prevOverflow |-> FALSE,
                freqChange |-> FALSE, unsync |-> reason, index |-> 0])

NoSyncElem(d) == [kind |-> "NoSync", index |-> d.index, reason |-> d.unsync]
EOTElem(d)    == [kind |-> "EOTrace", index |-> d.index]

NoTS == [hi |-> 0, lo |-> 0]

ITMElem(d, type, size, value, srcID, ts, freq) ==
  [kind |-> "ITM", index |-> d.index, type |-> type, size |-> size, value |-> value,
   src |-> srcID, ts |-> ts, freq |-> freq, overflow |-> d.prevOverflow]

\* What a packet comes to: the decoder's next state, the elements emitted, and
\* whether decodePacket returns errBadPacketSeq.
Quiet(d)    == [dec |-> d, out |-> <<>>, bad |-> FALSE]
Sent(d, e)  == [dec |-> [d EXCEPT !.prevOverflow = FALSE], out |-> <<e>>, bad |-> FALSE]

\* Mutant: the decoder stays in step after a bad packet.
BadPacketStays(d) == [dec |-> [d EXCEPT !.unsync = "BadPacket"], out |-> <<>>, bad |-> TRUE]

BadPacket(d) == [dec |-> resetDecoder([d EXCEPT !.unsync = "BadPacket"]),
                 out |-> <<>>, bad |-> TRUE]

DecodeData(d, p) ==
  IF p.type = "DWT"
  THEN Sent(d, ITMElem(d, "DWTPayload", p.valSz, p.value, p.srcID, NoTS, FALSE))
  ELSE Sent(d, ITMElem(d, "SWITPayload", p.valSz, p.value,
                       (p.srcID % 32) + 32 * (d.stimPage % 8), NoTS, FALSE))

DecodeExtension(d, p) ==
  Quiet(IF p.srcID < 128 /\ p.srcID % 32 = 2
        THEN [d EXCEPT !.stimPage = p.value % 256] ELSE d)

DecodeOverflow(d) == Quiet([d EXCEPT !.localTS = 0, !.prevOverflow = TRUE])

LocalTSType(srcID) ==
  <<"TSSync", "TSDelay", "TSPKTDelay", "TSPKTTSDelay">>[(srcID % 4) + 1]

DecodeTSLocal(d, p) ==
  LET t == d.localTS + p.value * Prescale
      e == [d EXCEPT !.localTS = t]
  IN  Sent(e, ITMElem(e, LocalTSType(p.srcID), p.valSz, p.value, 0,
                      [hi |-> 0, lo |-> t], FALSE))

GlobalTSElem(d) == ITMElem(d, "TSGlobal", 0, 0, 0, d.globalTS, d.freqChange)

\* Bits of the low part (26 bits) that a payload of so many bytes replaces.
LowBits(valSz) == <<7, 14, 21, 26>>[Min({valSz, 4})]

DecodeTSGlobal1(d, p) ==
  LET low == d.globalTS.lo
      e == [d EXCEPT !.needGTS2   = @ \/ Bit(p.srcID, 1) = 1,
                     !.freqChange = @ \/ Bit(p.srcID, 0) = 1,
                     !.globalTS.lo = low - (low % 2^LowBits(p.valSz)) + p.value]
  IN  IF e.needGTS2 THEN Quiet(e) ELSE Sent([e EXCEPT !.freqChange = FALSE], GlobalTSElem(e))

DecodeTSGlobal2(d, p) ==
  LET e == [d EXCEPT !.globalTS.hi = p.value, !.needGTS2 = FALSE]
  IN  Sent([e EXCEPT !.freqChange = FALSE], GlobalTSElem(e))

decodePacket(d, p) ==
  CASE p.type \in {"BadSequence", "Reserved"}  -> BadPacket(d)
    [] p.type = "NotSync"                      -> Quiet(resetDecoder(d))
    [] p.type \in {"Async", "IncompleteEOT"}   -> Quiet(d)
    [] p.type \in {"DWT", "SWIT"}              -> DecodeData(d, p)
    [] p.type = "Extension"                    -> DecodeExtension(d, p)
    [] p.type = "Overflow"                     -> DecodeOverflow(d)
    [] p.type = "TSGlobal1"                    -> DecodeTSGlobal1(d, p)
    [] p.type = "TSGlobal2"                    -> DecodeTSGlobal2(d, p)
    [] p.type = "TSLocal"                      -> DecodeTSLocal(d, p)

\* Mutant: any packet will do to get back into step.
processPacketAny(d0, p, index) ==
  LET d    == [d0 EXCEPT !.index = index]
      lost == IF d.state = "NoSync" THEN <<NoSyncElem(d)>> ELSE <<>>
  IN  IF d.state = "Pkts"
      THEN decodePacket(d, p)
      ELSE [dec |-> [d EXCEPT !.state = "Pkts"], out |-> lost, bad |-> FALSE]

\* processPacket: without sync a NoSync element goes out, once; then packets are
\* ignored up to the next Async.
processPacket(d0, p, index) ==
  LET d    == [d0 EXCEPT !.index = index]
      lost == IF d.state = "NoSync" THEN <<NoSyncElem(d)>> ELSE <<>>
  IN  IF d.state = "Pkts"
      THEN decodePacket(d, p)
      ELSE [dec |-> [d EXCEPT !.state = IF p.type = "Async" THEN "Pkts" ELSE "WaitSync"],
            out |-> lost, bad |-> FALSE]

\* EmitPacket: the observer sees a packet that has bytes.
Seen(index, type, raw) ==
  IF raw = <<>> THEN <<>> ELSE <<[index |-> index, type |-> type, raw |-> raw]>>

----------------------------------------------------------------------------
(* The parser                                                              *)

Init ==
  /\ src \in Streams /\ avail = 0 /\ pos = 0 /\ resets = 0 /\ closed = FALSE
  /\ pc = "idle" /\ ps = "WaitSync"
  /\ scratch = <<>> /\ stale = <<>> /\ pkt = Cleared
  /\ pktIndex = 0 /\ headerByte = 0 /\ bytesExpected = 0
  /\ bStreamSync = FALSE /\ sentNotSync = FALSE /\ syncStart = FALSE /\ dump = 0
  /\ dec = NewDecoder("InitDecoder") /\ obs = <<>> /\ elems = <<>>

\* The bytes of the block that are not read yet.
Rest == SubSeq(src, pos + 1, avail)

Read(n) ==
  /\ pos' = pos + n /\ scratch' = scratch \o SubSeq(Rest, 1, n)
  /\ UNCHANGED stale

\* Scratch() of the bytes s: stale memory as long as they fit the array.
Memory(s)  == IF stale # <<>> /\ Len(s) <= Inline THEN stale ELSE s
Scratch(s) == SubSeq(Memory(s), 1, Len(s))

canProcessWithoutMoreBytes ==
  \/ pkt.type \in {"TSLocal", "Extension"} /\ headerByte < 128
  \/ pkt.type \in {"SWIT", "DWT"} /\ Len(scratch) - 1 >= bytesExpected

LoopGoesOn ==
  \/ Rest # <<>>
  \/ ps = "SendPkt"
  \/ ps = "ProcData" /\ canProcessWithoutMoreBytes

Turn(state) == pc = "loop" /\ LoopGoesOn /\ ps = state

Write(n) ==
  /\ pc = "idle" /\ ~closed /\ avail + n <= Len(src)
  /\ avail' = avail + n /\ pc' = "loop"
  /\ UNCHANGED <<src, resets, closed, pos, ps, pktVars, syncVars, outVars>>

Return ==
  /\ pc = "loop" /\ ~LoopGoesOn
  /\ pc' = "idle"
  /\ UNCHANGED <<inputVars, pos, ps, pktVars, syncVars, outVars>>

WaitASync ==
  /\ Turn("WaitSync")
  /\ pc' = "sync"
  /\ pkt' = [pkt EXCEPT !.type = "NotSync"] /\ dump' = 0
  /\ pktIndex' = IF syncStart THEN pktIndex ELSE pos
  /\ UNCHANGED <<inputVars, pos, ps, scratch, stale, headerByte, bytesExpected,
                 bStreamSync, sentNotSync, syncStart, outVars>>

\* readAsyncSeq reads on to the first byte that is not zero: with five zeros or
\* more in front of it, it may be the end of an Async.
NonZeros    == {n \in 1..Len(Rest) : Rest[n] # 0}
AsyncLen    == Min(NonZeros)
AsyncAt(n)  == Rest[n] = 128 /\ Len(scratch) + n - 1 >= 5

Searching == pc = "sync" /\ Rest # <<>> /\ ~bStreamSync

AsyncFound ==
  /\ Searching /\ syncStart /\ NonZeros # {} /\ AsyncAt(AsyncLen)
  /\ Read(AsyncLen)
  /\ bStreamSync' = TRUE /\ pkt' = [pkt EXCEPT !.type = "Async"]
  /\ ps' = "SendPkt" /\ pc' = "loop"
  /\ UNCHANGED <<inputVars, pktIndex, headerByte, bytesExpected,
                 sentNotSync, syncStart, dump, outVars>>

AsyncBroken ==
  /\ Searching /\ syncStart /\ NonZeros # {} /\ ~AsyncAt(AsyncLen)
  /\ Read(AsyncLen)
  /\ dump' = Len(scratch') /\ syncStart' = FALSE
  /\ UNCHANGED <<inputVars, pc, ps, pkt, pktIndex, headerByte, bytesExpected,
                 bStreamSync, sentNotSync, outVars>>

AsyncGoesOn ==
  /\ Searching /\ syncStart /\ NonZeros = {}
  /\ Read(Len(Rest))
  /\ UNCHANGED <<inputVars, pc, ps, pkt, pktIndex, headerByte, bytesExpected,
                 syncVars, outVars>>

\* Mutant: the whole scratch is thrown away.
KeptNone(s, n) == <<>>

Kept(s, n) == SubSeq(s, n + 1, Len(s))

\* DiscardScratchPrefix(n): what a spilled scratch leaves stays in the slice,
\* and the bytes that are read from now on go to the array.  A flush leaves one
\* byte at most, a zero, and the array starts with a zero as well.
StaleAfter(s, n) ==
  IF n = 0 THEN stale
  ELSE IF n < Len(s) /\ (stale # <<>> \/ Len(s) > Inline)
  THEN [k \in 1..Inline |-> Memory(s)[IF k <= Len(s) - n THEN k + n ELSE k]]
  ELSE <<>>

\* flushUnsyncedBytes with n bytes of the scratch s to report: only the first
\* NotSync packet of a session reaches the decoder.
Flush(s, n) ==
  LET r == processPacket(dec, [pkt EXCEPT !.type = "NotSync"], pktIndex)
      first == n > 0 /\ ~sentNotSync
  IN  /\ obs' = obs \o Seen(pktIndex, "NotSync", SubSeq(Scratch(s), 1, n))
      /\ dec' = IF first THEN r.dec ELSE dec
      /\ elems' = IF first THEN elems \o r.out ELSE elems
      /\ sentNotSync' = (sentNotSync \/ n > 0)
      /\ scratch' = Kept(s, n) /\ stale' = StaleAfter(s, n)
      /\ dump' = 0

\* Mutants: the index is that of the byte before, or is not brought up to date.
ZeroIndexEarly == pos - 1
ZeroIndexStale == pktIndex

\* The Async that is hoped for starts at this zero.
ZeroIndex == pos

UnsyncedZero ==
  /\ Searching /\ ~syncStart /\ Rest[1] = 0
  /\ pos' = pos + 1 /\ Flush(Append(scratch, 0), dump)
  /\ syncStart' = TRUE /\ pktIndex' = ZeroIndex
  /\ UNCHANGED <<inputVars, pc, ps, pkt, headerByte, bytesExpected, bStreamSync>>

UnsyncedByte ==
  /\ Searching /\ ~syncStart /\ Rest[1] # 0
  /\ \/ dump + 1 < 8 /\ Read(1) /\ dump' = dump + 1 /\ UNCHANGED <<sentNotSync, outVars>>
     \/ dump + 1 >= 8 /\ pos' = pos + 1 /\ Flush(Append(scratch, Rest[1]), dump + 1)
  /\ UNCHANGED <<inputVars, pc, ps, pkt, pktIndex, headerByte, bytesExpected,
                 bStreamSync, syncStart>>

SearchEnds ==
  /\ pc = "sync" /\ Rest = <<>>
  /\ pc' = "loop"
  /\ IF syncStart THEN UNCHANGED <<scratch, stale, sentNotSync, dump, outVars>>
     ELSE Flush(scratch, dump)
  /\ UNCHANGED <<inputVars, pos, ps, pkt, pktIndex, headerByte, bytesExpected,
                 bStreamSync, syncStart>>

\* decodeHeaderByte: type, source, number of bytes to come, and the next state.
Header(b) ==
  LET h(type, srcID, n, next) == [type |-> type, srcID |-> srcID, n |-> n, next |-> next]
  IN  CASE b % 4 # 0  -> h(IF Bit(b, 2) = 1 THEN "DWT" ELSE "SWIT", b \div 8,
                           <<1, 2, 4>>[b % 4], "ProcData")
        [] b = 0      -> h("Async", 0, 0, "ProcData")
        [] b = 112    -> h("Overflow", 0, 0, "SendPkt")
        [] b % 16 = 0 /\ b \notin {0, 112} -> h("TSLocal", 0, 0, "ProcData")
        [] b % 4 = 0 /\ Bit(b, 3) = 1      -> h("Extension", 0, 0, "ProcData")
        [] b = 148    -> h("TSGlobal1", 0, 0, "ProcData")
        [] b = 180    -> h("TSGlobal2", 0, 0, "ProcData")
        [] OTHER      -> h("Reserved", 0, 0, "ProcErr")

ProcHdr ==
  /\ Turn("ProcHdr")
  /\ Read(1) /\ pktIndex' = pos /\ headerByte' = Rest[1]
  /\ LET h == Header(Rest[1])
     IN  /\ pkt' = [pkt EXCEPT !.type = h.type, !.srcID = h.srcID]
         /\ bytesExpected' = IF h.n > 0 THEN h.n ELSE bytesExpected
         /\ ps' = h.next
  /\ UNCHANGED <<inputVars, pc, syncVars, outVars>>

\* throwMalformedPacketErr, and what the loop makes of the error.
Malformed ==
  /\ pkt' = [pkt EXCEPT !.type = "BadSequence"]
  /\ ps' = "SendPkt" /\ bStreamSync' = FALSE
  /\ UNCHANGED <<sentNotSync, syncStart, dump>>

\* SetValue; a value of four bytes needs no mask.
Complete(p) == pkt' = p /\ ps' = "SendPkt" /\ UNCHANGED syncVars
Valued(p, srcID, val, size) ==
  LET sz == IF size \in 1..4 THEN size ELSE 4
  IN  [p EXCEPT !.srcID = srcID, !.valSz = sz,
                !.value = IF sz = 4 THEN val ELSE val % 256^sz]

Unfinished == UNCHANGED <<pkt, ps, syncVars>>

pktAsync ==
  /\ Turn("ProcData") /\ pkt.type = "Async"
  /\ \/ NonZeros = {} /\ Read(Len(Rest)) /\ Unfinished
     \/ NonZeros # {} /\ AsyncAt(AsyncLen) /\ Read(AsyncLen) /\ Complete(pkt)
     \/ NonZeros # {} /\ ~AsyncAt(AsyncLen) /\ Read(AsyncLen) /\ Malformed
  /\ UNCHANGED <<inputVars, pc, pktIndex, headerByte, bytesExpected, outVars>>

\* The number whose digits are the bytes, the least significant one first.
LittleEndian(bytes, base) ==
  LET lastOnes[n \in 0..Len(bytes)] ==
        IF n = 0 THEN 0 ELSE (bytes[Len(bytes) + 1 - n] % base) + base * lastOnes[n - 1]
  IN  lastOnes[Len(bytes)]

pktData ==
  /\ Turn("ProcData") /\ pkt.type \in {"SWIT", "DWT"}
  /\ LET need == bytesExpected + 1 - Len(scratch)
     IN  \/ need > Len(Rest) /\ Read(Len(Rest)) /\ Unfinished
         \/ /\ need <= Len(Rest) /\ Read(need)
            /\ Complete(Valued(pkt, pkt.srcID, LittleEndian(Tail(scratch'), 256), bytesExpected))
  /\ UNCHANGED <<inputVars, pc, pktIndex, headerByte, bytesExpected, outVars>>

\* readContBytes: to the first byte without the continuation bit, or the limit.
ContStops(limit) ==
  {n \in 1..Len(Rest) : Rest[n] < 128 \/ Len(scratch) + n = limit}

ContField(s) == LittleEndian(Tail(s), 128)

\* A packet with a payload of 7 bits a byte: Finish gives the packet of the
\* whole scratch.
ContPacket(limit, Finish(_)) ==
  \/ ContStops(limit) = {} /\ Read(Len(Rest)) /\ Unfinished
  \/ /\ ContStops(limit) # {}
     /\ LET n == Min(ContStops(limit))
            s == scratch \o SubSeq(Rest, 1, n)
        IN  /\ pos' = pos + n
            /\ UNCHANGED stale
            /\ \/ Last(s) >= 128 /\ scratch' = s /\ Malformed
               \/ Last(s) < 128 /\ Finish(s)

pktLocalTS ==
  /\ Turn("ProcData") /\ pkt.type = "TSLocal"
  /\ \/ /\ headerByte < 128
        /\ Complete(Valued(pkt, 0, headerByte \div 16, 1)) /\ UNCHANGED <<pos, scratch, stale>>
     \/ /\ headerByte >= 128
        /\ ContPacket(5, LAMBDA s :
             /\ Complete(Valued(pkt, (headerByte \div 16) % 4, ContField(s), Len(s) - 1))
             /\ scratch' = s)
  /\ UNCHANGED <<inputVars, pc, pktIndex, headerByte, bytesExpected, outVars>>

\* The last of four payload bytes has the wrap and clock change bits, which are
\* cut off in the scratch itself.
GTS1Packet(s) ==
  LET long == Len(s) = 5
      t    == IF long THEN [s EXCEPT ![5] = @ % 32] ELSE s
  IN  /\ Complete(Valued(pkt, IF long THEN s[5] \div 32 ELSE pkt.srcID, ContField(t), Len(s) - 1))
      /\ scratch' = t

pktGlobalTS1 ==
  /\ Turn("ProcData") /\ pkt.type = "TSGlobal1"
  /\ ContPacket(5, GTS1Packet)
  /\ UNCHANGED <<inputVars, pc, pktIndex, headerByte, bytesExpected, outVars>>

pktGlobalTS2 ==
  /\ Turn("ProcData") /\ pkt.type = "TSGlobal2"
  /\ ContPacket(7, LAMBDA s :
       /\ Complete(IF Len(s) <= 5
                   THEN Valued(pkt, pkt.srcID, ContField(s), Len(s) - 1)
                   ELSE [pkt EXCEPT !.value = ContField(s), !.valSz = 5])
       /\ scratch' = s)
  /\ UNCHANGED <<inputVars, pc, pktIndex, headerByte, bytesExpected, outVars>>

pktExtension ==
  /\ Turn("ProcData") /\ pkt.type = "Extension"
  /\ LET hw  == 128 * Bit(headerByte, 2)
         low == (headerByte \div 16) % 8
     IN  \/ /\ headerByte < 128
            /\ Complete(Valued(pkt, 2 + hw, low, 4)) /\ UNCHANGED <<pos, scratch, stale>>
         \/ /\ headerByte >= 128
            /\ ContPacket(5, LAMBDA s :
                 /\ Complete(Valued(pkt, <<2, 9, 16, 23, 31>>[Len(s)] + hw,
                                    8 * ContField(s) + low, 4))
                 /\ scratch' = s)
  /\ UNCHANGED <<inputVars, pc, pktIndex, headerByte, bytesExpected, outVars>>

\* A reserved header is thrown only when more bytes follow it.
ProcErr ==
  /\ Turn("ProcErr")
  /\ ps' = "SendPkt" /\ bStreamSync' = FALSE
  /\ UNCHANGED <<inputVars, pos, pc, pktVars, sentNotSync, syncStart, dump, outVars>>

\* outputPacket and the reset behind it.  The decoder's refusal of a packet sends
\* the parser round once more, with an empty packet that makes it say NoSync.
SendPkt ==
  /\ Turn("SendPkt")
  /\ LET r == processPacket(dec, pkt, pktIndex)
     IN  /\ dec' = r.dec /\ elems' = elems \o r.out
         /\ bStreamSync' = (bStreamSync /\ ~r.bad)
         /\ ps' = IF r.bad THEN "SendPkt" ELSE IF bStreamSync THEN "ProcHdr" ELSE "WaitSync"
  /\ obs' = obs \o Seen(pktIndex, pkt.type, Scratch(scratch))
  /\ scratch' = <<>> /\ stale' = <<>> /\ pkt' = Cleared /\ bytesExpected' = 0
  /\ UNCHANGED <<inputVars, pos, pc, pktIndex, headerByte, sentNotSync, syncStart, dump>>

Closing(r) == Append(r.out, EOTElem(r.dec))

\* An unfinished packet is reported as it is, then the end of the trace.
Close ==
  /\ pc = "idle" /\ ~closed
  /\ closed' = TRUE
  /\ LET last == [pkt EXCEPT !.type = "IncompleteEOT"]
         r == IF scratch = <<>> THEN Quiet(dec) ELSE processPacket(dec, last, pktIndex)
     IN  /\ pkt' = IF scratch = <<>> THEN pkt ELSE last
         /\ dec' = r.dec /\ elems' = elems \o Closing(r)
  /\ obs' = obs \o Seen(pktIndex, "IncompleteEOT", Scratch(scratch))
  /\ scratch' = <<>> /\ stale' = <<>>
  /\ UNCHANGED <<src, avail, resets, pos, pc, ps, pktIndex, headerByte, bytesExpected,
                 syncVars>>

\* Reset; the histories start again with the session.
Reset(s) ==
  /\ pc = "idle" /\ resets < MaxResets
  /\ src' = s /\ avail' = 0 /\ pos' = 0 /\ resets' = resets + 1 /\ closed' = FALSE
  /\ ps' = "WaitSync" /\ bStreamSync' = FALSE /\ sentNotSync' = FALSE
  /\ syncStart' = FALSE /\ dump' = 0
  /\ scratch' = <<>> /\ stale' = <<>> /\ pkt' = Cleared /\ bytesExpected' = 0
  /\ dec' = resetDecoder([dec EXCEPT !.unsync = "ResetDecoder"])
  /\ obs' = <<>> /\ elems' = <<>>
  /\ UNCHANGED <<pc, pktIndex, headerByte>>

Step ==
  \/ Return \/ WaitASync \/ AsyncFound \/ AsyncBroken \/ AsyncGoesOn
  \/ UnsyncedZero \/ UnsyncedByte \/ SearchEnds
  \/ ProcHdr \/ pktAsync \/ pktData \/ pktLocalTS \/ pktGlobalTS1 \/ pktGlobalTS2
  \/ pktExtension \/ ProcErr \/ SendPkt

Next ==
  \/ \E n \in ChunkSizes : Write(n)
  \/ Close \/ Step
  \/ \E s \in NextStreams : Reset(s)

Spec     == Init /\ [][Next]_vars
FairSpec == Spec /\ WF_vars(Step)
============================================================================
