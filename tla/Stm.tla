-------------------------------- MODULE Stm --------------------------------
(***************************************************************************)
(* The STM decoder (stm_parser.go, stm_parser_packets.go, stm_decoder.go): *)
(* STPv2 packets are runs of nibbles, the low one of a byte first, handed  *)
(* over in blocks of bytes.                                                *)
(*                                                                         *)
(* The stream is a sequence of nibbles.  pos counts the ones read, so      *)
(* nibbleSecondValid is "pos is odd" and the offset in the trace is the    *)
(* half of pos, rounded up.  Inside a call of Write there is one step for  *)
(* every nibble and for every packet sent.  Values are nibble sequences,   *)
(* the most significant first.                                             *)
(***************************************************************************)
EXTENDS Integers, Sequences, SequencesExt, FiniteSetsExt, TLC

CONSTANTS
  Streams,       \* the nibbles a caller may feed in its first session
  NextStreams,   \* and after a Reset
  ChunkSizes(_), \* how many bytes one call of Write may bring, by length of the stream
  MaxResets,     \* bound on the calls of Reset
  MaxFaults      \* bound on the errors that a caller carries on behind

Nibbles == 0..15

ASSUME StreamsAssumption ==
  \A s \in Streams \cup NextStreams : s \in Seq(Nibbles) /\ Len(s) % 2 = 0
ASSUME ChunkAssumption ==
  \A s \in Streams \cup NextStreams : ChunkSizes(Len(s)) \subseteq Nat \ {0}
ASSUME BoundsAssumption == MaxResets \in Nat /\ MaxFaults \in Nat

VARIABLES
  src, avail, pos,       \* the session's nibbles; bytes handed over; nibbles read
  resets, closed, stale, \* calls of Reset; Close was called; sync state left by a Reset
  pc,                    \* "idle", "loop" (processData) or "sync" (waitForSync)
  ps,                    \* processState
  fn, size,              \* currFn, and the nibbles of its packet without a time
  pkt, pktIndex, raw,    \* currPacket, packetIdx and packetData
  numNibbles, val,       \* nibbles of the packet so far, and of its value
  time,                  \* the timestamp being read: wanted, size known, nibbles
  sync,                  \* what checkSyncNibble keeps
  streamSync,
  dec,                   \* the state of the decoder
  obs, elems, fault      \* history: packets, elements, and how many at the last error

inputVars == <<src, resets, closed, stale>>
pktVars   == <<fn, size, pkt, val, time>>
outVars   == <<dec, obs, elems>>
vars == <<inputVars, avail, pos, pc, ps, pktVars, pktIndex, raw, numNibbles, sync,
          streamSync, outVars, fault>>

Number(ns) ==
  LET upTo[k \in 0..Len(ns)] == IF k = 0 THEN 0 ELSE 16 * upTo[k - 1] + ns[k] IN upTo[Len(ns)]

Offset == (pos + 1) \div 2

----------------------------------------------------------------------------
(* The packet                                                              *)

\* InitNextPacket and InitStartState
NextPacket(p) == [p EXCEPT !.hasTS = FALSE, !.marker = FALSE, !.payload = <<>>]

StartPacket ==
  [type |-> "NotSync", master |-> 0, channel |-> 0, ts |-> [k \in 1..16 |-> 0],
   tsType |-> "Unknown", hasTS |-> FALSE, marker |-> FALSE, payload |-> <<>>]

\* Mutant: a new master keeps the channel of the one before.
SetMasterOnly(p, m) == [p EXCEPT !.master = m]

SetMaster(p, m) == [p EXCEPT !.master = m, !.channel = 0]

SetChannel(p, c, low8) ==
  [p EXCEPT !.channel = IF low8 THEN @ - (@ % 256) + c ELSE c]

OnVersionPkt(p, t) == [p EXCEPT !.tsType = t, !.master = 0, !.channel = 0]

\* setTimestamp: the low nibbles of the time are replaced.
setTimestamp(p, ns) ==
  [p EXCEPT !.ts = SubSeq(@, 1, 16 - Len(ns)) \o ns, !.hasTS = TRUE]

Bits(ns) == [i \in 1..(4 * Len(ns)) |->
               (ns[((i - 1) \div 4) + 1] \div 2^(3 - ((i - 1) % 4))) % 2]
Pack(bs) == [i \in 1..(Len(bs) \div 4) |->
               8 * bs[4 * i - 3] + 4 * bs[4 * i - 2] + 2 * bs[4 * i - 1] + bs[4 * i]]

GrayBits(bs) == [i \in DOMAIN bs |-> IF i = 1 THEN bs[1] ELSE (bs[i] + bs[i - 1]) % 2]
BinBits(gs)  == [i \in DOMAIN gs |-> Cardinality({k \in 1..i : gs[k] = 1}) % 2]

binToGray(ns) == Pack(GrayBits(Bits(ns)))
grayToBin(ns) == Pack(BinBits(Bits(ns)))

\* The Gray branch of stmExtractTS: the update replaces the low bits of the time
\* in Gray code, and changes the binary ones below.
GrayUpdate(p, ns) ==
  LET t == grayToBin(SubSeq(binToGray(p.ts), 1, 16 - Len(ns)) \o ns)
  IN  setTimestamp(p, SubSeq(t, 17 - Len(ns), 16))

----------------------------------------------------------------------------
(* The handlers: the type a packet gets, the nibbles up to the end of its  *)
(* value (opcode included), and whether a marker and a timestamp go with   *)
(* it.                                                                     *)

Handler(type, n, marker, ts) == [type |-> type, n |-> n, marker |-> marker, ts |-> ts]

NullHandlers == [Null |-> Handler("Null", 1, FALSE, FALSE),
                 NullTS |-> Handler("Null", 3, FALSE, TRUE)]

IDHandlers == [M8   |-> Handler("M8", 3, FALSE, FALSE),
               MERR |-> Handler("Merr", 3, FALSE, FALSE),
               C8   |-> Handler("C8", 3, FALSE, FALSE)]

DataHandlers == [D4  |-> Handler("D4", 2, FALSE, FALSE),
                 D8  |-> Handler("D8", 3, FALSE, FALSE),
                 D16 |-> Handler("D16", 5, FALSE, FALSE),
                 D32 |-> Handler("D32", 9, FALSE, FALSE),
                 D64 |-> Handler("D64", 17, FALSE, FALSE)]

MTSHandlers == [D4MTS  |-> Handler("D4", 2, TRUE, TRUE),
                D8MTS  |-> Handler("D8", 3, TRUE, TRUE),
                D16MTS |-> Handler("D16", 5, TRUE, TRUE),
                D32MTS |-> Handler("D32", 9, TRUE, TRUE),
                D64MTS |-> Handler("D64", 17, TRUE, TRUE)]

FlagTSHandler == [FlagTS |-> Handler("Flag", 1, FALSE, TRUE)]

ExtHandlers == [GERR |-> Handler("Gerr", 4, FALSE, FALSE),
                C16  |-> Handler("C16", 6, FALSE, FALSE)]

TSHandlers == [D4TS  |-> Handler("D4", 3, FALSE, TRUE),
               D8TS  |-> Handler("D8", 4, FALSE, TRUE),
               D16TS |-> Handler("D16", 6, FALSE, TRUE),
               D32TS |-> Handler("D32", 10, FALSE, TRUE),
               D64TS |-> Handler("D64", 18, FALSE, TRUE)]

\* Mutant: one nibble too many.
MHandlersLong == [D4M  |-> Handler("D4", 3, TRUE, FALSE),
                  D8M  |-> Handler("D8", 4, TRUE, FALSE),
                  D16M |-> Handler("D16", 6, TRUE, FALSE),
                  D32M |-> Handler("D32", 10, TRUE, FALSE),
                  D64M |-> Handler("D64", 19, TRUE, FALSE)]

MHandlers == [D4M  |-> Handler("D4", 3, TRUE, FALSE),
              D8M  |-> Handler("D8", 4, TRUE, FALSE),
              D16M |-> Handler("D16", 6, TRUE, FALSE),
              D32M |-> Handler("D32", 10, TRUE, FALSE),
              D64M |-> Handler("D64", 18, TRUE, FALSE)]

FlagHandler == [Flag |-> Handler("Flag", 2, FALSE, FALSE)]

TriggerHandlers == [Trigger   |-> Handler("Trig", 5, FALSE, FALSE),
                    TriggerTS |-> Handler("Trig", 5, FALSE, TRUE),
                    Freq      |-> Handler("Freq", 11, FALSE, FALSE)]

\* Two tables with different names, as one.
Joined(f, g) == [name \in DOMAIN f \cup DOMAIN g |-> IF name \in DOMAIN f THEN f[name] ELSE g[name]]

handlers ==
  LET short == Joined(Joined(NullHandlers, IDHandlers), Joined(Joined(DataHandlers, MTSHandlers), FlagTSHandler))
      long  == Joined(Joined(ExtHandlers, TSHandlers), Joined(MHandlers, Joined(FlagHandler, TriggerHandlers)))
  IN  Joined(short, long)

op1(x) ==
  <<"Null", "M8", "MERR", "C8", "D8", "D16", "D32", "D64", "D8MTS", "D16MTS",
    "D32MTS", "D64MTS", "D4", "D4MTS", "FlagTS", "FExt">>[x + 1]

op2(x) ==
  <<"F0Ext", "Reserved", "GERR", "C16", "D8TS", "D16TS", "D32TS", "D64TS", "D8M",
    "D16M", "D32M", "D64M", "D4TS", "D4M", "Flag", "ASync">>[x + 1]

op3(x) ==
  IF x \in {0, 1, 6, 7, 8}
  THEN [k \in {0, 1, 6, 7, 8} |->
          CASE k = 0 -> "Version" [] k = 1 -> "NullTS" [] k = 6 -> "Trigger"
            [] k = 7 -> "TriggerTS" [] k = 8 -> "Freq"][x]
  ELSE "Reserved"

\* What the end of a handler makes of the value v.
Valued(p, v) ==
  CASE p.type = "M8"            -> SetMaster(p, Number(v))
    [] p.type = "Merr"          -> [SetChannel(p, 0, FALSE) EXCEPT !.payload = v]
    [] p.type = "C8"            -> SetChannel(p, Number(v), TRUE)
    [] p.type = "C16"           -> SetChannel(p, Number(v), FALSE)
    [] p.type = "Gerr"          -> [SetMaster(p, 0) EXCEPT !.payload = v]
    [] p.type \in {"Null", "Flag"} -> p
    [] OTHER                    -> [p EXCEPT !.payload = v]

----------------------------------------------------------------------------
(* The decoder                                                             *)

resetDecoder(d) == [d EXCEPT !.state = "NoSync", !.master = 0, !.channel = 0, !.idValid = FALSE]

NewDecoder == [state |-> "NoSync", unsync |-> "InitDecoder", index |-> 0,
               master |-> 0, channel |-> 0, idValid |-> FALSE]

Elem(d, kind, reason) == [kind |-> kind, index |-> d.index, reason |-> reason]

BitSize(type) ==
  CASE type = "D4" -> 4 [] type = "D16" -> 16 [] type = "D64" -> 64
    [] type \in {"D8", "Trig", "Gerr", "Merr"} -> 8
    [] type \in {"D32", "Freq"} -> 32
    [] OTHER -> 0

\* The payload as setExtendedDataPtr gets it: bytes, the lowest first.
DataBytes(ns) ==
  IF Len(ns) = 1 THEN ns
  ELSE [k \in 1..(Len(ns) \div 2) |-> 16 * ns[Len(ns) - 2 * k + 1] + ns[Len(ns) - 2 * k + 2]]

Flags(p) ==
  (CASE p.type = "Freq" -> {"Frequency"} [] p.type = "Trig" -> {"TriggerEvent"}
     [] p.type = "Gerr" -> {"GlobalErr"} [] p.type = "Merr" -> {"MasterErr"}
     [] p.type = "Flag" -> {"MarkerPacket"} [] OTHER -> {})
  \cup (IF p.marker THEN {"MarkerPacket"} ELSE {})
  \cup (IF p.hasTS THEN {"HasTimestamp"} ELSE {})

SWTElem(d, p) ==
  [kind |-> "SWT", index |-> d.index, master |-> d.master, channel |-> d.channel,
   idValid |-> d.idValid, flags |-> Flags(p), bits |-> BitSize(p.type),
   data |-> IF BitSize(p.type) = 0 THEN <<>> ELSE DataBytes(p.payload),
   ts |-> IF p.hasTS THEN p.ts ELSE <<>>]

\* The master, channel and validity a packet leaves.
Identified(d, p) ==
  CASE p.type \in {"Version", "M8"} ->
         [d EXCEPT !.master = p.master, !.channel = p.channel, !.idValid = TRUE]
    [] p.type = "Gerr" ->
         [d EXCEPT !.master = p.master, !.channel = p.channel, !.idValid = FALSE]
    [] p.type \in {"Merr", "C8", "C16"} -> [d EXCEPT !.channel = p.channel]
    [] OTHER -> d

decodePacket(d, p) ==
  CASE p.type \in {"BadSequence", "Reserved"} ->
         [dec |-> resetDecoder([d EXCEPT !.unsync = "BadPacket"]), out |-> <<>>]
    [] p.type = "NotSync" -> [dec |-> resetDecoder(d), out |-> <<>>]
    [] p.type \in {"Async", "IncompleteEOT", "Version", "M8", "C8", "C16"} ->
         [dec |-> Identified(d, p), out |-> <<>>]
    [] p.type = "Null" ->
         [dec |-> d, out |-> IF p.hasTS THEN <<SWTElem(d, p)>> ELSE <<>>]
    [] OTHER ->
         [dec |-> Identified(d, p), out |-> <<SWTElem(Identified(d, p), p)>>]

processPacket(d0, p, index) ==
  LET d    == [d0 EXCEPT !.index = index]
      lost == IF d.state = "NoSync" THEN <<Elem(d, "NoSync", d.unsync)>> ELSE <<>>
  IN  IF d.state = "Pkts" THEN decodePacket(d, p)
      ELSE [dec |-> [d EXCEPT !.state = IF p.type = "Async" THEN "Pkts" ELSE "WaitSync"],
            out |-> lost]

----------------------------------------------------------------------------
(* The parser                                                              *)

Unsynced(s) == [s EXCEPT !.isSync = FALSE, !.start = FALSE, !.nF = 0]

NoFault == [obs |-> 0, elems |-> 0, pos |-> 0, n |-> 0]
NoTime == [needed |-> FALSE, size |-> 0, known |-> FALSE, nibs |-> <<>>]

Init ==
  /\ src \in Streams /\ avail = 0 /\ pos = 0 /\ resets = 0 /\ closed = FALSE /\ stale = FALSE
  /\ pc = "idle" /\ ps = "WaitSync" /\ fn = "none" /\ size = 0
  /\ pkt = StartPacket /\ pktIndex = 0 /\ raw = <<>>
  /\ numNibbles = 0 /\ val = <<>> /\ time = NoTime
  /\ sync = [isSync |-> FALSE, start |-> FALSE, index |-> 0, nF |-> 0]
  /\ streamSync = FALSE
  /\ dec = NewDecoder /\ obs = <<>> /\ elems = <<>> /\ fault = NoFault

More == pos < 2 * avail

dataToProcess == More \/ ps = "SendPkt"

Turn(state) == pc = "loop" /\ dataToProcess /\ ps = state

\* The counter is a byte; the Fs behind the 21st are not kept.
checkSyncNibble(s, x) ==
  CASE x = 15 -> [s EXCEPT !.index = IF s.start THEN @ ELSE pos \div 2,
                           !.start = TRUE, !.nF = (@ + 1) % 256]
    [] x = 0 /\ s.start /\ s.nF >= 21 -> [s EXCEPT !.isSync = TRUE, !.nF = 21]
    [] OTHER -> Unsynced(s)

Nibble == src[pos + 1]

\* readNibble and savePacketByte; a byte is saved with its low nibble.
readNibble ==
  /\ More
  /\ pos' = pos + 1
  /\ raw' = IF pos % 2 = 0 THEN Append(raw, src[pos + 1] + 16 * src[pos + 2]) ELSE raw
  /\ numNibbles' = (numNibbles + 1) % 256

Write(n) ==
  /\ pc = "idle" /\ ~closed /\ 2 * (avail + n) <= Len(src) /\ fault.n <= MaxFaults
  /\ avail' = avail + n /\ pc' = "loop"
  /\ UNCHANGED <<inputVars, pos, ps, pktVars, pktIndex, raw, numNibbles, sync, streamSync,
                 outVars, fault>>

Return ==
  /\ pc = "loop" /\ ~dataToProcess
  /\ pc' = "idle"
  /\ UNCHANGED <<inputVars, avail, pos, ps, pktVars, pktIndex, raw, numNibbles, sync,
                 streamSync, outVars, fault>>

\* What waitForSync sends, with nn nibbles counted and the bytes r saved.
SyncDone(s, nn, r, index, onEntry) ==
  /\ ps' = "SendPkt" /\ pc' = "loop"
  /\ \/ /\ s.isSync /\ nn <= 22
        /\ pkt' = [pkt EXCEPT !.type = "Async"] /\ streamSync' = TRUE /\ sync' = Unsynced(s)
        /\ pktIndex' = s.index
        /\ raw' = IF onEntry THEN r \o [k \in 1..10 |-> 255] \o <<15>> ELSE r
     \/ /\ ~s.isSync \/ nn > 22
        /\ pkt' = [pkt EXCEPT !.type = "NotSync"] /\ sync' = s
        /\ pktIndex' = index /\ UNCHANGED streamSync
        /\ raw' = IF s.isSync /\ Len(r) >= 11 THEN SubSeq(r, 1, Len(r) - 11) ELSE r

\* The sync was seen behind bytes that went out first, in the packet before.
SyncOnEntry ==
  /\ Turn("WaitSync") /\ sync.isSync
  /\ numNibbles' = (sync.nF + 1) % 256 /\ numNibbles' # 0
  /\ SyncDone(sync, numNibbles', raw, Offset, TRUE)
  /\ UNCHANGED <<inputVars, avail, pos, fn, size, val, time, outVars, fault>>

SyncSearch ==
  /\ Turn("WaitSync") /\ ~sync.isSync
  /\ pc' = "sync" /\ pktIndex' = Offset /\ numNibbles' = sync.nF
  /\ UNCHANGED <<inputVars, avail, pos, ps, pktVars, raw, sync, streamSync, outVars, fault>>

SyncNibble ==
  /\ pc = "sync" /\ ~sync.isSync
  /\ readNibble /\ sync' = checkSyncNibble(sync, Nibble)
  /\ UNCHANGED <<inputVars, avail, pc, ps, pktVars, pktIndex, streamSync, outVars, fault>>

\* With a count of nibbles that has come round to 0 nothing is sent.
SyncEnds ==
  /\ pc = "sync" /\ (sync.isSync \/ ~More)
  /\ \/ numNibbles # 0 /\ SyncDone(sync, numNibbles, raw, pktIndex, FALSE)
     \/ numNibbles = 0 /\ pc' = "loop" /\ UNCHANGED <<ps, pkt, sync, streamSync, pktIndex, raw>>
  /\ UNCHANGED <<inputVars, avail, pos, fn, size, val, time, numNibbles, outVars, fault>>

\* Mutant: the packet is not marked as bad, and comes out when it is completed.
FatalUnmarked(type) ==
  /\ pc' = "idle" /\ avail' = (pos' + 1) \div 2
  /\ fault' = [obs |-> Len(obs), elems |-> Len(elems), pos |-> pos', n |-> fault.n + 1]
  /\ ps' = "ProcData" /\ UNCHANGED <<size, pkt, val, streamSync>>

\* An error ends the call; the caller goes on behind the last byte that was read.
\* The handler stays, and the next call of Write comes back to it.
Fatal(type) ==
  /\ pc' = "idle" /\ avail' = (pos' + 1) \div 2
  /\ pkt' = [pkt EXCEPT !.type = type]
  /\ fault' = [obs |-> Len(obs), elems |-> Len(elems), pos |-> pos', n |-> fault.n + 1]
  /\ ps' = "ProcData" /\ UNCHANGED <<size, val, streamSync>>

GoesOn == UNCHANGED <<avail, pc, fault>>

\* The value is complete: a timestamp is still to come, or the packet is sent.
AtEndOfValue(p, v, ts) ==
  /\ pkt' = Valued(p, v)
  /\ time' = [NoTime EXCEPT !.needed = ts]
  /\ IF ts THEN ps' = "ProcData" /\ fn' = "ExtractTS"
     ELSE ps' = "SendPkt" /\ fn' = fn

\* A handler is called for the first time, right behind its opcode.
Begin(name) ==
  \/ /\ name \in {"FExt", "F0Ext", "ASync"}
     /\ fn' = name /\ ps' = "ProcData" /\ GoesOn /\ UNCHANGED <<size, pkt, val, time, streamSync>>
  \/ /\ name = "Version"
     /\ fn' = name /\ ps' = "ProcData" /\ pkt' = [pkt EXCEPT !.type = name]
     /\ GoesOn /\ UNCHANGED <<size, val, time, streamSync>>
  \/ /\ name \in DOMAIN handlers
     /\ LET h == handlers[name]
            p == [pkt EXCEPT !.type = h.type, !.marker = h.marker]
        IN  /\ size' = h.n
            /\ IF h.n = numNibbles' THEN AtEndOfValue(p, <<>>, h.ts)
               ELSE /\ fn' = "ExtractVal" /\ ps' = "ProcData" /\ pkt' = p
                    /\ time' = [NoTime EXCEPT !.needed = h.ts]
     /\ GoesOn /\ UNCHANGED <<val, streamSync>>
  \/ name = "Reserved" /\ fn' = name /\ Fatal(name) /\ UNCHANGED time

ProcHdr ==
  /\ Turn("ProcHdr") /\ readNibble /\ sync' = checkSyncNibble(sync, Nibble)
  /\ pktIndex' = Offset
  /\ Begin(op1(Nibble))
  /\ UNCHANGED <<inputVars, outVars>>

stmPktFExt ==
  /\ Turn("ProcData") /\ fn = "FExt" /\ readNibble /\ sync' = checkSyncNibble(sync, Nibble)
  /\ Begin(op2(Nibble))
  /\ UNCHANGED <<inputVars, pktIndex, outVars>>

stmPktF0Ext ==
  /\ Turn("ProcData") /\ fn = "F0Ext" /\ readNibble /\ sync' = checkSyncNibble(sync, Nibble)
  /\ Begin(op3(Nibble))
  /\ UNCHANGED <<inputVars, pktIndex, outVars>>

\* A call that comes back to a reserved header fails again and reads nothing.
stmPktReserved ==
  /\ Turn("ProcData") /\ fn = "Reserved"
  /\ UNCHANGED pos /\ Fatal("Reserved")
  /\ UNCHANGED <<inputVars, fn, time, pktIndex, raw, numNibbles, sync, outVars>>

\* extractVal8 to extractVal64
ExtractVal ==
  /\ Turn("ProcData") /\ fn = "ExtractVal" /\ readNibble /\ sync' = checkSyncNibble(sync, Nibble)
  /\ val' = Append(val, Nibble)
  /\ IF numNibbles' = size THEN AtEndOfValue(pkt, val', time.needed)
     ELSE UNCHANGED <<ps, fn, pkt, time>>
  /\ GoesOn /\ UNCHANGED <<inputVars, size, pktIndex, streamSync, outVars>>

stmPktVersion ==
  /\ Turn("ProcData") /\ fn = "Version" /\ readNibble /\ sync' = checkSyncNibble(sync, Nibble)
  /\ \/ /\ Nibble \in {3, 4}
        /\ pkt' = [OnVersionPkt(pkt, IF Nibble = 3 THEN "NatBinary" ELSE "Grey")
                     EXCEPT !.payload = <<Nibble>>]
        /\ ps' = "SendPkt" /\ GoesOn /\ UNCHANGED <<fn, size, val, time, streamSync>>
     \/ Nibble \notin {3, 4} /\ Fatal("BadSequence") /\ UNCHANGED <<fn, time>>
  /\ UNCHANGED <<inputVars, pktIndex, outVars>>

TimeSize(x) == IF x = 13 THEN 14 ELSE IF x = 14 THEN 16 ELSE x

\* The timestamp t is complete: it is applied by the encoding in force.
ApplyTS(t) ==
  \/ /\ pkt.tsType # "Unknown"
     /\ pkt' = IF pkt.tsType = "Grey" THEN GrayUpdate(pkt, t.nibs) ELSE setTimestamp(pkt, t.nibs)
     /\ time' = t /\ ps' = "SendPkt" /\ GoesOn /\ UNCHANGED <<size, val, streamSync>>
  \/ pkt.tsType = "Unknown" /\ time' = t /\ Fatal("BadSequence")

TimeSoFar(t) ==
  IF Len(t.nibs) = t.size THEN ApplyTS(t)
  ELSE time' = t /\ GoesOn /\ UNCHANGED <<ps, size, pkt, val, streamSync>>

\* stmExtractTS: the size first, then so many nibbles.
stmExtractTS ==
  /\ Turn("ProcData") /\ fn = "ExtractTS" /\ ~(time.known /\ Len(time.nibs) = time.size)
  /\ readNibble /\ sync' = checkSyncNibble(sync, Nibble)
  /\ \/ time.known /\ TimeSoFar([time EXCEPT !.nibs = Append(@, Nibble)])
     \/ ~time.known /\ Nibble # 15 /\ TimeSoFar([time EXCEPT !.known = TRUE, !.size = TimeSize(Nibble)])
     \/ ~time.known /\ Nibble = 15 /\ Fatal("BadSequence") /\ UNCHANGED time
  /\ UNCHANGED <<inputVars, fn, pktIndex, outVars>>

\* A time whose encoding is unknown fails again in every call that comes back.
stmExtractTSAgain ==
  /\ Turn("ProcData") /\ fn = "ExtractTS" /\ time.known /\ Len(time.nibs) = time.size
  /\ UNCHANGED pos /\ ApplyTS(time)
  /\ UNCHANGED <<inputVars, fn, pktIndex, raw, numNibbles, sync, outVars>>

stmPktASync ==
  /\ Turn("ProcData") /\ fn = "ASync" /\ readNibble
  /\ LET s == checkSyncNibble(sync, Nibble)
     IN  \/ /\ s.isSync
            /\ streamSync' = TRUE /\ pkt' = [pkt EXCEPT !.type = "Async"]
            /\ sync' = Unsynced(s) /\ ps' = "SendPkt" /\ GoesOn /\ UNCHANGED <<size, val, time>>
         \/ /\ ~s.isSync /\ s.start
            /\ sync' = s /\ GoesOn /\ UNCHANGED <<ps, size, pkt, val, time, streamSync>>
         \/ ~s.isSync /\ ~s.start /\ sync' = s /\ Fatal("BadSequence") /\ UNCHANGED time
  /\ UNCHANGED <<inputVars, fn, pktIndex, outVars>>

Seen(type) ==
  IF raw = <<>> THEN <<>>
  ELSE <<[index |-> pktIndex, type |-> type, raw |-> raw, end |-> pos]>>

EndElem(d) == Elem(d, "EOTrace", "EOT")

\* Mutant: the nibble is not saved again for the packet it belongs to.
LeftNibbleLost == <<>>

\* A nibble that is left of the last byte is saved once more.
LeftNibble == IF pos % 2 = 1 THEN <<16 * Nibble>> ELSE <<>>

\* outputPacket, and behind it the end of the trace when Close calls it.
outputPacket(p, atEnd) ==
  /\ LET r == processPacket(dec, p, pktIndex)
     IN  /\ dec' = r.dec
         /\ elems' = elems \o r.out \o IF atEnd THEN <<EndElem(r.dec)>> ELSE <<>>
  /\ obs' = obs \o Seen(p.type)
  /\ pkt' = NextPacket(p) /\ numNibbles' = 0 /\ val' = <<>> /\ size' = 0
  /\ time' = [time EXCEPT !.needed = FALSE]
  /\ raw' = LeftNibble
  /\ ps' = IF streamSync THEN "ProcHdr" ELSE "WaitSync"
  /\ UNCHANGED <<src, avail, pos, resets, stale, pc, fn, pktIndex, sync, streamSync, fault>>

SendPkt == Turn("SendPkt") /\ outputPacket(pkt, FALSE) /\ UNCHANGED closed

\* A marked packet that is cut off makes Close fail, without an end of the trace.
Close ==
  /\ pc = "idle" /\ ~closed
  /\ closed' = TRUE
  /\ \/ numNibbles > 0 /\ ~pkt.marker /\ outputPacket([pkt EXCEPT !.type = "IncompleteEOT"], TRUE)
     \/ /\ numNibbles = 0 \/ pkt.marker
        /\ elems' = IF numNibbles = 0 THEN Append(elems, EndElem(dec)) ELSE elems
        /\ UNCHANGED <<src, avail, pos, resets, stale, pc, ps, pktVars, pktIndex, raw, numNibbles,
                       sync, streamSync, dec, obs, fault>>

\* Reset and resetProcessorState: what checkSyncNibble keeps and streamSync stay.
Reset(s) ==
  /\ pc = "idle" /\ resets < MaxResets
  /\ src' = s /\ avail' = 0 /\ pos' = 0 /\ resets' = resets + 1 /\ closed' = FALSE
  /\ stale' = (streamSync \/ sync.start)
  /\ ps' = "WaitSync" /\ pkt' = StartPacket /\ raw' = <<>> /\ numNibbles' = 0
  /\ val' = <<>> /\ size' = 0 /\ time' = [time EXCEPT !.needed = FALSE]
  /\ dec' = resetDecoder([dec EXCEPT !.unsync = "ResetDecoder"])
  /\ obs' = <<>> /\ elems' = <<>> /\ fault' = NoFault
  /\ UNCHANGED <<pc, fn, pktIndex, sync, streamSync>>

Step ==
  \/ Return \/ SyncOnEntry \/ SyncSearch \/ SyncNibble \/ SyncEnds
  \/ ProcHdr \/ stmPktFExt \/ stmPktF0Ext \/ stmPktReserved \/ ExtractVal \/ stmPktVersion
  \/ stmExtractTS \/ stmExtractTSAgain \/ stmPktASync \/ SendPkt

Next ==
  \/ \E n \in ChunkSizes(Len(src)) : Write(n)
  \/ Close \/ Step
  \/ \E s \in NextStreams : Reset(s)

Spec == Init /\ [][Next]_vars
============================================================================
