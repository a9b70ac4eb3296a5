------------------------------- MODULE Demux -------------------------------
(***************************************************************************)
(* The frame demuxer (demux_demuxer.go, demux_frame_data.go): it turns the *)
(* CoreSight formatted byte stream, handed over in blocks of any size by   *)
(* successive calls of Write, into one byte stream per trace ID.           *)
(*                                                                         *)
(* One call of Write is a run of steps under the control of pc: the sync   *)
(* search, one step per turn of each loop, and the return.  The caller is  *)
(* part of the module: it feeds a trace from one of the two protocols the  *)
(* code supports, advancing by the returned count (Engine.Write, the       *)
(* "rewriting" client) or by the length of its block (trc_pkt_lister).     *)
(***************************************************************************)
EXTENDS Integers, Sequences, FiniteSetsExt

CONSTANTS
  FrameSize,   \* dfrmtrFrameSize: bytes of a frame, the last one its flags
  Options,     \* the DemuxOptions the demuxer may be configured with
  Traces,      \* by options, the byte sequences a caller may feed in one session
  Sinks,       \* the trace IDs that have a ByteSink in streams
  ChunkSizes   \* by options, how many new bytes one call of Write may bring

ASSUME FrameSizeAssumption == FrameSize \in Nat /\ FrameSize >= 4 /\ FrameSize % 4 = 0
ASSUME TracesAssumption == \A o \in Options : Traces[o] \subseteq Seq(0..255)
ASSUME SinksAssumption == Sinks \subseteq 0..127
ASSUME ChunkAssumption == \A o \in Options : ChunkSizes[o] \subseteq Nat \ {0}

DemuxOptions == [HasFsyncs : BOOLEAN, HasHsyncs : BOOLEAN, FrameMemAlign : BOOLEAN,
                 PackedRawOut : BOOLEAN, UnpackedRawOut : BOOLEAN,
                 ResetOn4xFsync : BOOLEAN]

\* validateFormatterOptions: some option is set, and an aligned stream has
\* no syncs in it.
ValidOptions(o) ==
  /\ \/ o.HasFsyncs \/ o.HasHsyncs \/ o.FrameMemAlign
     \/ o.PackedRawOut \/ o.UnpackedRawOut \/ o.ResetOn4xFsync
  /\ o.FrameMemAlign => ~o.HasFsyncs /\ ~o.HasHsyncs

ASSUME OptionsAssumption == Options \subseteq {o \in DemuxOptions : ValidOptions(o)}

BadIndex   == -1
badCSSrcID == 255

FSyncPattern == <<255, 255, 255, 127>>
HSyncPattern == <<255, 127>>
FSyncStart   == <<255, 255>>

\* The run of FSYNCs that stands for a reset fills exactly one frame.
FSyncsPerFrame == FrameSize \div 4

VARIABLES
  opts,                        \* the configuration, fixed by Configure
  pc,                          \* where the current call of Write is
  werr,                        \* its error so far
  inBlock,                     \* the part of the block open to extraction
  held,                        \* the part behind limit
  pending,                     \* bytes kept for the next call
  trcCurrIdx, lastWriteEndIndex, lastWriteProcessedEndIndex,
  frameSynced, fsyncStartEOB,
  exFrm,                       \* exFrmData[:exFrmBytes]
  trcCurrIdxSof, currSrcID,
  i, unpackBuf, startIndex,    \* the loop of unpackAndOutputFrame
  out,                         \* history: what the sinks were handed
  trace, rewriting,            \* the caller's trace and protocol
  cursor, avail,               \* index of its next call, bytes it has so far
  ret, closed                  \* what the last call returned, Close succeeded

syncVars   == <<frameSynced, fsyncStartEOB>>
frameVars  == <<exFrm, trcCurrIdxSof, currSrcID>>
unpackVars == <<i, unpackBuf, startIndex>>
pendVars   == <<pending, lastWriteEndIndex, lastWriteProcessedEndIndex>>
callVars   == <<trace, rewriting, cursor, avail, ret, closed>>
vars == <<opts, pc, werr, inBlock, held, trcCurrIdx, syncVars, frameVars,
          unpackVars, pendVars, out, callVars>>

----------------------------------------------------------------------------
Drop(s, n)       == SubSeq(s, n + 1, Len(s))
Take(s, n)       == SubSeq(s, 1, n)
StartsWith(s, p) == Len(s) >= Len(p) /\ Take(s, Len(p)) = p
EndsWith(s, p)   == Len(s) >= Len(p) /\ Drop(s, Len(s) - Len(p)) = p

outPackedRaw   == opts.PackedRawOut
outUnpackedRaw == opts.UnpackedRawOut

\* Positions in s at which a whole FSYNC starts, counted from 0.
FSyncsIn(s) == {n \in 0..Len(s) : StartsWith(Drop(s, n), FSyncPattern)}

\* Mutant: an FSYNC that is cut by the end of the block is thrown away.
findWholeFSync(s) == IF FSyncsIn(s) # {} THEN Min(FSyncsIn(s)) ELSE Len(s)

\* findfirstFSync: how much of an unsynced block can be thrown away; the end
\* of the block is kept as far as it may be the start of an FSYNC.
findfirstFSync(s) ==
  IF FSyncsIn(s) # {}
  THEN Min(FSyncsIn(s))
  ELSE Len(s) - Max({n \in 0..3 : EndsWith(s, Take(FSyncPattern, n))})

countLeadingFSyncs(s) ==
  Max({n \in 0..(Len(s) \div 4) :
             \A k \in 0..(n - 1) : StartsWith(Drop(s, 4 * k), FSyncPattern)})

\* partialSyncLen: how many bytes at the end of s may be the start of a sync.
partialSyncLen(s) ==
  LET most == IF opts.HasFsyncs THEN 3 ELSE IF opts.HasHsyncs THEN 1 ELSE 0
  IN  Max({n \in 0..most : n <= Len(s) /\ \A k \in (Len(s) - n + 1)..Len(s) : s[k] = 255})

\* Mutant: an odd byte stays in the open part.
LimitOdd(s) == Len(s) - (IF exFrm = <<>> THEN partialSyncLen(s) ELSE 0)

\* The part of the block that one turn of Write's loop may look at.
Limit(s) ==
  LET open == Len(s) - (IF exFrm = <<>> THEN partialSyncLen(s) ELSE 0)
  IN  IF opts.FrameMemAlign THEN open ELSE open - (open % 2)

\* Mutant: a last frame that just fits is not taken.
WorthATurnStrict(limit) == limit > IF opts.FrameMemAlign THEN FrameSize ELSE 2

\* The loop goes on while a frame, or a pair, may be in the open part.
WorthATurn(limit) == limit >= IF opts.FrameMemAlign THEN FrameSize ELSE 2

----------------------------------------------------------------------------
Init ==
  /\ opts \in Options
  /\ trace \in Traces[opts] /\ rewriting \in BOOLEAN
  /\ pc = "idle" /\ werr = "none" /\ inBlock = <<>> /\ held = <<>>
  /\ pending = <<>> /\ lastWriteEndIndex = 0 /\ lastWriteProcessedEndIndex = 0
  /\ trcCurrIdx = BadIndex /\ trcCurrIdxSof = BadIndex
  /\ frameSynced = FALSE /\ fsyncStartEOB = FALSE
  /\ exFrm = <<>> /\ currSrcID = badCSSrcID
  /\ i = 0 /\ unpackBuf = <<>> /\ startIndex = BadIndex
  /\ out = <<>>
  /\ cursor = 0 /\ avail = 0 /\ ret = [n |-> 0, err |-> "none"] /\ closed = FALSE

\* The caller has no call open and has not given up after an error.
Ready == pc = "idle" /\ ret.err = "none" /\ ~closed

\* checkForSync: bytes before the first FSYNC are thrown away; without
\* FSYNCs any position will do.
Synced(block) == frameSynced \/ ~opts.HasFsyncs \/ FSyncsIn(block) # {}
Unsynced(block) == IF frameSynced \/ ~opts.HasFsyncs THEN 0 ELSE findfirstFSync(block)

\* Mutant: the pending bytes are put in front whatever the caller sends.
KeptPendingAlways(index) == pending

\* Pending bytes survive only when the caller goes on behind its last block.
KeptPending(index) ==
  IF index = lastWriteProcessedEndIndex \/ index # lastWriteEndIndex THEN <<>> ELSE pending

\* Write, up to its loop.  k new bytes have become available to the caller.
Write(k) ==
  LET data  == SubSeq(trace, cursor + 1, avail + k)
      kept  == KeptPending(cursor)
      block == kept \o data
      skip  == Unsynced(block)
  IN  /\ Ready /\ avail + k <= Len(trace)
      /\ avail' = avail + k
      /\ trcCurrIdx' = (cursor - Len(kept)) + skip
      /\ frameSynced' = Synced(block)
      /\ inBlock' = Drop(block, skip) /\ held' = <<>> /\ werr' = "none"
      /\ pc' = IF Synced(block) THEN "loop" ELSE "return"
      /\ UNCHANGED <<opts, fsyncStartEOB, frameVars, unpackVars, pendVars, out,
                     trace, rewriting, cursor, ret, closed>>

\* Mutant: the index does not follow the block.
advanceBlockOnly(n) == inBlock' = Drop(inBlock, n) /\ UNCHANGED trcCurrIdx

advanceInput(n) == inBlock' = Drop(inBlock, n) /\ trcCurrIdx' = trcCurrIdx + n

Fail(e) == pc' = "return" /\ werr' = e

\* The head of Write's loop: the end of the block that may be a sync, or is
\* not a whole frame or pair, is set aside.
NextTurn ==
  LET block == inBlock \o held
      limit == Limit(block)
      work  == WorthATurn(limit)
  IN  /\ pc = "loop"
      /\ inBlock' = Take(block, IF work THEN limit ELSE Len(block))
      /\ held' = IF work THEN Drop(block, limit) ELSE <<>>
      /\ pc' = CASE ~work -> "return"
                 [] work /\ opts.FrameMemAlign -> "aligned"
                 [] OTHER -> "leading"
      /\ UNCHANGED <<opts, werr, trcCurrIdx, syncVars, frameVars, unpackVars,
                     pendVars, out, callVars>>

\* What a whole run of FSYNCs resets: every sink and the frame state.
ResetIDs ==
  /\ currSrcID' = badCSSrcID /\ exFrm' = <<>> /\ trcCurrIdxSof' = BadIndex
  /\ out' = Append(out, [op |-> "reset", index |-> trcCurrIdx])

\* consumeResetFSyncs, with checkForResetFSyncPatterns, ahead of an aligned
\* frame.  A raw frame handler or a sink's Reset may fail; the handler fails
\* before the FSYNCs are consumed, a sink or a bad count after.
ConsumeResetFSyncs ==
  LET n == countLeadingFSyncs(inBlock)
      whole == n % FSyncsPerFrame = 0
  IN  /\ pc = "aligned" /\ opts.ResetOn4xFsync /\ n > 0
      /\ IF whole THEN ResetIDs ELSE UNCHANGED <<frameVars, out>>
      /\ \/ /\ outPackedRaw \/ outUnpackedRaw
            /\ Fail("rawHandler") /\ UNCHANGED <<inBlock, trcCurrIdx>>
         \/ /\ ~whole
            /\ Fail("badFsyncReset") /\ advanceInput(4 * n)
         \/ /\ whole /\ Sinks # {}
            /\ Fail("sink") /\ advanceInput(4 * n)
         \/ /\ whole
            /\ advanceInput(4 * n) /\ pc' = "alignedFrame" /\ UNCHANGED werr
      /\ UNCHANGED <<opts, held, syncVars, unpackVars, pendVars, callVars>>

\* extractAlignedFrame behind the FSYNCs.
ExtractAlignedFrame ==
  /\ \/ pc = "alignedFrame"
     \/ pc = "aligned" /\ (opts.ResetOn4xFsync => countLeadingFSyncs(inBlock) = 0)
  /\ \/ /\ inBlock = <<>>
        /\ pc' = "extracted" /\ UNCHANGED <<werr, inBlock, trcCurrIdx, frameVars>>
     \/ /\ inBlock # <<>> /\ Len(inBlock) < FrameSize
        /\ Fail("unaligned") /\ UNCHANGED <<inBlock, trcCurrIdx, frameVars>>
     \/ /\ Len(inBlock) >= FrameSize
        /\ trcCurrIdxSof' = trcCurrIdx /\ exFrm' = Take(inBlock, FrameSize)
        /\ advanceInput(FrameSize) /\ pc' = "extracted" /\ UNCHANGED <<werr, currSrcID>>
  /\ UNCHANGED <<opts, held, syncVars, unpackVars, pendVars, out, callVars>>

\* consumeLeadingUnalignedFSyncs, between frames only.  An FSYNC cut in half
\* by the end of the open part is taken in two calls.
ConsumeLeadingFSyncs ==
  LET resume == fsyncStartEOB /\ Len(inBlock) >= 2
      from   == IF resume THEN 2 ELSE 0
      syncs  == from + 4 * countLeadingFSyncs(Drop(inBlock, from))
      half   == Drop(inBlock, syncs) = FSyncStart
  IN  /\ pc = "leading"
      /\ \/ /\ ~(opts.HasFsyncs /\ exFrm = <<>>)
            /\ pc' = "pairs" /\ UNCHANGED <<werr, inBlock, trcCurrIdx, fsyncStartEOB>>
         \/ /\ opts.HasFsyncs /\ exFrm = <<>> /\ resume /\ ~StartsWith(inBlock, HSyncPattern)
            /\ Fail("badFsyncStart") /\ UNCHANGED <<inBlock, trcCurrIdx, fsyncStartEOB>>
         \/ /\ opts.HasFsyncs /\ exFrm = <<>> /\ (resume => StartsWith(inBlock, HSyncPattern))
            /\ advanceInput(syncs + IF half THEN 2 ELSE 0)
            /\ fsyncStartEOB' = half
            /\ pc' = "pairs" /\ UNCHANGED werr
      /\ UNCHANGED <<opts, held, frameSynced, frameVars, unpackVars, pendVars, out, callVars>>

\* Mutant: the HSYNC is seen and not consumed.
HSyncSeen == UNCHANGED <<inBlock, trcCurrIdx, pc, werr, exFrm>>

HSyncDropped == advanceInput(2) /\ UNCHANGED <<pc, werr, exFrm>>

\* One turn of the loop of extractUnalignedFrame: the pair is an HSYNC to
\* drop, the start of a misplaced FSYNC, or two bytes of the frame.
ExtractPair ==
  LET pair == Take(inBlock, 2)
  IN  /\ pc = "pairs" /\ Len(exFrm) < FrameSize /\ Len(inBlock) >= 2
      /\ trcCurrIdxSof' = IF exFrm = <<>> THEN trcCurrIdx ELSE trcCurrIdxSof
      /\ \/ /\ pair = HSyncPattern /\ ~opts.HasHsyncs
            /\ Fail("badHSync") /\ UNCHANGED <<inBlock, trcCurrIdx, exFrm>>
         \/ /\ pair = HSyncPattern /\ opts.HasHsyncs
            /\ HSyncDropped
         \/ /\ pair = FSyncStart
            /\ Fail("badFsyncStart") /\ UNCHANGED <<inBlock, trcCurrIdx, exFrm>>
         \/ /\ pair \notin {HSyncPattern, FSyncStart}
            /\ exFrm' = exFrm \o pair /\ advanceInput(2) /\ UNCHANGED <<pc, werr>>
      /\ UNCHANGED <<opts, held, syncVars, currSrcID, unpackVars, pendVars, out, callVars>>

\* The end of extractUnalignedFrame.
PairsDone ==
  /\ pc = "pairs" /\ (Len(exFrm) = FrameSize \/ Len(inBlock) < 2)
  /\ IF Len(inBlock) = 1 /\ Len(exFrm) < FrameSize
     THEN Fail("oddByte")
     ELSE pc' = "extracted" /\ UNCHANGED werr
  /\ UNCHANGED <<opts, inBlock, held, trcCurrIdx, syncVars, frameVars, unpackVars,
                 pendVars, out, callVars>>

\* The end of extractFrame: the raw handler sees the packed bytes and may
\* fail; a whole frame is unpacked, otherwise Write's loop ends.
ExtractDone ==
  /\ pc = "extracted"
  /\ \/ /\ outPackedRaw /\ (Len(exFrm) = FrameSize \/ inBlock = <<>>)
        /\ Fail("rawHandler") /\ UNCHANGED unpackVars
     \/ /\ Len(exFrm) = FrameSize
        /\ pc' = "unpack" /\ i' = 0 /\ unpackBuf' = <<>> /\ startIndex' = trcCurrIdxSof
        /\ UNCHANGED werr
     \/ /\ Len(exFrm) # FrameSize
        /\ pc' = "return" /\ UNCHANGED <<werr, unpackVars>>
  /\ UNCHANGED <<opts, inBlock, held, trcCurrIdx, syncVars, frameVars, pendVars, out, callVars>>

----------------------------------------------------------------------------
\* Byte n of the extracted frame, counted from 0, and the flag of its pair.
FrameByte(n) == exFrm[n + 1]

\* Mutant: the flag bits are shifted once too often.
FlagOfNext(n) == IF (FrameByte(FrameSize - 1) \div 2^((n \div 2) + 1)) % 2 = 1 THEN 1 ELSE 0

FlagOf(n)    == IF (FrameByte(FrameSize - 1) \div 2^(n \div 2)) % 2 = 1 THEN 1 ELSE 0
IsID(b)      == b % 2 = 1
IDOf(b)      == b \div 2

shouldOutputRawEntry == outUnpackedRaw

\* emitUnpackBuf: the raw handler first, then the sink of the current ID.
Emit(buf) ==
  out' = IF buf # <<>> /\ currSrcID \in Sinks
         THEN Append(out, [op |-> "data", index |-> startIndex, id |-> currSrcID, data |-> buf])
         ELSE out

EmitFails(buf) ==
  /\ buf # <<>>
  /\ \/ shouldOutputRawEntry /\ Fail("rawHandler") /\ UNCHANGED out
     \/ currSrcID \in Sinks /\ Fail("sink") /\ Emit(buf)

\* One turn of the loop of unpackAndOutputFrame.  A change of ID whose flag
\* is set takes effect behind the data byte that follows it.
UnpackPair ==
  LET b      == FrameByte(i)
      next   == FrameByte(i + 1)
      change == IsID(b) /\ IDOf(b) # currSrcID
      late   == FlagOf(i) = 1
      flush  == IF late THEN Append(unpackBuf, next) ELSE unpackBuf
  IN  /\ pc = "unpack" /\ i < FrameSize - 2
      /\ \/ /\ change /\ EmitFails(flush)
            /\ UNCHANGED <<currSrcID, unpackVars>>
         \/ /\ change /\ Emit(flush)
            /\ currSrcID' = IDOf(b) /\ startIndex' = trcCurrIdxSof + i
            /\ unpackBuf' = IF late THEN <<>> ELSE <<next>>
            /\ i' = i + 2 /\ UNCHANGED <<pc, werr>>
         \/ /\ ~change
            /\ unpackBuf' = unpackBuf \o IF IsID(b) THEN <<next>> ELSE <<b + FlagOf(i), next>>
            /\ i' = i + 2 /\ UNCHANGED <<pc, werr, currSrcID, startIndex, out>>
      /\ UNCHANGED <<opts, inBlock, held, trcCurrIdx, syncVars, exFrm, trcCurrIdxSof,
                     pendVars, callVars>>

\* The last slot of the frame, an ID or a data byte, and the final flush;
\* the frame is then used up.
UnpackLast ==
  LET b     == FrameByte(i)
      flush == IF IsID(b) THEN unpackBuf ELSE Append(unpackBuf, b + FlagOf(i))
  IN  /\ pc = "unpack" /\ i = FrameSize - 2
      /\ \/ /\ EmitFails(flush)
            /\ UNCHANGED <<exFrm, currSrcID>>
         \/ /\ Emit(flush)
            /\ currSrcID' = IF IsID(b) THEN IDOf(b) ELSE currSrcID
            /\ exFrm' = <<>> /\ pc' = "loop" /\ UNCHANGED werr
      /\ UNCHANGED <<opts, inBlock, held, trcCurrIdx, syncVars, trcCurrIdxSof,
                     unpackVars, pendVars, callVars>>

\* Where the caller goes on: Engine.Write adds the count it was returned to its index.
NextIndex(n) == IF rewriting THEN cursor + n ELSE avail

\* The end of Write: what was not processed is kept, the count is returned,
\* and the caller moves on by its protocol.
Return ==
  LET n == IF trcCurrIdx > cursor THEN trcCurrIdx - cursor ELSE 0
  IN  /\ pc = "return"
      /\ pc' = "idle"
      /\ pending' = inBlock \o held
      /\ lastWriteEndIndex' = avail
      /\ lastWriteProcessedEndIndex' = cursor + n
      /\ ret' = [n |-> n, err |-> werr]
      /\ cursor' = NextIndex(n)
      /\ inBlock' = <<>> /\ held' = <<>> /\ werr' = "none"
      /\ i' = 0 /\ unpackBuf' = <<>> /\ startIndex' = BadIndex
      /\ UNCHANGED <<opts, trcCurrIdx, syncVars, frameVars, out,
                     trace, rewriting, avail, closed>>

----------------------------------------------------------------------------
\* Close: with bytes still pending the sinks are not closed at all.
Close ==
  /\ Ready
  /\ IF pending # <<>>
     THEN ret' = [n |-> 0, err |-> "incompleteTail"] /\ UNCHANGED <<out, closed>>
     ELSE /\ out' = Append(out, [op |-> "close"])
          /\ \/ ret' = [n |-> 0, err |-> "none"] /\ closed' = TRUE
             \/ Sinks # {} /\ ret' = [n |-> 0, err |-> "sink"] /\ UNCHANGED closed
  /\ UNCHANGED <<opts, pc, werr, inBlock, held, trcCurrIdx, syncVars, frameVars,
                 unpackVars, pendVars, trace, rewriting, cursor, avail>>

\* Reset between two sessions (also after an error); the caller starts a new
\* trace at index 0.
Reset ==
  /\ pc = "idle"
  /\ trace' \in Traces[opts]
  /\ trcCurrIdx' = BadIndex /\ frameSynced' = FALSE /\ currSrcID' = badCSSrcID
  /\ exFrm' = <<>> /\ fsyncStartEOB' = FALSE /\ trcCurrIdxSof' = BadIndex
  /\ pending' = <<>> /\ lastWriteEndIndex' = 0 /\ lastWriteProcessedEndIndex' = 0
  /\ out' = <<>> /\ cursor' = 0 /\ avail' = 0 /\ closed' = FALSE
  /\ \/ ret' = [n |-> 0, err |-> "none"]
     \/ Sinks # {} /\ ret' = [n |-> 0, err |-> "sink"]
  /\ UNCHANGED <<opts, pc, werr, inBlock, held, unpackVars, rewriting>>

Step ==
  \/ NextTurn \/ ConsumeResetFSyncs \/ ExtractAlignedFrame
  \/ ConsumeLeadingFSyncs \/ ExtractPair \/ PairsDone \/ ExtractDone
  \/ UnpackPair \/ UnpackLast \/ Return

Next == Step \/ (\E k \in ChunkSizes[opts] : Write(k)) \/ Close \/ Reset

Spec == Init /\ [][Next]_vars

\* A call that has begun runs to its end: Write is synchronous code, and the
\* sinks and handlers it calls return.
FairSpec == Spec /\ WF_vars(Step)
----------------------------------------------------------------------------
States == {"idle", "loop", "aligned", "alignedFrame", "leading", "pairs",
           "extracted", "unpack", "return"}
Errors == {"none", "rawHandler", "sink", "badFsyncReset", "unaligned", "badHSync",
           "badFsyncStart", "oddByte", "incompleteTail"}

Deliveries == [op : {"data"}, index : Int, id : 0..127, data : Seq(0..255)]
                \cup [op : {"reset"}, index : Int] \cup [op : {"close"}]

\* Type invariant of the demuxer and its caller.
TypeOK ==
  /\ opts \in Options /\ trace \in Traces[opts] /\ rewriting \in BOOLEAN
  /\ pc \in States /\ werr \in Errors
  /\ inBlock \in Seq(0..255) /\ held \in Seq(0..255) /\ pending \in Seq(0..255)
  /\ frameSynced \in BOOLEAN /\ fsyncStartEOB \in BOOLEAN
  /\ trcCurrIdx \in Nat \cup {BadIndex} /\ trcCurrIdxSof \in Int /\ startIndex \in Int
  /\ lastWriteEndIndex \in Nat /\ lastWriteProcessedEndIndex \in Nat
  /\ exFrm \in Seq(0..255) /\ Len(exFrm) <= FrameSize /\ Len(exFrm) % 2 = 0
  /\ currSrcID \in 0..127 \cup {badCSSrcID}
  /\ i \in 0..(FrameSize - 2) /\ i % 2 = 0 /\ unpackBuf \in Seq(0..255)
  /\ out \in Seq(Deliveries)
  /\ cursor \in Nat /\ avail \in 0..Len(trace)
  /\ ret \in [n : Nat, err : Errors] /\ closed \in BOOLEAN

\* The caller may drop what it is told was processed: between calls the
\* bytes from trcCurrIdx to the end of the last block are exactly pending,
\* also after an error, and the rewriting caller goes on at trcCurrIdx.
HeldBack ==
  pc = "idle" /\ lastWriteEndIndex > 0
    => /\ lastWriteEndIndex = avail
       /\ pending = SubSeq(trace, trcCurrIdx + 1, avail)
       /\ rewriting => cursor = trcCurrIdx

\* A call of Write goes on exactly where the last one stopped: once the
\* demuxer is in sync no byte is skipped or looked at twice between calls,
\* whichever protocol the caller follows (Write's test of index against
\* lastWriteEndIndex and lastWriteProcessedEndIndex).
ResumesAtStop ==
  [][pc = "idle" /\ pc' # "idle" /\ frameSynced => trcCurrIdx' = trcCurrIdx]_vars

\* pending never grows with the trace: less than a frame of an aligned
\* stream, at most a partial sync and an odd byte of the others.
PendingBounded ==
  pc = "idle" /\ ret.err = "none"
    => Len(pending) < IF opts.FrameMemAlign THEN FrameSize ELSE 5

\* Decoders see indexes that never go back, and no two blocks of one sink
\* start at the same index (emitUnpackBuf, trcCurrIdxSof).
IndexGrows ==
  \A m, n \in 1..Len(out) :
    m < n /\ out[m].op = "data" /\ out[n].op = "data"
      => /\ out[m].index <= out[n].index
         /\ out[m].id = out[n].id => out[m].index < out[n].index

\* Every call of Write returns.
WriteReturns == pc # "idle" ~> pc = "idle"
=============================================================================
