----------------------------- MODULE DemuxProps -----------------------------
(***************************************************************************)
(* What the frame demuxer promises, stated against a reference reading of  *)
(* the CoreSight frame format that knows nothing of blocks, pending bytes  *)
(* or loops: a layout says which frames and syncs a trace is made of, and  *)
(* the reference gives the data bytes of those frames with their IDs.      *)
(***************************************************************************)
EXTENDS Demux, SequencesExt

CONSTANT Layouts    \* by options, the layouts whose bytes are Traces

FSync == <<255, 255, 255, 127>>
HSync == <<255, 127>>

\* A frame with the FSYNCs ahead of it and the pairs that follow an HSYNC.
ItemBytes(item) ==
  FlattenSeq([n \in 1..item.fsyncs |-> FSync])
    \o FlattenSeq([n \in 1..(FrameSize \div 2) |->
          (IF n \in item.hsyncs THEN HSync ELSE <<>>)
            \o SubSeq(item.frame, 2 * n - 1, 2 * n)])

ResetRun == FlattenSeq([n \in 1..(FrameSize \div 4) |-> FSync])

\* Noise, then sections of items; a reset run ends every section but the last.
LayoutBytes(l) ==
  l.noise
    \o FlattenSeq([s \in 1..Len(l.sections) |->
          (IF s > 1 THEN ResetRun ELSE <<>>)
            \o FlattenSeq([n \in 1..Len(l.sections[s]) |-> ItemBytes(l.sections[s][n])])])

ASSUME LayoutsAssumption ==
  \A o \in Options : Traces[o] = {LayoutBytes(l) : l \in Layouts[o]}

\* The data bytes of a section with their IDs, by position: an even slot is
\* an ID when its low bit is set, the flag bit of the slot delays the change
\* by one data byte or is the low bit of the data.
SectionData(items) ==
  LET bytes == FlattenSeq([n \in 1..Len(items) |-> items[n].frame])
      At(p)   == bytes[p + 1]
      Slot(p) == p % FrameSize
      Flag(p) == (At(p - Slot(p) + FrameSize - 1) \div 2^(Slot(p) \div 2)) % 2
      ID(p)   == Slot(p) % 2 = 0 /\ At(p) % 2 = 1
      Since(p) == IF Slot(p) < FrameSize - 2 /\ Flag(p) = 1 THEN p + 2 ELSE p + 1
      Sources(p) == {q \in 0..p : ID(q) /\ Since(q) <= p}
      SourceOf(p) == IF Sources(p) = {} THEN badCSSrcID ELSE At(Max(Sources(p))) \div 2
      Value(p) == IF Slot(p) % 2 = 0 THEN At(p) + Flag(p) ELSE At(p)
      Data(p)  == IF Slot(p) # FrameSize - 1 /\ ~ID(p) THEN <<SourceOf(p), Value(p)>>
                                                       ELSE <<badCSSrcID, 0>>
  IN  SelectSeq([n \in 1..Len(bytes) |-> Data(n - 1)], LAMBDA e : e[1] \in Sinks)

\* Where the sinks are to see a reset in the stream of bytes.
ResetMark == <<-1, 0>>

\* What the sinks are to receive of the trace: bytes with IDs, and resets.
Expected ==
  LET sections == (CHOOSE l \in Layouts[opts] : LayoutBytes(l) = trace).sections
  IN  FlattenSeq([s \in 1..Len(sections) |->
        (IF s > 1 THEN <<ResetMark>> ELSE <<>>) \o SectionData(sections[s])])

\* What they have received so far, byte by byte.
Received ==
  FlattenSeq([n \in 1..Len(out) |->
    CASE out[n].op = "data"  -> [k \in 1..Len(out[n].data) |-> <<out[n].id, out[n].data[k]>>]
      [] out[n].op = "reset" -> <<ResetMark>>
      [] OTHER               -> <<>>])

----------------------------------------------------------------------------
\* Every sink receives a prefix of its stream, in order, whatever the blocks
\* the trace was cut into, also when a sink or the raw handler fails on the
\* way (Write, extractFrame, unpackAndOutputFrame).  Looked at between calls:
\* what a sink was handed is never taken back.
DeliveredInOrder == pc = "idle" => IsPrefix(Received, Expected)

\* Once the whole trace has been written without an error, nothing of its
\* frames is missing and nothing is held back: the result does not depend on
\* how the trace was cut (TestTraceDemuxStreaming, TestTraceDemuxSplitSync).
DeliveredInFull ==
  pc = "idle" /\ ret.err = "none" /\ avail = Len(trace)
    => Received = Expected

\* A trace that is laid out correctly is never rejected, wherever it is cut:
\* the only errors are those of the sinks and the handler, and Close's
\* complaint when it comes before the end of the trace.
NoSpuriousError ==
  /\ werr \in {"none", "sink", "rawHandler"}
  /\ ret.err \in {"none", "sink", "rawHandler", "incompleteTail"}
  /\ ret.err = "incompleteTail" => avail < Len(trace)
=============================================================================
