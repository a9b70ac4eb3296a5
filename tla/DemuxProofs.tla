---------------------------- MODULE DemuxProofs ----------------------------
(***************************************************************************)
(* Proofs about the frame demuxer, for every frame size, every trace,      *)
(* every valid configuration and every way to cut the trace into blocks.   *)
(* In three parts: the type invariant, and that the bytes between          *)
(* trcCurrIdx and the end of the last block are exactly those that the     *)
(* demuxer has kept (HeldBack), so that nothing is lost or read twice by   *)
(* either kind of caller; that it never keeps as much as a frame and a     *)
(* partial FSYNC (PendingBounded); that the indexes handed to the sinks    *)
(* grow (IndexGrows).                                                      *)
(***************************************************************************)
EXTENDS Demux, CommonLemmas, SequenceTheorems, TLAPS

Byte == 0..255

----------------------------------------------------------------------------
(* Sequences.                                                              *)

\* What is left of s behind its first n elements.
LEMMA DropProperties ==
  ASSUME NEW S, NEW s \in Seq(S), NEW n \in 0..Len(s)
  PROVE  /\ Drop(s, n) \in Seq(S)
         /\ Len(Drop(s, n)) = Len(s) - n
         /\ \A j \in 1..(Len(s) - n) : Drop(s, n)[j] = s[n + j]
<1>1. \A j \in (n + 1)..Len(s) : s[j] \in S
  BY ElementOfSeq
<1>2. Len(s) \in Nat
  BY LenProperties
<1>3. QED  BY <1>1, <1>2, SubSeqProperties DEF Drop

\* The first n elements of s.
LEMMA TakeProperties ==
  ASSUME NEW S, NEW s \in Seq(S), NEW n \in 0..Len(s)
  PROVE  /\ Take(s, n) \in Seq(S)
         /\ Len(Take(s, n)) = n
         /\ \A j \in 1..n : Take(s, n)[j] = s[j]
<1>1. \A j \in 1..n : s[j] \in S
  BY ElementOfSeq
<1>2. Len(s) \in Nat
  BY LenProperties
<1>3. QED  BY <1>1, <1>2, SubSeqProperties DEF Take

\* Splitting a block at limit and joining the parts gives the block again.
LEMMA TakeDrop ==
  ASSUME NEW S, NEW s \in Seq(S), NEW n \in 0..Len(s)
  PROVE  Take(s, n) \o Drop(s, n) = s
<1>1. /\ Take(s, n) \in Seq(S) /\ Len(Take(s, n)) = n
      /\ \A j \in 1..n : Take(s, n)[j] = s[j]
  BY TakeProperties
<1>2. /\ Drop(s, n) \in Seq(S) /\ Len(Drop(s, n)) = Len(s) - n
      /\ \A j \in 1..(Len(s) - n) : Drop(s, n)[j] = s[n + j]
  BY DropProperties
<1>3. Len(s) \in Nat
  BY LenProperties
<1>4. /\ Take(s, n) \o Drop(s, n) \in Seq(S)
      /\ Len(Take(s, n) \o Drop(s, n)) = Len(s)
      /\ \A j \in 1..Len(s) : (Take(s, n) \o Drop(s, n))[j]
                                = IF j <= n THEN Take(s, n)[j] ELSE Drop(s, n)[j - n]
  BY <1>1, <1>2, <1>3, ConcatProperties
<1>5. \A j \in 1..Len(s) : (Take(s, n) \o Drop(s, n))[j] = s[j]
  <2> TAKE j \in 1..Len(s)
  <2>2. CASE j <= n
    BY <2>2, <1>1, <1>3, <1>4
  <2>3. CASE j > n
    <3>1. j - n \in 1..(Len(s) - n)
      BY <2>3, <1>3
    <3>2. Drop(s, n)[j - n] = s[n + (j - n)]
      BY <3>1, <1>2
    <3>3. n + (j - n) = j
      BY <1>3
    <3>4. QED  BY <2>3, <3>2, <3>3, <1>3, <1>4
  <2>4. j <= n \/ j > n
    BY <1>3
  <2>5. QED  BY <2>2, <2>3, <2>4, Zenon
<1>6. QED  BY <1>4, <1>5, SeqEqual

\* Advancing in the open part of a block leaves the held part alone.
LEMMA DropConcat ==
  ASSUME NEW S, NEW s \in Seq(S), NEW t \in Seq(S), NEW n \in 0..Len(s)
  PROVE  Drop(s \o t, n) = Drop(s, n) \o t
<1> DEFINE lhs == Drop(s \o t, n)
           rhs == Drop(s, n) \o t
<1>1. Len(s) \in Nat /\ Len(t) \in Nat
  BY LenProperties
<1>2. /\ s \o t \in Seq(S) /\ Len(s \o t) = Len(s) + Len(t)
      /\ \A j \in 1..(Len(s) + Len(t)) :
           (s \o t)[j] = IF j <= Len(s) THEN s[j] ELSE t[j - Len(s)]
  BY ConcatProperties
<1>3. /\ lhs \in Seq(S) /\ Len(lhs) = Len(s) + Len(t) - n
      /\ \A j \in 1..(Len(s) + Len(t) - n) : lhs[j] = (s \o t)[n + j]
  <2> DEFINE u == s \o t
  <2>1. u \in Seq(S) /\ Len(u) = Len(s) + Len(t)
    BY <1>2
  <2> HIDE DEF u
  <2>2. n \in 0..Len(u)
    BY <1>1, <2>1
  <2>3. /\ Drop(u, n) \in Seq(S) /\ Len(Drop(u, n)) = Len(u) - n
        /\ \A j \in 1..(Len(u) - n) : Drop(u, n)[j] = u[n + j]
    BY <2>1, <2>2, DropProperties
  <2>4. QED  BY <2>1, <2>3 DEF u
<1>4. /\ Drop(s, n) \in Seq(S) /\ Len(Drop(s, n)) = Len(s) - n
      /\ \A j \in 1..(Len(s) - n) : Drop(s, n)[j] = s[n + j]
  BY DropProperties
<1>5. /\ rhs \in Seq(S) /\ Len(rhs) = Len(s) - n + Len(t)
      /\ \A j \in 1..(Len(s) - n + Len(t)) :
           rhs[j] = IF j <= Len(s) - n THEN Drop(s, n)[j] ELSE t[j - (Len(s) - n)]
  <2> DEFINE u == Drop(s, n)
  <2>1. u \in Seq(S) /\ Len(u) = Len(s) - n
    BY <1>4
  <2> HIDE DEF u
  <2>2. /\ u \o t \in Seq(S) /\ Len(u \o t) = Len(u) + Len(t)
        /\ \A j \in 1..(Len(u) + Len(t)) :
             (u \o t)[j] = IF j <= Len(u) THEN u[j] ELSE t[j - Len(u)]
    BY <2>1, ConcatProperties
  <2>3. QED  BY <2>1, <2>2 DEF u
<1> HIDE DEF lhs, rhs
<1>6. \A j \in 1..Len(lhs) : lhs[j] = rhs[j]
  <2> TAKE j \in 1..Len(lhs)
  <2>2. lhs[j] = IF n + j <= Len(s) THEN s[n + j] ELSE t[n + j - Len(s)]
    BY <1>1, <1>2, <1>3
  <2>3. CASE n + j <= Len(s)
    BY <2>2, <2>3, <1>1, <1>3, <1>4, <1>5
  <2>4. CASE n + j > Len(s)
    <3>1. j - (Len(s) - n) = n + j - Len(s)
      BY <1>1, <1>3
    <3>2. QED  BY <2>2, <2>4, <3>1, <1>1, <1>3, <1>5
  <2>5. QED  BY <2>3, <2>4, <1>1, <1>3
<1>7. Len(lhs) = Len(rhs)
  BY <1>1, <1>3, <1>5
<1>8. lhs = rhs
  BY <1>3, <1>5, <1>6, <1>7, SeqEqual
<1>9. QED  BY <1>8 DEF lhs, rhs

\* A part of the trace, advanced by n bytes, is a later part of the trace.
LEMMA DropSubSeq ==
  ASSUME NEW S, NEW t \in Seq(S), NEW b \in 0..Len(t), NEW a \in 0..b, NEW n \in 0..(b - a)
  PROVE  /\ SubSeq(t, a + 1, b) \in Seq(S) /\ Len(SubSeq(t, a + 1, b)) = b - a
         /\ Drop(SubSeq(t, a + 1, b), n) = SubSeq(t, a + n + 1, b)
<1> DEFINE s == SubSeq(t, a + 1, b)
           r == SubSeq(t, a + n + 1, b)
<1>1. Len(t) \in Nat
  BY LenProperties
<1>2. \A j \in (a + 1)..b : t[j] \in S
  BY <1>1, ElementOfSeq
<1>3. /\ s \in Seq(S) /\ Len(s) = b - a
      /\ \A j \in 1..(b - a) : s[j] = t[a + j]
  BY <1>1, <1>2, SubSeqProperties
<1>4. /\ r \in Seq(S) /\ Len(r) = b - (a + n)
      /\ \A j \in 1..(b - (a + n)) : r[j] = t[a + n + j]
  BY <1>1, <1>2, SubSeqProperties
<1> HIDE DEF s, r
<1>5. /\ Drop(s, n) \in Seq(S) /\ Len(Drop(s, n)) = b - a - n
      /\ \A j \in 1..(b - a - n) : Drop(s, n)[j] = s[n + j]
  <2>1. s \in Seq(S) /\ Len(s) = b - a
    BY <1>3
  <2>2. n \in 0..Len(s)
    BY <2>1
  <2>3. /\ Drop(s, n) \in Seq(S) /\ Len(Drop(s, n)) = Len(s) - n
        /\ \A j \in 1..(Len(s) - n) : Drop(s, n)[j] = s[n + j]
    BY ONLY <2>1, <2>2, DropProperties
  <2>4. QED  BY <2>1, <2>3
<1>6. \A j \in 1..Len(r) : Drop(s, n)[j] = r[j]
  <2> TAKE j \in 1..Len(r)
  <2>2. Drop(s, n)[j] = s[n + j]
    BY <1>1, <1>4, <1>5
  <2>3. s[n + j] = t[a + (n + j)]
    BY <1>1, <1>3, <1>4
  <2>4. a + (n + j) = a + n + j
    BY <1>1, <1>4
  <2>5. QED  BY <2>2, <2>3, <2>4, <1>1, <1>4
<1>7. Len(Drop(s, n)) = Len(r)
  BY <1>1, <1>4, <1>5
<1>8. Drop(s, n) = r
  BY <1>4, <1>5, <1>6, <1>7, SeqEqual
<1>9. QED  BY <1>3, <1>8 DEF s, r

----------------------------------------------------------------------------
(* The helpers of the demuxer stay inside the block they are given.        *)

\* A part of a sequence has the expected length.
LEMMA PartLen ==
  ASSUME NEW S, NEW t \in Seq(S), NEW b \in 0..Len(t), NEW a \in 0..b
  PROVE  SubSeq(t, a + 1, b) \in Seq(S) /\ Len(SubSeq(t, a + 1, b)) = b - a
<1>1. Len(t) \in Nat
  BY LenProperties
<1>2. 0 \in 0..(b - a)
  BY <1>1
<1>3. QED  BY <1>2, DropSubSeq

\* Two adjacent parts of the trace are one part of it, also behind the bytes
\* that are skipped at its start.
LEMMA JoinParts ==
  ASSUME NEW t \in Seq(Byte), NEW e \in 0..Len(t), NEW c \in 0..e, NEW a \in 0..c
  PROVE  SubSeq(t, a + 1, c) \o SubSeq(t, c + 1, e) = SubSeq(t, a + 1, e)
<1>1. Len(t) \in Nat
  BY LenProperties
<1>2. a + 1 \in 1..(Len(t) + 1) /\ c \in (a + 1 - 1)..Len(t) /\ e \in c..Len(t)
  BY <1>1
<1>3. QED  BY <1>2, ConcatAdjacentSubSeq

\* Dropping the first bytes of a part of the trace leaves a later part of it.
LEMMA SkipPart ==
  ASSUME NEW t \in Seq(Byte), NEW e \in 0..Len(t), NEW a \in 0..e, NEW n \in 0..(e - a)
  PROVE  /\ Drop(SubSeq(t, a + 1, e), n) = SubSeq(t, a + n + 1, e)
         /\ a + n \in 0..e
<1>1. Len(t) \in Nat
  BY LenProperties
<1>2. a + n \in 0..e
  BY <1>1
<1>3. QED  BY <1>2, DropSubSeq

\* The sync patterns are sequences of bytes of known length.
LEMMA ByteSeqs ==
  /\ FSyncPattern \in Seq(Byte) /\ Len(FSyncPattern) = 4
  /\ HSyncPattern \in Seq(Byte) /\ Len(HSyncPattern) = 2
BY DEF FSyncPattern, HSyncPattern, Byte

\* findfirstFSync never skips past the end of the block.
LEMMA FindRange ==
  ASSUME NEW s \in Seq(Byte)
  PROVE  findfirstFSync(s) \in 0..Len(s)
<1> DEFINE ends == {n \in 0..3 : EndsWith(s, Take(FSyncPattern, n))}
<1>1. Len(s) \in Nat
  BY LenProperties
<1>2. CASE FSyncsIn(s) # {}
  <2>1. FSyncsIn(s) \in SUBSET (0..Len(s))
    BY DEF FSyncsIn
  <2>2. FSyncsIn(s) \in SUBSET Nat
    BY <2>1, <1>1
  <2>3. Min(FSyncsIn(s)) \in FSyncsIn(s)
    BY <1>2, <2>2, MinMember
  <2>4. QED  BY <1>2, <2>1, <2>3 DEF findfirstFSync
<1>3. CASE FSyncsIn(s) = {}
  <2>1. 0 \in ends
    <3>1. Take(FSyncPattern, 0) = <<>>
      BY SubSeqEmpty DEF Take
    <3>2. Drop(s, Len(s) - 0) = <<>>
      BY <1>1, SubSeqEmpty DEF Drop
    <3>3. Len(<<>>) = 0
      OBVIOUS
    <3>4. QED  BY <3>1, <3>2, <3>3, <1>1 DEF EndsWith
  <2>2. Max(ends) \in ends
    <3>1. ends \in SUBSET (0..3) /\ ends # {} /\ 3 \in Nat
      BY <2>1
    <3>2. QED  BY <3>1, MaxMember
  <2>3. \A n \in ends : n <= Len(s)
    <3> TAKE n \in ends
    <3>1. n \in 0..Len(FSyncPattern)
      BY ByteSeqs
    <3>2. Len(Take(FSyncPattern, n)) = n
      BY <3>1, ByteSeqs, TakeProperties
    <3>3. QED  BY <3>2 DEF EndsWith
  <2>4. findfirstFSync(s) = Len(s) - Max(ends)
    BY <1>3 DEF findfirstFSync
  <2> HIDE DEF ends
  <2>5. Max(ends) \in 0..3 /\ Max(ends) <= Len(s)
    BY <2>2, <2>3 DEF ends
  <2>6. QED  BY <2>4, <2>5, <1>1
<1>4. QED  BY <1>2, <1>3

\* countLeadingFSyncs counts FSYNCs that are in the block.
LEMMA CountRange ==
  ASSUME NEW s \in Seq(Byte)
  PROVE  countLeadingFSyncs(s) \in Nat /\ 4 * countLeadingFSyncs(s) <= Len(s)
<1> DEFINE S == {n \in 0..(Len(s) \div 4) :
                   \A k \in 0..(n - 1) : StartsWith(Drop(s, 4 * k), FSyncPattern)}
<1>1. Len(s) \in Nat
  BY LenProperties
<1>2. Len(s) \div 4 \in Nat /\ 4 * (Len(s) \div 4) <= Len(s)
  BY <1>1
<1>3. S \in SUBSET (0..(Len(s) \div 4))
  OBVIOUS
<1>4. 0 \in S
  BY <1>2
<1>5. countLeadingFSyncs(s) = Max(S)
  BY DEF countLeadingFSyncs
<1> HIDE DEF S
<1>6. Max(S) \in S
  BY <1>2, <1>3, <1>4, MaxMember
<1>7. Max(S) \in 0..(Len(s) \div 4)
  BY <1>3, <1>6
<1>8. QED  BY <1>1, <1>2, <1>5, <1>7

\* partialSyncLen holds back no more than there is.
LEMMA PartialRange ==
  ASSUME NEW s \in Seq(Byte)
  PROVE  partialSyncLen(s) \in 0..Len(s)
<1> DEFINE most == IF opts.HasFsyncs THEN 3 ELSE IF opts.HasHsyncs THEN 1 ELSE 0
           S == {n \in 0..most : n <= Len(s) /\ \A k \in (Len(s) - n + 1)..Len(s) : s[k] = 255}
<1>1. Len(s) \in Nat
  BY LenProperties
<1>2. most \in Nat
  OBVIOUS
<1>3. 0 \in S
  BY <1>1
<1>4. S \in SUBSET (0..most) /\ \A n \in S : n <= Len(s)
  OBVIOUS
<1>5. partialSyncLen(s) = Max(S)
  BY DEF partialSyncLen
<1> HIDE DEF S, most
<1>6. Max(S) \in S
  BY <1>2, <1>3, <1>4, MaxMember
<1>7. Max(S) \in 0..most /\ Max(S) <= Len(s)
  BY <1>4, <1>6
<1>8. QED  BY <1>1, <1>2, <1>5, <1>7

\* limit lies inside the block.
LEMMA LimitRange ==
  ASSUME NEW s \in Seq(Byte)
  PROVE  Limit(s) \in 0..Len(s)
<1>1. Len(s) \in Nat
  BY LenProperties
<1>2. partialSyncLen(s) \in 0..Len(s)
  BY PartialRange
<1>3. QED  BY <1>1, <1>2 DEF Limit

----------------------------------------------------------------------------
(* The inductive invariant.                                                *)

\* During a call the rest of the block is the trace from trcCurrIdx on.
InCall ==
  pc # "idle" =>
    /\ trcCurrIdx \in 0..avail
    /\ inBlock \o held = SubSeq(trace, trcCurrIdx + 1, avail)
    /\ cursor < avail
    /\ rewriting => cursor <= trcCurrIdx

\* Before the first call nothing has been seen.
Fresh ==
  /\ avail = 0 /\ cursor = 0 /\ pending = <<>> /\ ~frameSynced
  /\ lastWriteEndIndex = 0

\* After a call pending is the trace from trcCurrIdx on, the rewriting caller
\* stands at trcCurrIdx and the other one at the end of its last block; for
\* the latter, lastWriteProcessedEndIndex says the call processed everything
\* only if nothing is pending.
Returned ==
  /\ lastWriteEndIndex = avail /\ avail > 0
  /\ trcCurrIdx \in 0..avail
  /\ pending = SubSeq(trace, trcCurrIdx + 1, avail)
  /\ rewriting => cursor = trcCurrIdx /\ lastWriteProcessedEndIndex = cursor
  /\ ~rewriting => cursor = avail /\ (lastWriteProcessedEndIndex = avail => pending = <<>>)

\* The frame being unpacked is whole.
Unpacking == pc = "unpack" => Len(exFrm) = FrameSize

IInv == TypeOK /\ InCall /\ (pc = "idle" => Fresh \/ Returned) /\ Unpacking

\* The trace is a sequence of bytes, of which avail have been handed over.
LEMMA TraceTyped ==
  ASSUME TypeOK
  PROVE  trace \in Seq(Byte) /\ avail \in 0..Len(trace) /\ Len(trace) \in Nat /\ avail \in Nat
<1>1. opts \in Options /\ trace \in Traces[opts] /\ avail \in 0..Len(trace)
  BY DEF TypeOK
<1>2. trace \in Seq(Byte)
  BY <1>1, TracesAssumption DEF Byte
<1>3. Len(trace) \in Nat
  BY <1>2, LenProperties
<1>4. QED  BY <1>1, <1>2, <1>3

\* Consuming n bytes of the open part keeps block and index in step.
LEMMA Advance ==
  ASSUME TypeOK, InCall, pc # "idle", NEW n \in 0..Len(inBlock), advanceInput(n),
         UNCHANGED <<held, trace, avail>>
  PROVE  /\ inBlock' \in Seq(Byte)
         /\ trcCurrIdx' \in 0..avail /\ trcCurrIdx' >= trcCurrIdx
         /\ (inBlock \o held)' = SubSeq(trace', trcCurrIdx' + 1, avail')
<1>1. /\ inBlock \in Seq(Byte) /\ held \in Seq(Byte) /\ trace \in Seq(Byte)
      /\ avail \in 0..Len(trace) /\ trcCurrIdx \in 0..avail
      /\ inBlock \o held = SubSeq(trace, trcCurrIdx + 1, avail)
  BY TraceTyped DEF TypeOK, InCall, Byte
<1>2. inBlock' = Drop(inBlock, n) /\ trcCurrIdx' = trcCurrIdx + n
  BY DEF advanceInput
<1>3. Len(inBlock) \in Nat /\ Len(held) \in Nat /\ Len(trace) \in Nat
  BY <1>1, LenProperties
<1>4. Len(inBlock \o held) = Len(inBlock) + Len(held)
  BY <1>1, ConcatProperties
<1>5. Len(SubSeq(trace, trcCurrIdx + 1, avail)) = avail - trcCurrIdx
  <2>1. 0 \in 0..(avail - trcCurrIdx)
    BY <1>1, <1>3
  <2>2. QED  BY <1>1, <2>1, DropSubSeq
<1>6. n \in 0..(avail - trcCurrIdx)
  BY <1>1, <1>3, <1>4, <1>5
<1>7. Drop(inBlock \o held, n) = Drop(inBlock, n) \o held
  BY <1>1, DropConcat
<1>8. Drop(SubSeq(trace, trcCurrIdx + 1, avail), n) = SubSeq(trace, trcCurrIdx + n + 1, avail)
  BY <1>1, <1>6, DropSubSeq
<1>9. inBlock' \o held' = SubSeq(trace, trcCurrIdx' + 1, avail)
  BY <1>1, <1>2, <1>7, <1>8
<1>10. Drop(inBlock, n) \in Seq(Byte)
  BY <1>1, DropProperties
<1>11. QED  BY <1>1, <1>2, <1>3, <1>6, <1>9, <1>10

\* The inductive invariant holds at the start.
LEMMA InitIInv == Init => IInv
<1> SUFFICES ASSUME Init PROVE IInv
  OBVIOUS
<1>1. TypeOK
  <2>1. opts \in Options /\ trace \in Traces[opts] /\ rewriting \in BOOLEAN
        /\ frameSynced \in BOOLEAN /\ fsyncStartEOB \in BOOLEAN /\ closed \in BOOLEAN
    BY Zenon DEF Init
  <2>2. pc \in States /\ werr \in Errors /\ ret \in [n : Nat, err : Errors]
    BY DEF Init, States, Errors
  <2>3. /\ inBlock \in Seq(0..255) /\ held \in Seq(0..255) /\ pending \in Seq(0..255)
        /\ unpackBuf \in Seq(0..255) /\ out \in Seq(Deliveries)
    BY EmptySeq DEF Init
  <2>4. exFrm \in Seq(0..255) /\ Len(exFrm) <= FrameSize /\ Len(exFrm) % 2 = 0
    BY EmptySeq, FrameSizeAssumption DEF Init
  <2>5. avail \in 0..Len(trace)
    BY <2>1, TracesAssumption, LenProperties DEF Init
  <2>6. QED
    BY <2>1, <2>2, <2>3, <2>4, <2>5, FrameSizeAssumption DEF Init, TypeOK, BadIndex, badCSSrcID
<1>2. Fresh /\ pc = "idle"
  BY DEF Init, Fresh
<1>3. QED  BY <1>1, <1>2 DEF IInv, InCall, Unpacking

\* The same for the whole of InCall.
LEMMA AdvanceInCall ==
  ASSUME TypeOK, InCall, pc # "idle", NEW n \in 0..Len(inBlock), advanceInput(n),
         UNCHANGED <<held, trace, avail, cursor, rewriting>>
  PROVE  inBlock' \in Seq(Byte) /\ trcCurrIdx' \in Nat /\ InCall'
<1>1. /\ inBlock' \in Seq(Byte)
      /\ trcCurrIdx' \in 0..avail /\ trcCurrIdx' >= trcCurrIdx
      /\ (inBlock \o held)' = SubSeq(trace', trcCurrIdx' + 1, avail')
  BY Advance
<1>2. /\ trcCurrIdx \in 0..avail /\ cursor \in Nat /\ avail \in Nat
      /\ cursor < avail /\ (rewriting => cursor <= trcCurrIdx)
  <2>1. Len(trace) \in Nat
    BY TraceTyped
  <2>2. QED  BY <2>1 DEF TypeOK, InCall
<1>3. trcCurrIdx' \in 0..avail' /\ cursor' < avail'
  BY <1>1, <1>2
<1>4. rewriting' => cursor' <= trcCurrIdx'
  BY <1>1, <1>2
<1>5. QED  BY <1>1, <1>2, <1>3, <1>4 DEF InCall

\* The steps that leave the block alone.
LEMMA InCallStays ==
  ASSUME InCall, pc # "idle", UNCHANGED <<trcCurrIdx, avail, inBlock, held, trace, cursor, rewriting>>
  PROVE  InCall'
BY DEF InCall

\* Joined bytes are bytes.
LEMMA JoinBytes ==
  ASSUME NEW s \in Seq(Byte), NEW t \in Seq(Byte)
  PROVE  s \o t \in Seq(Byte) /\ Len(s \o t) = Len(s) + Len(t)
BY ConcatProperties

\* One more byte makes a sequence of bytes.
LEMMA AppendByte ==
  ASSUME NEW s \in Seq(Byte), NEW b \in Byte
  PROVE  Append(s, b) \in Seq(Byte) /\ Append(s, b) # <<>>
BY AppendProperties

\* Frames have an even number of bytes, so there is room for a pair.
LEMMA RoomForPair ==
  ASSUME NEW n \in Nat, n < FrameSize, n % 2 = 0
  PROVE  n + 2 <= FrameSize /\ (n + 2) % 2 = 0
BY FrameSizeAssumption

----------------------------------------------------------------------------
(* One lemma per action.                                                   *)

USE DEF Byte

\* The head of the loop only moves bytes between the open and the held part.
LEMMA NextTurnIInv == IInv /\ NextTurn => IInv'
<1> SUFFICES ASSUME IInv, NextTurn PROVE IInv'
  OBVIOUS
<1> DEFINE block == inBlock \o held
           limit == Limit(block)
           cut == IF WorthATurn(limit) THEN limit ELSE Len(block)
<1>1. block \in Seq(Byte) /\ Len(block) \in Nat
  BY ConcatProperties, LenProperties DEF IInv, TypeOK
<1>2. cut \in 0..Len(block)
  <2> HIDE DEF block
  <2>1. limit \in 0..Len(block)
    BY <1>1, LimitRange
  <2>2. QED  BY <1>1, <2>1
<1>3. Take(block, cut) \o Drop(block, cut) = block
  BY <1>1, <1>2, TakeDrop
<1>4. Take(block, cut) \in Seq(Byte) /\ Drop(block, cut) \in Seq(Byte)
  BY <1>1, <1>2, TakeProperties, DropProperties
<1>5. inBlock' = Take(block, cut) /\ held' = Drop(block, cut)
  <2>1. CASE WorthATurn(limit)
    BY <2>1 DEF NextTurn
  <2>2. CASE ~WorthATurn(limit)
    <3>1. Drop(block, Len(block)) = <<>>
      BY <1>1, SubSeqEmpty DEF Drop
    <3>2. QED  BY <2>2, <3>1 DEF NextTurn
  <2>3. QED  BY <2>1, <2>2
<1>6. pc = "loop" /\ pc' \in {"return", "aligned", "leading"}
  BY DEF NextTurn
<1> HIDE DEF block, limit, cut
<1>7. TypeOK'
  BY <1>4, <1>5, <1>6
  DEF IInv, TypeOK, NextTurn, States, syncVars, frameVars, unpackVars, pendVars, callVars
<1>8. InCall'
  <2>1. inBlock' \o held' = inBlock \o held
    BY <1>3, <1>5 DEF block
  <2>2. QED  BY <1>6, <2>1 DEF IInv, InCall, NextTurn, callVars
<1>9. QED  BY <1>6, <1>7, <1>8 DEF IInv, Unpacking

\* A run of FSYNCs is consumed as a whole, or left where it is.
LEMMA ConsumeResetFSyncsIInv == IInv /\ ConsumeResetFSyncs => IInv'
<1> SUFFICES ASSUME IInv, ConsumeResetFSyncs PROVE IInv'
  OBVIOUS
<1> DEFINE n == 4 * countLeadingFSyncs(inBlock)
<1>1. n \in 0..Len(inBlock)
  <2>1. inBlock \in Seq(Byte) /\ Len(inBlock) \in Nat
    BY LenProperties DEF IInv, TypeOK
  <2>2. QED  BY <2>1, CountRange
<1>2. pc = "aligned" /\ pc' \in {"return", "alignedFrame"} /\ UNCHANGED <<held, trace, avail, cursor, rewriting>>
  BY DEF ConsumeResetFSyncs, Fail, callVars
<1>3. advanceInput(n) \/ UNCHANGED <<inBlock, trcCurrIdx>>
  BY DEF ConsumeResetFSyncs
<1> HIDE DEF n
<1>4. inBlock' \in Seq(Byte) /\ trcCurrIdx' \in Nat \cup {BadIndex} /\ InCall'
  <2>1. CASE advanceInput(n)
    BY <1>1, <1>2, <2>1, AdvanceInCall DEF IInv
  <2>2. CASE UNCHANGED <<inBlock, trcCurrIdx>>
    BY <1>2, <2>2, InCallStays DEF IInv, TypeOK
  <2>3. QED  BY <1>3, <2>1, <2>2
<1>5. out' \in Seq(Deliveries) /\ currSrcID' \in 0..127 \cup {badCSSrcID}
      /\ exFrm' \in Seq(Byte) /\ Len(exFrm') <= FrameSize /\ Len(exFrm') % 2 = 0
      /\ trcCurrIdxSof' \in Int
  <2>1. CASE UNCHANGED <<frameVars, out>>
    BY <2>1 DEF IInv, TypeOK, frameVars
  <2>2. CASE ResetIDs
    <3>1. [op |-> "reset", index |-> trcCurrIdx] \in Deliveries
      BY DEF IInv, TypeOK, Deliveries, BadIndex
    <3>2. out' \in Seq(Deliveries)
      BY <2>2, <3>1, AppendProperties DEF IInv, TypeOK, ResetIDs
    <3>3. exFrm' = <<>> /\ Len(exFrm') = 0
      BY <2>2 DEF ResetIDs
    <3>4. QED  BY <2>2, <3>2, <3>3, EmptySeq, FrameSizeAssumption DEF ResetIDs, BadIndex, badCSSrcID
  <2>3. QED  BY <2>1, <2>2 DEF ConsumeResetFSyncs
<1>6. werr' \in Errors
  BY DEF ConsumeResetFSyncs, Fail, IInv, TypeOK, Errors
<1>7. TypeOK'
  BY <1>2, <1>4, <1>5, <1>6
  DEF IInv, TypeOK, ConsumeResetFSyncs, States, syncVars, unpackVars, pendVars, callVars
<1>8. QED  BY <1>2, <1>4, <1>7 DEF IInv, Unpacking

\* A whole aligned frame is copied and consumed.
LEMMA ExtractAlignedFrameIInv == IInv /\ ExtractAlignedFrame => IInv'
<1> SUFFICES ASSUME IInv, ExtractAlignedFrame PROVE IInv'
  OBVIOUS
<1>1. pc # "idle" /\ pc' \in {"return", "extracted"} /\ UNCHANGED <<held, trace, avail, cursor, rewriting>>
  BY DEF ExtractAlignedFrame, Fail, callVars
<1>2. inBlock \in Seq(Byte) /\ Len(inBlock) \in Nat
  BY LenProperties DEF IInv, TypeOK
<1>3. CASE UNCHANGED <<inBlock, trcCurrIdx, frameVars>>
  <2>1. InCall'
    BY <1>1, <1>3, InCallStays DEF IInv
  <2>2. TypeOK'
    BY <1>1, <1>3 DEF IInv, TypeOK, ExtractAlignedFrame, Fail, States, Errors,
                      syncVars, frameVars, unpackVars, pendVars, callVars
  <2>3. QED  BY <1>1, <2>1, <2>2 DEF IInv, Unpacking
<1>4. CASE /\ Len(inBlock) >= FrameSize
           /\ trcCurrIdxSof' = trcCurrIdx /\ exFrm' = Take(inBlock, FrameSize)
           /\ advanceInput(FrameSize) /\ UNCHANGED <<werr, currSrcID>>
  <2>1. FrameSize \in 0..Len(inBlock)
    BY <1>2, <1>4, FrameSizeAssumption
  <2>2. inBlock' \in Seq(Byte) /\ trcCurrIdx' \in Nat \cup {BadIndex} /\ InCall'
    BY <1>1, <1>4, <2>1, AdvanceInCall DEF IInv
  <2>3. exFrm' \in Seq(Byte) /\ Len(exFrm') = FrameSize
    BY <1>2, <1>4, <2>1, TakeProperties
  <2>4. FrameSize % 2 = 0
    BY FrameSizeAssumption
  <2>5. TypeOK'
    BY <1>1, <1>4, <2>2, <2>3, <2>4, FrameSizeAssumption
    DEF IInv, TypeOK, ExtractAlignedFrame, States, BadIndex, syncVars, unpackVars, pendVars, callVars
  <2>6. QED  BY <1>1, <2>2, <2>5 DEF IInv, Unpacking
<1>5. QED  BY <1>3, <1>4 DEF ExtractAlignedFrame

\* The FSYNCs between frames, a half one included, lie in the open part.
LEMMA ConsumeLeadingFSyncsIInv == IInv /\ ConsumeLeadingFSyncs => IInv'
<1> SUFFICES ASSUME IInv, ConsumeLeadingFSyncs PROVE IInv'
  OBVIOUS
<1> DEFINE resume == fsyncStartEOB /\ Len(inBlock) >= 2
           from   == IF resume THEN 2 ELSE 0
           syncs  == from + 4 * countLeadingFSyncs(Drop(inBlock, from))
           half   == Drop(inBlock, syncs) = FSyncStart
           n      == syncs + IF half THEN 2 ELSE 0
<1>1. pc = "leading" /\ pc' \in {"return", "pairs"} /\ UNCHANGED <<held, trace, avail, cursor, rewriting>>
  BY DEF ConsumeLeadingFSyncs, Fail, callVars
<1>2. inBlock \in Seq(Byte) /\ Len(inBlock) \in Nat
  BY LenProperties DEF IInv, TypeOK
<1>3. advanceInput(n) \/ UNCHANGED <<inBlock, trcCurrIdx>>
  BY DEF ConsumeLeadingFSyncs
<1>4. from \in 0..Len(inBlock)
  BY <1>2
<1> HIDE DEF from
<1>5. syncs \in 0..Len(inBlock)
  <2>1. Drop(inBlock, from) \in Seq(Byte) /\ Len(Drop(inBlock, from)) = Len(inBlock) - from
    BY <1>2, <1>4, DropProperties
  <2>2. /\ countLeadingFSyncs(Drop(inBlock, from)) \in Nat
        /\ 4 * countLeadingFSyncs(Drop(inBlock, from)) <= Len(Drop(inBlock, from))
    BY <2>1, CountRange
  <2>3. QED  BY <1>2, <1>4, <2>1, <2>2
<1> HIDE DEF syncs
<1>6. n \in 0..Len(inBlock)
  <2>1. Len(Drop(inBlock, syncs)) = Len(inBlock) - syncs
    BY <1>2, <1>5, DropProperties
  <2>2. Len(FSyncStart) = 2
    BY DEF FSyncStart
  <2>3. half => Len(inBlock) - syncs = 2
    BY <2>1, <2>2
  <2>4. QED  BY <1>2, <1>5, <2>3
<1> HIDE DEF n
<1>7. inBlock' \in Seq(Byte) /\ trcCurrIdx' \in Nat \cup {BadIndex} /\ InCall'
  <2>1. CASE advanceInput(n)
    BY <1>1, <1>6, <2>1, AdvanceInCall DEF IInv
  <2>2. CASE UNCHANGED <<inBlock, trcCurrIdx>>
    BY <1>1, <2>2, InCallStays DEF IInv, TypeOK
  <2>3. QED  BY <1>3, <2>1, <2>2
<1>8. fsyncStartEOB' \in BOOLEAN /\ werr' \in Errors
  BY DEF ConsumeLeadingFSyncs, Fail, IInv, TypeOK, Errors
<1>9. TypeOK'
  BY <1>1, <1>7, <1>8
  DEF IInv, TypeOK, ConsumeLeadingFSyncs, States, frameVars, unpackVars, pendVars, callVars
<1>10. QED  BY <1>1, <1>7, <1>9 DEF IInv, Unpacking

\* A pair goes into the frame, or is dropped, or is refused.
LEMMA ExtractPairIInv == IInv /\ ExtractPair => IInv'
<1> SUFFICES ASSUME IInv, ExtractPair PROVE IInv'
  OBVIOUS
<1> DEFINE pair == Take(inBlock, 2)
<1>1. pc = "pairs" /\ pc' \in {"return", "pairs"} /\ UNCHANGED <<held, trace, avail, cursor, rewriting>>
  BY DEF ExtractPair, HSyncDropped, Fail, callVars
<1>2. inBlock \in Seq(Byte) /\ Len(inBlock) \in Nat /\ 2 \in 0..Len(inBlock)
  BY LenProperties DEF IInv, TypeOK, ExtractPair
<1>3. advanceInput(2) \/ UNCHANGED <<inBlock, trcCurrIdx>>
  BY DEF ExtractPair, HSyncDropped
<1>4. inBlock' \in Seq(Byte) /\ trcCurrIdx' \in Nat \cup {BadIndex} /\ InCall'
  <2>1. CASE advanceInput(2)
    BY <1>1, <1>2, <2>1, AdvanceInCall DEF IInv
  <2>2. CASE UNCHANGED <<inBlock, trcCurrIdx>>
    BY <1>1, <2>2, InCallStays DEF IInv, TypeOK
  <2>3. QED  BY <1>3, <2>1, <2>2
<1>5. exFrm' \in Seq(Byte) /\ Len(exFrm') <= FrameSize /\ Len(exFrm') % 2 = 0
  <2>1. CASE exFrm' = exFrm
    BY <2>1 DEF IInv, TypeOK
  <2>2. CASE exFrm' = exFrm \o pair
    <3>1. pair \in Seq(Byte) /\ Len(pair) = 2
      BY <1>2, TakeProperties
    <3> HIDE DEF pair
    <3>2. /\ exFrm \in Seq(Byte) /\ Len(exFrm) \in Nat
          /\ Len(exFrm) < FrameSize /\ Len(exFrm) % 2 = 0
      BY LenProperties DEF IInv, TypeOK, ExtractPair
    <3>3. exFrm \o pair \in Seq(Byte) /\ Len(exFrm \o pair) = Len(exFrm) + Len(pair)
      BY <3>1, <3>2, JoinBytes, Zenon
    <3>4. Len(exFrm') = Len(exFrm) + 2
      BY <2>2, <3>1, <3>3
    <3>5. QED  BY <2>2, <3>2, <3>3, <3>4, RoomForPair
  <2>3. QED  BY <2>1, <2>2 DEF ExtractPair, HSyncDropped
<1>6. trcCurrIdxSof' \in Int /\ werr' \in Errors
  BY DEF ExtractPair, HSyncDropped, Fail, IInv, TypeOK, Errors, BadIndex
<1>7. TypeOK'
  BY <1>1, <1>4, <1>5, <1>6
  DEF IInv, TypeOK, ExtractPair, States, syncVars, unpackVars, pendVars, callVars
<1>8. QED  BY <1>1, <1>4, <1>7 DEF IInv, Unpacking

\* The end of extractUnalignedFrame only moves on.
LEMMA PairsDoneIInv == IInv /\ PairsDone => IInv'
<1> SUFFICES ASSUME IInv, PairsDone PROVE IInv'
  OBVIOUS
<1>1. pc = "pairs" /\ pc' \in {"return", "extracted"} /\ werr' \in Errors
  BY DEF PairsDone, Fail, IInv, TypeOK, Errors
<1>2. InCall'
  BY <1>1, InCallStays DEF IInv, PairsDone, callVars
<1>3. TypeOK'
  BY <1>1 DEF IInv, TypeOK, PairsDone, States, syncVars, frameVars, unpackVars, pendVars, callVars
<1>4. QED  BY <1>1, <1>2, <1>3 DEF IInv, Unpacking

\* Only a whole frame is unpacked.
LEMMA ExtractDoneIInv == IInv /\ ExtractDone => IInv'
<1> SUFFICES ASSUME IInv, ExtractDone PROVE IInv'
  OBVIOUS
<1>1. /\ pc = "extracted" /\ pc' \in {"return", "unpack"} /\ werr' \in Errors
      /\ pc' = "unpack" => Len(exFrm) = FrameSize
  BY DEF ExtractDone, Fail, IInv, TypeOK, Errors
<1>2. InCall'
  BY <1>1, InCallStays DEF IInv, ExtractDone, callVars
<1>3. i' \in 0..(FrameSize - 2) /\ i' % 2 = 0 /\ unpackBuf' \in Seq(Byte) /\ startIndex' \in Int
  <2>1. CASE UNCHANGED unpackVars
    BY <2>1 DEF unpackVars, IInv, TypeOK
  <2>2. CASE i' = 0 /\ unpackBuf' = <<>> /\ startIndex' = trcCurrIdxSof
    BY <2>2, EmptySeq, FrameSizeAssumption DEF IInv, TypeOK
  <2>3. QED  BY <2>1, <2>2 DEF ExtractDone
<1>4. TypeOK'
  BY <1>1, <1>3 DEF IInv, TypeOK, ExtractDone, States, syncVars, frameVars, pendVars, callVars
<1>5. QED  BY <1>1, <1>2, <1>4 DEF IInv, Unpacking, ExtractDone, frameVars

\* The loop of unpackAndOutputFrame reads inside the frame.
LEMMA FrameBytes ==
  ASSUME IInv, pc = "unpack"
  PROVE  FrameByte(i) \in Byte /\ FrameByte(i + 1) \in Byte /\ FlagOf(i) \in {0, 1}
<1>1. exFrm \in Seq(Byte) /\ Len(exFrm) = FrameSize /\ i \in 0..(FrameSize - 2)
  BY DEF IInv, TypeOK, Unpacking
<1>2. i + 1 \in 1..Len(exFrm) /\ i + 1 + 1 \in 1..Len(exFrm)
  BY <1>1, FrameSizeAssumption
<1>3. exFrm[i + 1] \in Byte /\ exFrm[i + 1 + 1] \in Byte
  BY <1>1, <1>2, ElementOfSeq
<1>4. QED  BY <1>3 DEF FrameByte, FlagOf

\* The low bit of a data byte, kept in the flags, fits into the byte.
LEMMA DataByte ==
  ASSUME NEW b \in Byte, ~IsID(b), NEW f \in {0, 1}
  PROVE  b + f \in Byte
BY DEF IsID

\* What a sink is handed is well formed.
LEMMA EmitOK ==
  ASSUME TypeOK, NEW buf \in Seq(Byte), Emit(buf)
  PROVE  out' \in Seq(Deliveries)
<1>1. CASE out' = out
  BY <1>1 DEF TypeOK
<1>2. CASE buf # <<>> /\ currSrcID \in Sinks
  <2> DEFINE d == [op |-> "data", index |-> startIndex, id |-> currSrcID, data |-> buf]
  <2>1. d \in Deliveries
    BY <1>2, SinksAssumption DEF Deliveries, TypeOK
  <2>2. out' = Append(out, d)
    BY <1>2 DEF Emit
  <2> HIDE DEF d
  <2>3. QED  BY <2>1, <2>2, AppendProperties DEF TypeOK
<1>3. QED  BY <1>1, <1>2 DEF Emit

\* A failing output ends the call and adds at most one delivery.
LEMMA EmitFailsOK ==
  ASSUME TypeOK, NEW buf \in Seq(Byte), EmitFails(buf)
  PROVE  out' \in Seq(Deliveries) /\ pc' = "return" /\ werr' \in Errors
<1>1. out' \in Seq(Deliveries)
  BY EmitOK DEF EmitFails, TypeOK
<1>2. QED  BY <1>1 DEF EmitFails, Fail, Errors

\* A turn of the unpack loop leaves the block and the index alone.
LEMMA UnpackPairIInv == IInv /\ UnpackPair => IInv'
<1> SUFFICES ASSUME IInv, UnpackPair PROVE IInv'
  OBVIOUS
<1> DEFINE b      == FrameByte(i)
           next   == FrameByte(i + 1)
           change == IsID(b) /\ IDOf(b) # currSrcID
           late   == FlagOf(i) = 1
           flush  == IF late THEN Append(unpackBuf, next) ELSE unpackBuf
<1>1. pc = "unpack" /\ i < FrameSize - 2
  BY DEF UnpackPair
<1>2. b \in Byte /\ next \in Byte /\ FlagOf(i) \in {0, 1}
  BY <1>1, FrameBytes
<1>3. unpackBuf \in Seq(Byte) /\ TypeOK
  BY DEF IInv, TypeOK
<1> HIDE DEF b, next
<1>4. flush \in Seq(Byte)
  BY <1>2, <1>3, AppendByte
<1>5. UNCHANGED <<opts, inBlock, held, trcCurrIdx, syncVars, exFrm, trcCurrIdxSof, pendVars, callVars>>
  BY DEF UnpackPair
<1>6. i + 2 \in 0..(FrameSize - 2) /\ (i + 2) % 2 = 0
  <2>1. i \in Nat /\ i % 2 = 0 /\ i < FrameSize - 2
    BY <1>1, FrameSizeAssumption DEF IInv, TypeOK
  <2>2. QED  BY <2>1, FrameSizeAssumption
<1>7. /\ pc' \in {"unpack", "return"} /\ werr' \in Errors /\ out' \in Seq(Deliveries)
      /\ currSrcID' \in 0..127 \cup {badCSSrcID} /\ startIndex' \in Int
      /\ i' \in 0..(FrameSize - 2) /\ i' % 2 = 0 /\ unpackBuf' \in Seq(Byte)
  <2>1. CASE change /\ EmitFails(flush) /\ UNCHANGED <<currSrcID, unpackVars>>
    BY <2>1, <1>3, <1>4, EmitFailsOK DEF TypeOK, unpackVars
  <2>2. CASE /\ change /\ Emit(flush)
             /\ currSrcID' = IDOf(b) /\ startIndex' = trcCurrIdxSof + i
             /\ unpackBuf' = IF late THEN <<>> ELSE <<next>>
             /\ i' = i + 2 /\ UNCHANGED <<pc, werr>>
    <3>1. out' \in Seq(Deliveries)
      BY <2>2, <1>3, <1>4, EmitOK
    <3>2. <<>> \in Seq(Byte) /\ <<next>> \in Seq(Byte)
      BY <1>2
    <3>3. IDOf(b) \in 0..127
      BY <1>2 DEF IDOf
    <3>4. trcCurrIdxSof + i \in Int
      BY FrameSizeAssumption DEF IInv, TypeOK
    <3>5. QED  BY <2>2, <3>1, <3>2, <3>3, <3>4, <1>1, <1>3, <1>6 DEF TypeOK
  <2>3. CASE /\ ~change
             /\ unpackBuf' = unpackBuf \o IF IsID(b) THEN <<next>> ELSE <<b + FlagOf(i), next>>
             /\ i' = i + 2 /\ UNCHANGED <<pc, werr, currSrcID, startIndex, out>>
    <3>1. <<next>> \in Seq(Byte)
      BY <1>2
    <3>2. ~IsID(b) => <<b + FlagOf(i), next>> \in Seq(Byte)
      BY <1>2, DataByte
    <3>3. unpackBuf' \in Seq(Byte)
      <4>1. CASE IsID(b)
        BY <2>3, <3>1, <4>1, <1>3, JoinBytes
      <4>2. CASE ~IsID(b)
        BY <2>3, <3>2, <4>2, <1>3, JoinBytes
      <4>3. QED  BY <4>1, <4>2
    <3>4. QED  BY <2>3, <3>3, <1>1, <1>3, <1>6 DEF TypeOK
  <2>4. QED  BY <2>1, <2>2, <2>3 DEF UnpackPair, b, next
<1>8. TypeOK'
  BY <1>3, <1>5, <1>7 DEF TypeOK, States, syncVars, pendVars, callVars
<1>9. InCall'
  BY <1>1, <1>5, InCallStays DEF IInv, callVars
<1>10. QED  BY <1>1, <1>5, <1>7, <1>8, <1>9 DEF IInv, Unpacking

\* The last slot of a frame leaves the block and the index alone.
LEMMA UnpackLastIInv == IInv /\ UnpackLast => IInv'
<1> SUFFICES ASSUME IInv, UnpackLast PROVE IInv'
  OBVIOUS
<1> DEFINE b     == FrameByte(i)
           flush == IF IsID(b) THEN unpackBuf ELSE Append(unpackBuf, b + FlagOf(i))
<1>1. pc = "unpack"
  BY DEF UnpackLast
<1>2. b \in Byte /\ FlagOf(i) \in {0, 1}
  BY <1>1, FrameBytes
<1>3. unpackBuf \in Seq(Byte) /\ TypeOK
  BY DEF IInv, TypeOK
<1> HIDE DEF b
<1>4. flush \in Seq(Byte)
  BY <1>2, <1>3, DataByte, AppendByte
<1>5. UNCHANGED <<opts, inBlock, held, trcCurrIdx, syncVars, trcCurrIdxSof, unpackVars, pendVars, callVars>>
  BY DEF UnpackLast
<1>6. /\ pc' \in {"loop", "return"} /\ werr' \in Errors /\ out' \in Seq(Deliveries)
      /\ currSrcID' \in 0..127 \cup {badCSSrcID}
      /\ exFrm' \in Seq(Byte) /\ Len(exFrm') <= FrameSize /\ Len(exFrm') % 2 = 0
  <2>1. CASE EmitFails(flush) /\ UNCHANGED <<exFrm, currSrcID>>
    BY <2>1, <1>3, <1>4, EmitFailsOK DEF TypeOK
  <2>2. CASE /\ Emit(flush)
             /\ currSrcID' = IF IsID(b) THEN IDOf(b) ELSE currSrcID
             /\ exFrm' = <<>> /\ pc' = "loop" /\ UNCHANGED werr
    <3>1. out' \in Seq(Deliveries)
      BY <2>2, <1>3, <1>4, EmitOK
    <3>2. IDOf(b) \in 0..127
      BY <1>2 DEF IDOf
    <3>3. exFrm' \in Seq(Byte) /\ Len(exFrm') = 0
      BY <2>2, EmptySeq
    <3>4. QED  BY <2>2, <3>1, <3>2, <3>3, <1>3, FrameSizeAssumption DEF TypeOK
  <2>3. QED  BY <2>1, <2>2 DEF UnpackLast, b
<1>7. TypeOK'
  BY <1>3, <1>5, <1>6 DEF TypeOK, States, syncVars, unpackVars, pendVars, callVars
<1>8. InCall'
  BY <1>1, <1>5, InCallStays DEF IInv, callVars
<1>9. QED  BY <1>6, <1>7, <1>8, <1>5, <1>1 DEF IInv, Unpacking

\* Return hands the rest of the block over to pending.
LEMMA ReturnIInv == IInv /\ Return => IInv'
<1> SUFFICES ASSUME IInv, Return PROVE IInv'
  OBVIOUS
<1> DEFINE n == IF trcCurrIdx > cursor THEN trcCurrIdx - cursor ELSE 0
<1>1. /\ pc = "return" /\ pc' = "idle" /\ pending' = inBlock \o held
      /\ lastWriteEndIndex' = avail /\ lastWriteProcessedEndIndex' = cursor + n
      /\ ret' = [n |-> n, err |-> werr]
      /\ cursor' = IF rewriting THEN cursor + n ELSE avail
      /\ inBlock' = <<>> /\ held' = <<>> /\ werr' = "none"
      /\ i' = 0 /\ unpackBuf' = <<>> /\ startIndex' = BadIndex
      /\ UNCHANGED <<opts, trcCurrIdx, syncVars, frameVars, out, trace, rewriting, avail, closed>>
  BY DEF Return, NextIndex
<1>2. /\ TypeOK /\ trcCurrIdx \in 0..avail /\ cursor \in Nat /\ cursor < avail
      /\ inBlock \o held = SubSeq(trace, trcCurrIdx + 1, avail)
      /\ (rewriting => cursor <= trcCurrIdx)
  BY <1>1 DEF IInv, InCall, TypeOK
<1>3. trace \in Seq(Byte) /\ avail \in 0..Len(trace) /\ Len(trace) \in Nat /\ avail \in Nat
  BY <1>2, TraceTyped
<1>4. n \in Nat /\ (rewriting => cursor + n = trcCurrIdx)
      /\ (cursor + n = avail => trcCurrIdx = avail)
  BY <1>2, <1>3
<1> HIDE DEF n
<1>5. pending' \in Seq(Byte)
  BY <1>1, <1>2, JoinBytes DEF TypeOK
<1>6. ret' \in [n : Nat, err : Errors]
  BY <1>1, <1>2, <1>4 DEF TypeOK
<1>7. cursor' \in Nat /\ lastWriteProcessedEndIndex' \in Nat /\ lastWriteEndIndex' \in Nat
  BY <1>1, <1>2, <1>3, <1>4
<1>8. TypeOK'
  <2>1. i' \in 0..(FrameSize - 2) /\ i' % 2 = 0 /\ startIndex' \in Int
    BY <1>1, FrameSizeAssumption DEF BadIndex
  <2>2. inBlock' \in Seq(Byte) /\ held' \in Seq(Byte) /\ unpackBuf' \in Seq(Byte)
    BY <1>1, EmptySeq
  <2>3. pc' \in States /\ werr' \in Errors
    BY <1>1 DEF States, Errors
  <2>4. QED  BY <1>1, <1>2, <1>5, <1>6, <1>7, <2>1, <2>2, <2>3 DEF TypeOK, syncVars, frameVars
<1>9. Returned'
  <2>1. pending' = SubSeq(trace', trcCurrIdx' + 1, avail')
    BY <1>1, <1>2
  <2>2. lastWriteEndIndex' = avail' /\ avail' > 0 /\ trcCurrIdx' \in 0..avail'
    BY <1>1, <1>2, <1>3
  <2>3. rewriting' => cursor' = trcCurrIdx' /\ lastWriteProcessedEndIndex' = cursor'
    BY <1>1, <1>4
  <2>4. trcCurrIdx = avail => pending' = <<>>
    BY <1>1, <1>2, <1>3, SubSeqEmpty
  <2>5. ~rewriting' => cursor' = avail' /\ (lastWriteProcessedEndIndex' = avail' => pending' = <<>>)
    BY <1>1, <1>4, <2>4
  <2>6. QED  BY <2>1, <2>2, <2>3, <2>5 DEF Returned
<1>10. QED  BY <1>1, <1>8, <1>9 DEF IInv, InCall, Unpacking

\* Close changes nothing of the demuxer's own state.
LEMMA CloseIInv == IInv /\ Close => IInv'
<1> SUFFICES ASSUME IInv, Close PROVE IInv'
  OBVIOUS
<1>1. /\ pc = "idle"
      /\ UNCHANGED <<opts, pc, werr, inBlock, held, trcCurrIdx, syncVars, frameVars,
                     unpackVars, pendVars, trace, rewriting, cursor, avail>>
  BY DEF Close, Ready
<1>2. ret' \in [n : Nat, err : Errors] /\ closed' \in BOOLEAN
  <2>1. closed' \in BOOLEAN
    BY Zenon DEF Close, IInv, TypeOK
  <2>2. \E e \in Errors : ret' = [n |-> 0, err |-> e]
    BY DEF Close, Errors
  <2>3. QED  BY <2>1, <2>2
<1>3. out' \in Seq(Deliveries)
  <2>1. [op |-> "close"] \in Deliveries
    BY DEF Deliveries
  <2>2. out' = out \/ out' = Append(out, [op |-> "close"])
    BY DEF Close
  <2>3. out \in Seq(Deliveries)
    BY DEF IInv, TypeOK
  <2>4. QED  BY <2>1, <2>2, <2>3, AppendProperties
<1>4. TypeOK'
  BY <1>1, <1>2, <1>3 DEF IInv, TypeOK, syncVars, frameVars, unpackVars, pendVars
<1>5. (Fresh \/ Returned)'
  BY <1>1 DEF IInv, Fresh, Returned, syncVars, pendVars
<1>6. QED  BY <1>1, <1>4, <1>5 DEF IInv, InCall, Unpacking

\* Reset starts a fresh session.
LEMMA ResetIInv == IInv /\ Reset => IInv'
<1> SUFFICES ASSUME IInv, Reset PROVE IInv'
  OBVIOUS
<1>1. /\ pc = "idle" /\ trace' \in Traces[opts]
      /\ trcCurrIdx' = BadIndex /\ frameSynced' = FALSE /\ currSrcID' = badCSSrcID
      /\ exFrm' = <<>> /\ fsyncStartEOB' = FALSE /\ trcCurrIdxSof' = BadIndex
      /\ pending' = <<>> /\ lastWriteEndIndex' = 0 /\ lastWriteProcessedEndIndex' = 0
      /\ out' = <<>> /\ cursor' = 0 /\ avail' = 0 /\ closed' = FALSE
      /\ UNCHANGED <<opts, pc, werr, inBlock, held, unpackVars, rewriting>>
  BY DEF Reset
<1>2. ret' \in [n : Nat, err : Errors]
  BY DEF Reset, Errors
<1>3. avail' \in 0..Len(trace')
  <2>1. opts \in Options
    BY DEF IInv, TypeOK
  <2>2. trace' \in Seq(Byte)
    BY <1>1, <2>1, TracesAssumption
  <2>3. QED  BY <1>1, <2>2, LenProperties
<1>4. exFrm' \in Seq(Byte) /\ Len(exFrm') <= FrameSize /\ Len(exFrm') % 2 = 0
  BY <1>1, EmptySeq, FrameSizeAssumption
<1>5. pending' \in Seq(Byte) /\ out' \in Seq(Deliveries)
  BY <1>1, EmptySeq
<1>6. TypeOK'
  <2>1. frameSynced' \in BOOLEAN /\ fsyncStartEOB' \in BOOLEAN /\ closed' \in BOOLEAN
    BY <1>1, Zenon
  <2>2. /\ trcCurrIdx' \in Nat \cup {BadIndex} /\ trcCurrIdxSof' \in Int
        /\ currSrcID' \in 0..127 \cup {badCSSrcID} /\ cursor' \in Nat
        /\ lastWriteEndIndex' \in Nat /\ lastWriteProcessedEndIndex' \in Nat
    BY <1>1 DEF BadIndex
  <2>3. QED  BY <1>1, <1>2, <1>3, <1>4, <1>5, <2>1, <2>2 DEF IInv, TypeOK, unpackVars
<1>7. Fresh'
  BY <1>1 DEF Fresh
<1>8. QED  BY <1>1, <1>6, <1>7 DEF IInv, InCall, Unpacking

\* Where the next call of Write starts: what it keeps of pending is followed
\* in the trace by the caller's data, and once in sync it starts where the
\* last call stopped.
LEMMA KeptProperties ==
  ASSUME IInv, pc = "idle"
  PROVE  /\ KeptPending(cursor) \in Seq(Byte)
         /\ cursor - Len(KeptPending(cursor)) \in 0..avail
         /\ KeptPending(cursor) = SubSeq(trace, cursor - Len(KeptPending(cursor)) + 1, cursor)
         /\ cursor \in 0..avail
         /\ rewriting => KeptPending(cursor) = <<>>
         /\ frameSynced => cursor - Len(KeptPending(cursor)) = trcCurrIdx
<1>1. /\ TypeOK /\ (Fresh \/ Returned) /\ trace \in Seq(Byte) /\ avail \in 0..Len(trace)
      /\ Len(trace) \in Nat /\ avail \in Nat /\ pending \in Seq(Byte) /\ cursor \in Nat
  BY TraceTyped DEF IInv, TypeOK
<1>2. Len(<<>>) = 0 /\ <<>> \in Seq(Byte)
  BY EmptySeq
<1>3. SubSeq(trace, cursor + 1, cursor) = <<>>
  BY <1>1, SubSeqEmpty
<1>4. CASE Fresh
  <2>1. KeptPending(cursor) = <<>> /\ cursor = 0 /\ ~frameSynced
    BY <1>4 DEF Fresh, KeptPending
  <2>2. Len(KeptPending(cursor)) = 0
    BY <2>1
  <2>3. cursor - Len(KeptPending(cursor)) = cursor
    BY <1>1, <2>2
  <2>4. QED  BY <1>1, <1>2, <1>3, <2>1, <2>3
<1>5. CASE Returned /\ rewriting
  <2>1. KeptPending(cursor) = <<>> /\ cursor = trcCurrIdx /\ trcCurrIdx \in 0..avail
    BY <1>5 DEF Returned, KeptPending
  <2>2. cursor - Len(KeptPending(cursor)) = cursor
    BY <2>1, <1>1, <1>2
  <2>3. QED  BY <1>1, <1>2, <1>3, <2>1, <2>2
<1>6. CASE Returned /\ ~rewriting
  <2>1. /\ cursor = avail /\ lastWriteEndIndex = avail /\ trcCurrIdx \in 0..avail
        /\ pending = SubSeq(trace, trcCurrIdx + 1, avail)
        /\ (lastWriteProcessedEndIndex = avail => pending = <<>>)
    BY <1>6 DEF Returned
  <2>2. KeptPending(cursor) = pending
    BY <2>1 DEF KeptPending
  <2>3. Len(pending) = avail - trcCurrIdx
    <3>1. 0 \in 0..(avail - trcCurrIdx)
      BY <1>1, <2>1
    <3>2. QED  BY <1>1, <2>1, <3>1, DropSubSeq
  <2>4. cursor - Len(KeptPending(cursor)) = trcCurrIdx
    BY <1>1, <2>1, <2>2, <2>3
  <2>5. QED  BY <1>1, <1>6, <2>1, <2>2, <2>4
<1>7. QED  BY <1>1, <1>4, <1>5, <1>6

\* Write joins what is pending with the new data, without a gap.
LEMMA WriteIInv == \A k \in ChunkSizes[opts] : IInv /\ Write(k) => IInv'
<1> SUFFICES ASSUME NEW k \in ChunkSizes[opts], IInv, Write(k) PROVE IInv'
  OBVIOUS
<1> DEFINE kept  == KeptPending(cursor)
           start == cursor - Len(kept)
           data  == SubSeq(trace, cursor + 1, avail + k)
           block == kept \o data
           skip  == Unsynced(block)
<1>1. /\ pc = "idle" /\ avail + k <= Len(trace) /\ avail' = avail + k
      /\ trcCurrIdx' = start + skip /\ frameSynced' = Synced(block)
      /\ inBlock' = Drop(block, skip) /\ held' = <<>> /\ werr' = "none"
      /\ pc' \in {"loop", "return"}
      /\ UNCHANGED <<opts, fsyncStartEOB, frameVars, unpackVars, pendVars, out,
                     trace, rewriting, cursor, ret, closed>>
  BY DEF Write, Ready
<1>2. /\ TypeOK /\ trace \in Seq(Byte) /\ Len(trace) \in Nat /\ cursor \in Nat
      /\ avail \in Nat /\ k \in Nat /\ k > 0
  BY TraceTyped, ChunkAssumption DEF IInv, TypeOK
<1>3. /\ kept \in Seq(Byte) /\ start \in 0..avail /\ cursor \in 0..avail
      /\ kept = SubSeq(trace, start + 1, cursor)
      /\ rewriting => kept = <<>>
  BY <1>1, KeptProperties
<1>4. start <= cursor
  <2>1. Len(kept) \in Nat
    BY <1>3, LenProperties
  <2>2. QED  BY <1>2, <2>1
<1>5. rewriting => start = cursor
  BY <1>2, <1>3
<1> HIDE DEF start, kept
<1>6. avail' \in 0..Len(trace) /\ cursor \in 0..avail' /\ cursor < avail'
  BY <1>1, <1>2, <1>3
<1>7. block = SubSeq(trace, start + 1, avail')
  <2>1. start \in 0..cursor
    BY <1>2, <1>3, <1>4
  <2>2. block = SubSeq(trace, start + 1, cursor) \o SubSeq(trace, cursor + 1, avail')
    BY <1>1, <1>3
  <2>3. QED  BY <1>2, <1>6, <2>1, <2>2, JoinParts
<1>8. block \in Seq(Byte) /\ Len(block) = avail' - start /\ start \in 0..avail'
  <2>1. start \in 0..avail'
    BY <1>2, <1>3, <1>4, <1>6
  <2>2. /\ SubSeq(trace, start + 1, avail') \in Seq(Byte)
        /\ Len(SubSeq(trace, start + 1, avail')) = avail' - start
    BY <1>2, <1>6, <2>1, PartLen
  <2> HIDE DEF block
  <2>3. QED  BY <1>7, <2>1, <2>2
<1> HIDE DEF block
<1>9. skip \in 0..(avail' - start)
  BY <1>6, <1>8, FindRange DEF Unsynced
<1> HIDE DEF skip
<1>10. /\ inBlock' \in Seq(Byte) /\ inBlock' = SubSeq(trace, start + skip + 1, avail')
       /\ start + skip \in 0..avail'
  <2>1. /\ Drop(SubSeq(trace, start + 1, avail'), skip) = SubSeq(trace, start + skip + 1, avail')
        /\ start + skip \in 0..avail'
    BY <1>2, <1>6, <1>8, <1>9, SkipPart
  <2>2. Drop(block, skip) \in Seq(Byte)
    BY <1>8, <1>9, DropProperties
  <2>3. QED  BY <1>1, <1>7, <2>1, <2>2
<1>11. InCall'
  <2>1. inBlock' \o held' = inBlock'
    BY <1>1, <1>10, ConcatEmptySeq
  <2>2. trcCurrIdx' \in 0..avail' /\ cursor' < avail'
    BY <1>1, <1>6, <1>10
  <2>3. rewriting' => cursor' <= trcCurrIdx'
    BY <1>1, <1>2, <1>5, <1>6, <1>8, <1>9
  <2>4. QED  BY <1>1, <1>10, <2>1, <2>2, <2>3 DEF InCall
<1>12. TypeOK'
  <2>1. frameSynced' \in BOOLEAN
    BY <1>1, Zenon DEF Synced
  <2>2. held' \in Seq(Byte)
    BY <1>1, EmptySeq
  <2>3. trcCurrIdx' \in Nat /\ avail' \in 0..Len(trace')
    BY <1>1, <1>2, <1>6, <1>10
  <2>4. pc' \in States /\ werr' \in Errors
    BY <1>1 DEF States, Errors
  <2>5. QED
    BY <1>1, <1>2, <1>10, <2>1, <2>2, <2>3, <2>4 DEF TypeOK, frameVars, unpackVars, pendVars
<1>13. QED  BY <1>1, <1>11, <1>12 DEF IInv, Unpacking

\* The inductive invariant is kept by every step.
LEMMA NextIInv == IInv /\ [Next]_vars => IInv'
<1> SUFFICES ASSUME IInv, [Next]_vars PROVE IInv'
  OBVIOUS
<1>1. CASE UNCHANGED vars
  <2> USE <1>1 DEF vars, syncVars, frameVars, unpackVars, pendVars, callVars
  <2>1. TypeOK'
    BY DEF IInv, TypeOK
  <2>2. InCall'
    BY DEF IInv, InCall
  <2>3. pc' = "idle" => Fresh' \/ Returned'
    BY Zenon DEF IInv, Fresh, Returned
  <2>4. QED  BY <2>1, <2>2, <2>3 DEF IInv, Unpacking
<1>2. CASE Step
  BY <1>2, NextTurnIInv, ConsumeResetFSyncsIInv, ExtractAlignedFrameIInv,
     ConsumeLeadingFSyncsIInv, ExtractPairIInv, PairsDoneIInv, ExtractDoneIInv,
     UnpackPairIInv, UnpackLastIInv, ReturnIInv DEF Step
<1>3. CASE \E k \in ChunkSizes[opts] : Write(k)
  BY <1>3, WriteIInv
<1>4. CASE Close \/ Reset
  BY <1>4, CloseIInv, ResetIInv
<1>5. QED  BY <1>1, <1>2, <1>3, <1>4 DEF Next

\* The inductive invariant holds throughout: between calls what was not
\* processed is pending, during a call it is in the block, none of it twice.
THEOREM Inductive == Spec => []IInv
BY InitIInv, NextIInv, PTL DEF Spec

----------------------------------------------------------------------------
(* The theorems.                                                           *)

\* The demuxer and its caller never leave their types, whatever is fed.
THEOREM TypeCorrect == Spec => []TypeOK
<1>1. IInv => TypeOK
  BY DEF IInv
<1>2. QED  BY <1>1, Inductive, PTL

\* Between calls the demuxer holds exactly the bytes of the trace from
\* trcCurrIdx to the end of the last block, also after an error.
THEOREM HeldBackAlways == Spec => []HeldBack
<1>1. IInv => HeldBack
  BY DEF IInv, Fresh, Returned, HeldBack
<1>2. QED  BY <1>1, Inductive, PTL

\* Once in sync, every call of Write starts at the byte the last one stopped
\* at, for the rewriting caller and for the other one.
THEOREM ResumesAlways == Spec => ResumesAtStop
<1>1. IInv /\ [Next]_vars
        => [pc = "idle" /\ pc' # "idle" /\ frameSynced => trcCurrIdx' = trcCurrIdx]_vars
  <2> SUFFICES ASSUME IInv, Next, pc = "idle", pc' # "idle", frameSynced
               PROVE  trcCurrIdx' = trcCurrIdx
    OBVIOUS
  <2>1. PICK k \in ChunkSizes[opts] : Write(k)
    <3>1. ~Step
      BY DEF Step, NextTurn, ConsumeResetFSyncs, ExtractAlignedFrame, ConsumeLeadingFSyncs,
             ExtractPair, PairsDone, ExtractDone, UnpackPair, UnpackLast, Return
    <3>2. ~Close /\ ~Reset
      BY DEF Close, Reset
    <3>3. QED  BY <3>1, <3>2 DEF Next
  <2>2. trcCurrIdx' = (cursor - Len(KeptPending(cursor))) + 0
    BY <2>1 DEF Write, Unsynced
  <2>3. cursor - Len(KeptPending(cursor)) = trcCurrIdx
    BY KeptProperties
  <2>4. trcCurrIdx \in Int
    BY DEF IInv, TypeOK, BadIndex
  <2>5. QED  BY <2>2, <2>3, <2>4
<1>2. QED  BY <1>1, Inductive, PTL DEF Spec, ResumesAtStop

----------------------------------------------------------------------------
(* The bound on pending.                                                   *)

\* partialSyncLen holds back less than an FSYNC, and nothing of an aligned
\* stream.
LEMMA PartialShort ==
  ASSUME TypeOK, NEW s \in Seq(Byte)
  PROVE  partialSyncLen(s) \in 0..3 /\ (opts.FrameMemAlign => partialSyncLen(s) = 0)
<1> DEFINE most == IF opts.HasFsyncs THEN 3 ELSE IF opts.HasHsyncs THEN 1 ELSE 0
           S == {n \in 0..most : n <= Len(s) /\ \A k \in (Len(s) - n + 1)..Len(s) : s[k] = 255}
<1>1. Len(s) \in Nat
  BY LenProperties
<1>2. most \in 0..3 /\ most \in Nat /\ (opts.FrameMemAlign => most = 0)
  <2>1. opts.FrameMemAlign => ~opts.HasFsyncs /\ ~opts.HasHsyncs
    BY OptionsAssumption DEF TypeOK, ValidOptions
  <2>2. QED  BY <2>1
<1>3. 0 \in S
  BY <1>1, <1>2
<1>4. S \in SUBSET (0..most)
  OBVIOUS
<1>5. partialSyncLen(s) = Max(S)
  BY DEF partialSyncLen
<1> HIDE DEF S, most
<1>6. Max(S) \in S
  BY <1>2, <1>3, <1>4, MaxMember, Zenon
<1>7. Max(S) \in 0..most
  BY <1>4, <1>6
<1>8. QED  BY <1>2, <1>5, <1>7

\* Without an FSYNC in it, findfirstFSync keeps at most three bytes of a block.
LEMMA FindShort ==
  ASSUME NEW s \in Seq(Byte), FSyncsIn(s) = {}
  PROVE  Len(s) - findfirstFSync(s) <= 3
<1> DEFINE ends == {n \in 0..3 : EndsWith(s, Take(FSyncPattern, n))}
<1>1. Len(s) \in Nat
  BY LenProperties
<1>2. findfirstFSync(s) = Len(s) - Max(ends)
  BY DEF findfirstFSync
<1>3. 0 \in ends
  <2>1. Take(FSyncPattern, 0) = <<>>
    BY SubSeqEmpty DEF Take
  <2>2. Drop(s, Len(s) - 0) = <<>>
    BY <1>1, SubSeqEmpty DEF Drop
  <2>3. Len(<<>>) = 0
    OBVIOUS
  <2>4. QED  BY <2>1, <2>2, <2>3, <1>1 DEF EndsWith
<1>4. ends \in SUBSET (0..3) /\ 3 \in Nat
  OBVIOUS
<1> HIDE DEF ends
<1>5. Max(ends) \in 0..3
  BY <1>3, <1>4, MaxMember
<1>6. QED  BY <1>1, <1>2, <1>5

\* Pending stays below this many bytes when the call has succeeded.
Room == IF opts.FrameMemAlign THEN FrameSize ELSE 5

\* What a call sets aside is short from the start, and all that is left when
\* it ends without error: extraction stops early only at the end of the open
\* part.
Short ==
  /\ pc \in {"aligned", "alignedFrame"} => opts.FrameMemAlign /\ Len(held) < Room
  /\ pc \in {"leading", "pairs"} => ~opts.FrameMemAlign /\ Len(held) < Room
  /\ pc = "extracted" => Len(held) < Room /\ (Len(exFrm) # FrameSize => Len(inBlock) = 0)
  /\ pc = "return" /\ werr = "none" => Len(inBlock) + Len(held) < Room
  /\ PendingBounded

\* What a turn holds back is short, and so is a block not worth a turn.
LEMMA LimitShort ==
  ASSUME TypeOK, NEW s \in Seq(Byte)
  PROVE  /\ Len(s) - Limit(s) < Room
         /\ ~WorthATurn(Limit(s)) => Len(s) < Room
<1>1. Len(s) \in Nat /\ partialSyncLen(s) \in 0..Len(s)
  BY LenProperties, PartialRange
<1>2. partialSyncLen(s) \in 0..3 /\ (opts.FrameMemAlign => partialSyncLen(s) = 0)
  BY PartialShort
<1> DEFINE open == Len(s) - (IF exFrm = <<>> THEN partialSyncLen(s) ELSE 0)
<1>3. open \in 0..Len(s) /\ Len(s) - open <= 3 /\ (opts.FrameMemAlign => open = Len(s))
  BY <1>1, <1>2
<1>4. Limit(s) = IF opts.FrameMemAlign THEN open ELSE open - (open % 2)
  BY DEF Limit
<1> HIDE DEF open
<1>5. QED  BY <1>1, <1>3, <1>4, FrameSizeAssumption DEF WorthATurn, Room

\* One step keeps Short.
LEMMA NextTurnShort == IInv /\ Short /\ NextTurn => Short'
<1> SUFFICES ASSUME IInv, Short, NextTurn PROVE Short'
  OBVIOUS
<1> DEFINE block == inBlock \o held
           limit == Limit(block)
           work  == WorthATurn(limit)
<1>1. TypeOK /\ block \in Seq(Byte) /\ Len(block) \in Nat
  BY ConcatProperties, LenProperties DEF IInv, TypeOK
<1>2. /\ inBlock' = Take(block, IF work THEN limit ELSE Len(block))
      /\ held' = IF work THEN Drop(block, limit) ELSE <<>>
      /\ pc' = CASE ~work -> "return"
                 [] work /\ opts.FrameMemAlign -> "aligned"
                 [] OTHER -> "leading"
      /\ UNCHANGED <<opts, werr>>
  BY DEF NextTurn
<1> HIDE DEF block
<1>3. limit \in 0..Len(block) /\ Len(block) - limit < Room /\ (~work => Len(block) < Room)
  BY <1>1, LimitRange, LimitShort
<1>4. Room' = Room
  BY <1>2 DEF Room
<1> HIDE DEF limit, work
<1>5. CASE work
  <2>1. Len(held') = Len(block) - limit
    BY <1>1, <1>2, <1>3, <1>5, DropProperties
  <2>2. pc' = IF opts.FrameMemAlign THEN "aligned" ELSE "leading"
    BY <1>2, <1>5
  <2>3. QED  BY <1>2, <1>3, <1>4, <2>1, <2>2 DEF Short, PendingBounded
<1>6. CASE ~work
  <2>1. Len(inBlock') = Len(block)
    BY <1>1, <1>2, <1>6, TakeProperties
  <2>2. Len(held') = 0 /\ pc' = "return"
    BY <1>2, <1>6
  <2>3. QED  BY <1>1, <1>3, <1>4, <1>6, <2>1, <2>2 DEF Short, PendingBounded
<1>7. QED  BY <1>5, <1>6

\* The extraction steps take only from the open part.
LEMMA ExtractShort ==
  ASSUME IInv, Short,
         ConsumeResetFSyncs \/ ExtractAlignedFrame \/ ConsumeLeadingFSyncs \/ ExtractPair
  PROVE  Short'
<1>1. inBlock \in Seq(Byte) /\ Len(inBlock) \in Nat /\ held \in Seq(Byte) /\ Len(held) \in Nat
  BY LenProperties DEF IInv, TypeOK
<1>2. CASE ConsumeResetFSyncs
  <2>1. pc = "aligned" /\ (pc' = "alignedFrame" \/ (pc' = "return" /\ werr' # "none"))
        /\ UNCHANGED <<opts, held>>
    BY <1>2 DEF ConsumeResetFSyncs, Fail
  <2>2. QED  BY <2>1 DEF Short, PendingBounded, Room
<1>3. CASE ConsumeLeadingFSyncs
  <2>1. pc = "leading" /\ (pc' = "pairs" \/ (pc' = "return" /\ werr' # "none"))
        /\ UNCHANGED <<opts, held>>
    BY <1>3 DEF ConsumeLeadingFSyncs, Fail
  <2>2. QED  BY <2>1 DEF Short, PendingBounded, Room
<1>4. CASE ExtractPair
  <2>1. pc = "pairs" /\ (pc' = "pairs" \/ (pc' = "return" /\ werr' # "none"))
        /\ UNCHANGED <<opts, held>>
    BY <1>4 DEF ExtractPair, HSyncDropped, Fail
  <2>2. QED  BY <2>1 DEF Short, PendingBounded, Room
<1>5. CASE ExtractAlignedFrame
  <2>1. pc \in {"aligned", "alignedFrame"} /\ UNCHANGED <<opts, held>>
    BY <1>5 DEF ExtractAlignedFrame
  <2>2. \/ (pc' = "return" /\ werr' # "none")
        \/ pc' = "extracted" /\ inBlock' = <<>>
        \/ pc' = "extracted" /\ Len(inBlock) >= FrameSize /\ exFrm' = Take(inBlock, FrameSize)
    BY <1>5 DEF ExtractAlignedFrame, Fail
  <2>3. Len(inBlock) >= FrameSize => Len(Take(inBlock, FrameSize)) = FrameSize
    BY <1>1, TakeProperties, FrameSizeAssumption
  <2>4. pc' = "extracted" => Len(exFrm') = FrameSize \/ Len(inBlock') = 0
    BY <2>2, <2>3
  <2>5. QED  BY <2>1, <2>2, <2>4 DEF Short, PendingBounded, Room
<1>6. QED  BY <1>2, <1>3, <1>4, <1>5

\* An incomplete frame ends the call at the end of the open part.
LEMMA DoneShort ==
  ASSUME IInv, Short, PairsDone \/ ExtractDone \/ UnpackPair \/ UnpackLast
  PROVE  Short'
<1>1. inBlock \in Seq(Byte) /\ Len(inBlock) \in Nat /\ held \in Seq(Byte) /\ Len(held) \in Nat
      /\ Len(exFrm) <= FrameSize /\ exFrm \in Seq(Byte) /\ Len(exFrm) \in Nat
  BY LenProperties DEF IInv, TypeOK
<1>2. CASE PairsDone
  <2>1. /\ pc = "pairs" /\ (Len(exFrm) = FrameSize \/ Len(inBlock) < 2)
        /\ UNCHANGED <<opts, inBlock, held, frameVars>>
    BY <1>2 DEF PairsDone
  <2>2. \/ (pc' = "return" /\ werr' # "none")
        \/ pc' = "extracted" /\ ~(Len(inBlock) = 1 /\ Len(exFrm) < FrameSize)
    BY <1>2 DEF PairsDone, Fail
  <2>3. pc' = "extracted" /\ Len(exFrm) # FrameSize => Len(inBlock) = 0
    <3> SUFFICES ASSUME pc' = "extracted", Len(exFrm) # FrameSize PROVE Len(inBlock) = 0
      OBVIOUS
    <3>1. Len(exFrm) < FrameSize /\ Len(inBlock) < 2
      BY <1>1, <2>1, FrameSizeAssumption
    <3>2. Len(inBlock) # 1
      BY <2>2, <3>1, Zenon
    <3>3. \A n \in Nat : n < 2 /\ n # 1 => n = 0
      OBVIOUS
    <3>4. QED  BY <1>1, <3>1, <3>2, <3>3, Zenon
  <2>4. QED  BY <2>1, <2>2, <2>3 DEF Short, PendingBounded, Room, frameVars
<1>3. CASE ExtractDone
  <2>1. pc = "extracted" /\ UNCHANGED <<opts, inBlock, held>>
    BY <1>3 DEF ExtractDone
  <2>2. \/ (pc' = "return" /\ werr' # "none")
        \/ pc' = "unpack"
        \/ pc' = "return" /\ Len(exFrm) # FrameSize
    BY <1>3 DEF ExtractDone, Fail
  <2>3. QED  BY <1>1, <2>1, <2>2 DEF Short, PendingBounded, Room
<1>4. CASE UnpackPair
  <2>1. pc' = "unpack" \/ (pc' = "return" /\ werr' # "none")
    BY <1>4 DEF UnpackPair, EmitFails, Fail
  <2>2. QED  BY <2>1 DEF Short, PendingBounded
<1>5. CASE UnpackLast
  <2>1. pc' = "loop" \/ (pc' = "return" /\ werr' # "none")
    BY <1>5 DEF UnpackLast, EmitFails, Fail
  <2>2. QED  BY <2>1 DEF Short, PendingBounded
<1>6. QED  BY <1>2, <1>3, <1>4, <1>5

\* What Return keeps is what was left.
LEMMA ReturnShort == IInv /\ Short /\ Return => Short'
<1> SUFFICES ASSUME IInv, Short, Return PROVE Short'
  OBVIOUS
<1>1. /\ pc = "return" /\ pc' = "idle" /\ pending' = inBlock \o held
      /\ ret'.err = werr /\ opts' = opts
  BY DEF Return
<1>2. Len(pending') = Len(inBlock) + Len(held)
  BY <1>1, ConcatProperties DEF IInv, TypeOK
<1>3. QED  BY <1>1, <1>2 DEF Short, PendingBounded, Room

\* An unsynced block leaves at most the start of an FSYNC.
LEMMA WriteShort == \A k \in ChunkSizes[opts] : IInv /\ Short /\ Write(k) => Short'
<1> SUFFICES ASSUME NEW k \in ChunkSizes[opts], IInv, Short, Write(k) PROVE Short'
  OBVIOUS
<1> DEFINE kept  == KeptPending(cursor)
           block == kept \o SubSeq(trace, cursor + 1, avail + k)
           skip  == Unsynced(block)
<1>1. /\ pc = "idle" /\ avail + k <= Len(trace) /\ opts' = opts
      /\ inBlock' = Drop(block, skip) /\ held' = <<>>
      /\ pc' = IF Synced(block) THEN "loop" ELSE "return"
  BY DEF Write, Ready
<1>2. block \in Seq(Byte)
  <2>1. /\ trace \in Seq(Byte) /\ Len(trace) \in Nat /\ avail \in Nat /\ k \in Nat
    BY TraceTyped, ChunkAssumption DEF IInv, TypeOK
  <2>2. kept \in Seq(Byte) /\ cursor \in 0..avail
    BY <1>1, KeptProperties
  <2>3. SubSeq(trace, cursor + 1, avail + k) \in Seq(Byte)
    <3>1. avail + k \in 0..Len(trace) /\ cursor \in 0..(avail + k)
      BY <1>1, <2>1, <2>2
    <3>2. QED  BY <2>1, <3>1, PartLen
  <2>4. QED  BY <2>2, <2>3, JoinBytes
<1> HIDE DEF block
<1>3. CASE Synced(block)
  BY <1>1, <1>3 DEF Short, PendingBounded
<1>4. CASE ~Synced(block)
  <2>1. skip = findfirstFSync(block) /\ FSyncsIn(block) = {} /\ opts.HasFsyncs
    BY <1>4 DEF Synced, Unsynced
  <2>2. skip \in 0..Len(block) /\ Len(block) - skip <= 3
    BY <1>2, <2>1, FindRange, FindShort
  <2>3. Len(inBlock') <= 3 /\ Len(held') = 0
    BY <1>1, <1>2, <2>2, DropProperties
  <2>4. ~opts.FrameMemAlign
    BY <2>1, OptionsAssumption DEF IInv, TypeOK, ValidOptions
  <2>5. Len(inBlock') + Len(held') < Room'
    <3>1. Len(inBlock') \in Nat
      BY <1>1, <1>2, <2>2, DropProperties, LenProperties
    <3>2. QED  BY <1>1, <2>3, <2>4, <3>1 DEF Room
  <2>6. QED  BY <1>1, <1>4, <2>5 DEF Short, PendingBounded
<1>5. QED  BY <1>3, <1>4

\* Every step keeps Short.
LEMMA NextShort == IInv /\ Short /\ [Next]_vars => Short'
<1> SUFFICES ASSUME IInv, Short, [Next]_vars PROVE Short'
  OBVIOUS
<1>1. CASE UNCHANGED vars
  BY <1>1 DEF Short, PendingBounded, Room, vars, frameVars, pendVars, callVars
<1>2. CASE Step
  BY <1>2, NextTurnShort, ExtractShort, DoneShort, ReturnShort DEF Step
<1>3. CASE \E k \in ChunkSizes[opts] : Write(k)
  BY <1>3, WriteShort
<1>4. CASE Close
  <2>1. /\ pc = "idle" /\ pc' = "idle" /\ UNCHANGED <<opts, pendVars>>
        /\ ret'.err = "none" => pending = <<>>
    BY <1>4 DEF Close, Ready
  <2>2. Len(<<>>) = 0 /\ FrameSize > 0
    BY FrameSizeAssumption
  <2>3. QED  BY <2>1, <2>2 DEF Short, PendingBounded, pendVars
<1>5. CASE Reset
  <2>1. pc' = "idle" /\ pending' = <<>>
    BY <1>5 DEF Reset
  <2>2. Len(<<>>) = 0 /\ FrameSize > 0
    BY FrameSizeAssumption
  <2>3. QED  BY <2>1, <2>2 DEF Short, PendingBounded
<1>6. QED  BY <1>1, <1>2, <1>3, <1>4, <1>5 DEF Next

\* However the trace is cut into blocks, what a successful call of Write keeps
\* for the next one stays below a frame of an aligned stream, and below a sync
\* and an odd byte of the others: the buffer never grows with the trace.
THEOREM PendingAlwaysBounded == Spec => []PendingBounded
<1>1. Init => Short
  <2> SUFFICES ASSUME Init PROVE Short
    OBVIOUS
  <2>1. pc = "idle" /\ pending = <<>> /\ Len(pending) = 0
    BY DEF Init
  <2>2. QED  BY <2>1, FrameSizeAssumption DEF Short, PendingBounded
<1>2. Short => PendingBounded
  BY DEF Short
<1>3. QED  BY <1>1, <1>2, NextShort, Inductive, PTL DEF Spec

----------------------------------------------------------------------------
(* The order of the indexes that the sinks are handed.                     *)

\* The numbers in out of what was handed over as data.
DataOut == {m \in 1..Len(out) : out[m].op = "data"}

\* Everything handed over so far starts before index x.
Behind(x) == \A m \in DataOut : out[m].index < x

\* No error has stopped the demuxer.
Going == werr = "none" /\ (pc = "idle" => ret.err = "none")

\* Nothing is extracted before the first sync.
NothingYet == ~frameSynced => pc \in {"idle", "return"} /\ exFrm = <<>> /\ DataOut = {}

\* Outside unpackAndOutputFrame, what comes next starts behind all that went
\* out: at trcCurrIdx, or where the frame in the making starts.
BetweenFrames ==
  Going /\ pc # "unpack" =>
     IF exFrm = <<>> THEN Behind(trcCurrIdx)
     ELSE Behind(trcCurrIdxSof) /\ trcCurrIdxSof + Len(exFrm) <= trcCurrIdx

\* In a frame startIndex follows the turns of the loop; an index is used again
\* only when the ID changes with the first pair, and then for another ID.
InFrame ==
  pc = "unpack" =>
    /\ trcCurrIdxSof + FrameSize <= trcCurrIdx
    /\ IF i = 0 THEN startIndex = trcCurrIdxSof ELSE startIndex < trcCurrIdxSof + i
    /\ \A m \in DataOut :
         \/ out[m].index < startIndex
         \/ i > 0 /\ out[m].index = startIndex /\ out[m].id # currSrcID

Ordered == NothingYet /\ BetweenFrames /\ InFrame /\ IndexGrows

\* A delivery that is not data changes nothing of this.
LEMMA AppendOther ==
  ASSUME TypeOK, IndexGrows, NEW d, d.op # "data", out' = Append(out, d)
  PROVE  /\ IndexGrows' /\ DataOut' = DataOut
         /\ \A m \in DataOut : out'[m] = out[m]
<1>1. out \in Seq(Deliveries) /\ Len(out) \in Nat
  BY LenProperties DEF TypeOK
<1>2. Len(out') = Len(out) + 1 /\ out'[Len(out) + 1] = d /\ \A m \in 1..Len(out) : out'[m] = out[m]
  BY <1>1
<1>3. DataOut' = DataOut
  BY <1>1, <1>2 DEF DataOut
<1>4. IndexGrows'
  <2> SUFFICES ASSUME NEW m \in 1..Len(out'), NEW n \in 1..Len(out'),
                      m < n, out'[m].op = "data", out'[n].op = "data"
               PROVE  /\ out'[m].index <= out'[n].index
                      /\ out'[m].id = out'[n].id => out'[m].index < out'[n].index
    BY DEF IndexGrows
  <2>1. m # Len(out) + 1 /\ n # Len(out) + 1
    BY <1>2
  <2>2. m \in 1..Len(out) /\ n \in 1..Len(out)
    BY <1>1, <1>2, <2>1
  <2>3. QED  BY <1>2, <2>2 DEF IndexGrows
<1>5. QED  BY <1>2, <1>3, <1>4 DEF DataOut

\* A delivery keeps the order if it starts behind the ones before it, or
\* with the last of them and for another ID.
LEMMA AppendData ==
  ASSUME TypeOK, IndexGrows, NEW d \in Deliveries, d.op = "data", out' = Append(out, d),
         \A m \in DataOut : \/ out[m].index < d.index
                            \/ out[m].index = d.index /\ out[m].id # d.id
  PROVE  /\ IndexGrows' /\ DataOut' \subseteq DataOut \cup {Len(out) + 1}
         /\ out'[Len(out) + 1] = d
         /\ \A m \in DataOut : m # Len(out) + 1 /\ out'[m] = out[m]
<1>1. out \in Seq(Deliveries) /\ Len(out) \in Nat
  BY LenProperties DEF TypeOK
<1>2. Len(out') = Len(out) + 1 /\ out'[Len(out) + 1] = d /\ \A m \in 1..Len(out) : out'[m] = out[m]
  BY <1>1
<1>3. DataOut' \subseteq DataOut \cup {Len(out) + 1}
  BY <1>1, <1>2 DEF DataOut
<1>4. IndexGrows'
  <2> SUFFICES ASSUME NEW m \in 1..Len(out'), NEW n \in 1..Len(out'),
                      m < n, out'[m].op = "data", out'[n].op = "data"
               PROVE  /\ out'[m].index <= out'[n].index
                      /\ out'[m].id = out'[n].id => out'[m].index < out'[n].index
    BY DEF IndexGrows
  <2>1. m \in 1..Len(out)
    BY <1>1, <1>2
  <2>2. CASE n \in 1..Len(out)
    BY <1>2, <2>1, <2>2 DEF IndexGrows
  <2>3. CASE n = Len(out) + 1
    <3>1. m \in DataOut /\ out'[m] = out[m] /\ out'[n] = d
      BY <1>2, <2>1, <2>3 DEF DataOut
    <3>2. out[m].index \in Int /\ d.index \in Int
      BY <3>1, <1>1, ElementOfSeq DEF DataOut, Deliveries
    <3>3. QED  BY <3>1, <3>2
  <2>4. QED  BY <1>1, <1>2, <2>2, <2>3
<1>5. \A m \in DataOut : m # Len(out) + 1 /\ out'[m] = out[m]
  BY <1>1, <1>2 DEF DataOut
<1>6. QED  BY <1>2, <1>3, <1>4, <1>5

\* The indexes handed over are integers.
LEMMA DataTyped ==
  ASSUME TypeOK
  PROVE  \A m \in DataOut : out[m].index \in Int
<1> TAKE m \in DataOut
<1>1. out \in Seq(Deliveries) /\ m \in 1..Len(out) /\ out[m].op = "data"
  BY DEF TypeOK, DataOut
<1>2. out[m] \in Deliveries
  BY <1>1, ElementOfSeq
<1>3. QED  BY <1>1, <1>2 DEF Deliveries

\* Behind a smaller index is behind a larger one.
LEMMA BehindMono ==
  ASSUME TypeOK, NEW x \in Int, NEW y \in Int, x <= y, Behind(x)
  PROVE  Behind(y)
BY DataTyped DEF Behind

\* Between frames a step that delivers nothing and only goes forward keeps
\* the order.
LEMMA ForwardOrdered ==
  ASSUME IInv, Ordered, UNCHANGED <<out, exFrm, trcCurrIdxSof>>, pc # "unpack", pc' # "unpack",
         trcCurrIdx' \in Int, trcCurrIdx <= trcCurrIdx', frameSynced, frameSynced',
         Going' => Going
  PROVE  Ordered'
<1>1. TypeOK /\ trcCurrIdx \in Int /\ trcCurrIdxSof \in Int /\ Len(exFrm) \in Nat
  BY LenProperties DEF IInv, TypeOK, BadIndex
<1>2. DataOut' = DataOut /\ IndexGrows'
  BY DEF DataOut, IndexGrows, Ordered
<1>3. \A x : Behind(x)' = Behind(x)
  BY <1>2 DEF Behind
<1>4. BetweenFrames'
  <2> SUFFICES ASSUME Going
               PROVE  IF exFrm = <<>> THEN Behind(trcCurrIdx)'
                      ELSE Behind(trcCurrIdxSof)' /\ trcCurrIdxSof + Len(exFrm) <= trcCurrIdx'
    BY DEF BetweenFrames
  <2>1. CASE exFrm = <<>>
    <3>1. Behind(trcCurrIdx)
      BY <2>1 DEF Ordered, BetweenFrames
    <3>2. Behind(trcCurrIdx')
      BY <1>1, <3>1, BehindMono
    <3>3. QED  BY <2>1, <3>2, <1>2 DEF Behind
  <2>2. CASE exFrm # <<>>
    <3>1. Behind(trcCurrIdxSof) /\ trcCurrIdxSof + Len(exFrm) <= trcCurrIdx
      BY <2>2 DEF Ordered, BetweenFrames
    <3>2. QED  BY <2>2, <3>1, <1>1, <1>2 DEF Behind
  <2>3. QED  BY <2>1, <2>2
<1>5. QED  BY <1>2, <1>4 DEF Ordered, NothingYet, InFrame

\* An error ends the call.
LEMMA FailsReturn ==
  ASSUME werr # "none" => pc = "return", [Next]_vars
  PROVE  (werr # "none" => pc = "return")'
<1>1. CASE Step
  BY <1>1 DEF Step, NextTurn, ConsumeResetFSyncs, ExtractAlignedFrame, ConsumeLeadingFSyncs,
              ExtractPair, HSyncDropped, PairsDone, ExtractDone, UnpackPair, UnpackLast,
              EmitFails, Return, Fail
<1>2. CASE \E k \in ChunkSizes[opts] : Write(k)
  BY <1>2 DEF Write
<1>3. CASE Close \/ Reset
  BY <1>3 DEF Close, Reset
<1>4. CASE UNCHANGED vars
  BY <1>4 DEF vars
<1>5. QED  BY <1>1, <1>2, <1>3, <1>4 DEF Next

\* During a call the stream is in sync, except when it just returns.
LEMMA SyncedInCall ==
  ASSUME Ordered, pc \notin {"idle", "return"}
  PROVE  frameSynced
BY DEF Ordered, NothingYet

\* The extraction steps that build no frame only go forward.
LEMMA SkipOrdered ==
  ASSUME IInv, Ordered,
         NextTurn \/ ConsumeLeadingFSyncs \/ PairsDone
  PROVE  Ordered'
<1>1. trcCurrIdx \in Int /\ inBlock \in Seq(Byte) /\ Len(inBlock) \in Nat
  BY LenProperties DEF IInv, TypeOK, BadIndex
<1>2. CASE NextTurn \/ PairsDone
  <2>1. /\ pc \in {"loop", "pairs"} /\ pc' \notin {"idle", "unpack"}
        /\ UNCHANGED <<out, exFrm, trcCurrIdxSof, trcCurrIdx, frameSynced>>
        /\ (werr' = "none" => werr = "none")
    BY <1>2 DEF NextTurn, PairsDone, Fail, frameVars, syncVars
  <2>2. frameSynced /\ (Going' => Going)
    BY <2>1, SyncedInCall DEF Going
  <2>3. QED  BY <1>1, <2>1, <2>2, ForwardOrdered
<1>3. CASE ConsumeLeadingFSyncs
  <2> DEFINE from  == IF fsyncStartEOB /\ Len(inBlock) >= 2 THEN 2 ELSE 0
             syncs == from + 4 * countLeadingFSyncs(Drop(inBlock, from))
             half  == Drop(inBlock, syncs) = FSyncStart
             n     == syncs + IF half THEN 2 ELSE 0
  <2>1. /\ pc = "leading" /\ pc' \in {"pairs", "return"}
        /\ UNCHANGED <<out, exFrm, trcCurrIdxSof, frameSynced>>
        /\ (werr' = "none" => werr = "none")
        /\ (trcCurrIdx' = trcCurrIdx \/ trcCurrIdx' = trcCurrIdx + n)
    BY <1>3 DEF ConsumeLeadingFSyncs, Fail, frameVars, advanceInput
  <2>2. n \in Nat
    <3>1. from \in 0..Len(inBlock)
      BY <1>1
    <3> HIDE DEF from
    <3>2. Drop(inBlock, from) \in Seq(Byte)
      BY <1>1, <3>1, DropProperties
    <3>3. countLeadingFSyncs(Drop(inBlock, from)) \in Nat
      BY <3>2, CountRange
    <3>4. QED  BY <1>1, <3>1, <3>3
  <2> HIDE DEF n
  <2>3. trcCurrIdx' \in Int /\ trcCurrIdx <= trcCurrIdx'
    BY <1>1, <2>1, <2>2
  <2>4. frameSynced /\ (Going' => Going)
    BY <2>1, SyncedInCall DEF Going
  <2>5. QED  BY <2>1, <2>3, <2>4, ForwardOrdered
<1>4. QED  BY <1>2, <1>3

\* A reset of the IDs forgets the frame in the making and goes forward.
LEMMA ConsumeResetOrdered == IInv /\ Ordered /\ ConsumeResetFSyncs => Ordered'
<1> SUFFICES ASSUME IInv, Ordered, ConsumeResetFSyncs PROVE Ordered'
  OBVIOUS
<1> DEFINE n == 4 * countLeadingFSyncs(inBlock)
<1>1. /\ TypeOK /\ trcCurrIdx \in Int /\ trcCurrIdxSof \in Int /\ n \in Nat /\ exFrm \in Seq(Byte)
  <2>1. /\ TypeOK /\ trcCurrIdx \in Int /\ trcCurrIdxSof \in Int /\ exFrm \in Seq(Byte)
        /\ inBlock \in Seq(Byte)
    BY DEF IInv, TypeOK, BadIndex
  <2>2. countLeadingFSyncs(inBlock) \in Nat
    BY <2>1, CountRange
  <2>3. QED  BY <2>1, <2>2
<1>2. /\ pc = "aligned" /\ pc' \in {"return", "alignedFrame"} /\ frameSynced' = frameSynced
      /\ (werr' = "none" => werr = "none")
      /\ (trcCurrIdx' = trcCurrIdx \/ trcCurrIdx' = trcCurrIdx + n)
  BY DEF ConsumeResetFSyncs, Fail, syncVars, advanceInput
<1> HIDE DEF n
<1>3. trcCurrIdx' \in Int /\ trcCurrIdx <= trcCurrIdx' /\ frameSynced /\ (Going' => Going)
  BY <1>1, <1>2, SyncedInCall DEF Going
<1>4. CASE UNCHANGED <<frameVars, out>>
  BY <1>2, <1>3, <1>4, ForwardOrdered DEF frameVars
<1>5. CASE ResetIDs
  <2> DEFINE d == [op |-> "reset", index |-> trcCurrIdx]
  <2>1. exFrm' = <<>> /\ out' = Append(out, d) /\ d.op # "data"
    BY <1>5 DEF ResetIDs
  <2> HIDE DEF d
  <2>2. IndexGrows' /\ DataOut' = DataOut /\ \A m \in DataOut : out'[m] = out[m]
    BY <1>1, <2>1, AppendOther DEF Ordered
  <2>3. Going => Behind(trcCurrIdx)
    <3> SUFFICES ASSUME Going PROVE Behind(trcCurrIdx)
      OBVIOUS
    <3>1. CASE exFrm = <<>>
      BY <1>2, <3>1 DEF Ordered, BetweenFrames
    <3>2. CASE exFrm # <<>>
      <4>1. Behind(trcCurrIdxSof) /\ trcCurrIdxSof + Len(exFrm) <= trcCurrIdx
        BY <1>2, <3>2 DEF Ordered, BetweenFrames
      <4>2. trcCurrIdxSof <= trcCurrIdx
        BY <1>1, <4>1, LenProperties
      <4>3. QED  BY <1>1, <4>1, <4>2, BehindMono
    <3>3. QED  BY <3>1, <3>2
  <2>4. Going => Behind(trcCurrIdx')
    BY <1>1, <1>3, <2>3, BehindMono
  <2>5. Going => Behind(trcCurrIdx)'
    BY <2>2, <2>4 DEF Behind
  <2>6. QED  BY <1>2, <1>3, <2>1, <2>2, <2>5 DEF Ordered, NothingYet, BetweenFrames, InFrame
<1>6. QED  BY <1>4, <1>5 DEF ConsumeResetFSyncs

\* A frame starts at trcCurrIdx, behind all that went out.
LEMMA FrameOrdered ==
  ASSUME IInv, Ordered, ExtractAlignedFrame \/ ExtractPair
  PROVE  Ordered'
<1>1. /\ TypeOK /\ trcCurrIdx \in Int /\ trcCurrIdxSof \in Int /\ exFrm \in Seq(Byte)
      /\ Len(exFrm) \in Nat /\ inBlock \in Seq(Byte) /\ Len(inBlock) \in Nat
  BY LenProperties DEF IInv, TypeOK, BadIndex
<1>2. /\ pc \in {"aligned", "alignedFrame", "pairs"} /\ pc' \in {"return", "extracted", "pairs"}
      /\ UNCHANGED <<out, frameSynced>> /\ (werr' = "none" => werr = "none")
  BY DEF ExtractAlignedFrame, ExtractPair, HSyncDropped, Fail, syncVars
<1>3. frameSynced /\ (Going' => Going) /\ DataOut' = DataOut /\ IndexGrows'
  BY <1>2, SyncedInCall DEF Going, DataOut, IndexGrows, Ordered
<1>4. Going => Behind(trcCurrIdx) /\ (exFrm = <<>> \/ (/\ Behind(trcCurrIdxSof)
                                                       /\ trcCurrIdxSof + Len(exFrm) <= trcCurrIdx))
  <2> SUFFICES ASSUME Going, exFrm # <<>>
               PROVE  Behind(trcCurrIdx) /\ Behind(trcCurrIdxSof)
                      /\ trcCurrIdxSof + Len(exFrm) <= trcCurrIdx
    BY <1>2 DEF Ordered, BetweenFrames
  <2>1. Behind(trcCurrIdxSof) /\ trcCurrIdxSof + Len(exFrm) <= trcCurrIdx
    BY <1>2 DEF Ordered, BetweenFrames
  <2>2. trcCurrIdxSof <= trcCurrIdx
    BY <1>1, <2>1
  <2>3. QED  BY <1>1, <2>1, <2>2, BehindMono
<1>5. \/ UNCHANGED <<exFrm, trcCurrIdx, trcCurrIdxSof>>
      \/ exFrm' = exFrm /\ trcCurrIdx' \in {trcCurrIdx, trcCurrIdx + 2}
         /\ trcCurrIdxSof' = IF exFrm = <<>> THEN trcCurrIdx ELSE trcCurrIdxSof
      \/ Len(exFrm') = FrameSize /\ trcCurrIdxSof' = trcCurrIdx /\ trcCurrIdx' = trcCurrIdx + FrameSize
      \/ Len(exFrm') = Len(exFrm) + 2 /\ trcCurrIdx' = trcCurrIdx + 2
         /\ trcCurrIdxSof' = IF exFrm = <<>> THEN trcCurrIdx ELSE trcCurrIdxSof
  <2>1. CASE ExtractAlignedFrame
    <3>1. Len(inBlock) >= FrameSize => Len(Take(inBlock, FrameSize)) = FrameSize
      BY <1>1, TakeProperties, FrameSizeAssumption
    <3>2. QED  BY <2>1, <3>1 DEF ExtractAlignedFrame, frameVars, advanceInput
  <2>2. CASE ExtractPair
    <3> DEFINE pair == Take(inBlock, 2)
    <3>1. 2 \in 0..Len(inBlock)
      BY <1>1, <2>2 DEF ExtractPair
    <3>2. pair \in Seq(Byte) /\ Len(pair) = 2
      BY <1>1, <3>1, TakeProperties
    <3> HIDE DEF pair
    <3>3. Len(exFrm \o pair) = Len(exFrm) + 2
      <4>1. Len(exFrm \o pair) = Len(exFrm) + Len(pair)
        BY <1>1, <3>2, JoinBytes, Zenon
      <4>2. QED  BY <3>2, <4>1
    <3>4. QED  BY <2>2, <3>3 DEF ExtractPair, HSyncDropped, Fail, advanceInput, pair
  <2>3. QED  BY <2>1, <2>2
<1>6. BetweenFrames'
  <2> SUFFICES ASSUME Going'
               PROVE  IF exFrm' = <<>> THEN Behind(trcCurrIdx')
                      ELSE Behind(trcCurrIdxSof') /\ trcCurrIdxSof' + Len(exFrm') <= trcCurrIdx'
    BY <1>2, <1>3 DEF BetweenFrames, Behind
  <2>1. Going
    BY <1>3
  <2>2. CASE UNCHANGED <<exFrm, trcCurrIdx, trcCurrIdxSof>>
    BY <2>1, <2>2, <1>4
  <2>3. CASE exFrm' = exFrm /\ trcCurrIdx' \in {trcCurrIdx, trcCurrIdx + 2}
             /\ trcCurrIdxSof' = IF exFrm = <<>> THEN trcCurrIdx ELSE trcCurrIdxSof
    <3>1. trcCurrIdx' \in Int /\ trcCurrIdx <= trcCurrIdx'
      BY <1>1, <2>3
    <3>2. Behind(trcCurrIdx')
      BY <1>1, <1>4, <2>1, <3>1, BehindMono
    <3>3. QED  BY <1>1, <1>4, <2>1, <2>3, <3>1, <3>2
  <2>4. CASE Len(exFrm') = FrameSize /\ trcCurrIdxSof' = trcCurrIdx /\ trcCurrIdx' = trcCurrIdx + FrameSize
    <3>1. exFrm' # <<>>
      BY <2>4, FrameSizeAssumption
    <3>2. QED  BY <1>1, <1>4, <2>1, <2>4, <3>1, FrameSizeAssumption
  <2>5. CASE Len(exFrm') = Len(exFrm) + 2 /\ trcCurrIdx' = trcCurrIdx + 2
             /\ trcCurrIdxSof' = IF exFrm = <<>> THEN trcCurrIdx ELSE trcCurrIdxSof
    <3>1. exFrm' # <<>>
      BY <1>1, <2>5
    <3>2. exFrm = <<>> => Len(exFrm) = 0
      OBVIOUS
    <3>3. QED  BY <1>1, <1>4, <2>1, <2>5, <3>1, <3>2
  <2>6. QED  BY <1>5, <2>2, <2>3, <2>4, <2>5
<1>7. QED  BY <1>2, <1>3, <1>6 DEF Ordered, NothingYet, InFrame

\* A whole frame is unpacked from where it starts.
LEMMA ExtractDoneOrdered ==
  ASSUME IInv, Ordered, werr # "none" => pc = "return", ExtractDone
  PROVE  Ordered'
<1>1. /\ TypeOK /\ trcCurrIdx \in Int /\ trcCurrIdxSof \in Int
  BY DEF IInv, TypeOK, BadIndex
<1>2. /\ pc = "extracted" /\ pc' \in {"return", "unpack"} /\ werr = "none"
      /\ UNCHANGED <<out, exFrm, trcCurrIdxSof, trcCurrIdx, frameSynced, currSrcID>>
  BY DEF ExtractDone, Fail, frameVars, syncVars
<1>3. frameSynced /\ Going
  BY <1>2, SyncedInCall DEF Going
<1>4. CASE pc' = "return"
  BY <1>1, <1>2, <1>3, <1>4, ForwardOrdered
<1>5. CASE pc' = "unpack"
  <2>1. Len(exFrm) = FrameSize /\ i' = 0 /\ startIndex' = trcCurrIdxSof
    BY <1>5 DEF ExtractDone, Fail
  <2>2. exFrm # <<>>
    BY <2>1, FrameSizeAssumption
  <2>3. Behind(trcCurrIdxSof) /\ trcCurrIdxSof + FrameSize <= trcCurrIdx
    BY <1>2, <1>3, <2>1, <2>2 DEF Ordered, BetweenFrames
  <2>4. DataOut' = DataOut /\ IndexGrows'
    BY <1>2 DEF DataOut, IndexGrows, Ordered
  <2>5. InFrame'
    BY <1>2, <2>1, <2>3, <2>4 DEF InFrame, Behind
  <2>6. QED  BY <1>2, <1>3, <1>5, <2>4, <2>5 DEF Ordered, NothingYet, BetweenFrames
<1>6. QED  BY <1>2, <1>4, <1>5

\* What is handed over in a frame is in order with all that went before, and
\* nothing handed over starts behind startIndex.
LEMMA EmitOrdered ==
  ASSUME IInv, Ordered, pc = "unpack", NEW buf \in Seq(Byte), Emit(buf)
  PROVE  /\ IndexGrows'
         /\ \A m \in DataOut' :
              /\ out'[m].index \in Int
              /\ \/ out'[m].index < startIndex
                 \/ out'[m].index = startIndex /\ (out'[m].id = currSrcID \/ i > 0)
<1>1. TypeOK /\ IndexGrows /\ startIndex \in Int /\ i \in Nat
  BY FrameSizeAssumption DEF IInv, TypeOK, Ordered
<1>2. \A m \in DataOut : /\ out[m].index \in Int
                         /\ \/ out[m].index < startIndex
                            \/ i > 0 /\ out[m].index = startIndex /\ out[m].id # currSrcID
  BY <1>1, DataTyped DEF Ordered, InFrame
<1>3. CASE out' = out
  <2>1. DataOut' = DataOut /\ IndexGrows'
    BY <1>1, <1>3 DEF DataOut, IndexGrows
  <2>2. QED  BY <1>2, <1>3, <2>1
<1>4. CASE buf # <<>> /\ currSrcID \in Sinks
  <2> DEFINE d == [op |-> "data", index |-> startIndex, id |-> currSrcID, data |-> buf]
  <2>1. d \in Deliveries /\ d.op = "data" /\ d.index = startIndex /\ d.id = currSrcID
    BY <1>1, <1>4, SinksAssumption DEF Deliveries
  <2>2. out' = Append(out, d)
    BY <1>4 DEF Emit
  <2> HIDE DEF d
  <2>3. \A m \in DataOut : \/ out[m].index < d.index
                           \/ out[m].index = d.index /\ out[m].id # d.id
    BY <1>2, <2>1
  <2>4. /\ IndexGrows' /\ DataOut' \subseteq DataOut \cup {Len(out) + 1}
        /\ out'[Len(out) + 1] = d
        /\ \A m \in DataOut : m # Len(out) + 1 /\ out'[m] = out[m]
    BY <1>1, <2>1, <2>2, <2>3, AppendData
  <2>5. QED  BY <1>1, <1>2, <2>1, <2>4
<1>5. QED  BY <1>3, <1>4 DEF Emit

\* A failing output ends the call in order.
LEMMA EmitFailsOrdered ==
  ASSUME IInv, Ordered, pc = "unpack", NEW buf \in Seq(Byte), EmitFails(buf),
         frameSynced' = frameSynced
  PROVE  Ordered'
<1>1. IndexGrows'
  <2>1. CASE Emit(buf)
    BY <2>1, EmitOrdered
  <2>2. CASE UNCHANGED out
    BY <2>2 DEF Ordered, IndexGrows
  <2>3. QED  BY <2>1, <2>2 DEF EmitFails
<1>2. pc' = "return" /\ werr' # "none"
  BY DEF EmitFails, Fail
<1>3. frameSynced
  BY SyncedInCall
<1>4. QED  BY <1>1, <1>2, <1>3 DEF Ordered, NothingYet, BetweenFrames, InFrame, Going

\* A change of ID moves startIndex on, except with the first pair of a frame.
LEMMA UnpackPairOrdered == IInv /\ Ordered /\ UnpackPair => Ordered'
<1> SUFFICES ASSUME IInv, Ordered, UnpackPair PROVE Ordered'
  OBVIOUS
<1> DEFINE b      == FrameByte(i)
           next   == FrameByte(i + 1)
           change == IsID(b) /\ IDOf(b) # currSrcID
           late   == FlagOf(i) = 1
           flush  == IF late THEN Append(unpackBuf, next) ELSE unpackBuf
<1>1. pc = "unpack" /\ UNCHANGED <<trcCurrIdx, syncVars, exFrm, trcCurrIdxSof>>
  BY DEF UnpackPair
<1>2. b \in Byte /\ next \in Byte
  BY <1>1, FrameBytes
<1>3. /\ unpackBuf \in Seq(Byte) /\ TypeOK /\ i \in Nat /\ startIndex \in Int
      /\ trcCurrIdxSof \in Int /\ frameSynced /\ frameSynced'
  BY <1>1, SyncedInCall, FrameSizeAssumption DEF IInv, TypeOK, syncVars
<1>4. flush \in Seq(Byte)
  BY <1>2, <1>3, AppendByte
<1>5. /\ trcCurrIdxSof + FrameSize <= trcCurrIdx
      /\ IF i = 0 THEN startIndex = trcCurrIdxSof ELSE startIndex < trcCurrIdxSof + i
      /\ \A m \in DataOut :
           \/ out[m].index < startIndex
           \/ i > 0 /\ out[m].index = startIndex /\ out[m].id # currSrcID
  BY <1>1 DEF Ordered, InFrame
<1> HIDE DEF b, next, flush
<1>6. CASE EmitFails(flush)
  BY <1>1, <1>3, <1>4, <1>6, EmitFailsOrdered
<1>7. CASE /\ change /\ Emit(flush)
           /\ currSrcID' = IDOf(b) /\ startIndex' = trcCurrIdxSof + i
           /\ i' = i + 2 /\ UNCHANGED <<pc, werr>>
  <2>1. /\ IndexGrows'
        /\ \A m \in DataOut' :
              /\ out'[m].index \in Int
              /\ \/ out'[m].index < startIndex
                 \/ out'[m].index = startIndex /\ (out'[m].id = currSrcID \/ i > 0)
    BY <1>1, <1>4, <1>7, EmitOrdered
  <2>2. \A m \in DataOut' : \/ out'[m].index < startIndex'
                            \/ i' > 0 /\ out'[m].index = startIndex' /\ out'[m].id # currSrcID'
    BY <1>3, <1>5, <1>7, <2>1
  <2>3. i' # 0 /\ startIndex' < trcCurrIdxSof' + i'
    BY <1>1, <1>3, <1>7
  <2>4. InFrame'
    BY <1>1, <1>5, <2>2, <2>3 DEF InFrame
  <2>5. QED  BY <1>1, <1>3, <1>7, <2>1, <2>4 DEF Ordered, NothingYet, BetweenFrames
<1>8. CASE i' = i + 2 /\ UNCHANGED <<pc, werr, currSrcID, startIndex, out>>
  <2>1. DataOut' = DataOut /\ IndexGrows'
    BY <1>8 DEF DataOut, IndexGrows, Ordered
  <2>2. i' # 0 /\ i' > 0 /\ startIndex' < trcCurrIdxSof' + i'
    BY <1>1, <1>3, <1>5, <1>8
  <2>3. InFrame'
    BY <1>1, <1>5, <1>8, <2>1, <2>2 DEF InFrame
  <2>4. QED  BY <1>1, <1>3, <1>8, <2>1, <2>3 DEF Ordered, NothingYet, BetweenFrames
<1>9. QED  BY <1>6, <1>7, <1>8 DEF UnpackPair, b, next, flush

\* Behind its last slot a frame lies behind trcCurrIdx as a whole.
LEMMA UnpackLastOrdered == IInv /\ Ordered /\ UnpackLast => Ordered'
<1> SUFFICES ASSUME IInv, Ordered, UnpackLast PROVE Ordered'
  OBVIOUS
<1> DEFINE b     == FrameByte(i)
           flush == IF IsID(b) THEN unpackBuf ELSE Append(unpackBuf, b + FlagOf(i))
<1>1. pc = "unpack" /\ i = FrameSize - 2 /\ UNCHANGED <<trcCurrIdx, syncVars, trcCurrIdxSof>>
  BY DEF UnpackLast
<1>2. b \in Byte /\ FlagOf(i) \in {0, 1}
  BY <1>1, FrameBytes
<1>3. /\ unpackBuf \in Seq(Byte) /\ TypeOK /\ i \in Nat /\ startIndex \in Int
      /\ trcCurrIdxSof \in Int /\ trcCurrIdx \in Int /\ frameSynced /\ frameSynced'
  BY <1>1, SyncedInCall, FrameSizeAssumption DEF IInv, TypeOK, syncVars, BadIndex
<1> HIDE DEF b
<1>4. flush \in Seq(Byte)
  BY <1>2, <1>3, DataByte, AppendByte
<1>5. startIndex < trcCurrIdx
  <2>1. /\ trcCurrIdxSof + FrameSize <= trcCurrIdx
        /\ IF i = 0 THEN startIndex = trcCurrIdxSof ELSE startIndex < trcCurrIdxSof + i
    BY <1>1 DEF Ordered, InFrame
  <2>2. QED  BY <1>1, <1>3, <2>1, FrameSizeAssumption
<1> HIDE DEF flush
<1>6. CASE EmitFails(flush)
  BY <1>1, <1>3, <1>4, <1>6, EmitFailsOrdered
<1>7. CASE Emit(flush) /\ exFrm' = <<>> /\ pc' = "loop"
  <2>1. /\ IndexGrows'
        /\ \A m \in DataOut' : out'[m].index \in Int /\ out'[m].index <= startIndex
    BY <1>1, <1>3, <1>4, <1>7, EmitOrdered
  <2>2. Behind(trcCurrIdx)'
    BY <1>1, <1>3, <1>5, <2>1 DEF Behind
  <2>3. QED  BY <1>1, <1>3, <1>7, <2>1, <2>2 DEF Ordered, NothingYet, BetweenFrames, InFrame
<1>8. QED  BY <1>6, <1>7 DEF UnpackLast, b, flush

\* Between calls nothing moves, and an error of the call stops the caller.
LEMMA ReturnOrdered == IInv /\ Ordered /\ Return => Ordered'
<1> SUFFICES ASSUME IInv, Ordered, Return PROVE Ordered'
  OBVIOUS
<1>1. /\ pc = "return" /\ pc' = "idle" /\ ret'.err = werr
      /\ UNCHANGED <<out, exFrm, trcCurrIdxSof, trcCurrIdx, frameSynced>>
  BY DEF Return, frameVars, syncVars
<1>2. DataOut' = DataOut /\ IndexGrows' /\ (Going' => Going)
  BY <1>1 DEF DataOut, IndexGrows, Ordered, Going
<1>3. QED  BY <1>1, <1>2 DEF Ordered, NothingYet, BetweenFrames, InFrame, Behind

\* Once in sync a call starts at trcCurrIdx; before, nothing has gone out.
LEMMA WriteOrdered ==
  ASSUME NEW k \in ChunkSizes[opts], IInv, Ordered, werr # "none" => pc = "return", Write(k)
  PROVE  Ordered'
<1> DEFINE kept  == KeptPending(cursor)
           block == kept \o SubSeq(trace, cursor + 1, avail + k)
<1>1. /\ pc = "idle" /\ ret.err = "none" /\ frameSynced' = Synced(block)
      /\ trcCurrIdx' = (cursor - Len(kept)) + Unsynced(block) /\ werr' = "none"
      /\ pc' = IF Synced(block) THEN "loop" ELSE "return"
      /\ UNCHANGED <<out, exFrm, trcCurrIdxSof>>
  BY DEF Write, Ready, frameVars
<1> HIDE DEF block
<1>2. DataOut' = DataOut /\ IndexGrows'
  BY <1>1 DEF DataOut, IndexGrows, Ordered
<1>3. CASE frameSynced
  <2>1. trcCurrIdx' = (cursor - Len(kept)) + 0 /\ frameSynced' /\ pc' = "loop"
    BY <1>1, <1>3 DEF Synced, Unsynced
  <2>2. cursor - Len(kept) = trcCurrIdx /\ trcCurrIdx \in Int
    BY <1>1, <1>3, KeptProperties DEF IInv, TypeOK, BadIndex
  <2>3. trcCurrIdx' = trcCurrIdx
    BY <2>1, <2>2
  <2>4. Going
    BY <1>1 DEF Going
  <2>5. QED
    BY <1>1, <1>2, <2>1, <2>3, <2>4 DEF Ordered, NothingYet, BetweenFrames, InFrame, Behind
<1>4. CASE ~frameSynced
  <2>1. exFrm' = <<>> /\ DataOut' = {}
    BY <1>1, <1>2, <1>4 DEF Ordered, NothingYet
  <2>2. Behind(trcCurrIdx)'
    BY <2>1 DEF Behind
  <2>3. QED  BY <1>1, <1>2, <2>1, <2>2 DEF Ordered, NothingYet, BetweenFrames, InFrame
<1>5. QED  BY <1>3, <1>4

\* Close and Reset deliver no data.
LEMMA EndOrdered ==
  ASSUME IInv, Ordered, Close \/ Reset
  PROVE  Ordered'
<1>1. CASE Reset
  <2>1. pc' = "idle" /\ out' = <<>> /\ exFrm' = <<>>
    BY <1>1 DEF Reset
  <2>2. DataOut' = {} /\ IndexGrows'
    BY <2>1 DEF DataOut, IndexGrows
  <2>3. QED  BY <2>1, <2>2 DEF Ordered, NothingYet, BetweenFrames, InFrame, Behind
<1>2. CASE Close
  <2> DEFINE d == [op |-> "close"]
  <2>1. /\ pc = "idle" /\ pc' = "idle" /\ ret.err = "none"
        /\ UNCHANGED <<werr, exFrm, trcCurrIdxSof, trcCurrIdx, frameSynced>>
        /\ (out' = out \/ out' = Append(out, d))
    BY <1>2 DEF Close, Ready, frameVars, syncVars
  <2>2. d.op # "data" /\ TypeOK /\ IndexGrows
    BY DEF IInv, Ordered
  <2> HIDE DEF d
  <2>3. IndexGrows' /\ DataOut' = DataOut /\ \A m \in DataOut : out'[m] = out[m]
    <3>1. CASE out' = out
      BY <2>2, <3>1 DEF DataOut, IndexGrows
    <3>2. CASE out' = Append(out, d)
      BY <2>2, <3>2, AppendOther
    <3>3. QED  BY <2>1, <3>1, <3>2
  <2>4. Going' => Going
    BY <2>1 DEF Going
  <2>5. QED  BY <2>1, <2>3, <2>4 DEF Ordered, NothingYet, BetweenFrames, InFrame, Behind
<1>3. QED  BY <1>1, <1>2

\* Every step keeps the order.
LEMMA NextOrdered ==
  IInv /\ (werr # "none" => pc = "return") /\ Ordered /\ [Next]_vars => Ordered'
<1> SUFFICES ASSUME IInv, werr # "none" => pc = "return", Ordered, [Next]_vars PROVE Ordered'
  OBVIOUS
<1>1. CASE UNCHANGED vars
  <2>1. DataOut' = DataOut
    BY <1>1 DEF vars, DataOut
  <2>2. QED
    BY <1>1, <2>1 DEF Ordered, NothingYet, BetweenFrames, InFrame, Behind, IndexGrows, Going,
                      vars, syncVars, frameVars, unpackVars, callVars
<1>2. CASE Step
  BY <1>2, SkipOrdered, ConsumeResetOrdered, FrameOrdered, ExtractDoneOrdered,
     UnpackPairOrdered, UnpackLastOrdered, ReturnOrdered DEF Step
<1>3. CASE \E k \in ChunkSizes[opts] : Write(k)
  BY <1>3, WriteOrdered
<1>4. CASE Close \/ Reset
  BY <1>4, EndOrdered
<1>5. QED  BY <1>1, <1>2, <1>3, <1>4 DEF Next

\* The blocks that the sinks are handed have indexes that never go back, and
\* two blocks of one ID never have the same.
THEOREM IndexAlwaysGrows == Spec => []IndexGrows
<1> DEFINE J == (werr # "none" => pc = "return") /\ Ordered
<1>1. Init => J
  <2> SUFFICES ASSUME Init PROVE J
    OBVIOUS
  <2>1. pc = "idle" /\ werr = "none" /\ out = <<>> /\ exFrm = <<>>
    BY DEF Init
  <2>2. DataOut = {} /\ IndexGrows
    BY <2>1 DEF DataOut, IndexGrows
  <2>3. QED  BY <2>1, <2>2 DEF Ordered, NothingYet, BetweenFrames, InFrame, Behind
<1>2. IInv /\ J /\ [Next]_vars => J'
  BY NextOrdered, FailsReturn
<1>3. J => IndexGrows
  BY DEF Ordered
<1>4. QED  BY <1>1, <1>2, <1>3, Inductive, PTL DEF Spec
=============================================================================
