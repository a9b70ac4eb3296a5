-------------------------- MODULE ByteReaderProofs --------------------------
(***************************************************************************)
(* For a scratch array of any size, any bytes and any blocks: the reader   *)
(* implements a log of bytes that only a discard of a prefix, with the     *)
(* array overflown, can tear.                                              *)
(***************************************************************************)
EXTENDS ByteReader, TLAPS

\* While the scratch is torn, a byte that can be given back is one the array
\* has taken, or one of several beyond it.
Tearing ==
  torn /\ canUnread => /\ scratchLen # Inline + 1
                       /\ scratchLen <= Inline => extLen < scratchLen

IInv == TypeOK /\ InCapacity /\ BuffersAgree /\ Tearing

\* What a call answers.
LEMMA AnswersTyped == NoByte \in Answers /\ \A b \in Bytes : Byte(b) \in Answers
  BY BytesAssumption DEF NoByte, Byte, Answers

\* The array and the slice start as they are promised to be.
LEMMA InitIInv == Init => IInv
<1> SUFFICES ASSUME Init PROVE IInv
  OBVIOUS
<1> USE InlineAssumption, BytesAssumption, BoundAssumption
<1>1. canUnread \in BOOLEAN /\ ~canUnread
  BY DEF Init
<1>2. ret \in Answers
  BY AnswersTyped DEF Init
<1>3. data \in Seq(Bytes) /\ off \in 0..Len(data)
  BY DEF Init
<1>4. scratch \in [1..Inline -> Bytes] /\ scratchExt \in Seq(Bytes)
  BY DEF Init, Zeros
<1>5. extLen \in 0..Len(scratchExt) /\ scratchLen \in 0..MaxScratch
  BY DEF Init
<1>6. InCapacity
  BY <1>1 DEF Init, InCapacity
<1>7. torn \in BOOLEAN /\ ~torn
  BY DEF Init
<1>8. BuffersAgree /\ Tearing
  BY <1>1, <1>7 DEF Init, BuffersAgree, Tearing
<1> QED BY <1>1, <1>2, <1>3, <1>4, <1>5, <1>6, <1>7, <1>8 DEF IInv, TypeOK

\* Buffers that agree up to a length have the same scratch of that length.
LEMMA SamePrefix ==
  ASSUME NEW s \in Seq(Bytes), NEW t \in Seq(Bytes), NEW n \in Nat,
         n <= Len(s), n <= Len(t), \A k \in 1..n : s[k] = t[k]
  PROVE  SubSeq(s, 1, n) = SubSeq(t, 1, n)
  OBVIOUS

\* A sequence of so many bytes.
LEMMA SeqIsFunction ==
  ASSUME NEW s \in Seq(Bytes), NEW n \in Nat, Len(s) = n
  PROVE  s \in [1..n -> Bytes]
  OBVIOUS

\* A byte in a buffer: what append writes and where.
BufferTyped ==
  /\ scratch \in [1..Inline -> Bytes] /\ scratchExt \in Seq(Bytes)
  /\ extLen \in 0..Len(scratchExt) /\ scratchLen \in 0..MaxScratch
  /\ torn \in BOOLEAN

BufferAppended ==
  /\ scratchLen > 0
  /\ scratchLen <= IF extLen > 0 THEN Len(scratchExt) ELSE Inline
  /\ scratchExt # <<>> => Len(scratchExt) > Inline
  /\ scratchLen > Inline => extLen = scratchLen
  /\ extLen <= scratchLen
  /\ torn => /\ extLen > 0 /\ scratchLen # Inline + 1
             /\ scratchLen <= Inline => extLen < scratchLen
  /\ ~torn /\ scratchLen <= Inline => extLen = 0
  /\ ~torn /\ extLen > 0 => \A k \in 1..Inline : scratchExt[k] = scratch[k]

\* While the array has room, whichever buffer is in use.
LEMMA AppendInlineKeeps ==
  ASSUME IInv, NEW b \in Bytes, appendScratch(b), AppendInline(b)
  PROVE  BufferTyped' /\ BufferAppended' /\ Log!Appended(b)
<1> USE InlineAssumption, BytesAssumption, BoundAssumption
<1>1. /\ scratchLen < Inline /\ scratchLen < MaxScratch /\ extLen' = extLen
      /\ scratch' = [scratch EXCEPT ![scratchLen + 1] = b]
      /\ scratchLen' = scratchLen + 1 /\ scratchExt' = scratchExt /\ torn' = torn
  BY DEF AppendInline, IInv, TypeOK, BuffersAgree, appendScratch
<1>1a. torn' = (torn /\ scratchLen # Inline)
  BY DEF appendScratch
<1>2. /\ scratch \in Seq(Bytes) /\ Len(scratch) = Inline /\ scratch' \in Seq(Bytes)
      /\ Len(scratch') = Inline /\ scratchExt \in Seq(Bytes) /\ scratchLen \in Nat
      /\ extLen \in Nat /\ extLen <= Len(scratchExt)
  BY <1>1 DEF IInv, TypeOK
<1>3. BufferTyped'
  BY <1>1 DEF IInv, TypeOK, BufferTyped
<1>4. BufferAppended'
  BY <1>1 DEF IInv, TypeOK, InCapacity, BuffersAgree, BufferAppended
<1>5. CASE ~torn
  <2>1. extLen = 0 /\ extLen' = 0
    BY <1>1, <1>5 DEF IInv, TypeOK, BuffersAgree
  <2>2. Scratch = SubSeq(scratch, 1, scratchLen) /\ Scratch' = SubSeq(scratch', 1, scratchLen + 1)
    BY <1>1, <2>1 DEF Scratch
  <2>3. Scratch' = Append(Scratch, b) /\ Len(Scratch) = scratchLen
    BY <1>1, <1>2, <2>2
  <2>4. (extLen' > 0) = (extLen > 0 \/ Len(Scratch) >= Inline) /\ torn' = (torn /\ Len(Scratch) # Inline)
    <3>1. ~(extLen' > 0) /\ ~(extLen > 0 \/ Len(Scratch) >= Inline)
      BY <1>1, <1>2, <2>1, <2>3
    <3>2. torn' = (torn /\ Len(Scratch) # Inline)
      BY <1>1a, <2>3
    <3> QED BY <3>1, <3>2
  <2> QED BY <1>1, <1>3, <1>4, <1>5, <2>3, <2>4 DEF Log!Appended
<1>6. CASE torn
  <2>1. extLen > 0 /\ extLen' > 0 /\ Len(scratchExt) > Inline
    BY <1>1, <1>2, <1>6 DEF IInv, TypeOK, BuffersAgree, InCapacity
  <2>2. Scratch = SubSeq(scratchExt, 1, scratchLen) /\ Scratch' = SubSeq(scratchExt, 1, scratchLen + 1)
    BY <1>1, <2>1 DEF Scratch
  <2>3. /\ Scratch' = Append(Scratch, scratchExt[scratchLen + 1]) /\ Len(Scratch) = scratchLen
        /\ scratchExt[scratchLen + 1] \in Bytes
    BY <1>1, <1>2, <2>1, <2>2
  <2>4. \E x \in Bytes : Scratch' = Append(Scratch, x)
    BY <2>3
  <2>5. (extLen' > 0) = (extLen > 0 \/ Len(Scratch) >= Inline) /\ torn' = (torn /\ Len(Scratch) # Inline)
    <3>1. extLen' > 0 /\ (extLen > 0 \/ Len(Scratch) >= Inline)
      BY <2>1
    <3>2. torn' = (torn /\ Len(Scratch) # Inline)
      BY <1>1a, <2>3
    <3> QED BY <3>1, <3>2
  <2> QED BY <1>1, <1>3, <1>4, <1>6, <2>3, <2>4, <2>5 DEF Log!Appended
<1> QED BY <1>3, <1>4, <1>5, <1>6

\* When it is full, with the array taken along or behind the slice's bytes.
LEMMA AppendSpillKeeps ==
  ASSUME IInv, NEW b \in Bytes, appendScratch(b), AppendSpill(b)
  PROVE  BufferTyped' /\ BufferAppended' /\ Log!Appended(b)
<1> USE InlineAssumption, BytesAssumption, BoundAssumption
<1> DEFINE full == scratchLen = Inline
           used == IF full THEN Inline ELSE extLen
           mem  == IF full THEN [k \in 1..Len(Memory) |-> IF k <= Inline THEN scratch[k]
                                                          ELSE Memory[k]]
                   ELSE Memory
<1>1. Memory \in Seq(Bytes) /\ Len(Memory) > Inline
  BY DEF Memory, Zeros, IInv, TypeOK, InCapacity
<1>2. mem \in Seq(Bytes) /\ Len(mem) = Len(Memory)
  BY <1>1 DEF IInv, TypeOK
<1>3. used = scratchLen /\ used \in Nat /\ used >= Inline /\ used <= Len(mem)
  BY <1>1, <1>2 DEF AppendSpill, IInv, TypeOK, BuffersAgree, InCapacity, Memory
<1>4. full \/ ~torn => \A k \in 1..Inline : mem[k] = scratch[k]
  BY <1>1, <1>3 DEF AppendSpill, IInv, TypeOK, BuffersAgree, Memory
<1>5. ~full \/ ~torn => Scratch = SubSeq(mem, 1, used)
  <2>1. CASE full /\ ~torn
    <3>1. Scratch = SubSeq(scratch, 1, Inline)
      BY <2>1 DEF Scratch, IInv, TypeOK, BuffersAgree, InCapacity
    <3>2. scratch \in Seq(Bytes) /\ Len(scratch) = Inline
      BY DEF IInv, TypeOK
    <3>3. used = Inline /\ Inline <= Len(mem)
      BY <2>1, <1>1, <1>2
    <3>4. \A k \in 1..Inline : mem[k] = scratch[k]
      BY <2>1, <1>4
    <3> HIDE DEF full, used, mem
    <3> QED BY <3>1, <3>2, <3>3, <3>4, <1>2, SamePrefix
  <2>2. CASE ~full
    BY <2>2 DEF Scratch, AppendSpill, IInv, TypeOK, BuffersAgree, Memory
  <2> QED BY <2>1, <2>2
<1> DEFINE big == Grown(mem, used)
<1>6. /\ big \in Seq(Bytes) /\ Len(big) > used /\ Len(big) >= Len(mem)
      /\ \A k \in 1..Len(mem) : big[k] = mem[k]
  <2> HIDE DEF full, used, mem
  <2>1. CASE used < Len(mem)
    BY <2>1, <1>2, <1>3 DEF Grown
  <2>2. CASE ~(used < Len(mem))
    <3> DEFINE z == Zeros(Len(mem))
    <3>1. Len(mem) \in Nat /\ Len(mem) > 0
      BY <1>1, <1>2
    <3>2. z \in Seq(Bytes) /\ Len(z) = Len(mem)
      BY <3>1 DEF Zeros
    <3>3. big = mem \o z
      BY <2>2 DEF Grown
    <3> HIDE DEF z, big
    <3> QED BY <3>1, <3>2, <3>3, <1>2, <1>3
  <2> QED BY <2>1, <2>2
<1>7. /\ scratchExt' = [big EXCEPT ![used + 1] = b] /\ extLen' = used + 1
      /\ scratch' = scratch /\ scratchLen' = scratchLen + 1 /\ scratchLen < MaxScratch
      /\ torn' = (torn /\ ~full)
  BY DEF AppendSpill, appendScratch
<1>8. full <=> scratchLen = Inline
  OBVIOUS
<1>9. Len(Scratch) = scratchLen /\ scratchLen \in Nat /\ torn \in BOOLEAN
  BY DEF Scratch, IInv, TypeOK, InCapacity
<1>10. torn => extLen > 0
  BY DEF IInv, BuffersAgree
<1>11. extLen > 0 \/ scratchLen >= Inline
  BY <1>3
<1> HIDE DEF full, used, mem, big
<1>12. /\ scratchExt' \in Seq(Bytes) /\ Len(scratchExt') = Len(big)
       /\ scratchExt'[used + 1] = b
       /\ \A k \in 1..used : scratchExt'[k] = mem[k]
  BY <1>3, <1>6, <1>7
<1>13. SubSeq(mem, 1, used) \in Seq(Bytes) /\ Len(SubSeq(mem, 1, used)) = used
  BY <1>2, <1>3
<1>14. Scratch' = Append(SubSeq(mem, 1, used), b)
  <2>1. Scratch' = SubSeq(scratchExt', 1, used + 1)
    BY <1>3, <1>7 DEF Scratch
  <2> QED BY <2>1, <1>2, <1>3, <1>6, <1>12
<1>15. Log!Appended(b)
  <2>1. CASE ~full \/ ~torn
    <3>1. Scratch' = Append(Scratch, b)
      BY <2>1, <1>5, <1>14
    <3>2. torn => scratchLen > Inline
      BY <2>1, <1>3, <1>8, <1>9
    <3> QED BY <3>1, <3>2, <1>3, <1>7, <1>8, <1>9 DEF Log!Appended
  <2>2. CASE full /\ torn
    <3>1. SubSeq(mem, 1, used) \in [1..Inline -> Bytes]
      <4>1. used = Inline
        BY <2>2, <1>3, <1>8
      <4>2. Len(SubSeq(mem, 1, used)) = Inline /\ SubSeq(mem, 1, used) \in Seq(Bytes)
        BY <4>1, <1>13
      <4> QED BY <4>2, SeqIsFunction
    <3>2. \E s \in [1..Inline -> Bytes] : Scratch' = Append(s, b)
      BY <3>1, <1>14
    <3> QED BY <2>2, <3>2, <1>3, <1>7, <1>8, <1>9, <1>10 DEF Log!Appended
  <2> QED BY <2>1, <2>2
<1>16. BufferTyped'
  BY <1>3, <1>6, <1>7, <1>9, <1>12 DEF BufferTyped, IInv, TypeOK
<1>17. ~torn' /\ extLen' > 0 => \A k \in 1..Inline : scratchExt'[k] = scratch'[k]
  BY <1>3, <1>4, <1>7, <1>9, <1>12
<1>18. /\ scratchLen' > Inline /\ extLen' = scratchLen' /\ scratchLen' <= Len(scratchExt')
       /\ Len(scratchExt') > Inline /\ extLen' > 0
  BY <1>1, <1>2, <1>3, <1>6, <1>7, <1>9, <1>12
<1>19. torn' => scratchLen' # Inline + 1
  <2>1. torn' => ~full
    BY <1>7
  <2>2. ~full => scratchLen' # Inline + 1
    BY <1>7, <1>8, <1>9
  <2> QED BY <2>1, <2>2
<1>20. scratchLen' > 0 /\ scratchLen' \in Nat /\ ~(scratchLen' <= Inline)
  BY <1>7, <1>9, <1>18
<1> QED BY <1>15, <1>16, <1>17, <1>18, <1>19, <1>20 DEF BufferAppended

LEMMA AppendKeeps ==
  ASSUME IInv, NEW b \in Bytes, appendScratch(b)
  PROVE  BufferTyped' /\ BufferAppended' /\ Log!Appended(b)
  BY AppendInlineKeeps, AppendSpillKeeps DEF appendScratch

\* An append leaves the invariant, whether its byte can be given back or not.
LEMMA Assemble ==
  ASSUME data' \in Seq(Bytes), off' \in 0..Len(data'), BufferTyped',
         canUnread' \in BOOLEAN, ret' \in Answers, InCapacity', BuffersAgree', Tearing'
  PROVE  IInv'
  BY DEF IInv, TypeOK, BufferTyped

LEMMA AppendedIInv ==
  ASSUME BufferTyped', BufferAppended', data' \in Seq(Bytes), off' \in 0..Len(data'),
         canUnread' \in BOOLEAN, canUnread' => off' > 0, ret' \in Answers
  PROVE  IInv'
<1> USE InlineAssumption, BoundAssumption
<1>1. InCapacity'
  BY DEF InCapacity, BufferAppended
<1>2. BuffersAgree'
  BY DEF BuffersAgree, BufferAppended, BufferTyped
<1>3. Tearing'
  BY DEF Tearing, BufferAppended
<1> QED BY <1>1, <1>2, <1>3, Assemble

\* A call that leaves the buffers alone.
LEMMA BuffersUntouched ==
  ASSUME IInv, UNCHANGED bufVars, canUnread' = FALSE, ret' \in Answers,
         data' \in Seq(Bytes), off' \in 0..Len(data')
  PROVE  IInv' /\ UNCHANGED Log!logVars
<1>1. canUnread' \in BOOLEAN /\ ~canUnread'
  OBVIOUS
<1>2. BufferTyped'
  BY DEF IInv, TypeOK, bufVars, BufferTyped
<1>3. InCapacity' /\ BuffersAgree' /\ Tearing'
  BY <1>1 DEF IInv, InCapacity, BuffersAgree, Tearing, bufVars
<1>4. UNCHANGED Log!logVars
  BY DEF Scratch, bufVars, Log!logVars
<1> QED BY <1>1, <1>2, <1>3, <1>4, Assemble

\* Every call keeps the invariant and is the call of the log by the same name.
LEMMA NextIInv == IInv /\ [Next]_vars => IInv' /\ [Log!Next]_(Log!vars)
<1> SUFFICES ASSUME IInv, [Next]_vars PROVE IInv' /\ [Log!Next]_(Log!vars)
  OBVIOUS
<1> USE InlineAssumption, BytesAssumption, BoundAssumption, BlocksAssumption
<1>0. Len(Scratch) = scratchLen /\ Scratch \in Seq(Bytes)
  BY DEF Scratch, IInv, TypeOK, InCapacity
<1>1. ASSUME NEW block \in Blocks, Feed(block) PROVE IInv' /\ Log!Feed(block)
  <2>1. /\ UNCHANGED bufVars /\ canUnread' = FALSE /\ ret' \in Answers
        /\ data' \in Seq(Bytes) /\ off' \in 0..Len(data')
    BY <1>1, AnswersTyped DEF Feed, IInv, TypeOK
  <2>2. IInv' /\ UNCHANGED Log!logVars
    BY <2>1, BuffersUntouched
  <2>3. Log!Feed(block)
    BY <1>1, <2>2 DEF Feed, NoByte, Log!Feed, Log!NoByte
  <2> QED BY <2>2, <2>3 DEF Log!Next
<1>2. CASE ReadByte
  <2>1. data[off + 1] \in Bytes /\ appendScratch(data[off + 1])
    BY <1>2 DEF ReadByte, IInv, TypeOK
  <2>2. BufferTyped' /\ BufferAppended' /\ Log!Appended(data[off + 1])
    BY <2>1, AppendKeeps
  <2>3. Log!ReadByte
    BY <1>2, <2>2 DEF ReadByte, Log!ReadByte, Byte, Log!Byte
  <2>4. canUnread' \in BOOLEAN /\ ret' \in Answers
    BY <1>2, <2>1, AnswersTyped DEF ReadByte
  <2>5. data' \in Seq(Bytes) /\ off' \in 0..Len(data') /\ off' > 0
    BY <1>2 DEF ReadByte, IInv, TypeOK
  <2> QED BY <2>2, <2>3, <2>4, <2>5, AppendedIInv DEF Log!Next
<1>3. CASE ReadByteRaw
  <2>0. data[off + 1] \in Bytes
    BY <1>3 DEF ReadByteRaw, IInv, TypeOK
  <2>1. /\ UNCHANGED bufVars /\ canUnread' = FALSE /\ ret' \in Answers
        /\ data' \in Seq(Bytes) /\ off' \in 0..Len(data')
    <3>1. ret' \in Answers
      BY <1>3, <2>0, AnswersTyped DEF ReadByteRaw
    <3> QED BY <3>1, <1>3 DEF ReadByteRaw, IInv, TypeOK
  <2>2. IInv' /\ UNCHANGED Log!logVars
    BY <2>1, BuffersUntouched
  <2>3. Log!ReadByteRaw
    BY <1>3, <2>2 DEF ReadByteRaw, Byte, Log!ReadByteRaw, Log!Byte
  <2> QED BY <2>2, <2>3 DEF Log!Next
<1>4. CASE Peek
  <2>0. data[off + 1] \in Bytes
    BY <1>4 DEF Peek, IInv, TypeOK
  <2>1. /\ UNCHANGED bufVars /\ canUnread' = FALSE /\ ret' \in Answers
        /\ data' \in Seq(Bytes) /\ off' \in 0..Len(data')
    <3>1. ret' \in Answers
      BY <1>4, <2>0, AnswersTyped DEF Peek
    <3> QED BY <3>1, <1>4 DEF Peek, IInv, TypeOK
  <2>2. IInv' /\ UNCHANGED Log!logVars
    BY <2>1, BuffersUntouched
  <2>3. Log!Peek
    BY <1>4, <2>2 DEF Peek, Byte, Log!Peek, Log!Byte
  <2> QED BY <2>2, <2>3 DEF Log!Next
<1>5. CASE EndOfBlock
  <2>1. /\ UNCHANGED bufVars /\ canUnread' = FALSE /\ ret' \in Answers
        /\ data' \in Seq(Bytes) /\ off' \in 0..Len(data')
    BY <1>5, AnswersTyped DEF EndOfBlock, IInv, TypeOK
  <2>2. IInv' /\ UNCHANGED Log!logVars
    BY <2>1, BuffersUntouched
  <2>3. Log!EndOfBlock
    BY <1>5, <2>2 DEF EndOfBlock, NoByte, Log!EndOfBlock, Log!NoByte
  <2> QED BY <2>2, <2>3 DEF Log!Next
<1>6. ASSUME NEW b \in Bytes, WriteScratch(b) PROVE IInv' /\ Log!WriteScratch(b)
  <2>1. BufferTyped' /\ BufferAppended' /\ Log!Appended(b)
    BY <1>6, AppendKeeps DEF WriteScratch
  <2>2. Log!WriteScratch(b)
    BY <1>6, <2>1 DEF WriteScratch, Log!WriteScratch, NoByte, Log!NoByte
  <2>3. canUnread' \in BOOLEAN /\ ~canUnread' /\ ret' \in Answers
    BY <1>6, AnswersTyped DEF WriteScratch
  <2>4. data' \in Seq(Bytes) /\ off' \in 0..Len(data')
    BY <1>6 DEF WriteScratch, IInv, TypeOK
  <2> QED BY <2>1, <2>2, <2>3, <2>4, AppendedIInv
<1>7. CASE UnreadByte
  <2>1. canUnread' \in BOOLEAN /\ ~canUnread' /\ ret' \in Answers /\ canUnread
    BY <1>7, AnswersTyped DEF UnreadByte
  <2>2. /\ off > 0 /\ scratchLen > 0 /\ scratchLen' = scratchLen - 1 /\ off' = off - 1
        /\ extLen' = (IF extLen > scratchLen - 1 THEN scratchLen - 1 ELSE extLen)
        /\ data' = data /\ scratch' = scratch /\ scratchExt' = scratchExt /\ torn' = torn
    BY <1>7, <2>1 DEF UnreadByte, IInv, InCapacity
  <2>3. extLen > 0 <=> extLen' > 0
    BY <2>1, <2>2 DEF IInv, TypeOK, BuffersAgree, Tearing
  <2>4. Scratch' = SubSeq(Scratch, 1, Len(Scratch) - 1)
    BY <2>2, <2>3, <1>0 DEF Scratch, IInv, TypeOK, InCapacity
  <2>5. Log!UnreadByte
    BY <1>7, <2>2, <2>3, <2>4 DEF UnreadByte, Log!UnreadByte, NoByte, Log!NoByte
  <2>6. data' \in Seq(Bytes) /\ off' \in 0..Len(data') /\ BufferTyped'
    BY <2>2 DEF IInv, TypeOK, BufferTyped
  <2>7. InCapacity' /\ Tearing'
    BY <2>1, <2>2 DEF InCapacity, BuffersAgree, Tearing, IInv, TypeOK
  <2>8. BuffersAgree'
    <3>1. /\ scratchLen' > Inline => extLen' = scratchLen'
          /\ extLen' <= scratchLen' /\ (torn' => extLen' > 0)
      BY <2>1, <2>2, <2>3 DEF BuffersAgree, Tearing, IInv, TypeOK
    <3>2. CASE torn
      BY <3>1, <3>2, <2>2 DEF BuffersAgree
    <3>3. CASE ~torn
      BY <3>1, <3>3, <2>1, <2>2 DEF BuffersAgree, IInv, TypeOK
    <3> QED BY <3>2, <3>3
  <2> QED BY <2>1, <2>5, <2>6, <2>7, <2>8, Assemble DEF Log!Next
<1>8. ASSUME Reset PROVE IInv' /\ Log!Reset
  <2>1. canUnread' \in BOOLEAN /\ ~canUnread' /\ ret' \in Answers
    BY <1>8, AnswersTyped DEF Reset
  <2>2. data' \in Seq(Bytes) /\ off' \in 0..Len(data') /\ BufferTyped'
    <3>1. torn' \in BOOLEAN /\ data' = data /\ off' = off /\ scratchLen' = 0 /\ extLen' = 0
          /\ scratch' = scratch /\ scratchExt' = scratchExt
      BY <1>8 DEF Reset
    <3> QED BY <3>1 DEF IInv, TypeOK, BufferTyped
  <2>3. InCapacity' /\ BuffersAgree' /\ Tearing'
    BY <1>8, <2>1 DEF Reset, InCapacity, BuffersAgree, Tearing, IInv, TypeOK
  <2>4. Scratch' = <<>> /\ ~(extLen' > 0)
    BY <1>8 DEF Reset, Scratch
  <2>5. Log!Reset
    BY <1>8, <2>4 DEF Reset, NoByte, Log!Reset, Log!Emptied, Log!NoByte
  <2> QED BY <2>1, <2>2, <2>3, <2>5, Assemble
<1>9. ASSUME NEW n \in 1..MaxScratch, DiscardInline(n)
      PROVE  IInv' /\ Log!DiscardScratchPrefix(n)
  <2>1. /\ n < scratchLen /\ extLen = 0 /\ extLen' = 0 /\ scratchLen <= Inline
        /\ scratchLen' = scratchLen - n /\ scratchExt' = scratchExt
        /\ scratch' \in [1..Inline -> Bytes] /\ ~torn /\ ~torn'
        /\ \A k \in 1..(scratchLen - n) : scratch'[k] = scratch[k + n]
    BY <1>9 DEF DiscardInline, MovedUp, IInv, TypeOK, InCapacity, BuffersAgree
  <2>2. Scratch' = SubSeq(Scratch, n + 1, Len(Scratch))
    BY <2>1, <1>0 DEF Scratch, IInv, TypeOK
  <2>3. torn' = torn
    BY <1>9 DEF DiscardInline
  <2>4. Log!DiscardScratchPrefix(n)
    <3>1. n < Len(Scratch) /\ (extLen > 0) = (extLen' > 0)
      BY <1>0, <2>1
    <3>2. torn' = (extLen > 0)
      <4>1. (extLen > 0) = FALSE
        BY <2>1
      <4>2. torn \in BOOLEAN
        BY DEF IInv, TypeOK
      <4>3. torn = FALSE
        BY <4>2, <2>1
      <4> QED BY <4>1, <4>3, <2>3
    <3> QED BY <1>9, <2>1, <2>2, <3>1, <3>2
            DEF DiscardInline, Log!DiscardScratchPrefix, NoByte, Log!NoByte
  <2>5. canUnread' \in BOOLEAN /\ ~canUnread' /\ ret' \in Answers
    BY <1>9, AnswersTyped DEF DiscardInline
  <2>6. data' \in Seq(Bytes) /\ off' \in 0..Len(data') /\ BufferTyped'
    <3>1. data' = data /\ off' = off
      BY <1>9 DEF DiscardInline
    <3> QED BY <3>1, <2>1, <2>3 DEF IInv, TypeOK, BufferTyped
  <2>7. InCapacity' /\ BuffersAgree' /\ Tearing'
    BY <2>1, <2>5 DEF InCapacity, BuffersAgree, Tearing, IInv, TypeOK
  <2> QED BY <2>4, <2>5, <2>6, <2>7, Assemble
<1>10. ASSUME NEW n \in 1..MaxScratch, DiscardSpilled(n)
       PROVE  IInv' /\ Log!DiscardScratchPrefix(n)
  <2>1. /\ n < scratchLen /\ extLen > 0 /\ scratchLen' = scratchLen - n /\ extLen' = scratchLen'
        /\ torn' = TRUE /\ scratch' = scratch /\ scratchLen' > 0 /\ scratchLen \in Nat
        /\ scratchLen <= Len(scratchExt) /\ scratchExt \in Seq(Bytes)
    BY <1>10 DEF DiscardSpilled, IInv, TypeOK, InCapacity
  <2>2. /\ scratchExt' \in Seq(Bytes) /\ Len(scratchExt') = Len(scratchExt)
        /\ extLen = scratchLen => \A k \in 1..(scratchLen - n) : scratchExt'[k] = scratchExt[k + n]
    BY <1>10, <2>1 DEF DiscardSpilled, MovedUp
  <2>3. Scratch = SubSeq(scratchExt, 1, scratchLen) /\ Scratch' = SubSeq(scratchExt', 1, scratchLen - n)
    BY <2>1 DEF Scratch
  <2>4. Scratch' \in [1..(scratchLen - n) -> Bytes]
    <3>1. Scratch' \in Seq(Bytes) /\ Len(Scratch') = scratchLen - n /\ scratchLen - n \in Nat
      BY <2>1, <2>2, <2>3
    <3> QED BY <3>1, SeqIsFunction
  <2>5. ~torn => Scratch' = SubSeq(Scratch, n + 1, Len(Scratch))
    <3> SUFFICES ASSUME ~torn PROVE Scratch' = SubSeq(Scratch, n + 1, Len(Scratch))
      OBVIOUS
    <3>1. extLen = scratchLen
      BY <2>1 DEF IInv, TypeOK, BuffersAgree
    <3> QED BY <3>1, <2>1, <2>2, <2>3
  <2>6. \E tail \in IF torn THEN [1..(Len(Scratch) - n) -> Bytes]
                    ELSE {SubSeq(Scratch, n + 1, Len(Scratch))} : Scratch' = tail
    BY <1>0, <2>4, <2>5
  <2>7. (extLen > 0) = (extLen' > 0) /\ torn' = (extLen > 0)
    BY <2>1
  <2>8. Log!DiscardScratchPrefix(n)
    BY <1>10, <1>0, <2>1, <2>6, <2>7 DEF DiscardSpilled, Log!DiscardScratchPrefix, NoByte, Log!NoByte
  <2>9. canUnread' \in BOOLEAN /\ ~canUnread' /\ ret' \in Answers
    BY <1>10, AnswersTyped DEF DiscardSpilled
  <2>10. data' \in Seq(Bytes) /\ off' \in 0..Len(data') /\ BufferTyped'
    BY <1>10, <2>1, <2>2 DEF DiscardSpilled, IInv, TypeOK, BufferTyped
  <2>11. scratchExt' # <<>> /\ Len(scratchExt') > Inline
    BY <2>1, <2>2 DEF IInv, InCapacity
  <2>12. InCapacity' /\ BuffersAgree' /\ Tearing'
    BY <2>1, <2>2, <2>9, <2>11 DEF InCapacity, BuffersAgree, Tearing
  <2> QED BY <2>8, <2>9, <2>10, <2>12, Assemble
<1>11. ASSUME NEW n \in 1..MaxScratch, DiscardAll(n)
       PROVE  IInv' /\ Log!DiscardScratchPrefix(n)
  <2>1. n >= scratchLen /\ IInv' /\ Log!Reset
    BY <1>11, <1>8 DEF DiscardAll
  <2> QED BY <2>1, <1>0 DEF Log!Reset, Log!DiscardScratchPrefix, Log!NoByte
<1>12. CASE UNCHANGED vars
  BY <1>12 DEF vars, bufVars, IInv, TypeOK, InCapacity, BuffersAgree, Tearing, Scratch,
               Log!vars, Log!logVars
<1> QED BY <1>1, <1>2, <1>3, <1>4, <1>5, <1>6, <1>7, <1>8, <1>9, <1>10, <1>11, <1>12
        DEF Next, Log!Next

\* The offset, the array, the slice and the two lengths never leave their
\* bounds, whatever is read, given back and discarded.
THEOREM TypeCorrect == Spec => []TypeOK
<1>1. IInv => TypeOK
  BY DEF IInv
<1> QED BY <1>1, InitIInv, NextIInv, PTL DEF Spec

\* The buffer in use, and the copy of its beginning in the array, are right
\* after any sequence of calls; after a discard that keeps the tail of a spilled
\* scratch, what is left of it is: the slice is in use, and no longer than the
\* scratch, until Reset or until the array is full again.
THEOREM BuffersAlwaysAgree == Spec => []BuffersAgree
<1>1. IInv => BuffersAgree
  BY DEF IInv
<1> QED BY <1>1, InitIInv, NextIInv, PTL DEF Spec

\* However many bytes a packet has, and however its calls are ordered, discards
\* included, the reader behaves as a log without a fixed-size array would, but
\* for the bytes of a log torn by a discard.
THEOREM ReaderImplementsLog == Spec => ImplementsLog
<1>1. Init => Log!Init
  BY InlineAssumption DEF Init, Log!Init, Scratch, NoByte, Log!NoByte, Zeros
<1> QED BY <1>1, InitIInv, NextIInv, PTL DEF Spec, ImplementsLog, Log!Spec
============================================================================
