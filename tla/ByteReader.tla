----------------------------- MODULE ByteReader -----------------------------
(***************************************************************************)
(* byteReader (byte_reader.go): a cursor over the current block and the    *)
(* scratch buffer of the packet that is being parsed.  The scratch is an   *)
(* array of fixed size that spills into a slice when a packet outgrows it. *)
(* The slice keeps its memory, and what is in it, over Reset.              *)
(*                                                                         *)
(* A discard that keeps the tail of a spilled scratch leaves the tail in   *)
(* the slice, while the bytes read next go to the array.  Both callers of  *)
(* DiscardScratchPrefix, the sync searches of ITM and of PTM, come to it:  *)
(* torn says from when to when.                                            *)
(*                                                                         *)
(* ReadBytes is left out (nothing calls it).  UnreadByte is called only    *)
(* right after a successful ReadByte, as its comment demands, so its error *)
(* return cannot be reached.                                               *)
(***************************************************************************)
EXTENDS Integers, Sequences

CONSTANTS
  Inline,       \* the size of the array scratch, 64 in the code
  Bytes,        \* the values of a byte
  Blocks,       \* the blocks a caller may feed
  MaxScratch    \* bound on the length of the scratch

ASSUME InlineAssumption == Inline \in Nat \ {0}
ASSUME BytesAssumption  == Bytes \subseteq Nat /\ 0 \in Bytes
ASSUME BlocksAssumption == Blocks \subseteq Seq(Bytes)
ASSUME BoundAssumption  == MaxScratch \in Nat

VARIABLES
  data, off,
  scratch,                 \* the array
  scratchExt, extLen,      \* the memory of the slice, and its length
  scratchLen,
  canUnread, ret,          \* as in ByteLog
  torn                     \* history: a discard has kept the tail of a spilled
                           \* scratch, and the array has not filled up since

bufVars == <<scratch, scratchExt, extLen, scratchLen, torn>>
vars    == <<data, off, bufVars, canUnread, ret>>

NoByte  == [ok |-> FALSE, byte |-> 0]
Byte(b) == [ok |-> TRUE, byte |-> b]

Zeros(n) == [k \in 1..n |-> 0]

Init ==
  /\ data = <<>> /\ off = 0
  /\ scratch = Zeros(Inline) /\ scratchExt = <<>> /\ extLen = 0 /\ scratchLen = 0
  /\ canUnread = FALSE /\ ret = NoByte /\ torn = FALSE

\* Scratch(): an empty slice means that the array is in use.
Scratch == SubSeq(IF extLen > 0 THEN scratchExt ELSE scratch, 1, scratchLen)

----------------------------------------------------------------------------
\* The memory that the first byte beyond the array spills into.
Memory == IF scratchExt = <<>> THEN Zeros(2 * Inline) ELSE scratchExt

\* A slice that append has to move because its memory is full.
Grown(mem, used) == IF used < Len(mem) THEN mem ELSE mem \o Zeros(Len(mem))

AppendInline(b) ==
  /\ scratchLen < Inline
  /\ scratch' = [scratch EXCEPT ![scratchLen + 1] = b]
  /\ UNCHANGED <<scratchExt, extLen>>

\* Mutant: the slice is taken as it is when the array is full.
AppendSpillNoCopy(b) ==
  /\ scratchLen >= Inline
  /\ LET used == IF scratchLen = Inline THEN Inline ELSE extLen
     IN  /\ scratchExt' = [Grown(Memory, used) EXCEPT ![used + 1] = b]
         /\ extLen' = used + 1
  /\ UNCHANGED scratch

\* The byte that does not fit takes the whole array along.
AppendSpill(b) ==
  /\ scratchLen >= Inline
  /\ LET full == scratchLen = Inline
         used == IF full THEN Inline ELSE extLen
         mem  == IF full THEN [k \in 1..Len(Memory) |-> IF k <= Inline THEN scratch[k]
                                                        ELSE Memory[k]]
                 ELSE Memory
     IN  /\ scratchExt' = [Grown(mem, used) EXCEPT ![used + 1] = b]
         /\ extLen' = used + 1
  /\ UNCHANGED scratch

appendScratch(b) ==
  /\ scratchLen < MaxScratch
  /\ AppendInline(b) \/ AppendSpill(b)
  /\ scratchLen' = scratchLen + 1
  /\ torn' = (torn /\ scratchLen # Inline)

----------------------------------------------------------------------------
Feed(block) ==
  /\ data' = block /\ off' = 0
  /\ canUnread' = FALSE /\ ret' = NoByte
  /\ UNCHANGED bufVars

ReadByte ==
  /\ off < Len(data)
  /\ off' = off + 1 /\ appendScratch(data[off + 1])
  /\ canUnread' = TRUE /\ ret' = Byte(data[off + 1])
  /\ UNCHANGED data

ReadByteRaw ==
  /\ off < Len(data)
  /\ off' = off + 1
  /\ canUnread' = FALSE /\ ret' = Byte(data[off + 1])
  /\ UNCHANGED <<data, bufVars>>

Peek ==
  /\ off < Len(data)
  /\ canUnread' = FALSE /\ ret' = Byte(data[off + 1])
  /\ UNCHANGED <<data, off, bufVars>>

\* ReadByte, ReadByteRaw and Peek answer io.EOF alike.
EndOfBlock ==
  /\ off >= Len(data)
  /\ canUnread' = FALSE /\ ret' = NoByte
  /\ UNCHANGED <<data, off, bufVars>>

WriteScratch(b) ==
  /\ appendScratch(b)
  /\ canUnread' = FALSE /\ ret' = NoByte
  /\ UNCHANGED <<data, off>>

\* Mutant: the byte is given back but may be given back again.
UnreadByteTwice ==
  /\ canUnread
  /\ off' = off - 1 /\ scratchLen' = scratchLen - 1
  /\ extLen' = IF extLen > scratchLen' THEN scratchLen' ELSE extLen
  /\ ret' = NoByte
  /\ UNCHANGED <<data, scratch, scratchExt, canUnread, torn>>

UnreadByte ==
  /\ canUnread
  /\ off' = off - 1 /\ scratchLen' = scratchLen - 1
  /\ extLen' = IF extLen > scratchLen' THEN scratchLen' ELSE extLen
  /\ canUnread' = FALSE /\ ret' = NoByte
  /\ UNCHANGED <<data, scratch, scratchExt, torn>>

\* Mutant: the slice stays in use.
ResetLengthOnly ==
  /\ scratchLen' = 0 /\ torn' = FALSE
  /\ canUnread' = FALSE /\ ret' = NoByte
  /\ UNCHANGED <<data, off, scratch, scratchExt, extLen>>

Reset ==
  /\ scratchLen' = 0 /\ extLen' = 0 /\ torn' = FALSE
  /\ canUnread' = FALSE /\ ret' = NoByte
  /\ UNCHANGED <<data, off, scratch, scratchExt>>

\* copy: the bytes behind the first n move to the front of the buffer s, of
\* which the first len bytes are in use.
MovedUp(s, len, n) ==
  [k \in 1..Len(s) |-> IF k <= len /\ k <= scratchLen - n THEN s[k + n] ELSE s[k]]

DiscardInline(n) ==
  /\ n < scratchLen /\ extLen = 0
  /\ scratch' = MovedUp(scratch, Inline, n) /\ scratchLen' = scratchLen - n
  /\ canUnread' = FALSE /\ ret' = NoByte
  /\ UNCHANGED <<data, off, scratchExt, extLen, torn>>

DiscardSpilled(n) ==
  /\ n < scratchLen /\ extLen > 0
  /\ scratchExt' = MovedUp(scratchExt, extLen, n)
  /\ scratchLen' = scratchLen - n /\ extLen' = scratchLen'
  /\ canUnread' = FALSE /\ ret' = NoByte /\ torn' = TRUE
  /\ UNCHANGED <<data, off, scratch>>

DiscardAll(n) == n >= scratchLen /\ Reset

Next ==
  \/ \E block \in Blocks : Feed(block)
  \/ ReadByte \/ ReadByteRaw \/ Peek \/ EndOfBlock
  \/ \E b \in Bytes : WriteScratch(b)
  \/ UnreadByte \/ Reset
  \/ \E n \in 1..MaxScratch : DiscardInline(n) \/ DiscardSpilled(n) \/ DiscardAll(n)

Spec == Init /\ [][Next]_vars

----------------------------------------------------------------------------
Answers == [ok : BOOLEAN, byte : Bytes]

TypeOK ==
  /\ data \in Seq(Bytes) /\ off \in 0..Len(data)
  /\ scratch \in [1..Inline -> Bytes] /\ scratchExt \in Seq(Bytes)
  /\ extLen \in 0..Len(scratchExt) /\ scratchLen \in 0..MaxScratch
  /\ canUnread \in BOOLEAN /\ ret \in Answers /\ torn \in BOOLEAN

\* Scratch() can always be cut from the buffer in use, the slice, once it has
\* memory, can hold the array, and UnreadByte finds a byte to give back.
InCapacity ==
  /\ scratchLen <= IF extLen > 0 THEN Len(scratchExt) ELSE Inline
  /\ scratchExt # <<>> => Len(scratchExt) > Inline
  /\ canUnread => off > 0 /\ scratchLen > 0

\* The array and the slice agree on which of them is in use, and while the
\* slice is in use the array still holds its beginning: UnreadByte may go back
\* to a full array, from which the next byte spills again.  Only a discard that
\* keeps the tail of a spilled scratch ends this, until Reset or until the array
\* is full and taken along again; even then the slice in use is no longer than
\* the scratch, and a scratch longer than the array is all in the slice.
BuffersAgree ==
  /\ scratchLen > Inline => extLen = scratchLen
  /\ extLen <= scratchLen
  /\ torn => extLen > 0
  /\ ~torn /\ scratchLen = Inline => extLen \in {0, Inline}
  /\ ~torn /\ scratchLen < Inline => extLen = 0
  /\ ~torn /\ extLen > 0 => /\ ~(canUnread /\ scratchLen = Inline)
                            /\ \A k \in 1..Inline : scratchExt[k] = scratch[k]

Log == INSTANCE ByteLog WITH log <- Scratch, spilled <- extLen > 0

\* Every call has the answer, and leaves a scratch of the length, that a reader
\* with a single unbounded buffer would; and the bytes of a packet are the bytes
\* that were read, however many blocks and whichever buffer they came through,
\* up to a discard that keeps a tail after the array has overflowed.  A scratch
\* torn by that may show any bytes, until Reset.
ImplementsLog == Log!Spec
============================================================================
