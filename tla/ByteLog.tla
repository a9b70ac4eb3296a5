------------------------------ MODULE ByteLog ------------------------------
(***************************************************************************)
(* What byteReader gives its callers, the packet parsers: the scratch is   *)
(* the sequence of the bytes they have read or written since the last      *)
(* Reset, less what they have unread or discarded, whatever its length.    *)
(* One thing tears it: a discard that keeps a tail once the scratch has    *)
(* outgrown the array.  From then on only the number of bytes is right,    *)
(* until Reset; a scratch that outgrows the array again takes new bytes    *)
(* as they are.                                                            *)
(***************************************************************************)
EXTENDS Integers, Sequences

CONSTANTS
  Inline,       \* the size of the array
  Bytes,        \* the values of a byte
  Blocks,       \* the blocks a caller may feed
  MaxScratch    \* bound on the length of the scratch

VARIABLES
  data, off,    \* the current block and the number of bytes read from it
  log,          \* the bytes accumulated since Reset
  spilled,      \* the log has been longer than the array since Reset
  torn,         \* a tail was kept of a spilled log
  canUnread,    \* the last call was a successful ReadByte
  ret           \* the answer of the last call

logVars == <<log, spilled, torn>>
vars    == <<data, off, logVars, canUnread, ret>>

NoByte  == [ok |-> FALSE, byte |-> 0]
Byte(b) == [ok |-> TRUE, byte |-> b]

Init ==
  /\ data = <<>> /\ off = 0
  /\ log = <<>> /\ spilled = FALSE /\ torn = FALSE
  /\ canUnread = FALSE /\ ret = NoByte

\* In a torn log a byte that still fits the array is lost, and the one that does
\* not brings the array's bytes back, among them those from before the discard.
Appended(b) ==
  /\ Len(log) < MaxScratch
  /\ \/ /\ torn => Len(log) > Inline
        /\ log' = Append(log, b)
     \/ /\ torn /\ Len(log) < Inline
        /\ \E x \in Bytes : log' = Append(log, x)
     \/ /\ torn /\ Len(log) = Inline
        /\ \E s \in [1..Inline -> Bytes] : log' = Append(s, b)
  /\ spilled' = (spilled \/ Len(log) >= Inline)
  /\ torn' = (torn /\ Len(log) # Inline)

Emptied == log' = <<>> /\ spilled' = FALSE /\ torn' = FALSE

Feed(block) ==
  /\ data' = block /\ off' = 0
  /\ canUnread' = FALSE /\ ret' = NoByte
  /\ UNCHANGED logVars

ReadByte ==
  /\ off < Len(data)
  /\ off' = off + 1 /\ Appended(data[off + 1])
  /\ canUnread' = TRUE /\ ret' = Byte(data[off + 1])
  /\ UNCHANGED data

ReadByteRaw ==
  /\ off < Len(data)
  /\ off' = off + 1
  /\ canUnread' = FALSE /\ ret' = Byte(data[off + 1])
  /\ UNCHANGED <<data, logVars>>

Peek ==
  /\ off < Len(data)
  /\ canUnread' = FALSE /\ ret' = Byte(data[off + 1])
  /\ UNCHANGED <<data, off, logVars>>

EndOfBlock ==
  /\ off >= Len(data)
  /\ canUnread' = FALSE /\ ret' = NoByte
  /\ UNCHANGED <<data, off, logVars>>

WriteScratch(b) ==
  /\ Appended(b)
  /\ canUnread' = FALSE /\ ret' = NoByte
  /\ UNCHANGED <<data, off>>

UnreadByte ==
  /\ canUnread
  /\ off' = off - 1 /\ log' = SubSeq(log, 1, Len(log) - 1)
  /\ canUnread' = FALSE /\ ret' = NoByte
  /\ UNCHANGED <<data, spilled, torn>>

Reset ==
  /\ Emptied
  /\ canUnread' = FALSE /\ ret' = NoByte
  /\ UNCHANGED <<data, off>>

\* The tail of a log that is not torn yet is kept as it is.
DiscardScratchPrefix(n) ==
  /\ \/ n >= Len(log) /\ Emptied
     \/ /\ n < Len(log)
        /\ \E tail \in IF torn THEN [1..(Len(log) - n) -> Bytes]
                       ELSE {SubSeq(log, n + 1, Len(log))} : log' = tail
        /\ torn' = spilled /\ UNCHANGED spilled
  /\ canUnread' = FALSE /\ ret' = NoByte
  /\ UNCHANGED <<data, off>>

Next ==
  \/ \E block \in Blocks : Feed(block)
  \/ ReadByte \/ ReadByteRaw \/ Peek \/ EndOfBlock
  \/ \E b \in Bytes : WriteScratch(b)
  \/ UnreadByte \/ Reset
  \/ \E n \in 1..MaxScratch : DiscardScratchPrefix(n)

Spec == Init /\ [][Next]_vars
============================================================================
