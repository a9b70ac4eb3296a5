# A verification of the coresight trace decoder

The repository is a decoder for ARM CoreSight trace: a block of raw bytes goes
in at the top, and elements (instruction ranges, exceptions, software trace,
time stamps) come out at the bottom. Everything runs synchronously on the
caller's stack: there are no goroutines, channels or locks. What makes the code
hard is not concurrency but that **the input may be cut anywhere**. Every layer
keeps state from one call of `Write` to the next, a block may end inside a sync
pattern, a frame or a packet, a sink or a handler may fail half way through a
block, and the caller may go on by either of two protocols.

This directory holds TLA+ models of the parts that carry that state, the TLC
runs that check them on small instances, and TLAPS proofs of the facts that
matter most for every instance. It is written against the Go source; PROJECT.json
maps every definition to the lines it models.

## The system

```
 caller --Write/Close/Reset--> Engine / Pipeline --> Demuxer --> one decoder per trace ID
                                                                   parser -> packets -> elements -> ElementSink
                                                                                |
                                                     codeFollower --Read--> GlobalMapper -> accessors
```

| Component | State | Operations | What makes it correct |
|---|---|---|---|
| Frame demuxer (`demux_*.go`) | the unfinished frame, the bytes held back, the current ID, sync flags, three indexes | `Write`, `Close`, `Reset`, `Flush` | every sink gets exactly its bytes, in order, with growing indexes, however the trace is cut; nothing is lost or seen twice; a call returns |
| Memory mapper (`memacc_*.go`) | accessors in order of registration, the accessor of the last read | `AddAccessor`, `Read`, `removeAllAccessors` | an answer depends neither on the order of registration nor on earlier reads; bytes come from inside the range |
| Byte reader (`byte_reader.go`, `protocol_io.go`) | block, offset, scratch buffer with spill-over | `Feed`, `ReadByte`, `Peek`, `UnreadByte`, `DiscardScratchPrefix` | the scratch is the bytes of the packet, however many blocks it spans |
| Pipeline and engine (`pipeline.go`, `engine.go`, `routes.go`) | routes by ID, the running index | `AddRoute`, `Write`, `Close`, `Reset` | one sink per ID, every sink is told about Close and Reset even if one fails |
| Packet parsers (`itm_`, `stm_`, `etmv3_`, `ptm_`, `etmv4_parser.go`) | process state, the unfinished packet, sync search, error recovery | `Write`, `Close`, `Reset` | the packets do not depend on how the bytes are cut; after a bad packet the parser finds the next sync |
| Decoders (`*_decoder.go`) | sync state, context, address and return stack; for ETMv4 the speculative P0 elements | one handler per packet | no element of a cancelled speculation is emitted, ranges are contiguous, after loss of sync nothing is emitted until resync |
| Return stack, code follower, instruction decoder | up to 16 return addresses; the current instruction | `push`, `pop`, `flush`; `followAtomWaypoint` | the newest 16 are kept; a range ends at its waypoint or where memory is missing |
| Snapshot reader, lister, printers | files and formatting | | not modelled: input/output and text |

### What is hard to test

The list is in PROJECT.json under "hazards", each at its line. The main ones:
blocks that end at every possible place for every protocol of the caller; errors
of sinks and raw handlers in the middle of a frame; state that survives a reset;
a limit computed before and used after FSYNCs have been taken out; a cache that
answers for the wrong space; a loss of sync while speculative elements are being
committed; an open return that outlives its address; addresses, times and
contexts that a packet brings only in part and that are completed from packets
before it; a packet that the decoder refuses and the parser has to send again.

## The modules

| Module | Models | Kind |
|---|---|---|
| `Demux` | `demux_demuxer.go`, `demux_frame_data.go` and the caller (`Engine.Write`) | component |
| `DemuxProps` | the CoreSight frame format, read without blocks or state | reference for the properties |
| `MCDemux` | traces, options and block sizes for TLC | instance |
| `DemuxProofs` | | proofs |
| `MemMap` | what `GlobalMapper` promises | abstract specification |
| `MemMapper` | `memacc_mapper.go` and the accessors | component, implements `MemMap` |
| `MCMemMapper` | accessors and spaces for TLC | instance |
| `MemMapperProofs` | | proofs |
| `CommonLemmas` | smallest and largest members, induction over an interval, iterated functions, sequences of anything | lemmas |
| `ByteLog` | what the byte reader promises: a sequence of bytes with a mark | abstract specification |
| `ByteReader` | `byte_reader.go`, `protocol_io.go` | component, implements `ByteLog` |
| `MCByteReader` | blocks and sizes for TLC | instance |
| `ByteReaderProofs` | | proofs |
| `Itm` | `itm_parser.go`, `itm_decoder.go`, the packets of `itm_packet.go` | component |
| `ItmProps` | the ITM protocol, read off a whole stream | reference for the properties |
| `ItmProofs` | | proofs |
| `MCItm` | streams of every packet, noise and bad packets for TLC | instance |
| `Speculation` | what a decoder of speculative trace promises about uncommitted elements | abstract specification |
| `Etmv4` | `etmv4_decoder.go`, `idec_ret_stack.go`, the walk of `etmv3_code_follower.go` | component |
| `Etmv4Props` | the walk through the program, one committed element at a time | reference, implements `Speculation` |
| `MCEtmv4` | a program, configurations and packets for TLC | instance |
| `Etmv4Parser` | `etmv4_parser.go`, the packet of `etmv4_packet.go` | component |
| `Etmv4ParserProps` | a trace source that sends in the short forms of the protocol | reference for the properties |
| `Etmv4Proofs` | | proofs about `Etmv4` and `Etmv4Parser` |
| `MCEtmv4Parser` | configurations and streams for TLC | instance |
| `Stm` | `stm_parser.go`, `stm_parser_packets.go`, `stm_decoder.go` | component |
| `StmProps` | STPv2, read off a whole stream of nibbles | reference for the properties |
| `StmProofs` | | proofs |
| `MCStm` | streams for TLC | instance |
| `Ptm` | `ptm_parser.go`, `ptm_packet.go`, `ptm_decoder.go`, `idec_ret_stack.go` | component |
| `PtmProps` | the PTM protocol read off a whole stream, and paths through a program | reference for the properties |
| `PtmProofs` | | proofs |
| `MCPtm` | a program, configurations and streams for TLC | instance |

### Demux

One call of `Demuxer.Write` is a run of steps that `pc` orders: `Write` (the
pending bytes, the sync search), then for every turn of the loop `NextTurn`
(how much of the block may be looked at), the extraction of an aligned frame
(`ConsumeResetFSyncs`, `ExtractAlignedFrame`) or of an unaligned one
(`ConsumeLeadingFSyncs`, `ExtractPair` per pair, `PairsDone`), `ExtractDone`,
`UnpackPair` per pair, `UnpackLast`, and `Return`. `Close` and `Reset` are one
step each. A call is cut into steps so that an error can end it at each place at
which the code has an early return; nothing else runs in between, and the
properties about what a caller may rely on are stated at `pc = "idle"`.

The variables carry the names of the fields. `inBlock` and `held` together are
`d.inBlock` during a turn (the code shortens it to `limit` and restores it);
`exFrm` is `exFrmData[:exFrmBytes]`. `out` is a history of what the sinks were
handed. The raw handler and the sinks may fail whenever they are called.

The caller is modelled because `Write` tells two protocols apart by the index
alone: the *rewriting* caller (`Engine.Write`) goes on behind the bytes that were
reported as processed and sends the rest again (`NextIndex` is its running index);
the other one (`trc_pkt_lister`) goes on behind its block. A caller stops after an error until it calls `Reset`.

Left out: `useForceSync` (no caller sets it), an empty block and a demuxer that
was never configured (immediate returns), `Flush` (forwards to the sinks only).
The frame size is a constant: 16 in the code, 8 in the runs; a reset run is the
number of FSYNCs that fill a frame, 4 in the code.

### MemMap and MemMapper

`MemMap` has a set of accessors and answers a read with a most specific one.
`MemMapper` has the sequence of entries, the cached accessor with the range and
space remembered of it, and the loop of `findAccessor`. A reply repeats the
request, so that a step of the mapper must be the step of the map for the very
same request. A memory space is a set of bits, an accessor a range, a space and a
kind: a buffer has all its bytes, a reader may be short, a callback may answer
anything. Byte counts are taken modulo `CountMod`, which is 2^32 in the code.

Left out: accessors that are reconfigured after registration (tests only do so),
and `DumpMappings` (text).

### ByteLog and ByteReader

`ByteLog` has the bytes of the packet so far and forgets them when the packet is
sent. `ByteReader` has the array of fixed size, the slice that takes over when the
array is full, the two lengths, the block and the offset. A read goes to whichever
of the two buffers is in use; the question is whether they still agree after
`UnreadByte`, which shortens one of them, and after the array has spilled over.

They do not after one call: `DiscardScratchPrefix` with a tail left over in a scratch
that has spilled (`DiscardSpilled`). The tail stays in the slice, `Scratch` goes on
to show the slice, and the bytes read next go to the array. Both callers get there.
ITM's search flushes the zeros in front of a byte that breaks them and keeps the
zero it has just read (`itm_parser.go` line 143): more than 64 zeros, a byte and a
zero will do. PTM's search throws 11 zeros out of every 16 and keeps 5, which add
up (`ptm_parser.go` line 232): behind 176 zeros it discards from 66 bytes.
`torn` says from when to when: to `Reset`, or until the array is full, when it is taken
along again, with bytes in it from before the discard. `ByteLog` has the same call
and says what is left of the promise: in a log that is torn only the number of bytes
is right. `Itm` and `Ptm` have the effect of the call on what they show.

### Itm and ItmProps

One call of `Write` is a run of steps under `pc`: one per turn of `processData`'s
loop and, inside the sync search, one per turn of `waitASync`'s loop. `ps` is
`processState`. `obs` and `elems` are histories: what the packet observer and the
element sink were handed. The decoder is the record `dec`, `processPacket` the
function from it and a packet to its next state and the elements. `scratch` is the
sequence of the bytes that were read. `stale` is empty, or the memory that the reader
shows in their place after a discard has torn the scratch (`StaleAfter`), up to the
array's length; `Flush` shows the bytes of `Scratch`. It matters in the search only:
a packet behind it starts from a `Reset` of the reader.

`ItmProps` states the protocol a second time, without any of this: `PacketsOf` cuts
a whole stream into packets, `ElementsOf` says what each packet means from the
packets before it (the last page write, the sum of the local times since an
overflow, the last value of each digit of the global time). Two facts about the
code that the reference has to say because they surprise: a reserved header is
acted on only when the next byte arrives, and the indexes of bytes that are
reported as `NotSync`, and of an Async right behind a bad packet, are those of an
earlier place.

### Speculation, Etmv4 and Etmv4Props

An ETMv4 processor traces what it executes speculatively. Atoms, exceptions, Q
elements and transaction starts wait on `pendingP0` (here `dec.p0`) until a packet
commits the oldest or cancels the newest of them, or until there are more than
`MaxSpecDepth`. `Speculation` has only the elements in doubt, how many older ones
there are, and the list of those committed. `Etmv4` has the decoder.

One step is one packet, since `processPacket` runs to its end and nothing else
runs in between. The decoder is the record `dec` and each function of the code an
operator from `dec` to `dec`. Three of its fields are histories: `out` (the
elements shown), `walk` (what the decoder acted on) and `resolved` (the P0 elements
committed). A scenario is a configuration (`MaxSpecDepth`, `CommitOpt1`, ETE, the
splitting of source ranges) and, for each step, a menu of packets. Memory is
`Program`, a sequence of decoded instructions with branches, calls, returns, a
barrier and an undefined opcode; addresses behind its end have no memory. The
packets are those that `Etmv4Parser` hands over; with `CommitOpt1` a cycle count has no
commit count (`etmv4_parser.go` lines 459 and 477).

`Etmv4Props` has a second reading of the trace, `WalkOf`: it goes through the
committed elements one at a time, while the code goes through runs of atoms whose
length depends on how commits arrive, and looks for a return address at three
places. `RangesOfCommitted` says that the two agree.

Two hazards no property covers: a TraceInfo that sets the depth while there are elements
on the stack (`respec`), and a return left open by a Q element or a source address
(`stale` in the walk). The model takes these steps as the code does, and the properties
are about traces without them; the repository does not say what ought to happen.

Left out: instruction sets, memory spaces, the fields of a context, the limit on
the instructions of a range, texts of diagnostics, and instructions of different
sizes. A caller stops after an error until it calls `Reset`.

### Etmv4Parser and Etmv4ParserProps

The parser in front of `Etmv4`. The steps are those of `processData`: `ProcHdr`
looks the header up in the table, one step per byte runs a handler (`iNotSync`,
`iPktExtension` and `iPktASync` by name, the others in `Payload`), `SendPkt` and
`SendUnsynced` hand over. Each of the other handlers is two operators: whether the
packet is complete with the byte just read, and the packet it then is. The code
keeps counters and flags for this (`tinfoSectFlags`, `addrBytes`, `ccountDone` and
so on), all set by the header and moved by the bytes behind it; the model reads them
off `raw`, the bytes of the packet. `pkt` is the one packet the code reuses, with
the three last addresses, the time, the threshold of cycle counts and the context.

The decoder is a box here: it takes a packet or returns an error. After an error the
parser stays in its send state with the packet's bytes consumed, and the caller goes
on behind them: the next `Write` sends the packet again before it looks at its own
bytes. `handed` is a history of what the decoder took, `shown` of what the observer
saw.

`Etmv4ParserProps` has no parser in it. It is the other end of the trace: a source
that knows addresses, times and counts in full, and a record of what it has sent.
A stream *fits* if each form in it is enough, that is, if one who has followed the
source so far can complete the packet.
`PacketsOfStream` says that the decoder takes what the source meant.

### Stm and StmProps

STPv2 packets are runs of nibbles. The stream is a sequence of nibbles and `pos`
counts them, which stands for the offset and the half-read byte of the code. Steps
are one per nibble and one per packet; `waitForSync` and the check for a sync that
runs beside every packet (`checkSyncNibble`) are part of them, with their byte-wide
counters. The decoder is the record `dec`. A caller may go on after a fatal error.
The reference reads STPv2 from the opcode table: what a packet consists of, which
packets set master, channel and time, and the Gray code of times.

### Ptm and PtmProps

Parser and decoder in one module. Inside a call there is one step per byte and per
packet. The sync search (`waitASync`, `findAsync`) has its locals in `sync`, with the
zeros that are kept at the end of a block and shown, if there is an observer, from a
fixed array at the start of the next, and with zeros kept of more than the reader's
array has room for, which are shown instead of the 0x80 of the Async (`AsShown`); `pc = "panic"` is the slice out of its range.
What a branch, waypoint, ISync or time packet keeps from byte to byte is `f`; the
fields are taken from the scratch when the packet is complete. The decoder walks
through `Program`, decoded instructions by instruction set and address, to the next
waypoint, with calls, returns, the return stack and missing memory.

`PacketsOfStream` compares what is shown behind the Async that ends the search with a
reading of the whole stream, `FollowsProgram` with
the meaning of a path: every range starts where an address packet said or where the
instruction at the end of the range before leads to, and a return leads to the call
that it belongs to, found by counting calls and returns, without a stack.

## The runs

| Run | Instance | Shows |
|---|---|---|
| `demux` | three aligned frames in blocks of any kind of cut; noise that looks like an FSYNC, FSYNCs between and HSYNCs inside frames; every shape of an 8-byte frame (36 choices of IDs and data in the four slots, four flag bytes) behind two others; reset runs at the start, in the middle and at the end in blocks of whole frames; both protocols, raw handler on or off, failing sinks | delivery in order and in full, `HeldBack`, `PendingBounded`, `IndexGrows`, `ResumesAtStop`, no spurious error, every call returns |
| `demux_reset_cut` | the traces with reset runs, blocks of 3, 8 and 13 bytes | **violation**: see below |
| `memmapper` | nine accessors over eight addresses and three spaces, four queries | no ambiguity, a transparent cache, reads in full, refinement of `MemMap` |
| `bytereader` | an array of a few bytes, blocks of several sizes, packets longer than the array, every call in every order | the buffers agree until a discard tears them and in what they have to even then, refinement of `ByteLog` |
| `itm` | noise, an Async, one packet of every kind, an Async; three packets in a row of the kinds that share state in the decoder; every kind of bad packet between two good ones; broken runs of zeros around the size of the reader's array, one behind another; a `Reset` between any two calls; blocks of 1, 3 and 8 bytes | the elements are those of the stream (with one end of trace, at `Close`), every byte is accounted for, those a torn scratch does not show by their number, parser and decoder lose and find sync together, every call returns |
| `etmv4` | a program of eight instructions; a depth of 0, 1 or 2; menus around commits and cancels, around losses of sync, around more calls than the return stack holds, and of the packets of ETE | the count of elements in doubt is right and bounded, a loss of sync leaves nothing behind, elements are resolved in order, ranges are those of the committed elements |
| `etmv4_parser` | 1218 streams: noise and zeros around a sync; every packet form and every kind of bad packet under an ETMv4, an ETMv4.6 and an ETE configuration; runs of addresses, contexts, times and counts in short forms; one refused packet and one `Reset` at any place | the decoder takes the packets of the stream, once and as meant; every byte is shown once |
| `etmv4_context` | two contexts with context IDs | **violation**: see below |
| `stm` | noise of up to 286 nibbles, a sync at either nibble, packets of every form, pairs that share identity or time, packets that make `Write` fail | elements and shown bytes are those of the stream; nothing between a fatal error and the next Async |
| `stm_reset` | a session in sync, `Reset`, a session that starts with noise | **violation**: see below |
| `ptm` | noise and zeros in front of a sync, packets of every form under several configurations, walks with calls and returns through Arm and Thumb code, packets that cannot be read | packets and elements are those of the stream, ranges form a path, nothing between a loss of sync and the next Async with ISync |
| `ptm_observer` | more zeros than the search keeps in one array, cut by a block | **violation**: see below |

Bounds. Eight-byte frames have every kind of slot a sixteen-byte frame has (pairs
with and without a successor, the last slot, the flags). Block sizes of 1 and 3
reach every place at which a block can end; the larger ones bring several frames,
or a frame and a half, in one call. Two or three frames are needed for state that
survives a frame, and nothing else is carried from frame to frame than the
current ID. Adjacent reset runs are taken for one by the code; the layouts have
none.

For ITM a stream of two or three packets reaches every pair of packets that share a
field of the decoder; a field that is not shared does not notice what came before.
The reader's array (`Inline`) has a few bytes instead of 64 in `ByteReader`, so that
packets outgrow it and return to it, 8 in `Itm` and 24 in `Ptm`, which no packet outgrows
as none outgrows 64 in the code, so that runs of zeros in a search do: 9 zeros, and 53.

For ETMv4 a depth of 2 is the least at which a commit and a cancel can meet in the
middle of the stack; a depth of 0 commits everything at once. The return stack
holds 2 addresses instead of 16, and three calls fill it. The depth counts modulo
64 instead of 2^32: no count comes near 64 unless it has wrapped around.

For the ETMv4 parser `MaxErrors` = 1: a refused packet may be any packet of the
stream, and a packet refused twice is in the state of one refused once. The blocks of
a session are {1, 5} in a search for sync and {1, 100} or {7, 100} behind it: 1 cuts
everywhere, 100 brings the rest at once, and the two may alternate. Sequences have up
to three packets that depend on each other, which is what the stack of three addresses
needs. IDs and counts stay below 2^31.

For STM `MaxFaults` = 2 is the number of fatal errors a caller goes on behind; the noise
is long enough for the counters of a byte to wrap around. For PTM the return stack
holds 2 addresses instead of 16 (`RetStackCap`). In all of them one `Reset`
(`MaxResets`) starts a second session with the state the first one left.

Fairness: `FairSpec` (of `Demux` and of `Itm`) asks only that a call that has begun goes on (weak fairness
of the steps inside a call). The code is synchronous and its callees return.

### Disagreements with the repository's tests and comments

* `demux_reset_cut`: with `ResetOn4xFsync`, `Write` compares the size of the block
  with the frame size before the FSYNCs of a reset are taken out. If a block ends
  inside the frame behind the run the rest is less than a frame, and the trace is
  rejected as unaligned; if it ends inside the run the count is wrong.
* `stm_reset`: `Reset` puts the parser back to the sync search and leaves
  `streamSync` set, so the first packet of noise sends it to the headers, and noise
  that looks like a reserved opcode ends `Write` with a fatal error.
* `ptm_observer`: zeros kept from the block before are shown as
  `spareZeros[:pktBytesOnEntry]`, an array of 16 of which up to 20 are asked for. It
  happens only if an observer is set.
* `etmv4_context`: context ID and VMID of a context packet are or-ed into those of
  the context before; ID 1 followed by ID 2 is 3.

### Observations without a run

The models have these as the code does.

* With syncs an unfinished frame is kept in `exFrmData`, not in `pending`, and
  `Close` looks only at `pending` (`demux_demuxer.go` line 276): a trace that ends
  inside a frame closes without an error. The test at `demux_test.go` line 524 has
  aligned frames only.
* The number of bytes left in an accessor is truncated to 32 bits before it is
  compared with the request (`memacc_buffer.go` line 28, `memacc_readerat.go` line
  36); with exactly 2^32 left it is 0.
* `Scratch` is commented "returns all bytes accumulated since the last Reset" and
  `DiscardScratchPrefix` "preserving the tail" (`byte_reader.go` lines 79 and 93). After
  a discard that keeps the tail of a scratch of more than 64 bytes neither is so (see
  ByteLog and ByteReader): ITM shows an observer wrong NotSync bytes, or a wrong
  Async, behind more than 64 zeros that another byte breaks; PTM shows an Async of
  zeros only behind 176 zeros and five to eight more. Packets, indexes and elements
  are right all the same.
* The fifth byte of a GTS1 packet of ITM is masked in the scratch itself
  (`itm_parser.go` line 432), so the observer is shown a byte that never came in.
* PTM's search for a sync starts again behind every 16 zeros, so an Async behind other
  zeros is found or not by their number modulo 16. With an observer the index is moved
  twice over zeros kept from the block before.
* A Q packet of ETMv4 of type 0xF, commented "no count, no address", takes the byte
  behind it as its own.
* With more than eleven zeros in front of the 0x80 of an ETMv4 sync, the surplus zeros
  are shown as packets of type ASync at the index of the first zero, which is also
  the index of the Async itself.
* An ETE reset or failed transaction clears the last address of the ETMv4 parser but not
  its stack of three: a short address behind it is completed from 0, an exact match is
  not.
* An ETMv4 packet that the decoder refuses in the last call before `Close` is not sent
  again; `Close` shows it as incomplete.

## The proofs

All are for every value of the constants that satisfies the `ASSUME`s of the
modules.

*Demux.* `TypeCorrect`, `HeldBackAlways` and `ResumesAlways` rest on one inductive
invariant, `IInv`. `HeldBack` says of the state between calls that `pending` is the
part of the trace from `trcCurrIdx` to the end of the last block. That is not
inductive: it has to be carried through a call, where the same bytes are `inBlock`
and `held`. So `IInv` adds `InCall` (during a call `inBlock \o held` is the trace
from `trcCurrIdx` to `avail`), the two ways to be idle (`Fresh` after `Reset`,
`Returned` after `Write`), and `Unpacking` (a frame that is unpacked is whole). The
lemmas are about dropping and taking parts of sequences; every action has a
lemma of its own.

`PendingAlwaysBounded` needs in addition what `held` may be in the middle of a turn
(`Short`): `NextTurn` sets aside less than a frame, or an odd byte and a partial sync,
and no later step of the turn puts anything back. `IndexAlwaysGrows` needs `Ordered`:
every index already handed out lies below the frame that is being unpacked, and inside
the frame the next pair lies behind the last one; the start of the frame
(`trcCurrIdxSof`) lies between what was handed out and `trcCurrIdx`.

*MemMapper.* `TypeCorrect`, `AlwaysUnambiguous`, `AlwaysCacheTransparent` and
`MapperImplementsMap` rest on: entries are accessors, no two overlap, and what is
remembered is an entry with a space. The step that matters is that an exact match
excludes every other candidate, so the early return of the loop and the cache find
what the whole loop would. `AlwaysReadInFull` has the hypothesis `BuffersCountable`:
every buffer accessor is shorter than `CountMod`, 4 GiB in the code. Without it the
theorem is false, and so is the statement about the code: a buffer with exactly 2^32
bytes behind the address counts 0 and delivers nothing.

*ByteReader.* `TypeCorrect`, `BuffersAlwaysAgree` and `ReaderImplementsLog`. They are
about all of the calls. The invariant says that, unless the scratch is torn, once the
slice is in use the array still holds a copy of its beginning, so that `UnreadByte` may
bring the reader back to a full array without losing a byte; and that the array is full
exactly when the slice may be in use. In a torn scratch the slice in use is no longer
than the scratch, and a scratch longer than the array is all in the slice. The
refinement needs the second case for the byte that fills the array again: it takes the
array along, so that the log is whole from there on but for the bytes before it.

*Itm.* The handlers of packet bytes are first shown to be instances of one relation,
`DataStep`: a byte is read into the scratch or not, and the packet goes on, is sent, or
is bad. What follows has a case for `DataStep` and one for each other action.
`TypeCorrect` and `AlwaysInStep` rest on `IInv1`: `Typed` (`TypeOK` with the types of
the packet's fields), `Control` (what `pc` and `ps` say about sync: a packet is read
only in sync, a bad one and a NotSync are sent out of it, and the decoder's state
follows with the packet that is sent), `Sizes` (an unfinished packet has no more bytes than
its kind allows) and `SearchOK` (outside a packet the scratch holds nothing but what
the sync search has not yet shown). `EveryByteShown` and `AlwaysIndexedAtStart` rest on `IInv2`:
what was shown is the stream from its start, one packet behind the other (`ObsOK`), the
scratch goes on from there to the last byte read (`ScratchOK`), and the index of the
packet in the making is where the scratch begins, unless a bad packet was shown last
(`Placed`). The bytes may differ from the stream's where the scratch was torn
(`StaleExposed`): memory is stale only in a run of NotSync packets one of which was as
long as the array, and a packet longer than the array has its own bytes. That the
tear cannot go further is in `StaleMemory`, `StaleAfterTyped` and `StaleGone`: it ends with
the packet that is sent. `BytesAccounted` sums
the lengths of the packets; the sum is a recursive function, and that appending a packet
leaves the earlier sums alone is an induction over an interval, done in `CommonLemmas` by
the smallest counterexample.

*Stm.* `AlwaysResyncedBehindFault` and `AlwaysShownAsRead` rest on one inductive
invariant. The handlers of the nibbles behind a sync are shown to be instances of one
relation, `InSync`: a nibble is read or not; the packet goes on, is sent, or ends with an
error that marks it and leaves its handler in place. `ResyncedBehindFault` says nothing
about the parser, so it is not inductive. `Behind` adds that after an error the
decoder is out of sync, or will be because what goes out next is the marked packet, or is
handed an Async; or that an Async was shown that lies in front of the packet in the
making. That the marked packet cannot lose its mark on the way is where it could fail: a
handler that comes again after an error keeps the type of the packet or makes it an
Async. `Saved` is needed so that this Async is not empty and is shown, and `BeforeSync`
(nothing but NotSync was shown while the parser waits for its first sync) so that errors
happen only in sync. For `ShownAsRead` the invariant says of the bytes saved what the
property says of the ones shown.

`TypeCorrect` states `TypeOK`. It rests on `IInv` and on `Sized`, which says of a value in
the making that the nibbles it has and the nibbles still to come add up to what the type
of its packet asks for (`ValueNibbles`). That holds when a handler begins because every
entry of the table of handlers has the length of its opcode and its value (`HandlersFit`,
one lemma for each row), and because a handler is reached only behind as many nibbles as
its opcode has (`OpcodeLengths`, for every nibble). So a master is made of two nibbles
and a channel of two or four, and their numbers fit (`NumberBounds`; `Number` is a
recursive function, defined at every length by `Iteration`). Of a time `Sized` says that
it has no more nibbles than its size; that binary to Gray, the replaced low part and Gray
to binary give sixteen nibbles again is shown bit by bit (`GrayUpdateShape`).

*Ptm.* `AlwaysResyncedBehindBad` has no hypothesis about the program, the memory or the
streams. Its lemmas about the decoder say of every operation, the walk to a waypoint and
the atoms of a packet included, that it is `Tame`: what it puts out lies at the index of
the packet and reports no loss, and the sync state stays. So only a bad or reserved packet
reports a loss, and it takes the decoder out of sync (`Effect`). Atoms are worked off by a
recursive function; that it is defined at every atom and tame is an induction over an
interval. `ResyncedBehindBad` relates the elements that are out; to be inductive it needs
what the decoder may still put out: `Behind` says for every loss that it lies before the
packet in the making and, by the state of the decoder, that an Async, or an Async and an
ISync, were shown between the two. That needs the index of a packet to grow (`Indexed`), a
packet not to be empty when it is sent (`Control`), so that the observer is shown it, and
that the search for the first sync, whose indices do not grow, is never entered again and
leaves no more than the one element that is exempt (`BeforeSync`).

`TypeCorrect` states `TypeOK`. That is not inductive: that a handler has counted no more
than five address bytes does not say that it will not count a sixth. `Sized` adds what
keeps it from doing so. `Fields` says of a packet that is not complete, by its type, what
its handler has found so far (`Midway`) and that there is room for what it may still find
(`Room`): a branch address of five bytes is a whole one, a cycle count of five bytes ends.
That relates the counts to the bytes in the scratch (`Held`), from which a complete packet
takes its address, time or context by their positions. `Searched` says that a search holds
at least the zeros it counts, and that the bytes it holds and the unsynced ones it counts
were all read (`Placed`), across the end of a block. Addresses are sums over the bytes of
a packet, which `Total` adds up by a recursive function; that it is defined at every
length and a number (`TotalNat`) is an induction over an interval. The decoder takes an
instruction set from the return stack, so `StackOK` says it of every entry and not only
that the stack keeps its size. The walk to a waypoint preserves this whatever the
program is, as long as targets are numbers (`ProgramAssumption`).

*Etmv4Parser.* `AlwaysAccounted` holds whatever the table of headers and the handlers of
payloads do: they decide only when a packet is complete. `BytesAccounted` is about the
packets shown; to be inductive it needs the bytes in `raw` to be those behind the ones
taken (`RawOK`) and the place of the packet in the making to be that of its first byte, or
zeros between the two (`IndexOK`). The last case is the Async that is too long, whose first
zero is shown and dropped while the place stays; `SearchOK` says that while a first Async
is looked for there is nothing but zeros in `raw`, or behind the bytes that wait to be
shown. `dumpUnsyncedBytes` and `updateUnsyncPacketIndex` have to agree on where those
bytes end, across the end of a block as well: `IndexOK` has that too. A packet that the
decoder refuses is shown and not counted, and `raw` stays.

*Etmv4.* The depth, the stack and the list of what was committed are changed by every
packet, most of them through a commit that walks the stack while the work on an element
may lose sync and clear it. The proof goes from the inside out. An instruction, an atom, a
run of atoms, an exception, a Q element, a source address and at last any run of entries
either leaves stack and depths alone (`Quiet`) or loses sync and leaves nothing
(`Cleared`); runs of atoms and entries are recursive functions, and that they are defined
at every place and do one of the two is an induction over an interval. Then what a commit
takes from the stack (`CommitsTo`, `PendingSteady`), what a cancel takes
(`CancelFacts`: the P0 elements go, the entries between them stay), that a mispredict
changes no ID, and that more elements than the limit push out the oldest
(`EnteredOutcome`); then each packet (`DecodeOutcome`): it keeps sync, and of the elements
in doubt, with those that it brings and without those that it takes back, the oldest
`CountOf` are committed, or it loses sync and drops what it has not committed (`Outcome`).

`DecoderInv` is the inductive invariant: `Between` while the trace lasts, `Spent` from its
end on. `DepthAccounted` and `StackBounded` are not inductive: they need each other, since
the depth decides how many elements are committed, and that there is room for the elements
of one packet before the surplus is committed, or `specDepth` would wrap around. That is
why a depth has to stay `MaxAtoms` = 24 (the longest run of atoms in one packet) below
`DepthMod` = 2^32: `Depths` says so of `MaxSpecDepth`, a 32 bit register, and of the depth
in a TraceInfo. The code does not test it; no processor has that many elements
outstanding. `Steady` is needed as well, for a depth that a TraceInfo has set over a stack
(`respec`): then the count is wrong, and the stack still is one of well-formed entries, so
that a later loss of sync brings the decoder back. `AlwaysResolvesInOrder` is the
refinement: for each packet in sync the step is the one that `Resolves` names, or `Drop`.
Nothing is assumed of the program, nor of which packets follow which.

Every inductive invariant was checked by TLC on the instance of its component before it
was proved.

Only model-checked: what compares with a reference that reads a whole trace
(`DeliveredInOrder`, `DeliveredInFull`, `NoSpuriousError`, `ElementsOfStream`,
`PacketsOfStream`, `FollowsProgram`, and `RangesOfCommitted`, whose walk is a fold over an
operator: they need induction over traces); `TypeOK` of `Etmv4Parser`, which bounds
values folded from the bytes of a packet; and liveness.

## Not modelled

* ETMv3 (`etmv3_parser.go`, `etmv3_decoder.go`): the next component of the plan. Its
  code follower is in `Etmv4` as far as ETMv4 uses it.
* Registration of routes and the unframed path of the engine: routes are set up once,
  before data comes, and the unframed path passes each call on to one decoder. `Close`
  and `Reset` that go on when one of several sinks fails are left out with them.
* The opcode tables of the instruction decoder: a pure function of 32 bits, checked by
  golden tests. The models have a program of decoded instructions in its place.
* Printers, configuration texts, the snapshot reader and the tools: text and files.

## Plan

1. ETMv3, in the manner of `Ptm`.
2. The pipeline and the engine on top of `Demux`: routes, Close and Reset when one sink
   fails.
3. Proofs: `RangesOfCommitted` for what does not depend on the fold, that the place of the
   decoder is that of the walk; the type invariant of `Etmv4Parser`.
