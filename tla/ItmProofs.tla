----------------------------- MODULE ItmProofs -----------------------------
(***************************************************************************)
(* Proofs about the ITM decoder, for every stream, every way to cut it     *)
(* into blocks and any number of resets: types, the agreement of parser    *)
(* and decoder on whether they are in sync, and that the observer is shown *)
(* every byte once, in order and at its index.                             *)
(***************************************************************************)
EXTENDS ItmProps, CommonLemmas, SequenceTheorems, TLAPS

\* The packets that the parser makes out of the stream, and those that stand
\* for a fault in it.
GoodTypes == {"Async", "Overflow", "SWIT", "DWT", "TSLocal", "TSGlobal1", "TSGlobal2",
              "Extension"}
BadTypes  == {"BadSequence", "Reserved"}
Types     == GoodTypes \cup BadTypes \cup {"NotSync", "IncompleteEOT"}

\* How the state of the parser goes with that of the decoder.  Only on the way
\* to SendPkt may the two differ: a packet that the decoder accepts, the Async
\* that brings it into sync, or a fault that takes it out of sync.
Control ==
  /\ "state" \in DOMAIN dec
  /\ closed => pc = "idle"
  /\ ps = "SendPkt" => pc = "loop"
  /\ pc = "sync" => ps = "WaitSync"
  /\ ps # "SendPkt" => (dec.state = "Pkts" <=> bStreamSync) /\ (ps = "WaitSync" <=> ~bStreamSync)
  /\ ~closed /\ ps = "ProcData" => pkt.type \in GoodTypes \ {"Overflow"}
  /\ ~closed /\ ps = "ProcErr" => pkt.type = "Reserved"
  /\ ps = "SendPkt" =>
       \/ bStreamSync /\ dec.state = "Pkts" /\ pkt.type \in GoodTypes
       \/ bStreamSync /\ dec.state # "Pkts" /\ pkt.type = "Async"
       \/ ~bStreamSync /\ pkt.type \in BadTypes

Packets == [type : Types, srcID : 0..255, value : Nat, valSz : 0..5]

\* How many bytes of a packet can be in the scratch while it is not complete.
Sizes ==
  ~closed =>
    /\ ps \in {"ProcData", "ProcErr"} => Len(scratch) >= 1
    /\ ps = "ProcData" =>
         /\ pkt.type \in {"SWIT", "DWT"} => bytesExpected \in {1, 2, 4} /\ Len(scratch) <= bytesExpected
         /\ pkt.type \in {"TSLocal", "Extension", "TSGlobal1"} => Len(scratch) < 5
         /\ pkt.type = "TSGlobal2" => Len(scratch) < 7

\* What is in the scratch while no packet is being read.
SearchOK ==
  /\ pc = "sync" => dump = IF syncStart THEN 0 ELSE Len(scratch)
  /\ pc # "sync" /\ ps = "WaitSync" /\ ~syncStart => scratch = <<>>
  /\ ps = "ProcHdr" => scratch = <<>>

\* The scratch holds the bytes between those shown and the next to be read; of
\* a complete GTS1 the last byte has lost its flags.
AsShown(type, k, b) == IF type = "TSGlobal1" /\ k = 5 THEN b % 32 ELSE b
ScratchType == IF ps = "SendPkt" THEN pkt.type ELSE "NotSync"
Total == Shown(obs, Len(obs))
ScratchOK ==
  /\ Total + Len(scratch) = pos
  /\ \A k \in 1..Len(scratch) : scratch[k] = AsShown(ScratchType, k, src[Total + k])

\* So do the packets shown, one behind the other, but for those whose bytes come
\* from stale memory.
ObsOK ==
  \A n \in 1..Len(obs) : \A k \in 1..Len(obs[n].raw) :
    \/ obs[n].raw[k] = AsShown(obs[n].type, k, src[Shown(obs, n - 1) + k])
    \/ Exposed(n) /\ Len(obs[n].raw) <= Inline

\* The memory is stale only behind a NotSync packet that outgrew the array.
StaleExposed == stale # <<>> => Exposed(Len(obs) + 1)

\* Where the packet in the making starts, unless a fault was shown last: then
\* the index of an Async may be an old one.
LastBad == obs # <<>> /\ obs[Len(obs)].type \in BadTypes
IndexOK == pktIndex = pos - Len(scratch) \/ LastBad
Placed ==
  /\ ~closed /\ (ps \in {"ProcData", "ProcErr"} \/ (ps = "WaitSync" /\ syncStart)) => IndexOK
  /\ ps = "SendPkt" => IF scratch = <<>> THEN ~bStreamSync /\ LastBad ELSE IndexOK

Observed == [index : Nat, type : Types, raw : Seq(0..255)]

Typed == TypeOK /\ pkt \in Packets /\ obs \in Seq(Observed)

----------------------------------------------------------------------------
(* The decoder.                                                            *)

\* The two ways a packet is accepted leave the decoder in sync.
LEMMA QuietKeeps == \A d : Quiet(d).dec = d /\ Quiet(d).bad = FALSE
BY DEF Quiet

LEMMA SentKeeps ==
  \A d, x : "state" \in DOMAIN d =>
    /\ "state" \in DOMAIN Sent(d, x).dec /\ Sent(d, x).dec.state = d.state
    /\ Sent(d, x).bad = FALSE
BY DEF Sent

\* A packet of the stream never takes the decoder out of sync.
LEMMA GoodPacket ==
  ASSUME NEW d, "state" \in DOMAIN d, NEW p, p.type \in GoodTypes \cup {"IncompleteEOT"}
  PROVE  /\ "state" \in DOMAIN decodePacket(d, p).dec /\ decodePacket(d, p).dec.state = d.state
         /\ decodePacket(d, p).bad = FALSE
<1> DEFINE Keeps(r) == "state" \in DOMAIN r.dec /\ r.dec.state = d.state /\ r.bad = FALSE
<1>1. CASE p.type \in {"Async", "IncompleteEOT"}
  <2>1. decodePacket(d, p) = Quiet(d)
    BY <1>1 DEF decodePacket
  <2>2. QED  BY <2>1, QuietKeeps, Zenon
<1>2. CASE p.type \in {"DWT", "SWIT"}
  <2>1. PICK x : decodePacket(d, p) = Sent(d, x)
    BY <1>2 DEF decodePacket, DecodeData
  <2>2. Keeps(Sent(d, x))
    BY SentKeeps, Zenon
  <2>3. QED  BY <2>1, <2>2, Zenon
<1>3. CASE p.type = "Extension"
  <2> DEFINE e == IF p.srcID < 128 /\ p.srcID % 32 = 2 THEN [d EXCEPT !.stimPage = p.value % 256] ELSE d
  <2>1. decodePacket(d, p) = Quiet(e)
    BY <1>3 DEF decodePacket, DecodeExtension
  <2>2. "state" \in DOMAIN e /\ e.state = d.state
    OBVIOUS
  <2> HIDE DEF e
  <2>3. QED  BY <2>1, <2>2, QuietKeeps, Zenon
<1>4. CASE p.type = "Overflow"
  <2> DEFINE e == [d EXCEPT !.localTS = 0, !.prevOverflow = TRUE]
  <2>1. decodePacket(d, p) = Quiet(e)
    BY <1>4 DEF decodePacket, DecodeOverflow
  <2>2. "state" \in DOMAIN e /\ e.state = d.state
    OBVIOUS
  <2> HIDE DEF e
  <2>3. QED  BY <2>1, <2>2, QuietKeeps, Zenon
<1>5. CASE p.type = "TSGlobal1"
  <2> DEFINE low == d.globalTS.lo
             e == [d EXCEPT !.needGTS2   = @ \/ Bit(p.srcID, 1) = 1,
                            !.freqChange = @ \/ Bit(p.srcID, 0) = 1,
                            !.globalTS.lo = low - (low % 2^LowBits(p.valSz)) + p.value]
             f == [e EXCEPT !.freqChange = FALSE]
  <2>1. decodePacket(d, p) = IF e.needGTS2 THEN Quiet(e) ELSE Sent(f, GlobalTSElem(e))
    BY <1>5 DEF decodePacket, DecodeTSGlobal1
  <2>2. "state" \in DOMAIN e /\ e.state = d.state
    OBVIOUS
  <2> HIDE DEF e
  <2>3. "state" \in DOMAIN f /\ f.state = d.state
    BY <2>2
  <2> HIDE DEF f
  <2>4. Keeps(Quiet(e))
    BY <2>2, QuietKeeps, Zenon
  <2>5. Keeps(Sent(f, GlobalTSElem(e)))
    BY <2>3, SentKeeps, Zenon
  <2>6. QED  BY <2>1, <2>4, <2>5, Zenon
<1>6. CASE p.type = "TSGlobal2"
  <2> DEFINE e == [d EXCEPT !.globalTS.hi = p.value, !.needGTS2 = FALSE]
             f == [e EXCEPT !.freqChange = FALSE]
  <2>1. decodePacket(d, p) = Sent(f, GlobalTSElem(e))
    BY <1>6 DEF decodePacket, DecodeTSGlobal2
  <2>2. "state" \in DOMAIN f /\ f.state = d.state
    OBVIOUS
  <2> HIDE DEF e, f
  <2>3. Keeps(Sent(f, GlobalTSElem(e)))
    BY <2>2, SentKeeps, Zenon
  <2>4. QED  BY <2>1, <2>3, Zenon
<1>7. CASE p.type = "TSLocal"
  <2> DEFINE e == [d EXCEPT !.localTS = d.localTS + p.value * Prescale]
  <2>1. PICK x : decodePacket(d, p) = Sent(e, x)
    BY <1>7 DEF decodePacket, DecodeTSLocal
  <2>2. "state" \in DOMAIN e /\ e.state = d.state
    OBVIOUS
  <2> HIDE DEF e
  <2>3. Keeps(Sent(e, x))
    BY <2>2, SentKeeps, Zenon
  <2>4. QED  BY <2>1, <2>3, Zenon
<1>8. QED  BY <1>1, <1>2, <1>3, <1>4, <1>5, <1>6, <1>7 DEF GoodTypes

\* Out of sync every packet but an Async is ignored.
LEMMA OutOfSync ==
  ASSUME NEW d, "state" \in DOMAIN d, d.state # "Pkts", NEW p, NEW i
  PROVE  /\ "state" \in DOMAIN processPacket(d, p, i).dec
         /\ processPacket(d, p, i).dec.state = IF p.type = "Async" THEN "Pkts" ELSE "WaitSync"
         /\ processPacket(d, p, i).bad = FALSE
<1> DEFINE e == [d EXCEPT !.index = i]
<1>1. "state" \in DOMAIN e /\ e.state = d.state
  OBVIOUS
<1>2. e.state # "Pkts" => \E x : processPacket(d, p, i) =
        [dec |-> [e EXCEPT !.state = IF p.type = "Async" THEN "Pkts" ELSE "WaitSync"],
         out |-> x, bad |-> FALSE]
  BY DEF processPacket
<1> HIDE DEF e
<1>3. QED  BY <1>1, <1>2

\* In sync a packet of the stream is accepted.
LEMMA GoodInSync ==
  ASSUME NEW d, "state" \in DOMAIN d, d.state = "Pkts", NEW p, NEW i,
         p.type \in GoodTypes \cup {"IncompleteEOT"}
  PROVE  /\ "state" \in DOMAIN processPacket(d, p, i).dec
         /\ processPacket(d, p, i).dec.state = "Pkts"
         /\ processPacket(d, p, i).bad = FALSE
<1> DEFINE e == [d EXCEPT !.index = i]
<1>1. "state" \in DOMAIN e /\ e.state = "Pkts"
  OBVIOUS
<1>2. processPacket(d, p, i) = decodePacket(e, p)
  BY <1>1 DEF processPacket
<1> HIDE DEF e
<1>3. /\ "state" \in DOMAIN decodePacket(e, p).dec /\ decodePacket(e, p).dec.state = "Pkts"
      /\ decodePacket(e, p).bad = FALSE
  BY <1>1, GoodPacket, Zenon
<1>4. QED  BY <1>2, <1>3, Zenon

\* A fault takes the decoder out of sync.
LEMMA BadInSync ==
  ASSUME NEW d, "state" \in DOMAIN d, d.state = "Pkts", NEW p, NEW i, p.type \in BadTypes
  PROVE  /\ "state" \in DOMAIN processPacket(d, p, i).dec
         /\ processPacket(d, p, i).dec.state = "NoSync"
         /\ processPacket(d, p, i).bad = TRUE
<1> DEFINE e == [d EXCEPT !.index = i]
<1>1. "state" \in DOMAIN e /\ e.state = "Pkts"
  OBVIOUS
<1>2. processPacket(d, p, i) = BadPacket(e)
  BY <1>1 DEF processPacket, decodePacket, BadTypes
<1> HIDE DEF e
<1>3. /\ "state" \in DOMAIN BadPacket(e).dec /\ BadPacket(e).dec.state = "NoSync"
      /\ BadPacket(e).bad = TRUE
  BY <1>1 DEF BadPacket, resetDecoder
<1>4. QED  BY <1>2, <1>3, Zenon

----------------------------------------------------------------------------
(* Bytes and numbers.                                                      *)

\* The bytes of the block that are left.
LEMMA RestProperties ==
  ASSUME Typed
  PROVE  /\ src \in Seq(0..255) /\ Len(src) \in Nat
         /\ Rest \in Seq(0..255) /\ Len(Rest) = avail - pos /\ Len(Rest) \in Nat
         /\ \A k \in 1..Len(Rest) : Rest[k] = src[pos + k] /\ Rest[k] \in 0..255
         /\ Rest # <<>> => Len(Rest) >= 1
<1>1. src \in Seq(0..255)
  BY StreamsAssumption DEF Typed, TypeOK
<1>2. Len(src) \in Nat /\ avail \in 0..Len(src) /\ pos \in 0..avail
  BY <1>1, LenProperties DEF Typed, TypeOK
<1>3. \A k \in (pos + 1)..avail : src[k] \in 0..255
  <2> TAKE k \in (pos + 1)..avail
  <2>1. k \in 1..Len(src)
    BY <1>2
  <2>2. QED  BY <1>1, <2>1, ElementOfSeq
<1>4. /\ Rest \in Seq(0..255) /\ Len(Rest) = avail - pos
      /\ \A k \in 1..(avail - pos) : Rest[k] = src[pos + k]
  BY <1>1, <1>2, <1>3, SubSeqProperties DEF Rest
<1>5. \A k \in 1..Len(Rest) : Rest[k] = src[pos + k] /\ Rest[k] \in 0..255
  <2> TAKE k \in 1..Len(Rest)
  <2>1. k \in 1..(avail - pos) /\ pos + k \in (pos + 1)..avail
    BY <1>2, <1>4
  <2>2. QED  BY <2>1, <1>3, <1>4
<1>6. Rest # <<>> => Len(Rest) # 0
  BY <1>4, EmptySeq
<1>7. QED  BY <1>1, <1>2, <1>4, <1>5, <1>6

\* Reading n bytes of the block.
LEMMA ReadProperties ==
  ASSUME Typed, NEW n \in 0..Len(Rest)
  PROVE  /\ pos + n \in 0..avail
         /\ scratch \o SubSeq(Rest, 1, n) \in Seq(0..255)
         /\ Len(scratch) \in Nat /\ Len(scratch \o SubSeq(Rest, 1, n)) = Len(scratch) + n
         /\ \A k \in 1..Len(scratch) : (scratch \o SubSeq(Rest, 1, n))[k] = scratch[k]
         /\ \A k \in (Len(scratch) + 1)..(Len(scratch) + n) :
              (scratch \o SubSeq(Rest, 1, n))[k] = src[pos + (k - Len(scratch))]
<1>1. /\ Rest \in Seq(0..255) /\ Len(Rest) = avail - pos /\ Len(Rest) \in Nat
      /\ \A k \in 1..Len(Rest) : Rest[k] = src[pos + k] /\ Rest[k] \in 0..255
  BY RestProperties
<1>2. scratch \in Seq(0..255) /\ Len(scratch) \in Nat /\ pos \in Nat /\ avail \in Nat
  <2>1. Len(src) \in Nat
    BY RestProperties
  <2>2. QED  BY <2>1, LenProperties DEF Typed, TypeOK
<1> DEFINE r == SubSeq(Rest, 1, n)
<1>3. r \in Seq(0..255) /\ Len(r) = n /\ \A k \in 1..n : r[k] = Rest[k]
  <2>1. \A k \in 1..n : Rest[k] \in 0..255
    BY <1>1
  <2>2. /\ SubSeq(Rest, 1, n) \in Seq(0..255)
        /\ Len(SubSeq(Rest, 1, n)) = IF 1 <= n THEN n - 1 + 1 ELSE 0
        /\ \A i \in 1..(n - 1 + 1) : SubSeq(Rest, 1, n)[i] = Rest[1 + i - 1]
    BY <1>1, <2>1, SubSeqProperties
  <2>3. QED  BY <2>2, <1>1
<1> HIDE DEF r
<1>4. /\ scratch \o r \in Seq(0..255) /\ Len(scratch \o r) = Len(scratch) + Len(r)
      /\ \A k \in 1..(Len(scratch) + Len(r)) :
           (scratch \o r)[k] = IF k <= Len(scratch) THEN scratch[k] ELSE r[k - Len(scratch)]
  BY <1>2, <1>3, ConcatProperties
<1>5. \A k \in 1..Len(scratch) : (scratch \o r)[k] = scratch[k]
  BY <1>2, <1>3, <1>4
<1>6. \A k \in (Len(scratch) + 1)..(Len(scratch) + n) : (scratch \o r)[k] = src[pos + (k - Len(scratch))]
  <2> TAKE k \in (Len(scratch) + 1)..(Len(scratch) + n)
  <2>1. k - Len(scratch) \in 1..n /\ ~(k <= Len(scratch)) /\ k \in 1..(Len(scratch) + n)
    BY <1>2
  <2>2. (scratch \o r)[k] = r[k - Len(scratch)]
    BY <2>1, <1>3, <1>4
  <2>3. k - Len(scratch) \in 1..Len(Rest)
    BY <2>1, <1>1
  <2>4. QED  BY <2>1, <2>2, <2>3, <1>1, <1>3
<1>7. pos + n \in 0..avail
  BY <1>1, <1>2
<1>8. QED  BY <1>2, <1>3, <1>4, <1>5, <1>6, <1>7 DEF r

\* A digit less than the base of a number.
LEMMA ModNat == \A x \in Nat, m \in Nat \ {0} : x % m \in Nat /\ x % m < m
OBVIOUS

\* The value of a payload is a number.
LEMMA LittleEndianNat ==
  ASSUME NEW bytes \in Seq(0..255), NEW base \in Nat \ {0}
  PROVE  LittleEndian(bytes, base) \in Nat
<1> DEFINE N == Len(bytes)
           digit == [n \in 1..N |-> bytes[N + 1 - n] % base]
           step == [n \in 1..N |-> [x \in Nat |-> digit[n] + base * x]]
           IsValue(f) == f = [n \in 0..N |-> IF n = 0 THEN 0
                                             ELSE (bytes[N + 1 - n] % base) + base * f[n - 1]]
<1>1. N \in Nat
  BY LenProperties
<1>2. \A n \in 1..N : digit[n] \in Nat
  <2> TAKE n \in 1..N
  <2>1. N + 1 - n \in 1..N
    BY <1>1
  <2>2. bytes[N + 1 - n] \in 0..255
    BY <2>1, ElementOfSeq, Zenon
  <2>3. digit[n] = bytes[N + 1 - n] % base
    OBVIOUS
  <2>4. bytes[N + 1 - n] \in Nat
    <3>1. \A x \in 0..255 : x \in Nat
      OBVIOUS
    <3>2. QED  BY <2>2, <3>1, Zenon
  <2>5. QED  BY <2>3, <2>4, ModNat, Zenon
<1>3. step \in [1..N -> [Nat -> Nat]]
  <2>1. \A n \in 1..N, x \in Nat : digit[n] + base * x \in Nat
    <3> TAKE n \in 1..N, x \in Nat
    <3>1. base * x \in Nat
      OBVIOUS
    <3>2. QED  BY <3>1, <1>2
  <2>2. QED  BY <2>1, Zenon
<1>4. PICK f : Iterates(f, N, Nat, 0, step)
  <2> HIDE DEF step, N
  <2>1. 0 \in Nat
    OBVIOUS
  <2>2. QED  BY <1>1, <1>3, <2>1, Iteration, Zenon
<1>5. IsValue(f)
  <2>1. ASSUME NEW n \in 0..N
        PROVE  f[n] = IF n = 0 THEN 0 ELSE (bytes[N + 1 - n] % base) + base * f[n - 1]
    <3>1. CASE n = 0
      BY <3>1, <1>4 DEF Iterates
    <3>2. CASE n # 0
      <4>1. n \in 1..N /\ n - 1 \in 0..N
        BY <1>1, <3>2
      <4>2. f[n - 1] \in Nat
        BY <4>1, <1>4 DEF Iterates
      <4>3. QED  BY <3>2, <4>1, <4>2, <1>4 DEF Iterates
    <3>3. QED  BY <3>1, <3>2
  <2> HIDE DEF N
  <2>2. QED  BY <2>1, <1>4 DEF Iterates
<1> DEFINE g == CHOOSE h : IsValue(h)
<1>6. IsValue(g)
  <2> HIDE DEF IsValue
  <2>1. QED  BY <1>5, Zenon
<1>7. LittleEndian(bytes, base) = g[N]
  BY DEF LittleEndian
<1> HIDE DEF g
<1>8. 0..N \subseteq {n \in 0..N : g[n] \in Nat}
  <2> DEFINE T == {n \in 0..N : g[n] \in Nat}
  <2>1. 0 \in T
    BY <1>1, <1>6
  <2>2. ASSUME NEW n \in 1..N, n - 1 \in T PROVE n \in T
    <3>1. n \in 0..N /\ n # 0 /\ g[n - 1] \in Nat
      BY <1>1, <2>2
    <3>2. g[n] = (bytes[N + 1 - n] % base) + base * g[n - 1]
      BY <1>6, <3>1
    <3>3. bytes[N + 1 - n] % base \in Nat
      BY <1>2
    <3>4. base * g[n - 1] \in Nat
      BY <3>1
    <3>5. g[n] \in Nat
      BY <3>2, <3>3, <3>4
    <3>6. QED  BY <3>1, <3>5
  <2> HIDE DEF T, N
  <2>3. \A n \in 1..N : n - 1 \in T => n \in T
    BY <2>2
  <2>4. QED  BY <1>1, <2>1, <2>3, IntervalInduction DEF T
<1>9. QED  BY <1>1, <1>7, <1>8

\* The packet that SetValue leaves.
LEMMA ValuedTyped ==
  ASSUME NEW p \in Packets, NEW id \in 0..255, NEW val \in Nat, NEW size \in Int
  PROVE  Valued(p, id, val, size) \in Packets /\ Valued(p, id, val, size).type = p.type
<1> DEFINE sz == IF size \in 1..4 THEN size ELSE 4
           v  == IF sz = 4 THEN val ELSE val % 256^sz
<1>1. sz \in 1..4
  OBVIOUS
<1>2. v \in Nat
  <2>1. sz = 1 \/ sz = 2 \/ sz = 3 \/ sz = 4
    BY <1>1
  <2>2. 256^1 = 256 /\ 256^2 = 65536 /\ 256^3 = 16777216
    OBVIOUS
  <2> HIDE DEF sz
  <2>3. CASE sz = 1
    BY <2>2, <2>3, ModNat
  <2>4. CASE sz = 2
    BY <2>2, <2>4, ModNat
  <2>5. CASE sz = 3
    BY <2>2, <2>5, ModNat
  <2>6. QED  BY <2>1, <2>3, <2>4, <2>5
<1>3. Valued(p, id, val, size) = [p EXCEPT !.srcID = id, !.valSz = sz, !.value = v]
  BY DEF Valued
<1> HIDE DEF sz, v
<1>4. sz \in 0..5
  BY <1>1
<1>5. Valued(p, id, val, size) = [type |-> p.type, srcID |-> id, value |-> v, valSz |-> sz]
  BY <1>3 DEF Packets
<1>6. QED  BY <1>2, <1>4, <1>5 DEF Packets

----------------------------------------------------------------------------
(* Types, and the agreement of parser and decoder.                         *)

\* What the reader may show instead of the bytes that were read.
StaleMemory == {<<>>} \cup [1..Inline -> 0..255]

LEMMA StaleIsTyped == TypeOK => stale \in StaleMemory
BY DEF TypeOK, StaleMemory

\* The types of the variables, after a step.
LEMMA Assemble ==
  ASSUME src' \in Streams \cup NextStreams, avail' \in 0..Len(src'), pos' \in 0..avail',
         resets' \in 0..MaxResets, closed' \in BOOLEAN, pc' \in {"idle", "loop", "sync"},
         ps' \in {"WaitSync", "ProcHdr", "ProcData", "SendPkt", "ProcErr"},
         scratch' \in Seq(0..255), stale' \in StaleMemory, pktIndex' \in Nat,
         headerByte' \in 0..255, pkt' \in Packets, bytesExpected' \in {0, 1, 2, 4}, dump' \in Nat,
         bStreamSync' \in BOOLEAN, sentNotSync' \in BOOLEAN, syncStart' \in BOOLEAN,
         dec'.state \in {"NoSync", "WaitSync", "Pkts"}, obs' \in Seq(Observed)
  PROVE  Typed'
<1>1. pkt'.srcID \in 0..255 /\ pkt'.value \in Nat /\ pkt'.valSz \in 0..5
  BY DEF Packets
<1>2. QED  BY <1>1 DEF Typed, TypeOK, StaleMemory

IInv1 == Typed /\ Control /\ Sizes /\ SearchOK

\* A turn of the loop happens only while the decoder is open.
LEMMA TurnOpen ==
  ASSUME Control, NEW st, Turn(st)
  PROVE  pc = "loop" /\ ps = st /\ ~closed
BY DEF Turn, Control

\* The first byte without a continuation bit, or the last that the packet may
\* have.
LEMMA ContProperties ==
  ASSUME Typed, NEW limit \in Nat, Len(scratch) < limit
  PROVE  /\ ContStops(limit) = {} => Len(scratch) + Len(Rest) < limit
         /\ ContStops(limit) # {} =>
              /\ Min(ContStops(limit)) \in 1..Len(Rest)
              /\ Len(scratch) + Min(ContStops(limit)) <= limit
<1>1. Len(scratch) \in Nat /\ Len(Rest) \in Nat
  <2>1. scratch \in Seq(0..255)
    BY DEF Typed, TypeOK
  <2>2. QED  BY <2>1, RestProperties, LenProperties
<1> DEFINE S == ContStops(limit)
           m == limit - Len(scratch)
<1>2. \A n \in S : n \in 1..Len(Rest)
  BY DEF ContStops
<1>3. m \in 1..Len(Rest) => m \in S
  BY <1>1 DEF ContStops
<1>4. CASE S = {}
  BY <1>1, <1>3, <1>4
<1>5. CASE S # {}
  <2>1. S \in SUBSET Nat
    BY <1>1, <1>2
  <2>2. Min(S) \in S /\ \A n \in S : Min(S) <= n
    BY <1>5, <2>1, MinMember
  <2>3. Min(S) \in 1..Len(Rest)
    BY <1>2, <2>2
  <2>4. m \in S => Min(S) <= m
    BY <2>2
  <2> HIDE DEF S
  <2> DEFINE n == Min(S)
  <2>5. n \in 1..Len(Rest) /\ (m \in 1..Len(Rest) => n <= m)
    BY <1>3, <2>3, <2>4
  <2> HIDE DEF n
  <2>6. Len(scratch) + n <= limit
    BY <1>1, <2>5
  <2>7. QED  BY <1>5, <2>5, <2>6 DEF S, n
<1>6. QED  BY <1>4, <1>5

\* What the five handlers of a packet's bytes may do: wait for more, find a
\* fault, or complete the packet.  A GTS1 of five bytes loses its flags.
Taken(n) == scratch \o SubSeq(Rest, 1, n)
Completes(n) ==
  /\ pos' = pos + n /\ UNCHANGED stale
  /\ \E p \in Packets : p.type = pkt.type /\ Complete(p)
  /\ scratch' = IF pkt.type = "TSGlobal1" /\ Len(scratch) + n = 5
                THEN [Taken(n) EXCEPT ![5] = @ % 32] ELSE Taken(n)
  /\ pkt.type = "TSGlobal1" => Len(scratch) + n <= 5
DataStep ==
  /\ pc = "loop" /\ ps = "ProcData" /\ ~closed
  /\ UNCHANGED <<inputVars, pc, pktIndex, headerByte, bytesExpected, outVars>>
  /\ \E n \in 0..Len(Rest) : \/ Read(n) /\ Unfinished /\ Sizes'
                             \/ Read(n) /\ Malformed
                             \/ Completes(n)

\* More bytes of the same packet.
LEMMA WaitsForMore ==
  ASSUME Typed, Sizes, ~closed, ps = "ProcData", Read(Len(Rest)), Unfinished,
         UNCHANGED <<closed, bytesExpected>>,
         pkt.type \in {"SWIT", "DWT"} => Len(scratch) + Len(Rest) <= bytesExpected,
         pkt.type \in {"TSLocal", "Extension", "TSGlobal1"} => Len(scratch) + Len(Rest) < 5,
         pkt.type = "TSGlobal2" => Len(scratch) + Len(Rest) < 7
  PROVE  \E n \in 0..Len(Rest) : Read(n) /\ Unfinished /\ Sizes'
<1>1. Len(Rest) \in Nat /\ Len(Rest) \in 0..Len(Rest)
  BY RestProperties
<1>2. Len(scratch') = Len(scratch) + Len(Rest) /\ Len(scratch) \in Nat
  BY <1>1, ReadProperties DEF Read
<1>3. Sizes'
  BY <1>1, <1>2 DEF Sizes, Unfinished
<1>4. QED  BY <1>1, <1>3

\* An Async that started in sync.
LEMMA AsyncStep == IInv1 /\ pktAsync => DataStep
<1> SUFFICES ASSUME IInv1, pktAsync PROVE DataStep
  OBVIOUS
<1>0. Typed /\ Control /\ Sizes
  BY DEF IInv1
<1>1. pc = "loop" /\ ps = "ProcData" /\ ~closed /\ pkt.type = "Async"
  BY <1>0, TurnOpen DEF pktAsync
<1>2. UNCHANGED <<inputVars, pc, pktIndex, headerByte, bytesExpected, outVars>>
  BY DEF pktAsync
<1>3. CASE NonZeros = {} /\ Read(Len(Rest)) /\ Unfinished
  <2>1. UNCHANGED <<closed, bytesExpected>>
    BY <1>2 DEF inputVars
  <2>2. \E n \in 0..Len(Rest) : Read(n) /\ Unfinished /\ Sizes'
    BY <1>0, <1>1, <1>3, <2>1, WaitsForMore
  <2>3. QED  BY <1>1, <1>2, <2>2 DEF DataStep
<1>4. CASE NonZeros # {} /\ Read(AsyncLen) /\ (Complete(pkt) \/ Malformed)
  <2>1. AsyncLen \in 0..Len(Rest)
    <3>1. NonZeros \in SUBSET Nat /\ NonZeros \in SUBSET (1..Len(Rest))
      BY <1>0, RestProperties DEF NonZeros
    <3>2. AsyncLen \in NonZeros
      BY <1>4, <3>1, MinMember DEF AsyncLen
    <3>3. QED  BY <1>0, <3>1, <3>2, RestProperties
  <2>2. pkt \in Packets
    BY <1>0 DEF Typed
  <2>3. Completes(AsyncLen) \/ (Read(AsyncLen) /\ Malformed)
    BY <1>1, <1>4, <2>2 DEF Completes, Read, Taken
  <2>4. QED  BY <1>1, <1>2, <2>1, <2>3 DEF DataStep
<1>5. QED  BY <1>3, <1>4 DEF pktAsync

\* The bytes of a payload, behind the header.
LEMMA PayloadNat ==
  ASSUME NEW s \in Seq(0..255), s # <<>>, NEW base \in Nat \ {0}
  PROVE  LittleEndian(Tail(s), base) \in Nat
<1>1. Tail(s) \in Seq(0..255)
  BY HeadTailProperties
<1>2. QED  BY <1>1, LittleEndianNat

\* A software or hardware source packet.
LEMMA DataPacketStep == IInv1 /\ pktData => DataStep
<1> SUFFICES ASSUME IInv1, pktData PROVE DataStep
  OBVIOUS
<1>0. Typed /\ Control /\ Sizes
  BY DEF IInv1
<1>1. pc = "loop" /\ ps = "ProcData" /\ ~closed /\ pkt.type \in {"SWIT", "DWT"}
  BY <1>0, TurnOpen DEF pktData
<1>2. UNCHANGED <<inputVars, pc, pktIndex, headerByte, bytesExpected, outVars>>
  BY DEF pktData
<1>3. /\ bytesExpected \in {1, 2, 4} /\ Len(scratch) \in Nat /\ Len(Rest) \in Nat
      /\ Len(scratch) >= 1 /\ Len(scratch) <= bytesExpected
  <2>1. scratch \in Seq(0..255)
    BY <1>0 DEF Typed, TypeOK
  <2>2. Len(scratch) \in Nat /\ Len(Rest) \in Nat
    BY <1>0, <2>1, LenProperties, RestProperties
  <2>3. QED  BY <1>0, <1>1, <2>2 DEF Sizes
<1> DEFINE need == bytesExpected + 1 - Len(scratch)
<1>4. need \in Nat
  BY <1>3
<1>5. CASE need > Len(Rest) /\ Read(Len(Rest)) /\ Unfinished
  <2>1. UNCHANGED <<closed, bytesExpected>>
    BY <1>2 DEF inputVars
  <2>2. Len(scratch) + Len(Rest) <= bytesExpected
    BY <1>3, <1>5
  <2>3. pkt.type \notin {"TSLocal", "Extension", "TSGlobal1", "TSGlobal2"}
    BY <1>1
  <2>4. \E n \in 0..Len(Rest) : Read(n) /\ Unfinished /\ Sizes'
    BY <1>0, <1>1, <1>5, <2>1, <2>2, <2>3, WaitsForMore
  <2>5. QED  BY <1>1, <1>2, <2>4 DEF DataStep
<1>6. CASE need <= Len(Rest) /\ Read(need)
           /\ Complete(Valued(pkt, pkt.srcID, LittleEndian(Tail(scratch'), 256), bytesExpected))
  <2>1. need \in 0..Len(Rest)
    BY <1>3, <1>4, <1>6
  <2> HIDE DEF need
  <2>2. scratch' = Taken(need) /\ scratch' \in Seq(0..255) /\ Len(scratch') = Len(scratch) + need
    BY <1>0, <1>6, <2>1, ReadProperties DEF Read, Taken
  <2>3. scratch' # <<>>
    BY <1>3, <1>4, <2>2, EmptySeq
  <2>4. LittleEndian(Tail(scratch'), 256) \in Nat
    <3>1. 256 \in Nat \ {0}
      OBVIOUS
    <3>2. QED  BY <2>2, <2>3, <3>1, PayloadNat
  <2>5. pkt \in Packets /\ pkt.srcID \in 0..255 /\ bytesExpected \in Int
    BY <1>0, <1>3 DEF Typed, TypeOK
  <2> DEFINE v == LittleEndian(Tail(scratch'), 256)
             p == Valued(pkt, pkt.srcID, v, bytesExpected)
  <2>6. p \in Packets /\ p.type = pkt.type
    <3>1. v \in Nat
      BY <2>4
    <3> HIDE DEF v
    <3>2. QED  BY <2>5, <3>1, ValuedTyped, Zenon
  <2>7. Complete(p) /\ pos' = pos + need /\ UNCHANGED stale
    BY <1>6 DEF Read
  <2> HIDE DEF p
  <2>8. Completes(need)
    BY <1>1, <2>2, <2>6, <2>7 DEF Completes
  <2>9. QED  BY <1>1, <1>2, <2>1, <2>8 DEF DataStep
<1>7. QED  BY <1>5, <1>6 DEF pktData

\* The three ways a packet with continuation bits may go on.
ContGoesOn(limit) == ContStops(limit) = {} /\ Read(Len(Rest)) /\ Unfinished
ContBreaks(limit) ==
  ContStops(limit) # {} /\ Read(Min(ContStops(limit))) /\ Malformed
ContEnds(limit) == ContStops(limit) # {} /\ Completes(Min(ContStops(limit)))

LEMMA ContStep ==
  ASSUME IInv1, pc = "loop", ps = "ProcData", ~closed,
         UNCHANGED <<inputVars, pc, pktIndex, headerByte, bytesExpected, outVars>>,
         NEW limit \in {5, 7}, Len(scratch) < limit, pkt.type \notin {"SWIT", "DWT"},
         limit = 7 => pkt.type = "TSGlobal2",
         ContGoesOn(limit) \/ ContBreaks(limit) \/ ContEnds(limit)
  PROVE  DataStep
<1>0. Typed /\ Sizes /\ Len(Rest) \in Nat
  BY RestProperties DEF IInv1
<1>1. CASE ContGoesOn(limit)
  <2>1. UNCHANGED <<closed, bytesExpected>>
    BY DEF inputVars
  <2>2. Len(scratch) + Len(Rest) < limit
    BY <1>0, <1>1, ContProperties DEF ContGoesOn
  <2>3. /\ pkt.type \in {"SWIT", "DWT"} => Len(scratch) + Len(Rest) <= bytesExpected
        /\ pkt.type \in {"TSLocal", "Extension", "TSGlobal1"} => Len(scratch) + Len(Rest) < 5
        /\ pkt.type = "TSGlobal2" => Len(scratch) + Len(Rest) < 7
    <3>1. Len(scratch) \in Nat
      BY <1>0, LenProperties DEF Typed, TypeOK
    <3>2. QED  BY <1>0, <2>2, <3>1
  <2>4. \E n \in 0..Len(Rest) : Read(n) /\ Unfinished /\ Sizes'
    BY <1>0, <1>1, <2>1, <2>3, WaitsForMore DEF ContGoesOn
  <2>5. QED  BY <2>4 DEF DataStep
<1>2. CASE ContStops(limit) # {}
  <2>1. Min(ContStops(limit)) \in 0..Len(Rest)
    BY <1>0, <1>2, ContProperties
  <2>2. QED  BY <1>2, <2>1 DEF DataStep, ContGoesOn, ContBreaks, ContEnds
<1>3. QED  BY <1>1, <1>2 DEF ContGoesOn, ContBreaks, ContEnds

\* The bytes up to the end of such a packet.
LEMMA ContTaken ==
  ASSUME Typed, NEW limit \in Nat, Len(scratch) < limit, Len(scratch) >= 1, ContStops(limit) # {},
         NEW n, n = Min(ContStops(limit))
  PROVE  /\ n \in 1..Len(Rest) /\ Taken(n) \in Seq(0..255) /\ Taken(n) # <<>>
         /\ Len(scratch) \in Nat
         /\ Len(Taken(n)) = Len(scratch) + n /\ Len(Taken(n)) \in 2..limit
         /\ ContField(Taken(n)) \in Nat
<1>1. n \in 1..Len(Rest) /\ Len(scratch) + n <= limit
  BY ContProperties
<1>2. Len(Rest) \in Nat /\ n \in 0..Len(Rest)
  BY <1>1, RestProperties
<1>3. Taken(n) \in Seq(0..255) /\ Len(Taken(n)) = Len(scratch) + n /\ Len(scratch) \in Nat
  BY <1>2, ReadProperties DEF Taken
<1>4. Len(Taken(n)) \in 2..limit /\ Len(Taken(n)) # 0
  BY <1>1, <1>2, <1>3
<1>5. Taken(n) # <<>>
  BY <1>3, <1>4, EmptySeq
<1>6. ContField(Taken(n)) \in Nat
  <2>1. 128 \in Nat \ {0}
    OBVIOUS
  <2>2. QED  BY <1>3, <1>5, <2>1, PayloadNat DEF ContField
<1>7. QED  BY <1>1, <1>3, <1>4, <1>5, <1>6

\* A packet that is its header takes no byte.
LEMMA TakesNone ==
  ASSUME Typed
  PROVE  0 \in 0..Len(Rest) /\ pos = pos + 0 /\ scratch = Taken(0)
<1>1. Rest \in Seq(0..255) /\ Len(Rest) \in Nat
  BY RestProperties
<1>2. scratch \in Seq(0..255) /\ pos \in Nat
  BY RestProperties DEF Typed, TypeOK
<1>3. SubSeq(Rest, 1, 0) = <<>>
  BY <1>1
<1>4. scratch \o <<>> = scratch
  BY <1>2
<1>5. QED  BY <1>1, <1>2, <1>3, <1>4 DEF Taken

\* A local time stamp.
LEMMA LocalTSStep == IInv1 /\ pktLocalTS => DataStep
<1> SUFFICES ASSUME IInv1, pktLocalTS PROVE DataStep
  OBVIOUS
<1>0. Typed /\ Control /\ Sizes
  BY DEF IInv1
<1>1. pc = "loop" /\ ps = "ProcData" /\ ~closed /\ pkt.type = "TSLocal"
  BY <1>0, TurnOpen DEF pktLocalTS
<1>2. UNCHANGED <<inputVars, pc, pktIndex, headerByte, bytesExpected, outVars>>
  BY DEF pktLocalTS
<1>3. Len(scratch) >= 1 /\ Len(scratch) < 5 /\ 5 \in Nat /\ headerByte \in 0..255 /\ pkt \in Packets
  BY <1>0, <1>1 DEF Sizes, Typed, TypeOK
<1>4. CASE Complete(Valued(pkt, 0, headerByte \div 16, 1)) /\ UNCHANGED <<pos, scratch, stale>>
  <2>1. headerByte \div 16 \in Nat /\ 0 \in 0..255 /\ 1 \in Int
    BY <1>3
  <2>2. Valued(pkt, 0, headerByte \div 16, 1) \in Packets
        /\ Valued(pkt, 0, headerByte \div 16, 1).type = pkt.type
    BY <1>3, <2>1, ValuedTyped, Zenon
  <2>3. Completes(0)
    BY <1>0, <1>1, <1>4, <2>2, TakesNone DEF Completes
  <2>4. QED  BY <1>0, <1>1, <1>2, <2>3, TakesNone DEF DataStep
<1>5. CASE ContPacket(5, LAMBDA s :
             /\ Complete(Valued(pkt, (headerByte \div 16) % 4, ContField(s), Len(s) - 1))
             /\ scratch' = s)
  <2> DEFINE n == Min(ContStops(5))
             p == Valued(pkt, (headerByte \div 16) % 4, ContField(Taken(n)), Len(Taken(n)) - 1)
  <2>1. \/ ContGoesOn(5)
        \/ ContBreaks(5)
        \/ ContStops(5) # {} /\ pos' = pos + n /\ UNCHANGED stale /\ Complete(p) /\ scratch' = Taken(n)
    BY <1>5 DEF ContPacket, ContGoesOn, ContBreaks, Taken, Read
  <2>2. ASSUME ContStops(5) # {} PROVE p \in Packets /\ p.type = pkt.type
    <3>1. (headerByte \div 16) % 4 \in 0..255
      BY <1>3
    <3>2. ContField(Taken(n)) \in Nat /\ Len(Taken(n)) - 1 \in Int
      BY <1>0, <1>3, <2>2, ContTaken
    <3>3. QED  BY <1>3, <3>1, <3>2, ValuedTyped, Zenon
  <2> HIDE DEF p
  <2>3. ContGoesOn(5) \/ ContBreaks(5) \/ ContEnds(5)
    BY <1>1, <2>1, <2>2 DEF ContEnds, Completes
  <2>4. QED  BY <1>1, <1>2, <1>3, <2>3, ContStep
<1>6. QED  BY <1>4, <1>5 DEF pktLocalTS

\* The low part of a global time stamp.
LEMMA GlobalTS1Step == IInv1 /\ pktGlobalTS1 => DataStep
<1> SUFFICES ASSUME IInv1, pktGlobalTS1 PROVE DataStep
  OBVIOUS
<1>0. Typed /\ Control /\ Sizes
  BY DEF IInv1
<1>1. pc = "loop" /\ ps = "ProcData" /\ ~closed /\ pkt.type = "TSGlobal1"
  BY <1>0, TurnOpen DEF pktGlobalTS1
<1>2. UNCHANGED <<inputVars, pc, pktIndex, headerByte, bytesExpected, outVars>>
  BY DEF pktGlobalTS1
<1>3. Len(scratch) >= 1 /\ Len(scratch) < 5 /\ 5 \in Nat /\ pkt \in Packets /\ pkt.srcID \in 0..255
  BY <1>0, <1>1 DEF Sizes, Typed, TypeOK
<1> DEFINE n == Min(ContStops(5))
           s == Taken(n)
           t == IF Len(s) = 5 THEN [s EXCEPT ![5] = @ % 32] ELSE s
           id == IF Len(s) = 5 THEN s[5] \div 32 ELSE pkt.srcID
           p == Valued(pkt, id, ContField(t), Len(s) - 1)
<1>4. \/ ContGoesOn(5)
      \/ ContBreaks(5)
      \/ ContStops(5) # {} /\ pos' = pos + n /\ UNCHANGED stale /\ Complete(p) /\ scratch' = t
  BY DEF pktGlobalTS1, ContPacket, ContGoesOn, ContBreaks, Taken, Read, GTS1Packet
<1>5. ASSUME ContStops(5) # {}
      PROVE  /\ p \in Packets /\ p.type = pkt.type
             /\ t = IF Len(scratch) + n = 5 THEN [s EXCEPT ![5] = @ % 32] ELSE s
             /\ Len(scratch) + n <= 5
  <2>0. s \in Seq(0..255) /\ s # <<>> /\ Len(s) = Len(scratch) + n /\ Len(s) \in 2..5
    BY <1>0, <1>3, <1>5, ContTaken
  <2> HIDE DEF s, n
  <2>1. /\ s \in Seq(0..255) /\ s # <<>> /\ Len(s) = Len(scratch) + n /\ Len(s) \in 2..5
        /\ Len(s) - 1 \in Int /\ (Len(s) = 5 => 5 \in 1..Len(s))
    BY <2>0
  <2>2. id \in 0..255
    <3>1. Len(s) = 5 => s[5] \in 0..255
      BY <2>1, ElementOfSeq
    <3>2. \A b \in 0..255 : b \div 32 \in 0..255
      OBVIOUS
    <3>3. QED  BY <1>3, <3>1, <3>2
  <2>3. t \in Seq(0..255) /\ t # <<>>
    <3>1. CASE Len(s) = 5
      <4>1. s[5] \in 0..255
        BY <2>1, <3>1, ElementOfSeq
      <4>2. s[5] % 32 \in 0..255
        BY <4>1
      <4>3. t = [s EXCEPT ![5] = s[5] % 32]
        BY <3>1
      <4> DEFINE b == s[5] % 32
      <4>4. b \in 0..255 /\ 5 \in 1..Len(s)
        BY <4>2, <2>1, <3>1
      <4> HIDE DEF b
      <4>5. [s EXCEPT ![5] = b] \in Seq(0..255) /\ Len([s EXCEPT ![5] = b]) = Len(s)
        BY <2>1, <4>4, ExceptSeq
      <4>6. t \in Seq(0..255) /\ Len(t) = 5
        BY <3>1, <4>3, <4>5 DEF b
      <4>7. QED  BY <4>6, EmptySeq
    <3>2. CASE Len(s) # 5
      BY <2>1, <3>2
    <3>3. QED  BY <3>1, <3>2
  <2>4. ContField(t) \in Nat
    <3> HIDE DEF t
    <3>1. 128 \in Nat \ {0}
      OBVIOUS
    <3>2. QED  BY <2>3, <3>1, PayloadNat DEF ContField
  <2>5. p \in Packets /\ p.type = pkt.type
    <3> HIDE DEF t, id
    <3>1. QED  BY <1>3, <2>1, <2>2, <2>4, ValuedTyped, Zenon
  <2>6. QED  BY <2>1, <2>5
<1> HIDE DEF p, t
<1>6. ContGoesOn(5) \/ ContBreaks(5) \/ ContEnds(5)
  BY <1>1, <1>4, <1>5 DEF ContEnds, Completes
<1>7. QED  BY <1>1, <1>2, <1>3, <1>6, ContStep

\* The packet of a GTS2 with a value of more than four bytes.
LEMMA LongTyped ==
  ASSUME NEW p \in Packets, NEW val \in Nat
  PROVE  /\ [p EXCEPT !.value = val, !.valSz = 5] \in Packets
         /\ [p EXCEPT !.value = val, !.valSz = 5].type = p.type
<1>1. ASSUME NEW T, NEW A, NEW B, NEW C, NEW r \in [type : T, srcID : A, value : B, valSz : C],
             NEW v \in B, NEW z \in C
      PROVE  /\ [r EXCEPT !.value = v, !.valSz = z] \in [type : T, srcID : A, value : B, valSz : C]
             /\ [r EXCEPT !.value = v, !.valSz = z].type = r.type
  OBVIOUS
<1>2. 5 \in 0..5
  OBVIOUS
<1>3. QED  BY <1>1, <1>2, Zenon DEF Packets

\* The high part of a global time stamp.
LEMMA GlobalTS2Step == IInv1 /\ pktGlobalTS2 => DataStep
<1> SUFFICES ASSUME IInv1, pktGlobalTS2 PROVE DataStep
  OBVIOUS
<1>0. Typed /\ Control /\ Sizes
  BY DEF IInv1
<1>1. pc = "loop" /\ ps = "ProcData" /\ ~closed /\ pkt.type = "TSGlobal2"
  BY <1>0, TurnOpen DEF pktGlobalTS2
<1>2. UNCHANGED <<inputVars, pc, pktIndex, headerByte, bytesExpected, outVars>>
  BY DEF pktGlobalTS2
<1>3. Len(scratch) >= 1 /\ Len(scratch) < 7 /\ 7 \in Nat /\ pkt \in Packets /\ pkt.srcID \in 0..255
  BY <1>0, <1>1 DEF Sizes, Typed, TypeOK
<1> DEFINE n == Min(ContStops(7))
           s == Taken(n)
           v == Valued(pkt, pkt.srcID, ContField(s), Len(s) - 1)
           p == IF Len(s) <= 5 THEN v ELSE [pkt EXCEPT !.value = ContField(s), !.valSz = 5]
<1>4. \/ ContGoesOn(7)
      \/ ContBreaks(7)
      \/ ContStops(7) # {} /\ pos' = pos + n /\ UNCHANGED stale /\ Complete(p) /\ scratch' = s
  BY DEF pktGlobalTS2, ContPacket, ContGoesOn, ContBreaks, Taken, Read
<1>5. ASSUME ContStops(7) # {} PROVE p \in Packets /\ p.type = pkt.type
  <2>1. ContField(s) \in Nat /\ Len(s) - 1 \in Int
    BY <1>0, <1>3, <1>5, ContTaken
  <2> HIDE DEF s
  <2>2. v \in Packets /\ v.type = pkt.type
    BY <1>3, <2>1, ValuedTyped, Zenon
  <2> HIDE DEF v
  <2> DEFINE c == ContField(s)
             q == [pkt EXCEPT !.value = c, !.valSz = 5]
  <2>3. q \in Packets /\ q.type = pkt.type
    <3>1. c \in Nat /\ 5 \in 0..5
      BY <2>1
    <3> HIDE DEF c
    <3>2. QED  BY <1>3, <3>1, LongTyped, Zenon
  <2>4. QED  BY <2>2, <2>3
<1> HIDE DEF p
<1>6. ContGoesOn(7) \/ ContBreaks(7) \/ ContEnds(7)
  BY <1>1, <1>4, <1>5 DEF ContEnds, Completes
<1>7. QED  BY <1>1, <1>2, <1>3, <1>6, ContStep

\* An extension packet.
LEMMA ExtensionStep == IInv1 /\ pktExtension => DataStep
<1> SUFFICES ASSUME IInv1, pktExtension PROVE DataStep
  OBVIOUS
<1>0. Typed /\ Control /\ Sizes
  BY DEF IInv1
<1>1. pc = "loop" /\ ps = "ProcData" /\ ~closed /\ pkt.type = "Extension"
  BY <1>0, TurnOpen DEF pktExtension
<1>2. UNCHANGED <<inputVars, pc, pktIndex, headerByte, bytesExpected, outVars>>
  BY DEF pktExtension
<1>3. Len(scratch) >= 1 /\ Len(scratch) < 5 /\ 5 \in Nat /\ headerByte \in 0..255 /\ pkt \in Packets
  BY <1>0, <1>1 DEF Sizes, Typed, TypeOK
<1> DEFINE hw  == 128 * Bit(headerByte, 2)
           low == (headerByte \div 16) % 8
           n   == Min(ContStops(5))
           s   == Taken(n)
           v   == Valued(pkt, 2 + hw, low, 4)
           id  == <<2, 9, 16, 23, 31>>[Len(s)] + hw
           p   == Valued(pkt, id, 8 * ContField(s) + low, 4)
<1>4. hw \in 0..128 /\ low \in 0..7
  <2>1. 2^2 = 4
    OBVIOUS
  <2>2. Bit(headerByte, 2) = (headerByte \div 4) % 2
    BY <2>1 DEF Bit
  <2>3. \A x \in 0..255 : (x \div 4) % 2 \in 0..1 /\ (x \div 16) % 8 \in 0..7
    OBVIOUS
  <2>4. Bit(headerByte, 2) \in 0..1 /\ low \in 0..7
    BY <1>3, <2>2, <2>3
  <2>5. QED  BY <2>4
<1>5. \/ Complete(v) /\ UNCHANGED <<pos, scratch, stale>>
      \/ ContGoesOn(5)
      \/ ContBreaks(5)
      \/ ContStops(5) # {} /\ pos' = pos + n /\ UNCHANGED stale /\ Complete(p) /\ scratch' = s
  BY DEF pktExtension, ContPacket, ContGoesOn, ContBreaks, Taken, Read
<1> HIDE DEF hw, low
<1>6. CASE Complete(v) /\ UNCHANGED <<pos, scratch, stale>>
  <2>1. 2 + hw \in 0..255 /\ low \in Nat /\ 4 \in Int
    BY <1>4
  <2>2. v \in Packets /\ v.type = pkt.type
    BY <1>3, <2>1, ValuedTyped, Zenon
  <2> HIDE DEF v
  <2>3. Completes(0)
    BY <1>0, <1>1, <1>6, <2>2, TakesNone DEF Completes
  <2>4. QED  BY <1>0, <1>1, <1>2, <2>3, TakesNone DEF DataStep
<1>7. ASSUME ContStops(5) # {} PROVE p \in Packets /\ p.type = pkt.type
  <2>1. ContField(s) \in Nat /\ Len(s) \in 2..5
    BY <1>0, <1>3, <1>7, ContTaken
  <2> HIDE DEF s
  <2>2. id \in 0..255
    <3> DEFINE T == <<2, 9, 16, 23, 31>>
    <3>1. T[2] = 9 /\ T[3] = 16 /\ T[4] = 23 /\ T[5] = 31
      OBVIOUS
    <3>2. id = T[Len(s)] + hw
      OBVIOUS
    <3> HIDE DEF T, id
    <3>3. Len(s) = 2 \/ Len(s) = 3 \/ Len(s) = 4 \/ Len(s) = 5
      BY <2>1
    <3>4. T[Len(s)] = 9 \/ T[Len(s)] = 16 \/ T[Len(s)] = 23 \/ T[Len(s)] = 31
      BY <3>1, <3>3, Zenon
    <3>5. \A x, y \in Int : (x = 9 \/ x = 16 \/ x = 23 \/ x = 31) /\ y \in 0..128
                             => x + y \in 0..255
      OBVIOUS
    <3>6. T[Len(s)] \in Int /\ hw \in Int
      BY <1>4, <3>4
    <3>7. QED  BY <1>4, <3>2, <3>4, <3>5, <3>6, Zenon
  <2>3. 8 * ContField(s) + low \in Nat /\ 4 \in Int
    BY <1>4, <2>1
  <2> HIDE DEF id
  <2>4. QED  BY <1>3, <2>2, <2>3, ValuedTyped, Zenon
<1> HIDE DEF p
<1>8. CASE ~(Complete(v) /\ UNCHANGED <<pos, scratch, stale>>)
  <2>1. ContGoesOn(5) \/ ContBreaks(5) \/ ContEnds(5)
    BY <1>1, <1>5, <1>7, <1>8 DEF ContEnds, Completes
  <2>2. QED  BY <1>1, <1>2, <1>3, <2>1, ContStep
<1>9. QED  BY <1>6, <1>8

\* A packet with another type, and with another type and source.
LEMMA Retyped ==
  ASSUME NEW p \in Packets, NEW ty \in Types
  PROVE  [p EXCEPT !.type = ty] \in Packets /\ [p EXCEPT !.type = ty].type = ty
<1>1. ASSUME NEW T, NEW A, NEW B, NEW C, NEW r \in [type : T, srcID : A, value : B, valSz : C],
             NEW t \in T
      PROVE  /\ [r EXCEPT !.type = t] \in [type : T, srcID : A, value : B, valSz : C]
             /\ [r EXCEPT !.type = t].type = t
  OBVIOUS
<1>2. QED  BY <1>1, Zenon DEF Packets

LEMMA Readdressed ==
  ASSUME NEW p \in Packets, NEW ty \in Types,
         NEW id \in 0..255
  PROVE  /\ [p EXCEPT !.type = ty, !.srcID = id] \in Packets
         /\ [p EXCEPT !.type = ty, !.srcID = id].type = ty
<1>1. ASSUME NEW T, NEW A, NEW B, NEW C, NEW r \in [type : T, srcID : A, value : B, valSz : C],
             NEW t \in T, NEW a \in A
      PROVE  /\ [r EXCEPT !.type = t, !.srcID = a] \in [type : T, srcID : A, value : B, valSz : C]
             /\ [r EXCEPT !.type = t, !.srcID = a].type = t
  OBVIOUS
<1>2. QED  BY <1>1, Zenon DEF Packets

\* What becomes of a header byte.
LEMMA HeaderProperties ==
  ASSUME NEW b \in 0..255
  PROVE  /\ Header(b).type \in GoodTypes \cup {"Reserved"} /\ Header(b).srcID \in 0..255
         /\ Header(b).n \in {0, 1, 2, 4}
         /\ \/ Header(b).next = "ProcData" /\ Header(b).type \in GoodTypes \ {"Overflow"}
            \/ Header(b).next = "SendPkt" /\ Header(b).type = "Overflow"
            \/ Header(b).next = "ProcErr" /\ Header(b).type = "Reserved"
         /\ Header(b).type \in {"SWIT", "DWT"} => Header(b).n \in {1, 2, 4}
<1> DEFINE h(type, srcID, n, next) == [type |-> type, srcID |-> srcID, n |-> n, next |-> next]
<1>1. CASE b % 4 # 0
  <2> DEFINE ty == IF Bit(b, 2) = 1 THEN "DWT" ELSE "SWIT"
             T  == <<1, 2, 4>>
  <2>1. T[1] = 1 /\ T[2] = 2 /\ T[3] = 4
    OBVIOUS
  <2>2. b % 4 = 1 \/ b % 4 = 2 \/ b % 4 = 3
    BY <1>1
  <2>3. Header(b) = h(ty, b \div 8, T[b % 4], "ProcData")
    BY <1>1 DEF Header
  <2>4. ty \in {"SWIT", "DWT"} /\ b \div 8 \in 0..255
    OBVIOUS
  <2> HIDE DEF T, ty
  <2>5. T[b % 4] \in {1, 2, 4}
    BY <2>1, <2>2, Zenon
  <2>6. QED  BY <2>3, <2>4, <2>5 DEF GoodTypes
<1>2. CASE b % 4 = 0
  <2>1. \/ Header(b) = h("Async", 0, 0, "ProcData")
        \/ Header(b) = h("Overflow", 0, 0, "SendPkt")
        \/ Header(b) = h("TSLocal", 0, 0, "ProcData")
        \/ Header(b) = h("Extension", 0, 0, "ProcData")
        \/ Header(b) = h("TSGlobal1", 0, 0, "ProcData")
        \/ Header(b) = h("TSGlobal2", 0, 0, "ProcData")
        \/ Header(b) = h("Reserved", 0, 0, "ProcErr")
    BY <1>2 DEF Header
  <2>2. QED  BY <2>1 DEF GoodTypes
<1>3. QED  BY <1>1, <1>2

\* A step inside a packet.
LEMMA DataStepIInv1 == IInv1 /\ DataStep => IInv1'
<1> SUFFICES ASSUME IInv1, DataStep PROVE IInv1'
  OBVIOUS
<1>0. Typed /\ Control /\ Sizes
  BY DEF IInv1
<1>1. /\ pc = "loop" /\ ps = "ProcData" /\ ~closed
      /\ UNCHANGED <<src, avail, resets, closed, pc, pktIndex, headerByte, bytesExpected, dec, obs>>
  BY DEF DataStep, inputVars, outVars
<1>2. PICK n \in 0..Len(Rest) : \/ Read(n) /\ Unfinished /\ Sizes'
                                \/ Read(n) /\ Malformed
                                \/ Completes(n)
  BY DEF DataStep
<1>3. pos + n \in 0..avail /\ Taken(n) \in Seq(0..255) /\ Len(Taken(n)) = Len(scratch) + n
  BY <1>0, ReadProperties DEF Taken
<1>11. stale' = stale
  BY <1>2 DEF Read, Completes
<1>4. pos' \in 0..avail' /\ scratch' \in Seq(0..255)
  <2>1. pos' = pos + n
    BY <1>2 DEF Read, Completes
  <2>2. scratch' = Taken(n) \/ (Len(Taken(n)) = 5 /\ scratch' = [Taken(n) EXCEPT ![5] = @ % 32])
    BY <1>2, <1>3 DEF Read, Completes, Taken
  <2>3. CASE Len(Taken(n)) = 5
    <3> DEFINE b == Taken(n)[5] % 32
    <3>1. 5 \in 1..Len(Taken(n))
      BY <2>3
    <3>2. Taken(n)[5] \in 0..255
      BY <1>3, <3>1, ElementOfSeq
    <3>3. b \in 0..255
      <4>1. \A x \in 0..255 : x % 32 \in 0..255
        OBVIOUS
      <4>2. QED  BY <3>2, <4>1, Zenon
    <3> HIDE DEF b
    <3>4. [Taken(n) EXCEPT ![5] = b] \in Seq(0..255)
      BY <1>3, <3>1, <3>3, ExceptSeq
    <3>5. QED  BY <1>1, <1>3, <2>1, <2>2, <3>4 DEF b
  <2>4. QED  BY <1>1, <1>3, <2>1, <2>2, <2>3
<1>5. dec.state = "Pkts" /\ bStreamSync /\ pkt.type \in GoodTypes \ {"Overflow"}
  BY <1>0, <1>1 DEF Control
<1>10. ps' \in {"ProcData", "SendPkt"} => SearchOK'
  BY <1>1 DEF SearchOK
<1>6. CASE Unfinished /\ Sizes'
  <2>1. UNCHANGED <<pkt, ps, bStreamSync, sentNotSync, syncStart, dump>>
    BY <1>6 DEF Unfinished, syncVars
  <2>2. Typed'
    BY <1>0, <1>1, <1>11, <1>4, <2>1 DEF Typed, TypeOK
  <2>3. Control'
    BY <1>0, <1>1, <2>1 DEF Control
  <2>4. QED  BY <1>10, <1>1, <1>6, <2>1, <2>2, <2>3 DEF IInv1
<1>7. CASE Malformed
  <2>1. /\ pkt' \in Packets /\ pkt'.type = "BadSequence"
        /\ ps' = "SendPkt" /\ bStreamSync' = FALSE /\ UNCHANGED <<sentNotSync, syncStart, dump>>
    <3>1. "BadSequence" \in Types
      BY DEF BadTypes, Types
    <3>2. pkt \in Packets /\ pkt' = [pkt EXCEPT !.type = "BadSequence"]
      BY <1>0, <1>7 DEF Typed, Malformed
    <3>3. pkt' \in Packets /\ pkt'.type = "BadSequence"
      BY <3>1, <3>2, Retyped, Zenon
    <3>4. QED  BY <1>7, <3>3 DEF Malformed
  <2>2. bStreamSync' \in BOOLEAN
    BY <2>1
  <2>3. Typed'
    BY <1>0, <1>1, <1>11, <1>4, <2>1, <2>2, StaleIsTyped, Assemble DEF Typed, TypeOK
  <2>4. Control'
    BY <1>0, <1>1, <2>1 DEF Control, BadTypes
  <2>5. Sizes'
    BY <2>1 DEF Sizes
  <2>6. QED  BY <1>10, <2>1, <2>3, <2>4, <2>5 DEF IInv1
<1>8. CASE Completes(n)
  <2>1. /\ pkt' \in Packets /\ pkt'.type = pkt.type /\ ps' = "SendPkt"
        /\ UNCHANGED <<bStreamSync, sentNotSync, syncStart, dump>>
    BY <1>8 DEF Completes, Complete, syncVars
  <2>2. Typed'
    BY <1>0, <1>1, <1>11, <1>4, <2>1, StaleIsTyped, Assemble DEF Typed, TypeOK
  <2>3. Control'
    BY <1>0, <1>1, <1>5, <2>1 DEF Control
  <2>4. Sizes'
    BY <2>1 DEF Sizes
  <2>5. QED  BY <1>10, <2>1, <2>2, <2>3, <2>4 DEF IInv1
<1>9. QED  BY <1>2, <1>6, <1>7, <1>8

\* What the observer is shown next.
LEMMA SeenProperties ==
  ASSUME Typed, NEW ty \in Types, NEW raw \in Seq(0..255)
  PROVE  /\ obs \o Seen(pktIndex, ty, raw) \in Seq(Observed)
         /\ obs \o Seen(pktIndex, ty, raw) =
              IF raw = <<>> THEN obs
              ELSE Append(obs, [index |-> pktIndex, type |-> ty, raw |-> raw])
         /\ [index |-> pktIndex, type |-> ty, raw |-> raw] \in Observed
<1> DEFINE x == [index |-> pktIndex, type |-> ty, raw |-> raw]
<1>1. x \in Observed /\ obs \in Seq(Observed)
  BY DEF Observed, Typed, TypeOK
<1>2. Seen(pktIndex, ty, raw) = IF raw = <<>> THEN <<>> ELSE <<x>>
  BY DEF Seen
<1> HIDE DEF x
<1>3. obs \o <<>> = obs /\ obs \o <<x>> = Append(obs, x) /\ Append(obs, x) \in Seq(Observed)
  BY <1>1
<1>4. QED  BY <1>1, <1>2, <1>3 DEF x

\* The bytes of s that are shown and those that are kept.
LEMMA CutProperties ==
  ASSUME NEW s \in Seq(0..255), NEW n \in 0..Len(s)
  PROVE  /\ SubSeq(s, 1, n) \in Seq(0..255) /\ Len(SubSeq(s, 1, n)) = n
         /\ \A k \in 1..n : SubSeq(s, 1, n)[k] = s[k]
         /\ (SubSeq(s, 1, n) = <<>>) <=> (n = 0)
         /\ Kept(s, n) \in Seq(0..255) /\ Len(Kept(s, n)) = Len(s) - n
         /\ \A k \in 1..(Len(s) - n) : Kept(s, n)[k] = s[n + k]
<1>1. Len(s) \in Nat
  BY LenProperties
<1>2. \A k \in 1..Len(s) : s[k] \in 0..255
  BY ElementOfSeq
<1>3. /\ SubSeq(s, 1, n) \in Seq(0..255) /\ Len(SubSeq(s, 1, n)) = n
      /\ \A k \in 1..n : SubSeq(s, 1, n)[k] = s[k]
  <2>1. \A k \in 1..n : s[k] \in 0..255
    BY <1>1, <1>2
  <2>2. /\ SubSeq(s, 1, n) \in Seq(0..255)
        /\ Len(SubSeq(s, 1, n)) = IF 1 <= n THEN n - 1 + 1 ELSE 0
        /\ \A k \in 1..(n - 1 + 1) : SubSeq(s, 1, n)[k] = s[1 + k - 1]
    BY <1>1, <2>1, SubSeqProperties
  <2>3. QED  BY <2>2, <1>1
<1>4. /\ Kept(s, n) \in Seq(0..255) /\ Len(Kept(s, n)) = Len(s) - n
      /\ \A k \in 1..(Len(s) - n) : Kept(s, n)[k] = s[n + k]
  <2>1. \A k \in (n + 1)..Len(s) : s[k] \in 0..255
    BY <1>1, <1>2
  <2>2. QED  BY <1>1, <2>1, SubSeqProperties DEF Kept
<1>5. (SubSeq(s, 1, n) = <<>>) <=> (n = 0)
  BY <1>3, EmptySeq
<1>6. QED  BY <1>3, <1>4, <1>5

\* Scratch() has the bytes that were read, or as many others: those only when
\* the memory is stale and the bytes fit the array.
LEMMA MemoryProperties ==
  ASSUME Typed, NEW s \in Seq(0..255)
  PROVE  /\ Memory(s) \in Seq(0..255) /\ Len(s) \in Nat /\ Len(Memory(s)) >= Len(s)
         /\ stale # <<>> \/ Len(s) > Inline => Len(Memory(s)) >= Inline
         /\ stale = <<>> \/ Len(s) > Inline => Memory(s) = s
<1>1. Len(s) \in Nat /\ Inline \in Nat
  BY LenProperties, InlineAssumption
<1>2. CASE stale # <<>> /\ Len(s) <= Inline
  <2>1. stale \in [1..Inline -> 0..255]
    BY <1>2, StaleIsTyped DEF Typed, StaleMemory
  <2>2. stale \in Seq(0..255) /\ Len(stale) = Inline
    BY <1>1, <2>1
  <2>3. QED  BY <1>1, <1>2, <2>2 DEF Memory
<1>3. CASE ~(stale # <<>> /\ Len(s) <= Inline)
  BY <1>1, <1>3 DEF Memory
<1>4. QED  BY <1>2, <1>3

LEMMA ScratchProperties ==
  ASSUME Typed, NEW s \in Seq(0..255)
  PROVE  /\ Scratch(s) \in Seq(0..255) /\ Len(Scratch(s)) = Len(s)
         /\ Scratch(s) = <<>> <=> s = <<>>
         /\ stale = <<>> \/ Len(s) > Inline => Scratch(s) = s
<1>1. Memory(s) \in Seq(0..255) /\ Len(s) \in Nat /\ Len(s) \in 0..Len(Memory(s))
  BY MemoryProperties, LenProperties
<1>2. Scratch(s) \in Seq(0..255) /\ Len(Scratch(s)) = Len(s)
  BY <1>1, CutProperties DEF Scratch
<1>3. Scratch(s) = <<>> <=> s = <<>>
  BY <1>1, <1>2, EmptySeq
<1>4. ASSUME stale = <<>> \/ Len(s) > Inline PROVE Scratch(s) = s
  <2>1. Memory(s) = s
    BY <1>4, MemoryProperties
  <2>2. Len(s) \in 0..Len(s)
    BY <1>1
  <2>3. \A k \in 1..Len(s) : Scratch(s)[k] = s[k]
    BY <2>1, <2>2, CutProperties DEF Scratch
  <2>4. QED  BY <1>2, <2>3, SeqEqual, Zenon
<1>5. QED  BY <1>2, <1>3, <1>4

\* What is left in the slice is memory of the array's size.
LEMMA StaleAfterTyped ==
  ASSUME Typed, NEW s \in Seq(0..255), NEW n \in 0..Len(s)
  PROVE  StaleAfter(s, n) \in StaleMemory
<1>1. CASE n # 0 /\ n < Len(s) /\ (stale # <<>> \/ Len(s) > Inline)
  <2> DEFINE m == Memory(s)
  <2>1. m \in Seq(0..255) /\ Len(s) \in Nat /\ Len(m) >= Len(s) /\ Len(m) >= Inline
    BY <1>1, MemoryProperties
  <2>2. Inline \in Nat /\ Len(m) \in Nat
    BY <2>1, LenProperties, InlineAssumption
  <2> HIDE DEF m
  <2>3. \A k \in 1..Inline : m[IF k <= Len(s) - n THEN k + n ELSE k] \in 0..255
    <3> TAKE k \in 1..Inline
    <3> DEFINE i == IF k <= Len(s) - n THEN k + n ELSE k
    <3>1. i \in 1..Len(m)
      BY <2>1, <2>2
    <3> HIDE DEF i
    <3>2. m[i] \in 0..255
      BY <2>1, <3>1, ElementOfSeq
    <3>3. QED  BY <3>2 DEF i
  <2>4. StaleAfter(s, n) = [k \in 1..Inline |-> m[IF k <= Len(s) - n THEN k + n ELSE k]]
    BY <1>1 DEF StaleAfter, m
  <2>5. QED  BY <2>3, <2>4 DEF StaleMemory
<1>2. CASE ~(n # 0 /\ n < Len(s) /\ (stale # <<>> \/ Len(s) > Inline))
  BY <1>2, StaleIsTyped DEF StaleAfter, StaleMemory, Typed
<1>3. QED  BY <1>1, <1>2

\* flushUnsyncedBytes, out of sync: what it shows, and what becomes of the rest.
LEMMA FlushShows ==
  ASSUME Typed, NEW s \in Seq(0..255), NEW n \in 0..Len(s), Flush(s, n)
  PROVE  /\ obs' \in Seq(Observed)
         /\ obs' = IF n = 0 THEN obs
                   ELSE Append(obs, [index |-> pktIndex, type |-> "NotSync", raw |-> SubSeq(Scratch(s), 1, n)])
<1> DEFINE raw == SubSeq(Scratch(s), 1, n)
<1>1. obs' = obs \o Seen(pktIndex, "NotSync", raw)
  BY DEF Flush
<1>2. "NotSync" \in Types
  BY DEF Types
<1>3. raw \in Seq(0..255) /\ (raw = <<>> <=> n = 0)
  BY ScratchProperties, CutProperties
<1> HIDE DEF raw
<1>4. /\ obs' \in Seq(Observed)
      /\ obs' = IF raw = <<>> THEN obs
                ELSE Append(obs, [index |-> pktIndex, type |-> "NotSync", raw |-> raw])
  BY <1>1, <1>2, <1>3, SeenProperties, Zenon
<1>5. QED  BY <1>3, <1>4, Zenon DEF raw

LEMMA FlushTyped ==
  ASSUME Typed, Control, dec.state # "Pkts", NEW s \in Seq(0..255), NEW n \in 0..Len(s), Flush(s, n)
  PROVE  /\ obs' \in Seq(Observed) /\ scratch' \in Seq(0..255) /\ stale' \in StaleMemory
         /\ dump' = 0 /\ sentNotSync' \in BOOLEAN
         /\ "state" \in DOMAIN dec' /\ dec'.state \in {"NoSync", "WaitSync"}
         /\ Len(scratch') = Len(s) - n
<1> DEFINE r == processPacket(dec, [pkt EXCEPT !.type = "NotSync"], pktIndex)
<1>1. /\ dec' = r.dec \/ dec' = dec
      /\ sentNotSync' = (sentNotSync \/ n > 0)
      /\ scratch' = Kept(s, n) /\ stale' = StaleAfter(s, n) /\ dump' = 0
  BY DEF Flush
<1>2. "state" \in DOMAIN r.dec /\ r.dec.state = "WaitSync"
  <2> DEFINE q == [pkt EXCEPT !.type = "NotSync"]
  <2>1. q.type = "NotSync" /\ "state" \in DOMAIN dec /\ q.type # "Async"
    BY DEF Typed, Packets, Control
  <2> HIDE DEF q
  <2>2. /\ "state" \in DOMAIN processPacket(dec, q, pktIndex).dec
        /\ processPacket(dec, q, pktIndex).dec.state = IF q.type = "Async" THEN "Pkts" ELSE "WaitSync"
    BY <2>1, OutOfSync, Zenon
  <2>3. QED  BY <2>1, <2>2 DEF q
<1> HIDE DEF r
<1>3. "state" \in DOMAIN dec' /\ dec'.state \in {"NoSync", "WaitSync"}
  BY <1>1, <1>2 DEF Control, Typed, TypeOK
<1>4. sentNotSync' \in BOOLEAN
  BY <1>1
<1>5. obs' \in Seq(Observed)
  BY FlushShows, Zenon
<1>6. scratch' \in Seq(0..255) /\ Len(scratch') = Len(s) - n
  BY <1>1, CutProperties
<1>7. stale' \in StaleMemory
  BY <1>1, StaleAfterTyped
<1>8. QED  BY <1>1, <1>3, <1>4, <1>5, <1>6, <1>7, Zenon

\* A caller's turn and the end of it.
LEMMA WriteIInv1 == \A n \in ChunkSizes : IInv1 /\ Write(n) => IInv1'
<1> SUFFICES ASSUME NEW n \in ChunkSizes, IInv1, Write(n) PROVE IInv1'
  OBVIOUS
<1>0. Typed /\ Control /\ Sizes /\ SearchOK
  BY DEF IInv1
<1>1. /\ pc = "idle" /\ ~closed /\ avail' = avail + n /\ avail + n <= Len(src) /\ pc' = "loop"
      /\ UNCHANGED <<src, resets, closed, pos, ps, scratch, stale, pkt, pktIndex, headerByte,
                     bytesExpected, bStreamSync, sentNotSync, syncStart, dump, dec, obs>>
  BY DEF Write, pktVars, syncVars, outVars
<1>2. avail' \in 0..Len(src') /\ pos' \in 0..avail'
  <2>1. n \in Nat /\ Len(src) \in Nat /\ avail \in 0..Len(src) /\ pos \in 0..avail
    BY <1>0, ChunkAssumption, RestProperties DEF Typed, TypeOK
  <2>2. QED  BY <1>1, <2>1
<1>3. Typed'
  BY <1>0, <1>1, <1>2, StaleIsTyped, Assemble DEF Typed, TypeOK
<1>4. Control' /\ Sizes' /\ SearchOK'
  BY <1>0, <1>1 DEF Control, Sizes, SearchOK
<1>5. QED  BY <1>3, <1>4 DEF IInv1

LEMMA ReturnIInv1 == IInv1 /\ Return => IInv1'
<1> SUFFICES ASSUME IInv1, Return PROVE IInv1'
  OBVIOUS
<1>0. Typed /\ Control /\ Sizes /\ SearchOK
  BY DEF IInv1
<1>1. /\ pc = "loop" /\ pc' = "idle" /\ ps # "SendPkt"
      /\ UNCHANGED <<src, avail, resets, closed, pos, ps, scratch, stale, pkt, pktIndex, headerByte,
                     bytesExpected, bStreamSync, sentNotSync, syncStart, dump, dec, obs>>
  BY DEF Return, LoopGoesOn, inputVars, pktVars, syncVars, outVars
<1>3. Typed'
  BY <1>0, <1>1, StaleIsTyped, Assemble DEF Typed, TypeOK
<1>4. Control' /\ Sizes' /\ SearchOK'
  BY <1>0, <1>1 DEF Control, Sizes, SearchOK
<1>5. QED  BY <1>3, <1>4 DEF IInv1

\* The search for an Async begins.
LEMMA WaitASyncIInv1 == IInv1 /\ WaitASync => IInv1'
<1> SUFFICES ASSUME IInv1, WaitASync PROVE IInv1'
  OBVIOUS
<1>0. Typed /\ Control /\ Sizes /\ SearchOK
  BY DEF IInv1
<1>1. pc = "loop" /\ ps = "WaitSync" /\ ~closed
  BY <1>0, TurnOpen DEF WaitASync
<1>2. /\ pc' = "sync" /\ dump' = 0 /\ (pktIndex' = pktIndex \/ pktIndex' = pos)
      /\ pkt' = [pkt EXCEPT !.type = "NotSync"]
      /\ UNCHANGED <<src, avail, resets, closed, pos, ps, scratch, stale, headerByte, bytesExpected,
                     bStreamSync, sentNotSync, syncStart, dec, obs>>
  BY DEF WaitASync, inputVars, outVars
<1>3. pkt' \in Packets
  <2>1. "NotSync" \in Types /\ pkt \in Packets
    BY <1>0 DEF Typed, Types
  <2>2. QED  BY <1>2, <2>1, Retyped, Zenon
<1>4. pktIndex' \in Nat
  BY <1>0, <1>2, RestProperties DEF Typed, TypeOK
<1>5. Typed'
  BY <1>0, <1>2, <1>3, <1>4, StaleIsTyped, Assemble DEF Typed, TypeOK
<1>6. Control' /\ Sizes'
  BY <1>0, <1>1, <1>2 DEF Control, Sizes
<1>7. SearchOK'
  <2>1. ~syncStart => Len(scratch) = 0
    BY <1>0, <1>1 DEF SearchOK
  <2>2. QED  BY <1>1, <1>2, <2>1 DEF SearchOK
<1>8. QED  BY <1>5, <1>6, <1>7 DEF IInv1

\* Where the search stands.
LEMMA SearchingState ==
  ASSUME IInv1, Searching
  PROVE  /\ pc = "sync" /\ ps = "WaitSync" /\ ~closed /\ ~bStreamSync /\ dec.state # "Pkts"
         /\ Len(Rest) >= 1 /\ Rest # <<>>
         /\ dump = IF syncStart THEN 0 ELSE Len(scratch)
<1>1. pc = "sync" /\ Rest # <<>> /\ ~bStreamSync
  BY DEF Searching
<1>2. ps = "WaitSync" /\ ~closed /\ dec.state # "Pkts"
  BY <1>1 DEF IInv1, Control
<1>3. Len(Rest) >= 1
  BY <1>1, RestProperties DEF IInv1
<1>4. dump = IF syncStart THEN 0 ELSE Len(scratch)
  BY <1>1 DEF IInv1, SearchOK
<1>5. QED  BY <1>1, <1>2, <1>3, <1>4

\* The first byte that is not zero.
LEMMA AsyncLenProperties ==
  ASSUME Typed, NonZeros # {}
  PROVE  AsyncLen \in 0..Len(Rest) /\ AsyncLen \in 1..Len(Rest)
<1>1. NonZeros \in SUBSET Nat /\ NonZeros \in SUBSET (1..Len(Rest)) /\ Len(Rest) \in Nat
  BY RestProperties DEF NonZeros
<1>2. AsyncLen \in NonZeros
  BY <1>1, MinMember DEF AsyncLen
<1>3. QED  BY <1>1, <1>2

LEMMA AsyncFoundIInv1 == IInv1 /\ AsyncFound => IInv1'
<1> SUFFICES ASSUME IInv1, AsyncFound PROVE IInv1'
  OBVIOUS
<1>0. Typed /\ Control /\ Sizes /\ SearchOK
  BY DEF IInv1
<1>1. ps = "WaitSync" /\ ~closed /\ dec.state # "Pkts"
  BY SearchingState DEF AsyncFound
<1>2. /\ Read(AsyncLen) /\ stale' = stale /\ bStreamSync' = TRUE /\ pkt' = [pkt EXCEPT !.type = "Async"]
      /\ ps' = "SendPkt" /\ pc' = "loop"
      /\ UNCHANGED <<src, avail, resets, closed, pktIndex, headerByte, bytesExpected,
                     sentNotSync, syncStart, dump, dec, obs>>
  BY DEF AsyncFound, Read, inputVars, outVars
<1>3. pkt' \in Packets /\ pkt'.type = "Async"
  <2>1. "Async" \in Types /\ pkt \in Packets
    BY <1>0 DEF Typed, Types, GoodTypes
  <2>2. QED  BY <1>2, <2>1, Retyped, Zenon
<1>4. pos' \in 0..avail' /\ scratch' \in Seq(0..255)
  <2>1. AsyncLen \in 0..Len(Rest)
    BY <1>0, AsyncLenProperties DEF AsyncFound
  <2>2. QED  BY <1>0, <1>2, <2>1, ReadProperties DEF Read
<1>5. bStreamSync' \in BOOLEAN
  BY <1>2
<1>6. Typed'
  BY <1>0, <1>2, <1>3, <1>4, <1>5, StaleIsTyped, Assemble DEF Typed, TypeOK
<1>7. Control' /\ Sizes' /\ SearchOK'
  BY <1>0, <1>1, <1>2, <1>3 DEF Control, Sizes, SearchOK
<1>8. QED  BY <1>6, <1>7 DEF IInv1

LEMMA AsyncBrokenIInv1 == IInv1 /\ AsyncBroken => IInv1'
<1> SUFFICES ASSUME IInv1, AsyncBroken PROVE IInv1'
  OBVIOUS
<1>0. Typed /\ Control /\ Sizes /\ SearchOK
  BY DEF IInv1
<1>1. pc = "sync" /\ ps = "WaitSync" /\ ~closed
  BY SearchingState DEF AsyncBroken
<1>2. /\ Read(AsyncLen) /\ stale' = stale /\ dump' = Len(scratch') /\ syncStart' = FALSE
      /\ UNCHANGED <<src, avail, resets, closed, pc, ps, pkt, pktIndex, headerByte, bytesExpected,
                     bStreamSync, sentNotSync, dec, obs>>
  BY DEF AsyncBroken, Read, inputVars, outVars
<1>3. pos' \in 0..avail' /\ scratch' \in Seq(0..255)
  <2>1. AsyncLen \in 0..Len(Rest)
    BY <1>0, AsyncLenProperties DEF AsyncBroken
  <2>2. QED  BY <1>0, <1>2, <2>1, ReadProperties DEF Read
<1>4. dump' \in Nat /\ syncStart' \in BOOLEAN
  BY <1>2, <1>3, LenProperties
<1>5. Typed'
  BY <1>0, <1>2, <1>3, <1>4, StaleIsTyped, Assemble DEF Typed, TypeOK
<1>6. Control' /\ Sizes' /\ SearchOK'
  BY <1>0, <1>1, <1>2 DEF Control, Sizes, SearchOK
<1>7. QED  BY <1>5, <1>6 DEF IInv1

LEMMA AsyncGoesOnIInv1 == IInv1 /\ AsyncGoesOn => IInv1'
<1> SUFFICES ASSUME IInv1, AsyncGoesOn PROVE IInv1'
  OBVIOUS
<1>0. Typed /\ Control /\ Sizes /\ SearchOK
  BY DEF IInv1
<1>1. pc = "sync" /\ ps = "WaitSync" /\ ~closed /\ syncStart
  BY SearchingState DEF AsyncGoesOn
<1>2. /\ Read(Len(Rest)) /\ stale' = stale
      /\ UNCHANGED <<src, avail, resets, closed, pc, ps, pkt, pktIndex, headerByte, bytesExpected,
                     bStreamSync, sentNotSync, syncStart, dump, dec, obs>>
  BY DEF AsyncGoesOn, Read, inputVars, outVars, syncVars
<1>3. pos' \in 0..avail' /\ scratch' \in Seq(0..255)
  <2>1. Len(Rest) \in 0..Len(Rest)
    BY <1>0, RestProperties
  <2>2. QED  BY <1>0, <1>2, <2>1, ReadProperties DEF Read
<1>4. Typed'
  BY <1>0, <1>2, <1>3, StaleIsTyped, Assemble DEF Typed, TypeOK
<1>5. Control' /\ Sizes' /\ SearchOK'
  BY <1>0, <1>1, <1>2 DEF Control, Sizes, SearchOK
<1>6. QED  BY <1>4, <1>5 DEF IInv1

\* One byte more.
LEMMA TakenOne ==
  ASSUME Typed, Len(Rest) >= 1
  PROVE  /\ 1 \in 0..Len(Rest) /\ Rest[1] \in 0..255
         /\ Append(scratch, Rest[1]) = Taken(1) /\ Taken(1) \in Seq(0..255)
         /\ Len(Taken(1)) = Len(scratch) + 1 /\ Len(scratch) \in Nat /\ pos + 1 \in 0..avail
<1>1. Rest \in Seq(0..255) /\ Len(Rest) \in Nat /\ Rest[1] \in 0..255 /\ 1 \in 0..Len(Rest)
  <2>1. Len(Rest) \in Nat
    BY RestProperties
  <2>2. 1 \in 1..Len(Rest)
    BY <2>1
  <2>3. QED  BY <2>1, <2>2, RestProperties
<1>2. scratch \in Seq(0..255)
  BY DEF Typed, TypeOK
<1>3. /\ Taken(1) \in Seq(0..255) /\ Len(Taken(1)) = Len(scratch) + 1 /\ Len(scratch) \in Nat
      /\ pos + 1 \in 0..avail
      /\ \A k \in 1..Len(scratch) : Taken(1)[k] = scratch[k]
      /\ \A k \in (Len(scratch) + 1)..(Len(scratch) + 1) : Taken(1)[k] = src[pos + (k - Len(scratch))]
  BY <1>1, ReadProperties DEF Taken
<1>4. Taken(1)[Len(scratch) + 1] = Rest[1]
  <2>1. Rest[1] = src[pos + 1]
    BY <1>1, RestProperties
  <2>2. Len(scratch) + 1 \in (Len(scratch) + 1)..(Len(scratch) + 1) /\ (Len(scratch) + 1) - Len(scratch) = 1
    BY <1>3
  <2>3. QED  BY <1>3, <2>1, <2>2, Zenon
<1> DEFINE a == Append(scratch, Rest[1])
<1>5. /\ a \in Seq(0..255) /\ Len(a) = Len(scratch) + 1
      /\ \A k \in 1..Len(scratch) : a[k] = scratch[k]
      /\ a[Len(scratch) + 1] = Rest[1]
  BY <1>1, <1>2, AppendProperties
<1> HIDE DEF a
<1>6. \A k \in 1..Len(a) : a[k] = Taken(1)[k]
  <2> TAKE k \in 1..Len(a)
  <2>1. k \in 1..Len(scratch) \/ k = Len(scratch) + 1
    BY <1>3, <1>5
  <2>2. QED  BY <2>1, <1>3, <1>4, <1>5, Zenon
<1>7. a = Taken(1)
  BY <1>3, <1>5, <1>6, SeqEqual, Zenon
<1>8. QED  BY <1>1, <1>3, <1>7 DEF a

\* A zero may be the start of an Async: what was found before it is flushed.
LEMMA UnsyncedZeroIInv1 == IInv1 /\ UnsyncedZero => IInv1'
<1> SUFFICES ASSUME IInv1, UnsyncedZero PROVE IInv1'
  OBVIOUS
<1>0. Typed /\ Control /\ Sizes /\ SearchOK
  BY DEF IInv1
<1>1. /\ pc = "sync" /\ ps = "WaitSync" /\ ~closed /\ ~bStreamSync /\ dec.state # "Pkts"
      /\ Len(Rest) >= 1 /\ dump = Len(scratch)
  BY SearchingState DEF UnsyncedZero
<1>2. /\ pos' = pos + 1 /\ Flush(Append(scratch, Rest[1]), dump) /\ syncStart' = TRUE /\ pktIndex' = pos
      /\ UNCHANGED <<src, avail, resets, closed, pc, ps, pkt, headerByte, bytesExpected, bStreamSync>>
  BY DEF UnsyncedZero, inputVars, ZeroIndex
<1>3. Taken(1) \in Seq(0..255) /\ dump \in 0..Len(Taken(1)) /\ Flush(Taken(1), dump) /\ pos' \in 0..avail'
  <2>1. /\ Taken(1) \in Seq(0..255) /\ Len(Taken(1)) = Len(scratch) + 1 /\ Len(scratch) \in Nat
        /\ pos + 1 \in 0..avail /\ Append(scratch, Rest[1]) = Taken(1)
    BY <1>0, <1>1, TakenOne
  <2>2. dump \in 0..Len(Taken(1))
    BY <1>1, <2>1
  <2>3. Flush(Taken(1), dump)
    BY <1>2, <2>1, Zenon
  <2>4. QED  BY <1>2, <2>1, <2>2, <2>3
<1>4. /\ obs' \in Seq(Observed) /\ scratch' \in Seq(0..255) /\ stale' \in StaleMemory
      /\ dump' = 0 /\ sentNotSync' \in BOOLEAN
      /\ "state" \in DOMAIN dec' /\ dec'.state \in {"NoSync", "WaitSync"}
      /\ Len(scratch') = Len(Taken(1)) - dump
  <2>1. Typed /\ Control /\ dec.state # "Pkts"
    BY <1>0, <1>1
  <2>2. Taken(1) \in Seq(0..255) /\ dump \in 0..Len(Taken(1)) /\ Flush(Taken(1), dump)
    BY <1>3
  <2>3. QED  BY <2>1, <2>2, FlushTyped, Zenon
<1>5. syncStart' \in BOOLEAN /\ dump' \in Nat /\ pktIndex' \in Nat
  BY <1>0, <1>2, <1>4, RestProperties DEF Typed, TypeOK
<1>6. Typed'
  BY <1>0, <1>2, <1>3, <1>4, <1>5, StaleIsTyped, Assemble DEF Typed, TypeOK
<1>7. Control' /\ Sizes' /\ SearchOK'
  BY <1>0, <1>1, <1>2, <1>4 DEF Control, Sizes, SearchOK
<1>8. QED  BY <1>6, <1>7 DEF IInv1

\* Any other byte is noise, flushed eight at a time.
LEMMA UnsyncedByteIInv1 == IInv1 /\ UnsyncedByte => IInv1'
<1> SUFFICES ASSUME IInv1, UnsyncedByte PROVE IInv1'
  OBVIOUS
<1>0. Typed /\ Control /\ Sizes /\ SearchOK
  BY DEF IInv1
<1>1. /\ pc = "sync" /\ ps = "WaitSync" /\ ~closed /\ ~bStreamSync /\ dec.state # "Pkts"
      /\ Len(Rest) >= 1 /\ dump = Len(scratch) /\ ~syncStart
  BY SearchingState DEF UnsyncedByte
<1>2. /\ UNCHANGED <<src, avail, resets, closed, pc, ps, pkt, pktIndex, headerByte, bytesExpected,
                     bStreamSync, syncStart>>
  BY DEF UnsyncedByte, inputVars
<1>3. CASE Read(1) /\ dump' = dump + 1 /\ UNCHANGED <<sentNotSync, outVars>>
  <2>1. scratch' = Taken(1) /\ scratch' \in Seq(0..255) /\ Len(scratch') = dump' /\ dump' \in Nat
        /\ pos' \in 0..avail' /\ UNCHANGED <<stale, sentNotSync, dec, obs>>
    BY <1>0, <1>1, <1>2, <1>3, TakenOne DEF Read, Taken, outVars
  <2>2. Typed'
    BY <1>0, <1>2, <2>1, StaleIsTyped, Assemble DEF Typed, TypeOK
  <2>3. Control' /\ Sizes' /\ SearchOK'
    BY <1>0, <1>1, <1>2, <2>1 DEF Control, Sizes, SearchOK
  <2>4. QED  BY <2>2, <2>3 DEF IInv1
<1>4. CASE pos' = pos + 1 /\ Flush(Append(scratch, Rest[1]), dump + 1)
  <2>1. /\ Taken(1) \in Seq(0..255) /\ dump + 1 \in 0..Len(Taken(1)) /\ Flush(Taken(1), dump + 1)
        /\ pos' \in 0..avail' /\ Len(Taken(1)) = dump + 1 /\ dump \in Nat
    <3>1. /\ Taken(1) \in Seq(0..255) /\ Len(Taken(1)) = Len(scratch) + 1 /\ Len(scratch) \in Nat
          /\ pos + 1 \in 0..avail /\ Append(scratch, Rest[1]) = Taken(1)
      BY <1>0, <1>1, TakenOne
    <3>2. dump + 1 \in 0..Len(Taken(1)) /\ Len(Taken(1)) = dump + 1 /\ dump \in Nat
      BY <1>1, <3>1
    <3>3. Flush(Taken(1), dump + 1)
      BY <1>4, <3>1, Zenon
    <3>4. QED  BY <1>2, <1>4, <3>1, <3>2, <3>3
  <2>2. /\ obs' \in Seq(Observed) /\ scratch' \in Seq(0..255) /\ stale' \in StaleMemory
        /\ dump' = 0 /\ sentNotSync' \in BOOLEAN
        /\ "state" \in DOMAIN dec' /\ dec'.state \in {"NoSync", "WaitSync"}
        /\ Len(scratch') = Len(Taken(1)) - (dump + 1)
    BY <1>0, <1>1, <2>1, FlushTyped, Zenon
  <2>3. Len(scratch') = 0 /\ dump' \in Nat
    BY <2>1, <2>2
  <2>4. Typed'
    BY <1>0, <1>2, <2>1, <2>2, <2>3, StaleIsTyped, Assemble DEF Typed, TypeOK
  <2>5. Control' /\ Sizes' /\ SearchOK'
    BY <1>0, <1>1, <1>2, <2>2, <2>3 DEF Control, Sizes, SearchOK
  <2>6. QED  BY <2>4, <2>5 DEF IInv1
<1>5. QED  BY <1>3, <1>4 DEF UnsyncedByte

\* The search ends with the block.
LEMMA SearchEndsIInv1 == IInv1 /\ SearchEnds => IInv1'
<1> SUFFICES ASSUME IInv1, SearchEnds PROVE IInv1'
  OBVIOUS
<1>0. Typed /\ Control /\ Sizes /\ SearchOK
  BY DEF IInv1
<1>1. /\ pc = "sync" /\ ps = "WaitSync" /\ ~closed /\ ~bStreamSync /\ dec.state # "Pkts"
      /\ dump = IF syncStart THEN 0 ELSE Len(scratch)
  BY <1>0 DEF SearchEnds, Control, SearchOK
<1>2. /\ pc' = "loop"
      /\ UNCHANGED <<src, avail, resets, closed, pos, ps, pkt, pktIndex, headerByte, bytesExpected,
                     bStreamSync, syncStart>>
  BY DEF SearchEnds, inputVars
<1>3. CASE syncStart /\ UNCHANGED <<scratch, stale, sentNotSync, dump, outVars>>
  <2>1. Typed'
    BY <1>0, <1>2, <1>3, StaleIsTyped, Assemble DEF Typed, TypeOK, outVars
  <2>2. Control' /\ Sizes' /\ SearchOK'
    BY <1>0, <1>1, <1>2, <1>3 DEF Control, Sizes, SearchOK, outVars
  <2>3. QED  BY <2>1, <2>2 DEF IInv1
<1>4. CASE ~syncStart /\ Flush(scratch, dump)
  <2>1. scratch \in Seq(0..255) /\ dump \in 0..Len(scratch) /\ dump = Len(scratch) /\ dump \in Nat
    BY <1>0, <1>1, <1>4, LenProperties DEF Typed, TypeOK
  <2>2. /\ obs' \in Seq(Observed) /\ scratch' \in Seq(0..255) /\ stale' \in StaleMemory
        /\ dump' = 0 /\ sentNotSync' \in BOOLEAN
        /\ "state" \in DOMAIN dec' /\ dec'.state \in {"NoSync", "WaitSync"}
        /\ Len(scratch') = Len(scratch) - dump
    BY <1>0, <1>1, <1>4, <2>1, FlushTyped, Zenon
  <2>3. scratch' = <<>> /\ dump' \in Nat
    <3>1. Len(scratch') = 0
      BY <2>1, <2>2
    <3>2. QED  BY <2>2, <3>1, EmptySeq
  <2>4. Typed'
    BY <1>0, <1>2, <2>2, <2>3, StaleIsTyped, Assemble DEF Typed, TypeOK
  <2>5. Control' /\ Sizes' /\ SearchOK'
    BY <1>0, <1>1, <1>2, <2>2, <2>3 DEF Control, Sizes, SearchOK
  <2>6. QED  BY <2>4, <2>5 DEF IInv1
<1>5. QED  BY <1>3, <1>4 DEF SearchEnds

\* A header byte.
LEMMA ProcHdrIInv1 == IInv1 /\ ProcHdr => IInv1'
<1> SUFFICES ASSUME IInv1, ProcHdr PROVE IInv1'
  OBVIOUS
<1>0. Typed /\ Control /\ Sizes /\ SearchOK
  BY DEF IInv1
<1>1. pc = "loop" /\ ps = "ProcHdr" /\ ~closed /\ Len(Rest) >= 1 /\ Len(scratch) = 0
  <2>1. pc = "loop" /\ ps = "ProcHdr" /\ ~closed
    BY <1>0, TurnOpen DEF ProcHdr
  <2>2. Rest # <<>>
    BY <2>1 DEF ProcHdr, Turn, LoopGoesOn
  <2>3. Len(Rest) >= 1
    BY <1>0, <2>2, RestProperties
  <2>4. scratch = <<>>
    BY <1>0, <2>1 DEF SearchOK
  <2>5. QED  BY <2>1, <2>3, <2>4
<1> DEFINE h == Header(Rest[1])
<1>2. /\ Read(1) /\ stale' = stale /\ pktIndex' = pos /\ headerByte' = Rest[1]
      /\ pkt' = [pkt EXCEPT !.type = h.type, !.srcID = h.srcID]
      /\ bytesExpected' = (IF h.n > 0 THEN h.n ELSE bytesExpected) /\ ps' = h.next
      /\ UNCHANGED <<src, avail, resets, closed, pc, bStreamSync, sentNotSync, syncStart, dump, dec, obs>>
  BY DEF ProcHdr, Read, inputVars, syncVars, outVars
<1>3. /\ Rest[1] \in 0..255 /\ scratch' \in Seq(0..255) /\ Len(scratch') = 1 /\ pos' \in 0..avail'
  BY <1>0, <1>1, <1>2, TakenOne DEF Read, Taken
<1>4. /\ h.type \in GoodTypes \cup {"Reserved"} /\ h.srcID \in 0..255 /\ h.n \in {0, 1, 2, 4}
      /\ \/ h.next = "ProcData" /\ h.type \in GoodTypes \ {"Overflow"}
         \/ h.next = "SendPkt" /\ h.type = "Overflow"
         \/ h.next = "ProcErr" /\ h.type = "Reserved"
      /\ h.type \in {"SWIT", "DWT"} => h.n \in {1, 2, 4}
  BY <1>3, HeaderProperties, Zenon
<1> HIDE DEF h
<1>5. pkt' \in Packets /\ pkt'.type = h.type
  <2> DEFINE ty == h.type
             id == h.srcID
  <2>1. pkt \in Packets /\ ty \in Types /\ id \in 0..255
    BY <1>0, <1>4 DEF Typed, Types, BadTypes
  <2>2. pkt' = [pkt EXCEPT !.type = ty, !.srcID = id]
    BY <1>2
  <2> HIDE DEF ty, id
  <2>3. pkt' \in Packets /\ pkt'.type = ty
    BY <2>1, <2>2, Readdressed, Zenon
  <2>4. QED  BY <2>3 DEF ty
<1>6. /\ bytesExpected' \in {0, 1, 2, 4} /\ pktIndex' \in Nat
      /\ h.type \in {"SWIT", "DWT"} => bytesExpected' \in {1, 2, 4}
  <2>1. bytesExpected \in {0, 1, 2, 4} /\ pos \in Nat
    BY <1>0, RestProperties DEF Typed, TypeOK
  <2>2. QED  BY <1>2, <1>4, <2>1
<1>7. ps' \in {"ProcData", "SendPkt", "ProcErr"}
  BY <1>2, <1>4
<1>8. Typed'
  BY <1>0, <1>2, <1>3, <1>5, <1>6, <1>7, StaleIsTyped, Assemble DEF Typed, TypeOK
<1>9. Control'
  <2>1. dec.state = "Pkts" /\ bStreamSync
    BY <1>0, <1>1 DEF Control
  <2>2. \/ ps' = "ProcData" /\ pkt'.type \in GoodTypes \ {"Overflow"}
        \/ ps' = "SendPkt" /\ pkt'.type \in GoodTypes
        \/ ps' = "ProcErr" /\ pkt'.type = "Reserved"
    BY <1>2, <1>4, <1>5
  <2>3. QED  BY <1>0, <1>1, <1>2, <2>1, <2>2 DEF Control
<1>10. Sizes' /\ SearchOK'
  BY <1>1, <1>2, <1>3, <1>5, <1>6, <1>7 DEF Sizes, SearchOK
<1>11. QED  BY <1>8, <1>9, <1>10 DEF IInv1

\* A reserved header.
LEMMA ProcErrIInv1 == IInv1 /\ ProcErr => IInv1'
<1> SUFFICES ASSUME IInv1, ProcErr PROVE IInv1'
  OBVIOUS
<1>0. Typed /\ Control /\ Sizes /\ SearchOK
  BY DEF IInv1
<1>1. pc = "loop" /\ ps = "ProcErr" /\ ~closed /\ pkt.type = "Reserved"
  BY <1>0, TurnOpen DEF ProcErr, Control
<1>2. /\ ps' = "SendPkt" /\ bStreamSync' = FALSE
      /\ UNCHANGED <<src, avail, resets, closed, pos, pc, scratch, stale, pkt, pktIndex, headerByte,
                     bytesExpected, sentNotSync, syncStart, dump, dec, obs>>
  BY DEF ProcErr, inputVars, pktVars, outVars
<1>3. bStreamSync' \in BOOLEAN
  BY <1>2
<1>4. Typed'
  BY <1>0, <1>2, <1>3, StaleIsTyped, Assemble DEF Typed, TypeOK
<1>5. Control' /\ Sizes' /\ SearchOK'
  BY <1>0, <1>1, <1>2 DEF Control, Sizes, SearchOK, BadTypes
<1>6. QED  BY <1>4, <1>5 DEF IInv1

\* The packet of a fresh parser.
LEMMA ClearedTyped == Cleared \in Packets /\ Cleared.type = "Reserved"
BY DEF Cleared, Packets, Types, BadTypes

\* What the decoder makes of the packet it is sent: it is then in sync exactly
\* if the parser is, or it has refused a packet and is to be told of that.
LEMMA SendPktState ==
  ASSUME Control, ps = "SendPkt", NEW r, r = processPacket(dec, pkt, pktIndex)
  PROVE  /\ "state" \in DOMAIN r.dec
         /\ \/ r.bad = FALSE /\ bStreamSync /\ r.dec.state = "Pkts"
            \/ r.bad = FALSE /\ ~bStreamSync /\ r.dec.state = "WaitSync"
            \/ r.bad = TRUE /\ ~bStreamSync /\ r.dec.state = "NoSync"
<1>0. "state" \in DOMAIN dec
  BY DEF Control
<1>1. CASE bStreamSync /\ dec.state = "Pkts" /\ pkt.type \in GoodTypes
  <2>1. pkt.type \in GoodTypes \cup {"IncompleteEOT"}
    BY <1>1
  <2>2. "state" \in DOMAIN r.dec /\ r.dec.state = "Pkts" /\ r.bad = FALSE
    BY <1>0, <1>1, <2>1, GoodInSync, Zenon
  <2>3. QED  BY <1>1, <2>2, Zenon
<1>2. CASE bStreamSync /\ dec.state # "Pkts" /\ pkt.type = "Async"
  <2>1. /\ "state" \in DOMAIN r.dec /\ r.bad = FALSE
        /\ r.dec.state = IF pkt.type = "Async" THEN "Pkts" ELSE "WaitSync"
    BY <1>0, <1>2, OutOfSync, Zenon
  <2>2. QED  BY <1>2, <2>1, Zenon
<1>3. CASE ~bStreamSync /\ pkt.type \in BadTypes /\ dec.state = "Pkts"
  <2>1. "state" \in DOMAIN r.dec /\ r.dec.state = "NoSync" /\ r.bad = TRUE
    BY <1>0, <1>3, BadInSync, Zenon
  <2>2. QED  BY <1>3, <2>1, Zenon
<1>4. CASE ~bStreamSync /\ pkt.type \in BadTypes /\ dec.state # "Pkts"
  <2>1. /\ "state" \in DOMAIN r.dec /\ r.bad = FALSE
        /\ r.dec.state = IF pkt.type = "Async" THEN "Pkts" ELSE "WaitSync"
    BY <1>0, <1>4, OutOfSync, Zenon
  <2>2. pkt.type # "Async"
    BY <1>4 DEF BadTypes
  <2>3. QED  BY <1>4, <2>1, <2>2, Zenon
<1>5. QED  BY <1>1, <1>2, <1>3, <1>4 DEF Control

LEMMA SendPktIInv1 == IInv1 /\ SendPkt => IInv1'
<1> SUFFICES ASSUME IInv1, SendPkt PROVE IInv1'
  OBVIOUS
<1>0. Typed /\ Control /\ Sizes /\ SearchOK
  BY DEF IInv1
<1>1. pc = "loop" /\ ps = "SendPkt" /\ ~closed
  BY <1>0, TurnOpen DEF SendPkt
<1> DEFINE r == processPacket(dec, pkt, pktIndex)
<1>2. /\ dec' = r.dec /\ bStreamSync' = (bStreamSync /\ ~r.bad)
      /\ ps' = IF r.bad THEN "SendPkt" ELSE IF bStreamSync THEN "ProcHdr" ELSE "WaitSync"
      /\ obs' = obs \o Seen(pktIndex, pkt.type, Scratch(scratch))
      /\ scratch' = <<>> /\ stale' = <<>> /\ pkt' = Cleared /\ bytesExpected' = 0
      /\ UNCHANGED <<src, avail, resets, closed, pos, pc, pktIndex, headerByte, sentNotSync,
                     syncStart, dump>>
  BY DEF SendPkt, inputVars
<1>3. /\ "state" \in DOMAIN r.dec
      /\ \/ r.bad = FALSE /\ bStreamSync /\ r.dec.state = "Pkts"
         \/ r.bad = FALSE /\ ~bStreamSync /\ r.dec.state = "WaitSync"
         \/ r.bad = TRUE /\ ~bStreamSync /\ r.dec.state = "NoSync"
  BY <1>0, <1>1, SendPktState, Zenon
<1>4. /\ "state" \in DOMAIN dec'
      /\ \/ ps' = "ProcHdr" /\ bStreamSync' = TRUE /\ dec'.state = "Pkts"
         \/ ps' = "WaitSync" /\ bStreamSync' = FALSE /\ dec'.state = "WaitSync"
         \/ ps' = "SendPkt" /\ bStreamSync' = FALSE /\ dec'.state = "NoSync"
  <2> HIDE DEF r
  <2>1. CASE r.bad = FALSE /\ bStreamSync /\ r.dec.state = "Pkts"
    <3>1. ps' = "ProcHdr" /\ bStreamSync' = TRUE
      BY <1>2, <2>1, Zenon
    <3>2. QED  BY <1>2, <1>3, <2>1, <3>1, Zenon
  <2>2. CASE r.bad = FALSE /\ ~bStreamSync /\ r.dec.state = "WaitSync"
    <3>1. ps' = "WaitSync" /\ bStreamSync' = FALSE
      BY <1>2, <2>2, Zenon
    <3>2. QED  BY <1>2, <1>3, <2>2, <3>1, Zenon
  <2>3. CASE r.bad = TRUE /\ ~bStreamSync /\ r.dec.state = "NoSync"
    <3>1. ps' = "SendPkt" /\ bStreamSync' = FALSE
      BY <1>2, <2>3, Zenon
    <3>2. QED  BY <1>2, <1>3, <2>3, <3>1, Zenon
  <2>4. QED  BY <1>3, <2>1, <2>2, <2>3, Zenon
<1>5. pkt' \in Packets /\ pkt'.type = "Reserved"
  BY <1>2, ClearedTyped
<1>6. scratch' \in Seq(0..255) /\ stale' \in StaleMemory /\ bytesExpected' \in {0, 1, 2, 4}
  BY <1>2 DEF StaleMemory
<1>7. obs' \in Seq(Observed)
  <2>1. Scratch(scratch) \in Seq(0..255) /\ pkt.type \in Types
    BY <1>0, ScratchProperties DEF Typed, TypeOK, Packets
  <2>2. QED  BY <1>0, <1>2, <2>1, SeenProperties, Zenon
<1>8. bStreamSync' \in BOOLEAN /\ ps' \in {"WaitSync", "ProcHdr", "SendPkt"}
      /\ dec'.state \in {"NoSync", "WaitSync", "Pkts"}
  BY <1>4
<1>9. Typed'
  BY <1>0, <1>2, <1>5, <1>6, <1>7, <1>8, StaleIsTyped, Assemble DEF Typed, TypeOK
<1>10. Control'
  BY <1>1, <1>2, <1>4, <1>5 DEF Control, BadTypes
<1>11. Sizes' /\ SearchOK'
  BY <1>1, <1>2, <1>4 DEF Sizes, SearchOK
<1>12. QED  BY <1>9, <1>10, <1>11 DEF IInv1

\* The end of the trace leaves the decoder in the sync state that it had.
LEMMA CloseIInv1 == IInv1 /\ Close => IInv1'
<1> SUFFICES ASSUME IInv1, Close PROVE IInv1'
  OBVIOUS
<1>0. Typed /\ Control /\ Sizes /\ SearchOK
  BY DEF IInv1
<1> DEFINE last == [pkt EXCEPT !.type = "IncompleteEOT"]
           r == IF scratch = <<>> THEN Quiet(dec) ELSE processPacket(dec, last, pktIndex)
<1>1. /\ pc = "idle" /\ ~closed /\ closed' = TRUE
      /\ pkt' = IF scratch = <<>> THEN pkt ELSE last
      /\ dec' = r.dec /\ obs' = obs \o Seen(pktIndex, "IncompleteEOT", Scratch(scratch))
      /\ scratch' = <<>> /\ stale' = <<>>
      /\ UNCHANGED <<src, avail, resets, pos, pc, ps, pktIndex, headerByte, bytesExpected,
                     bStreamSync, sentNotSync, syncStart, dump>>
  BY DEF Close, syncVars
<1>2. ps # "SendPkt" /\ "state" \in DOMAIN dec
  BY <1>0, <1>1 DEF Control
<1>3. pkt \in Packets /\ "IncompleteEOT" \in Types
  BY <1>0 DEF Typed, Types
<1>4. last \in Packets /\ last.type = "IncompleteEOT"
  BY <1>3, Retyped, Zenon
<1> HIDE DEF last
<1>5. /\ "state" \in DOMAIN dec' /\ dec'.state \in {"NoSync", "WaitSync", "Pkts"}
      /\ dec'.state = "Pkts" <=> dec.state = "Pkts"
  <2>1. CASE scratch = <<>>
    <3>1. dec' = dec
      BY <1>1, <2>1, QuietKeeps
    <3>2. QED  BY <1>0, <1>2, <3>1 DEF Typed, TypeOK
  <2>2. CASE scratch # <<>> /\ dec.state = "Pkts"
    <3>1. last.type \in GoodTypes \cup {"IncompleteEOT"}
      BY <1>4
    <3>2. /\ "state" \in DOMAIN processPacket(dec, last, pktIndex).dec
          /\ processPacket(dec, last, pktIndex).dec.state = "Pkts"
      BY <1>2, <2>2, <3>1, GoodInSync, Zenon
    <3>3. QED  BY <1>1, <2>2, <3>2
  <2>3. CASE scratch # <<>> /\ dec.state # "Pkts"
    <3>1. /\ "state" \in DOMAIN processPacket(dec, last, pktIndex).dec
          /\ processPacket(dec, last, pktIndex).dec.state = IF last.type = "Async" THEN "Pkts" ELSE "WaitSync"
      BY <1>2, <2>3, OutOfSync, Zenon
    <3>2. QED  BY <1>1, <1>4, <2>3, <3>1
  <2>4. QED  BY <2>1, <2>2, <2>3
<1>6. obs' \in Seq(Observed)
  <2>1. Scratch(scratch) \in Seq(0..255)
    BY <1>0, ScratchProperties DEF Typed, TypeOK
  <2>2. QED  BY <1>0, <1>1, <1>3, <2>1, SeenProperties, Zenon
<1>7. pkt' \in Packets /\ scratch' \in Seq(0..255) /\ stale' \in StaleMemory /\ closed' \in BOOLEAN
  BY <1>1, <1>3, <1>4 DEF StaleMemory
<1> HIDE DEF r
<1>8. Typed'
  BY <1>0, <1>1, <1>5, <1>6, <1>7, StaleIsTyped, Assemble DEF Typed, TypeOK
<1>9. Control'
  BY <1>0, <1>1, <1>2, <1>5 DEF Control
<1>10. Sizes' /\ SearchOK'
  BY <1>1 DEF Sizes, SearchOK
<1>11. QED  BY <1>8, <1>9, <1>10 DEF IInv1

LEMMA ResetIInv1 == \A s \in NextStreams : IInv1 /\ Reset(s) => IInv1'
<1> SUFFICES ASSUME NEW s \in NextStreams, IInv1, Reset(s) PROVE IInv1'
  OBVIOUS
<1>0. Typed /\ Control
  BY DEF IInv1
<1>1. /\ pc = "idle" /\ resets < MaxResets
      /\ src' = s /\ avail' = 0 /\ pos' = 0 /\ resets' = resets + 1 /\ closed' = FALSE
      /\ ps' = "WaitSync" /\ bStreamSync' = FALSE /\ sentNotSync' = FALSE
      /\ syncStart' = FALSE /\ dump' = 0
      /\ scratch' = <<>> /\ stale' = <<>> /\ pkt' = Cleared /\ bytesExpected' = 0
      /\ dec' = resetDecoder([dec EXCEPT !.unsync = "ResetDecoder"])
      /\ obs' = <<>> /\ UNCHANGED <<pc, pktIndex, headerByte>>
  BY DEF Reset
<1>2. "state" \in DOMAIN dec' /\ dec'.state = "NoSync"
  <2> DEFINE e == [dec EXCEPT !.unsync = "ResetDecoder"]
  <2>1. "state" \in DOMAIN e
    BY <1>0 DEF Control
  <2> HIDE DEF e
  <2>2. "state" \in DOMAIN resetDecoder(e) /\ resetDecoder(e).state = "NoSync"
    BY <2>1 DEF resetDecoder
  <2>3. QED  BY <1>1, <2>2 DEF e
<1>3. src' \in Streams \cup NextStreams /\ avail' \in 0..Len(src') /\ pos' \in 0..avail'
  <2>1. s \in Seq(0..255)
    BY StreamsAssumption
  <2>2. Len(s) \in Nat
    BY <2>1, LenProperties
  <2>3. QED  BY <1>1, <2>2
<1>4. resets' \in 0..MaxResets
  BY <1>0, <1>1, ResetsAssumption DEF Typed, TypeOK
<1>5. /\ closed' \in BOOLEAN /\ bStreamSync' \in BOOLEAN /\ sentNotSync' \in BOOLEAN
      /\ syncStart' \in BOOLEAN /\ dump' \in Nat /\ bytesExpected' \in {0, 1, 2, 4}
      /\ scratch' \in Seq(0..255) /\ obs' \in Seq(Observed)
  <2>1. <<>> \in Seq(0..255) /\ <<>> \in Seq(Observed) /\ 0 \in Nat /\ 0 \in {0, 1, 2, 4}
    OBVIOUS
  <2>2. QED  BY <1>1, <2>1, Zenon
<1>6. pkt' \in Packets
  BY <1>1, ClearedTyped
<1>10. stale' \in StaleMemory
  BY <1>1 DEF StaleMemory
<1>7. Typed'
  BY <1>10, <1>0, <1>1, <1>2, <1>3, <1>4, <1>5, <1>6, StaleIsTyped, Assemble DEF Typed, TypeOK
<1>8. Control' /\ Sizes' /\ SearchOK'
  BY <1>1, <1>2 DEF Control, Sizes, SearchOK
<1>9. QED  BY <1>7, <1>8 DEF IInv1

LEMMA InitIInv1 == Init => IInv1
<1> SUFFICES ASSUME Init PROVE IInv1
  OBVIOUS
<1>1. "state" \in DOMAIN dec /\ dec.state = "NoSync"
  BY DEF Init, NewDecoder, resetDecoder
<1>2. src \in Streams \cup NextStreams /\ Len(src) \in Nat
  BY StreamsAssumption, LenProperties DEF Init
<1>3. pkt \in Packets
  BY ClearedTyped DEF Init
<1>4. pkt.srcID \in 0..255 /\ pkt.value \in Nat /\ pkt.valSz \in 0..5
  BY <1>3 DEF Packets
<1>5. /\ avail = 0 /\ pos = 0 /\ resets = 0 /\ closed = FALSE /\ pc = "idle" /\ ps = "WaitSync"
      /\ scratch = <<>> /\ stale = <<>> /\ pktIndex = 0 /\ headerByte = 0 /\ bytesExpected = 0
      /\ bStreamSync = FALSE /\ sentNotSync = FALSE /\ syncStart = FALSE /\ dump = 0 /\ obs = <<>>
  BY DEF Init
<1>6. /\ closed \in BOOLEAN /\ bStreamSync \in BOOLEAN /\ sentNotSync \in BOOLEAN
      /\ syncStart \in BOOLEAN /\ scratch \in Seq(0..255) /\ obs \in Seq(Observed)
  <2>1. <<>> \in Seq(0..255) /\ <<>> \in Seq(Observed)
    OBVIOUS
  <2>2. QED  BY <1>5, <2>1, Zenon
<1>7. avail \in 0..Len(src) /\ pos \in 0..avail /\ resets \in 0..MaxResets
  BY <1>2, <1>5, ResetsAssumption
<1>8. Typed
  BY <1>1, <1>2, <1>3, <1>4, <1>5, <1>6, <1>7 DEF Typed, TypeOK
<1>9. Control /\ Sizes /\ SearchOK
  BY <1>1, <1>5 DEF Control, Sizes, SearchOK
<1>10. QED  BY <1>8, <1>9 DEF IInv1

LEMMA StutterIInv1 == IInv1 /\ UNCHANGED vars => IInv1'
BY DEF IInv1, Typed, TypeOK, Control, Sizes, SearchOK, vars, inputVars, pktVars, syncVars, outVars

LEMMA NextIInv1 == IInv1 /\ [Next]_vars => IInv1'
<1> SUFFICES ASSUME IInv1, [Next]_vars PROVE IInv1'
  OBVIOUS
<1>1. CASE Step
  <2>1. CASE pktAsync \/ pktData \/ pktLocalTS \/ pktGlobalTS1 \/ pktGlobalTS2 \/ pktExtension
    BY <2>1, AsyncStep, DataPacketStep, LocalTSStep, GlobalTS1Step, GlobalTS2Step, ExtensionStep,
       DataStepIInv1
  <2>2. CASE AsyncFound \/ AsyncBroken \/ AsyncGoesOn \/ UnsyncedZero \/ UnsyncedByte \/ SearchEnds
    BY <2>2, AsyncFoundIInv1, AsyncBrokenIInv1, AsyncGoesOnIInv1, UnsyncedZeroIInv1,
       UnsyncedByteIInv1, SearchEndsIInv1
  <2>3. CASE Return \/ WaitASync \/ ProcHdr \/ ProcErr \/ SendPkt
    BY <2>3, ReturnIInv1, WaitASyncIInv1, ProcHdrIInv1, ProcErrIInv1, SendPktIInv1
  <2>4. QED  BY <1>1, <2>1, <2>2, <2>3 DEF Step
<1>2. CASE Close
  BY <1>2, CloseIInv1
<1>3. CASE \E n \in ChunkSizes : Write(n)
  BY <1>3, WriteIInv1
<1>4. CASE \E s \in NextStreams : Reset(s)
  BY <1>4, ResetIInv1
<1>5. CASE UNCHANGED vars
  BY <1>5, StutterIInv1
<1>6. QED  BY <1>1, <1>2, <1>3, <1>4, <1>5 DEF Next

\* In every reachable state the control of parser and decoder fits.
LEMMA ControlAlways == Spec => []IInv1
<1>1. Init => IInv1
  BY InitIInv1
<1>2. IInv1 /\ [Next]_vars => IInv1'
  BY NextIInv1
<1>3. QED  BY <1>1, <1>2, PTL DEF Spec

\* Every variable of the decoder keeps its type, in particular the scratch its
\* bytes and the packet its value and size: TypeOK for any streams and blocks.
THEOREM TypeCorrect == Spec => []TypeOK
<1>1. IInv1 => TypeOK
  BY DEF IInv1, Typed
<1>2. QED  BY <1>1, ControlAlways, PTL

\* The decoder takes packets exactly while the parser is in step with the
\* stream (bStreamSync and the decoder's Pkts state): InStep for any streams,
\* any way to cut them into blocks and any number of resets.
THEOREM AlwaysInStep == Spec => []InStep
<1>1. IInv1 => InStep
  BY DEF IInv1, Control, InStep
<1>2. QED  BY <1>1, ControlAlways, PTL

----------------------------------------------------------------------------
(* Every byte is shown once, in order and at its index.                    *)

\* The bytes shown, packet by packet.
LEMMA ShownProperties ==
  ASSUME NEW s \in Seq(Observed)
  PROVE  /\ Shown(s, 0) = 0
         /\ \A n \in 1..Len(s) : Shown(s, n) = Shown(s, n - 1) + Len(s[n].raw)
         /\ \A n \in 0..Len(s) : Shown(s, n) \in Nat
<1> DEFINE N == Len(s)
           size == [n \in 1..N |-> Len(s[n].raw)]
           step == [n \in 1..N |-> [x \in Nat |-> x + size[n]]]
           IsShown(f) == f = [n \in 0..N |-> IF n = 0 THEN 0 ELSE f[n - 1] + Len(s[n].raw)]
<1>1. N \in Nat
  BY LenProperties
<1>2. \A n \in 1..N : size[n] \in Nat /\ size[n] = Len(s[n].raw)
  <2> TAKE n \in 1..N
  <2>1. s[n] \in Observed
    BY ElementOfSeq
  <2>2. s[n].raw \in Seq(0..255)
    BY <2>1 DEF Observed
  <2>3. QED  BY <2>2, LenProperties
<1>3. step \in [1..N -> [Nat -> Nat]]
  <2>1. \A n \in 1..N, x \in Nat : x + size[n] \in Nat
    BY <1>2
  <2>2. QED  BY <2>1, Zenon
<1>4. PICK f : Iterates(f, N, Nat, 0, step)
  <2> HIDE DEF step, N
  <2>1. 0 \in Nat
    OBVIOUS
  <2>2. QED  BY <1>1, <1>3, <2>1, Iteration, Zenon
<1>5. IsShown(f)
  <2>1. ASSUME NEW n \in 0..N PROVE f[n] = IF n = 0 THEN 0 ELSE f[n - 1] + Len(s[n].raw)
    <3>1. CASE n = 0
      BY <3>1, <1>4 DEF Iterates
    <3>2. CASE n # 0
      <4>1. n \in 1..N /\ n - 1 \in 0..N
        BY <1>1, <3>2
      <4>2. f[n - 1] \in Nat
        BY <4>1, <1>4 DEF Iterates
      <4>3. QED  BY <3>2, <4>1, <4>2, <1>4 DEF Iterates
    <3>3. QED  BY <3>1, <3>2
  <2> HIDE DEF N
  <2>2. QED  BY <2>1, <1>4 DEF Iterates
<1> DEFINE g == CHOOSE h : IsShown(h)
<1>6. IsShown(g)
  <2> HIDE DEF IsShown
  <2>1. QED  BY <1>5, Zenon
<1>7. \A n : Shown(s, n) = g[n]
  BY DEF Shown
<1> HIDE DEF g
<1>8. g[0] = 0 /\ \A n \in 1..N : g[n] = g[n - 1] + Len(s[n].raw)
  <2>1. \A n \in 0..N : g[n] = IF n = 0 THEN 0 ELSE g[n - 1] + Len(s[n].raw)
    BY <1>6
  <2> HIDE DEF N
  <2>2. 0 \in 0..N /\ \A n \in 1..N : n \in 0..N /\ n # 0
    BY <1>1
  <2>3. QED  BY <2>1, <2>2, Zenon
<1>9. 0..N \subseteq {n \in 0..N : g[n] \in Nat}
  <2> DEFINE T == {n \in 0..N : g[n] \in Nat}
  <2>1. 0 \in T
    BY <1>1, <1>8
  <2>2. ASSUME NEW n \in 1..N, n - 1 \in T PROVE n \in T
    <3>1. g[n - 1] \in Nat /\ n \in 0..N
      BY <1>1, <2>2
    <3>2. QED  BY <1>2, <1>8, <3>1
  <2> HIDE DEF T, N
  <2>3. \A n \in 1..N : n - 1 \in T => n \in T
    BY <2>2
  <2>4. QED  BY <1>1, <2>1, <2>3, IntervalInduction DEF T
<1>10. QED  BY <1>7, <1>8, <1>9, Zenon

\* One packet more.
LEMMA ShownAppend ==
  ASSUME NEW s \in Seq(Observed), NEW x \in Observed
  PROVE  /\ \A n \in 0..Len(s) : Shown(Append(s, x), n) = Shown(s, n)
         /\ Shown(Append(s, x), Len(s) + 1) = Shown(s, Len(s)) + Len(x.raw)
<1> DEFINE t == Append(s, x)
<1>1. /\ t \in Seq(Observed) /\ Len(t) = Len(s) + 1 /\ Len(s) \in Nat
      /\ \A n \in 1..Len(s) : t[n] = s[n]
      /\ t[Len(s) + 1] = x
  BY AppendProperties, LenProperties
<1> HIDE DEF t
<1>2. /\ Shown(s, 0) = 0
      /\ \A n \in 1..Len(s) : Shown(s, n) = Shown(s, n - 1) + Len(s[n].raw)
  BY ShownProperties
<1>3. /\ Shown(t, 0) = 0
      /\ \A n \in 1..Len(t) : Shown(t, n) = Shown(t, n - 1) + Len(t[n].raw)
  BY <1>1, ShownProperties
<1> DEFINE T == {n \in 0..Len(s) : Shown(t, n) = Shown(s, n)}
<1>4. 0 \in T
  BY <1>1, <1>2, <1>3
<1>5. \A n \in 1..Len(s) : n - 1 \in T => n \in T
  <2> SUFFICES ASSUME NEW n \in 1..Len(s), n - 1 \in T PROVE n \in T
    OBVIOUS
  <2>1. n \in 1..Len(t) /\ n \in 0..Len(s) /\ t[n] = s[n] /\ Shown(t, n - 1) = Shown(s, n - 1)
    BY <1>1
  <2>2. Shown(t, n) = Shown(s, n)
    BY <1>2, <1>3, <2>1, Zenon
  <2>3. QED  BY <2>1, <2>2
<1>6. 0..Len(s) \subseteq T
  <2> HIDE DEF T
  <2>1. QED  BY <1>1, <1>4, <1>5, IntervalInduction
<1>7. Shown(t, Len(s) + 1) = Shown(t, Len(s)) + Len(x.raw)
  <2>1. Len(s) + 1 \in 1..Len(t) /\ (Len(s) + 1) - 1 = Len(s)
    BY <1>1
  <2>2. QED  BY <1>1, <1>3, <2>1, Zenon
<1>8. Shown(t, Len(s)) = Shown(s, Len(s))
  <2>1. Len(s) \in 0..Len(s)
    BY <1>1
  <2>2. QED  BY <1>6, <2>1
<1>9. QED  BY <1>6, <1>7, <1>8 DEF t

IInv2 == ObsOK /\ IndexedAtStart /\ ScratchOK /\ Placed /\ StaleExposed

\* What follows a packet that outgrew the array still does.
LEMMA ExposedStays ==
  ASSUME obs \in Seq(Observed), NEW x \in Observed, obs' = Append(obs, x)
  PROVE  /\ \A n \in 1..(Len(obs) + 1) : Exposed(n) => Exposed(n)'
         /\ x.type = "NotSync" /\ (Exposed(Len(obs) + 1) \/ Len(x.raw) >= Inline)
              => Exposed(Len(obs) + 1)'
<1>0. PICK N \in Nat : N = Len(obs)
  BY LenProperties
<1>1. /\ Len(obs') = N + 1 /\ obs'[N + 1] = x
      /\ \A n \in 1..N : obs'[n] = obs[n]
  BY <1>0, AppendProperties
<1>2. ASSUME NEW n \in 1..(N + 1), Exposed(n) PROVE Exposed(n)'
  <2>1. PICK m \in 1..(n - 1) : /\ Len(obs[m].raw) >= Inline
                                /\ \A j \in m..(n - 1) : obs[j].type = "NotSync"
    BY <1>2 DEF Exposed
  <2>2. m \in 1..N /\ \A j \in m..(n - 1) : j \in 1..N
    BY <1>1
  <2>3. /\ Len(obs'[m].raw) >= Inline
        /\ \A j \in m..(n - 1) : obs'[j].type = "NotSync"
    BY <1>1, <2>1, <2>2
  <2>4. QED  BY <2>3 DEF Exposed
<1>3. ASSUME x.type = "NotSync", Exposed(N + 1) \/ Len(x.raw) >= Inline
      PROVE  Exposed(N + 2)'
  <2>1. CASE Exposed(N + 1)
    <3>1. Exposed(N + 1)'
      BY <1>1, <1>2, <2>1
    <3>2. PICK m \in 1..N : /\ Len(obs'[m].raw) >= Inline
                            /\ \A j \in m..N : obs'[j].type = "NotSync"
      BY <1>1, <3>1 DEF Exposed
    <3>3. \A j \in m..(N + 1) : j \in m..N \/ j = N + 1
      BY <1>1
    <3>4. \A j \in m..(N + 1) : obs'[j].type = "NotSync"
      BY <1>1, <1>3, <3>2, <3>3
    <3>5. m \in 1..((N + 2) - 1) /\ (N + 2) - 1 = N + 1
      BY <1>1
    <3>6. QED  BY <3>2, <3>4, <3>5 DEF Exposed
  <2>2. CASE Len(x.raw) >= Inline
    <3>1. N + 1 \in 1..((N + 2) - 1) /\ (N + 2) - 1 = N + 1
      BY <1>1
    <3>2. \A j \in (N + 1)..(N + 1) : obs'[j].type = "NotSync"
      BY <1>1, <1>3
    <3>3. QED  BY <1>1, <2>2, <3>1, <3>2 DEF Exposed
  <2>3. QED  BY <1>3, <2>1, <2>2
<1>4. Exposed(N + 2)' => Exposed(Len(obs) + 1)'
  <2>1. Len(obs') + 1 = N + 2
    BY <1>1
  <2>2. QED  BY <2>1 DEF Exposed
<1>5. QED  BY <1>0, <1>2, <1>3, <1>4

\* A step that leaves the memory alone and shows nothing, and one that resets
\* the scratch.
LEMMA StaleKept == StaleExposed /\ UNCHANGED <<stale, obs>> => StaleExposed'
BY DEF StaleExposed, Exposed

LEMMA StaleGone == stale' = <<>> => StaleExposed'
BY DEF StaleExposed

\* A step that shows nothing.
LEMMA ShowsNothing ==
  ASSUME ObsOK, IndexedAtStart, obs' = obs, src' = src
  PROVE  ObsOK' /\ IndexedAtStart' /\ Total' = Total /\ (LastBad' <=> LastBad)
BY DEF ObsOK, Exposed, AsShown, IndexedAtStart, Offset, Total, LastBad

\* A step that shows the bytes behind those shown before.
LEMMA Shows ==
  ASSUME Typed, ObsOK, IndexedAtStart, NEW x \in Observed, obs' = Append(obs, x), src' = src,
         \/ \A k \in 1..Len(x.raw) : x.raw[k] = AsShown(x.type, k, src[Total + k])
         \/ Exposed(Len(obs) + 1) /\ Len(x.raw) <= Inline,
         x.type = "NotSync" \/ LastBad \/ x.index = Total
  PROVE  /\ ObsOK' /\ IndexedAtStart' /\ Total' = Total + Len(x.raw)
         /\ LastBad' <=> x.type \in BadTypes
<1> DEFINE N == Len(obs)
<1>1. obs \in Seq(Observed) /\ N \in Nat
  BY LenProperties DEF Typed
<1>2. /\ Len(obs') = N + 1 /\ obs' \in Seq(Observed)
      /\ \A n \in 1..N : obs'[n] = obs[n]
      /\ obs'[N + 1] = x
  BY <1>1, AppendProperties
<1>3. /\ \A n \in 0..N : Shown(obs', n) = Shown(obs, n)
      /\ Shown(obs', N + 1) = Shown(obs, N) + Len(x.raw)
  BY <1>1, ShownAppend
<1>4. Total' = Total + Len(x.raw)
  BY <1>2, <1>3 DEF Total
<1>5. ASSUME NEW n \in 1..Len(obs')
      PROVE  \/ n \in 1..N /\ obs'[n] = obs[n] /\ Shown(obs', n - 1) = Shown(obs, n - 1)
             \/ n = N + 1 /\ obs'[n] = x /\ Shown(obs', n - 1) = Total
  <2>1. n \in 1..N \/ n = N + 1
    BY <1>1, <1>2
  <2>2. CASE n \in 1..N
    <3>1. n - 1 \in 0..N
      BY <1>1, <2>2
    <3>2. QED  BY <1>2, <1>3, <2>2, <3>1
  <2>3. CASE n = N + 1
    <3>1. n - 1 = N /\ N \in 0..N
      BY <1>1, <2>3
    <3>2. QED  BY <1>2, <1>3, <2>3, <3>1 DEF Total
  <2>4. QED  BY <2>1, <2>2, <2>3
<1>6. ObsOK'
  <2> SUFFICES ASSUME NEW n \in 1..Len(obs'), NEW k \in 1..Len(obs'[n].raw)
               PROVE  \/ obs'[n].raw[k] = AsShown(obs'[n].type, k, src[Shown(obs', n - 1) + k])
                      \/ Exposed(n)' /\ Len(obs'[n].raw) <= Inline
    BY DEF ObsOK, AsShown
  <2>0. \A m \in 1..(N + 1) : Exposed(m) => Exposed(m)'
    BY <1>1, ExposedStays
  <2>1. CASE n \in 1..N /\ obs'[n] = obs[n] /\ Shown(obs', n - 1) = Shown(obs, n - 1)
    <3>1. Exposed(n) => Exposed(n)'
      BY <1>1, <2>0, <2>1
    <3>2. QED  BY <2>1, <3>1 DEF ObsOK
  <2>2. CASE n = N + 1 /\ obs'[n] = x /\ Shown(obs', n - 1) = Total
    <3>1. Exposed(Len(obs) + 1) => Exposed(n)'
      BY <1>1, <2>0, <2>2
    <3>2. QED  BY <2>2, <3>1
  <2>3. QED  BY <1>5, <2>1, <2>2
<1>7. IndexedAtStart'
  <2> SUFFICES ASSUME NEW n \in 1..Len(obs')
               PROVE  \/ obs'[n].type = "NotSync"
                      \/ n > 1 /\ obs'[n - 1].type \in {"BadSequence", "Reserved"}
                      \/ obs'[n].index = Shown(obs', n - 1)
    BY DEF IndexedAtStart, Offset
  <2>1. CASE n \in 1..N /\ obs'[n] = obs[n] /\ Shown(obs', n - 1) = Shown(obs, n - 1)
    <3>1. n > 1 => n - 1 \in 1..N
      BY <1>1, <2>1
    <3>2. n > 1 => obs'[n - 1] = obs[n - 1]
      BY <1>2, <3>1
    <3>3. \/ obs[n].type = "NotSync"
          \/ n > 1 /\ obs[n - 1].type \in {"BadSequence", "Reserved"}
          \/ obs[n].index = Shown(obs, n - 1)
      BY <2>1 DEF IndexedAtStart, Offset
    <3>4. QED  BY <2>1, <3>2, <3>3
  <2>2. CASE n = N + 1 /\ obs'[n] = x /\ Shown(obs', n - 1) = Total
    <3>1. LastBad => n > 1 /\ obs'[n - 1].type \in {"BadSequence", "Reserved"}
      <4> HAVE LastBad
      <4>1. N # 0 /\ obs[N].type \in BadTypes
        BY <1>1, EmptySeq DEF LastBad
      <4>2. N \in 1..N /\ n - 1 = N /\ n > 1
        BY <1>1, <2>2, <4>1
      <4>3. QED  BY <1>2, <4>1, <4>2 DEF BadTypes
    <3>2. QED  BY <2>2, <3>1
  <2>3. QED  BY <1>5, <2>1, <2>2
<1>8. LastBad' <=> x.type \in BadTypes
  <2>1. obs' # <<>> /\ obs'[Len(obs')] = x
    BY <1>1, <1>2, EmptySeq
  <2>2. QED  BY <2>1 DEF LastBad
<1>9. QED  BY <1>4, <1>6, <1>7, <1>8

\* The bytes that are read next follow those in the scratch.
LEMMA TakenShown ==
  ASSUME Typed, ScratchOK, ps # "SendPkt", NEW n \in 0..Len(Rest)
  PROVE  /\ Taken(n) \in Seq(0..255) /\ Len(scratch) \in Nat /\ pos \in Nat /\ n \in Nat
         /\ Len(Taken(n)) = Len(scratch) + n /\ Total \in Nat /\ Total + Len(scratch) = pos
         /\ \A k \in 1..Len(Taken(n)) : Taken(n)[k] = src[Total + k]
<1>1. /\ Taken(n) \in Seq(0..255) /\ Len(Taken(n)) = Len(scratch) + n /\ Len(scratch) \in Nat
      /\ \A k \in 1..Len(scratch) : Taken(n)[k] = scratch[k]
      /\ \A k \in (Len(scratch) + 1)..(Len(scratch) + n) : Taken(n)[k] = src[pos + (k - Len(scratch))]
  BY ReadProperties DEF Taken
<1>2. Total \in Nat /\ n \in Nat /\ pos \in Nat /\ Total + Len(scratch) = pos
  <2>1. obs \in Seq(Observed)
    BY DEF Typed
  <2>2. Len(obs) \in 0..Len(obs)
    BY <2>1, LenProperties
  <2>3. Total \in Nat
    BY <2>1, <2>2, ShownProperties DEF Total
  <2>4. Len(Rest) \in Nat /\ pos \in Nat
    BY RestProperties DEF Typed, TypeOK
  <2>5. QED  BY <2>3, <2>4 DEF ScratchOK
<1>3. \A k \in 1..Len(scratch) : scratch[k] = src[Total + k]
  BY DEF ScratchOK, ScratchType, AsShown
<1>4. ASSUME NEW k \in 1..Len(Taken(n)) PROVE Taken(n)[k] = src[Total + k]
  <2>1. k \in 1..Len(scratch) \/ k \in (Len(scratch) + 1)..(Len(scratch) + n)
    BY <1>1, <1>2
  <2>2. pos + (k - Len(scratch)) = Total + k
    <3>1. k \in Int
      OBVIOUS
    <3>2. Total \in Int /\ Len(scratch) \in Int /\ pos \in Int /\ Total + Len(scratch) = pos
      BY <1>1, <1>2
    <3>3. QED  BY <3>1, <3>2
  <2>3. QED  BY <1>1, <1>3, <2>1, <2>2
<1>5. QED  BY <1>1, <1>2, <1>4

\* A step that reads bytes into the scratch.
LEMMA Takes ==
  ASSUME Typed, ObsOK, IndexedAtStart, ScratchOK, ps # "SendPkt", NEW n \in 0..Len(Rest),
         pos' = pos + n, UNCHANGED <<src, obs>>,
         ScratchType' = "TSGlobal1" => Len(scratch) + n <= 5,
         scratch' = IF ScratchType' = "TSGlobal1" /\ Len(scratch) + n = 5
                    THEN [Taken(n) EXCEPT ![5] = @ % 32] ELSE Taken(n)
  PROVE  /\ ObsOK' /\ IndexedAtStart' /\ ScratchOK' /\ Len(scratch') = Len(scratch) + n
         /\ pos' - Len(scratch') = pos - Len(scratch) /\ (LastBad' <=> LastBad)
<1>1. /\ Taken(n) \in Seq(0..255) /\ Len(scratch) \in Nat /\ pos \in Nat /\ n \in Nat
      /\ Len(Taken(n)) = Len(scratch) + n /\ Total \in Nat /\ Total + Len(scratch) = pos
      /\ \A k \in 1..Len(Taken(n)) : Taken(n)[k] = src[Total + k]
  BY TakenShown
<1>2. ObsOK' /\ IndexedAtStart' /\ Total' = Total /\ (LastBad' <=> LastBad)
  BY ShowsNothing
<1>6. ASSUME Len(scratch') = Len(scratch) + n
      PROVE  Total' + Len(scratch') = pos' /\ pos' - Len(scratch') = pos - Len(scratch)
  <2>1. /\ Total \in Nat /\ Len(scratch) \in Nat /\ pos \in Nat /\ n \in Nat
        /\ Total + Len(scratch) = pos
    BY <1>1
  <2>2. Total + (Len(scratch) + n) = pos + n /\ (pos + n) - (Len(scratch) + n) = pos - Len(scratch)
    BY <2>1
  <2>3. QED  BY <1>2, <1>6, <2>2
<1>3. CASE ScratchType' = "TSGlobal1" /\ Len(scratch) + n = 5
  <2> DEFINE s == Taken(n)
             b == s[5] % 32
  <2>1. scratch' = [s EXCEPT ![5] = b] /\ Len(s) = 5 /\ s \in Seq(0..255)
    BY <1>1, <1>3
  <2>2. \A k \in 1..5 : s[k] = src[Total + k]
    BY <1>1, <2>1
  <2> HIDE DEF s
  <2>3. Len(scratch') = 5 /\ \A k \in 1..5 : scratch'[k] = IF k = 5 THEN b ELSE s[k]
    <3>0. 5 \in 1..Len(s)
      BY <2>1
    <3>1. 5 \in 1..Len(s) /\ s[5] \in 0..255
      BY <2>1, <3>0, ElementOfSeq, Zenon
    <3>2. \A y \in 0..255 : y % 32 \in 0..255
      OBVIOUS
    <3>3. b \in 0..255
      BY <3>1, <3>2, Zenon
    <3> HIDE DEF b
    <3>4. /\ Len([s EXCEPT ![5] = b]) = Len(s)
          /\ \A k \in 1..Len(s) : [s EXCEPT ![5] = b][k] = IF k = 5 THEN b ELSE s[k]
      BY <2>1, <3>1, <3>3, ExceptSeq
    <3>5. QED  BY <2>1, <3>4
  <2>4. \A k \in 1..5 : scratch'[k] = IF k = 5 THEN src[Total + k] % 32 ELSE src[Total + k]
    <3> TAKE k \in 1..5
    <3>1. CASE k = 5
      BY <2>2, <2>3, <3>1
    <3>2. CASE k # 5
      BY <2>2, <2>3, <3>2
    <3>3. QED  BY <3>1, <3>2
  <2>5. \A k \in 1..Len(scratch') : scratch'[k] = AsShown(ScratchType', k, src[Total + k])
    BY <1>3, <2>3, <2>4 DEF AsShown
  <2>6. Len(scratch') = Len(scratch) + n
    BY <1>3, <2>3
  <2>7. Total' + Len(scratch') = pos' /\ pos' - Len(scratch') = pos - Len(scratch)
    BY <1>6, <2>6
  <2>8. ScratchOK'
    BY <1>2, <2>5, <2>7 DEF ScratchOK, AsShown
  <2>9. QED  BY <1>2, <2>6, <2>7, <2>8
<1>4. CASE ~(ScratchType' = "TSGlobal1" /\ Len(scratch) + n = 5)
  <2>1. scratch' = Taken(n) /\ Len(scratch') = Len(scratch) + n
    BY <1>1, <1>4
  <2>2. Total' + Len(scratch') = pos' /\ pos' - Len(scratch') = pos - Len(scratch)
    BY <1>6, <2>1
  <2>3. \A k \in 1..Len(scratch') : scratch'[k] = AsShown(ScratchType', k, src[Total + k])
    <3> TAKE k \in 1..Len(scratch')
    <3>1. ~(ScratchType' = "TSGlobal1" /\ k = 5)
      BY <1>1, <1>4, <2>1
    <3>2. QED  BY <1>1, <2>1, <3>1 DEF AsShown
  <2>4. ScratchOK'
    BY <1>2, <2>2, <2>3 DEF ScratchOK, AsShown
  <2>5. QED  BY <1>2, <2>1, <2>2, <2>4
<1>5. QED  BY <1>3, <1>4

\* A step that neither reads nor shows.
LEMMA CallsIInv2 ==
  (\E n \in ChunkSizes : Write(n)) \/ Return \/ UNCHANGED vars => (IInv2 => IInv2')
<1> SUFFICES ASSUME (\E n \in ChunkSizes : Write(n)) \/ Return \/ UNCHANGED vars, IInv2
             PROVE  IInv2'
  OBVIOUS
<1>1. UNCHANGED <<src, closed, pos, ps, scratch, stale, pkt, pktIndex, bStreamSync, syncStart, obs>>
  BY DEF Write, Return, vars, inputVars, pktVars, syncVars, outVars
<1>2. ObsOK' /\ IndexedAtStart' /\ Total' = Total /\ (LastBad' <=> LastBad)
  BY <1>1, ShowsNothing DEF IInv2
<1>3. ScratchOK'
  BY <1>1, <1>2 DEF IInv2, ScratchOK, ScratchType, AsShown
<1>4. Placed'
  BY <1>1, <1>2 DEF IInv2, Placed, IndexOK
<1>5. StaleExposed'
  BY <1>1, StaleKept DEF IInv2
<1>6. QED  BY <1>2, <1>3, <1>4, <1>5 DEF IInv2

LEMMA WaitASyncIInv2 == IInv1 /\ IInv2 /\ WaitASync => IInv2'
<1> SUFFICES ASSUME IInv1, IInv2, WaitASync PROVE IInv2'
  OBVIOUS
<1>1. /\ UNCHANGED <<src, closed, pos, ps, scratch, stale, bStreamSync, syncStart, obs>>
      /\ syncStart => pktIndex' = pktIndex
      /\ ps = "WaitSync"
  BY DEF WaitASync, Turn, inputVars, outVars
<1>2. ObsOK' /\ IndexedAtStart' /\ Total' = Total /\ (LastBad' <=> LastBad)
  BY <1>1, ShowsNothing DEF IInv2
<1>3. ScratchOK'
  BY <1>1, <1>2 DEF IInv2, ScratchOK, ScratchType, AsShown
<1>4. Placed'
  BY <1>1, <1>2 DEF IInv2, Placed, IndexOK
<1>5. StaleExposed'
  BY <1>1, StaleKept DEF IInv2
<1>6. QED  BY <1>2, <1>3, <1>4, <1>5 DEF IInv2

\* A step inside a packet.
LEMMA DataStepIInv2 == IInv1 /\ IInv2 /\ DataStep => IInv2'
<1> SUFFICES ASSUME IInv1, IInv2, DataStep PROVE IInv2'
  OBVIOUS
<1>0. Typed /\ ObsOK /\ IndexedAtStart /\ ScratchOK
  BY DEF IInv1, IInv2
<1>1. /\ ps = "ProcData" /\ ~closed /\ UNCHANGED <<src, closed, pktIndex, obs>>
  BY DEF DataStep, inputVars, outVars
<1>2. PICK n \in 0..Len(Rest) : \/ Read(n) /\ Unfinished /\ Sizes'
                                \/ Read(n) /\ Malformed
                                \/ Completes(n)
  BY DEF DataStep
<1>3. /\ pos' = pos + n /\ ps' \in {"ProcData", "SendPkt"}
      /\ ScratchType' = "TSGlobal1" => Len(scratch) + n <= 5
      /\ scratch' = IF ScratchType' = "TSGlobal1" /\ Len(scratch) + n = 5
                    THEN [Taken(n) EXCEPT ![5] = @ % 32] ELSE Taken(n)
  <2>1. CASE Read(n) /\ Unfinished
    BY <1>1, <2>1 DEF Read, Taken, Unfinished, ScratchType
  <2>2. CASE Read(n) /\ Malformed
    <3>1. pkt'.type = "BadSequence"
      <4>1. pkt \in Packets /\ "BadSequence" \in Types
        BY <1>0 DEF Typed, Types, BadTypes
      <4>2. pkt' = [pkt EXCEPT !.type = "BadSequence"]
        BY <2>2 DEF Malformed
      <4>3. QED  BY <4>1, <4>2, Retyped, Zenon
    <3>2. ScratchType' # "TSGlobal1"
      BY <2>2, <3>1 DEF ScratchType, Malformed
    <3>3. QED  BY <2>2, <3>2 DEF Read, Taken, Malformed
  <2>3. CASE Completes(n)
    <3>1. pkt'.type = pkt.type /\ ps' = "SendPkt"
      BY <2>3 DEF Completes, Complete
    <3>2. ScratchType' = pkt.type
      BY <3>1 DEF ScratchType
    <3>3. QED  BY <2>3, <3>1, <3>2 DEF Completes
  <2>4. QED  BY <1>2, <2>1, <2>2, <2>3
<1>4. /\ ObsOK' /\ IndexedAtStart' /\ ScratchOK' /\ Len(scratch') = Len(scratch) + n
      /\ pos' - Len(scratch') = pos - Len(scratch) /\ (LastBad' <=> LastBad)
  BY <1>0, <1>1, <1>3, Takes
<1>5. IndexOK'
  BY <1>1, <1>4 DEF IInv2, Placed, IndexOK
<1>6. scratch' # <<>>
  <2>1. Len(scratch) >= 1 /\ Len(scratch) \in Nat /\ n \in Nat
    BY <1>0, <1>1, ReadProperties, RestProperties DEF IInv1, Sizes
  <2>2. Len(scratch') # 0
    BY <1>4, <2>1
  <2>3. QED  BY <2>2
<1>7. Placed'
  BY <1>3, <1>5, <1>6 DEF Placed
<1>8. StaleExposed'
  BY <1>1, <1>2, StaleKept DEF IInv2, Read, Completes
<1>9. QED  BY <1>4, <1>7, <1>8 DEF IInv2

LEMMA ProcHdrIInv2 == IInv1 /\ IInv2 /\ ProcHdr => IInv2'
<1> SUFFICES ASSUME IInv1, IInv2, ProcHdr PROVE IInv2'
  OBVIOUS
<1>0. Typed /\ Control /\ SearchOK /\ ObsOK /\ IndexedAtStart /\ ScratchOK
  BY DEF IInv1, IInv2
<1>1. ps = "ProcHdr" /\ Len(Rest) >= 1 /\ Len(scratch) = 0
  <2>1. ps = "ProcHdr"
    BY <1>0, TurnOpen DEF ProcHdr
  <2>2. Rest # <<>>
    BY <2>1 DEF ProcHdr, Turn, LoopGoesOn
  <2>3. Len(Rest) >= 1
    BY <1>0, <2>2, RestProperties
  <2>4. scratch = <<>>
    BY <1>0, <2>1 DEF SearchOK
  <2>5. QED  BY <2>1, <2>3, <2>4
<1>2. /\ pos' = pos + 1 /\ scratch' = Taken(1) /\ pktIndex' = pos /\ UNCHANGED <<src, stale, obs>>
  BY DEF ProcHdr, Read, Taken, inputVars, outVars
<1>3. 1 \in 0..Len(Rest) /\ pos \in Nat
  BY <1>0, <1>1, RestProperties DEF Typed, TypeOK
<1>4. /\ ScratchType' = "TSGlobal1" => Len(scratch) + 1 <= 5
      /\ scratch' = IF ScratchType' = "TSGlobal1" /\ Len(scratch) + 1 = 5
                    THEN [Taken(1) EXCEPT ![5] = @ % 32] ELSE Taken(1)
  BY <1>1, <1>2
<1>5. ps # "SendPkt"
  BY <1>1
<1>6. /\ ObsOK' /\ IndexedAtStart' /\ ScratchOK' /\ Len(scratch') = Len(scratch) + 1
      /\ pos' - Len(scratch') = pos - Len(scratch) /\ (LastBad' <=> LastBad)
  BY <1>0, <1>2, <1>3, <1>4, <1>5, Takes
<1>7. pktIndex' = pos' - Len(scratch') /\ Len(scratch') # 0
  BY <1>1, <1>2, <1>3, <1>6
<1>8. scratch' # <<>> /\ IndexOK'
  BY <1>7 DEF IndexOK
<1>9. Placed'
  BY <1>8 DEF Placed
<1>10. StaleExposed'
  BY <1>2, StaleKept DEF IInv2
<1>11. QED  BY <1>6, <1>9, <1>10 DEF IInv2

LEMMA ProcErrIInv2 == IInv1 /\ IInv2 /\ ProcErr => IInv2'
<1> SUFFICES ASSUME IInv1, IInv2, ProcErr PROVE IInv2'
  OBVIOUS
<1>0. Typed /\ Control /\ ObsOK /\ IndexedAtStart /\ ScratchOK
  BY DEF IInv1, IInv2
<1>1. ps = "ProcErr" /\ ~closed /\ pkt.type = "Reserved"
  BY <1>0, TurnOpen DEF ProcErr, Control
<1>2. ps' = "SendPkt" /\ UNCHANGED <<src, closed, pos, scratch, stale, pkt, pktIndex, obs>>
  BY DEF ProcErr, inputVars, pktVars, outVars
<1>3. ObsOK' /\ IndexedAtStart' /\ Total' = Total /\ (LastBad' <=> LastBad)
  BY <1>0, <1>2, ShowsNothing
<1>4. ScratchOK'
  BY <1>0, <1>1, <1>2, <1>3 DEF ScratchOK, ScratchType, AsShown
<1>5. scratch' # <<>>
  BY <1>1, <1>2 DEF IInv1, Sizes
<1>6. IndexOK'
  BY <1>1, <1>2, <1>3 DEF IInv2, Placed, IndexOK
<1>7. Placed'
  BY <1>2, <1>5, <1>6 DEF Placed
<1>8. StaleExposed'
  BY <1>2, StaleKept DEF IInv2
<1>9. QED  BY <1>3, <1>4, <1>7, <1>8 DEF IInv2

\* A step of the search that reads n bytes and shows none.
LEMMA SearchReads ==
  ASSUME IInv1, IInv2, ps = "WaitSync", NEW n \in 0..Len(Rest), Read(n), UNCHANGED <<src, obs>>,
         ps' = "WaitSync" \/ pkt'.type = "Async"
  PROVE  /\ ObsOK' /\ IndexedAtStart' /\ ScratchOK' /\ StaleExposed' /\ Len(scratch') = Len(scratch) + n
         /\ pos' - Len(scratch') = pos - Len(scratch) /\ (LastBad' <=> LastBad)
<1>1. Typed /\ ObsOK /\ IndexedAtStart /\ ScratchOK /\ ps # "SendPkt"
  BY DEF IInv1, IInv2
<1>2. ScratchType' # "TSGlobal1"
  BY DEF ScratchType
<1>3. /\ ScratchType' = "TSGlobal1" => Len(scratch) + n <= 5
      /\ scratch' = IF ScratchType' = "TSGlobal1" /\ Len(scratch) + n = 5
                    THEN [Taken(n) EXCEPT ![5] = @ % 32] ELSE Taken(n)
      /\ pos' = pos + n
  BY <1>2 DEF Read, Taken
<1>4. StaleExposed'
  BY StaleKept DEF IInv2, Read
<1>5. QED  BY <1>1, <1>3, <1>4, Takes

LEMMA AsyncFoundIInv2 == IInv1 /\ IInv2 /\ AsyncFound => IInv2'
<1> SUFFICES ASSUME IInv1, IInv2, AsyncFound PROVE IInv2'
  OBVIOUS
<1>0. Typed
  BY DEF IInv1
<1>1. ps = "WaitSync" /\ ~closed /\ syncStart
  BY SearchingState DEF AsyncFound
<1>2. /\ Read(AsyncLen) /\ ps' = "SendPkt" /\ pkt' = [pkt EXCEPT !.type = "Async"]
      /\ UNCHANGED <<src, obs, pktIndex>>
  BY DEF AsyncFound, inputVars, outVars
<1>3. AsyncLen \in 0..Len(Rest) /\ AsyncLen \in 1..Len(Rest) /\ Len(Rest) \in Nat
  BY <1>0, AsyncLenProperties, RestProperties DEF AsyncFound
<1>4. pkt'.type = "Async"
  <2>1. pkt \in Packets /\ "Async" \in Types
    BY <1>0 DEF Typed, Types, GoodTypes
  <2>2. QED  BY <1>2, <2>1, Retyped, Zenon
<1>5. /\ ObsOK' /\ IndexedAtStart' /\ ScratchOK' /\ StaleExposed' /\ Len(scratch') = Len(scratch) + AsyncLen
      /\ pos' - Len(scratch') = pos - Len(scratch) /\ (LastBad' <=> LastBad)
  BY <1>1, <1>2, <1>3, <1>4, SearchReads
<1>6. scratch' # <<>>
  <2>1. Len(scratch) \in Nat
    BY <1>0, LenProperties DEF Typed, TypeOK
  <2>2. Len(scratch') # 0
    BY <1>3, <1>5, <2>1
  <2>3. QED  BY <2>2
<1>7. IndexOK'
  BY <1>1, <1>2, <1>5 DEF IInv2, Placed, IndexOK
<1>8. Placed'
  BY <1>2, <1>6, <1>7 DEF Placed
<1>9. QED  BY <1>5, <1>8 DEF IInv2

LEMMA AsyncBrokenIInv2 == IInv1 /\ IInv2 /\ AsyncBroken => IInv2'
<1> SUFFICES ASSUME IInv1, IInv2, AsyncBroken PROVE IInv2'
  OBVIOUS
<1>1. ps = "WaitSync" /\ Read(AsyncLen) /\ syncStart' = FALSE /\ UNCHANGED <<src, ps, obs>>
  BY SearchingState DEF AsyncBroken, inputVars, outVars
<1>2. AsyncLen \in 0..Len(Rest)
  BY AsyncLenProperties DEF AsyncBroken, IInv1
<1>3. ObsOK' /\ IndexedAtStart' /\ ScratchOK' /\ StaleExposed'
  BY <1>1, <1>2, SearchReads
<1>4. Placed'
  BY <1>1 DEF Placed
<1>5. QED  BY <1>3, <1>4 DEF IInv2

LEMMA AsyncGoesOnIInv2 == IInv1 /\ IInv2 /\ AsyncGoesOn => IInv2'
<1> SUFFICES ASSUME IInv1, IInv2, AsyncGoesOn PROVE IInv2'
  OBVIOUS
<1>1. /\ ps = "WaitSync" /\ ~closed /\ syncStart /\ Read(Len(Rest))
      /\ UNCHANGED <<src, ps, obs, closed, pktIndex, syncStart>>
  BY SearchingState DEF AsyncGoesOn, inputVars, outVars, syncVars
<1>2. Len(Rest) \in 0..Len(Rest)
  BY RestProperties DEF IInv1
<1>3. /\ ObsOK' /\ IndexedAtStart' /\ ScratchOK' /\ StaleExposed'
      /\ pos' - Len(scratch') = pos - Len(scratch) /\ (LastBad' <=> LastBad)
  BY <1>1, <1>2, SearchReads
<1>4. Placed'
  BY <1>1, <1>3 DEF IInv2, Placed, IndexOK
<1>5. QED  BY <1>3, <1>4 DEF IInv2

\* Flushing shows a part of the bytes and keeps the others.
LEMMA FlushIInv2 ==
  ASSUME Typed, ObsOK, IndexedAtStart, StaleExposed, NEW s \in Seq(0..255),
         NEW n \in 0..Len(s), n >= Len(s) - 1, Flush(s, n), src' = src,
         Total \in Nat, pos' = Total + Len(s), ps' = "WaitSync",
         \A k \in 1..Len(s) : s[k] = src[Total + k]
  PROVE  ObsOK' /\ IndexedAtStart' /\ ScratchOK' /\ StaleExposed'
<1> DEFINE raw == SubSeq(Scratch(s), 1, n)
           x == [index |-> pktIndex, type |-> "NotSync", raw |-> raw]
<1>1. obs' = IF n = 0 THEN obs ELSE Append(obs, x)
  BY FlushShows, Zenon
<1>2. scratch' = Kept(s, n) /\ stale' = StaleAfter(s, n)
  BY DEF Flush
<1>3. /\ raw \in Seq(0..255) /\ Len(raw) = n
      /\ stale = <<>> \/ Len(s) > Inline => \A k \in 1..n : raw[k] = s[k]
      /\ Len(scratch') = Len(s) - n
      /\ \A k \in 1..(Len(s) - n) : scratch'[k] = s[n + k]
  <2>1. /\ Scratch(s) \in Seq(0..255) /\ Len(Scratch(s)) = Len(s)
        /\ stale = <<>> \/ Len(s) > Inline => Scratch(s) = s
    BY ScratchProperties
  <2>2. raw \in Seq(0..255) /\ Len(raw) = n /\ \A k \in 1..n : raw[k] = Scratch(s)[k]
    BY <2>1, CutProperties
  <2> HIDE DEF raw, x
  <2>3. Len(scratch') = Len(s) - n /\ \A k \in 1..(Len(s) - n) : scratch'[k] = s[n + k]
    <3>1. /\ Len(Kept(s, n)) = Len(s) - n
          /\ \A k \in 1..(Len(s) - n) : Kept(s, n)[k] = s[n + k]
      BY CutProperties
    <3>2. QED  BY <1>2, <3>1, Zenon
  <2>4. stale = <<>> \/ Len(s) > Inline => \A k \in 1..n : raw[k] = s[k]
    BY <2>1, <2>2, Zenon
  <2>5. QED  BY <2>2, <2>3, <2>4, Zenon
<1>4. Len(s) \in Nat /\ n \in Nat /\ Inline \in Nat
  BY LenProperties, InlineAssumption
<1> HIDE DEF raw
<1>5. ObsOK' /\ IndexedAtStart' /\ Total' = Total + n
  <2>1. CASE n = 0
    BY <1>1, <2>1, ShowsNothing
  <2>2. CASE n # 0
    <3>1. x \in Observed /\ x.type = "NotSync" /\ x.raw = raw
      BY <1>3 DEF Typed, TypeOK, Observed, Types
    <3>2. obs' = Append(obs, x)
      BY <1>1, <2>2
    <3> HIDE DEF x
    <3>3. \/ \A k \in 1..Len(x.raw) : x.raw[k] = AsShown(x.type, k, src[Total + k])
          \/ Exposed(Len(obs) + 1) /\ Len(x.raw) <= Inline
      <4>1. CASE stale = <<>> \/ Len(s) > Inline
        <5>1. ASSUME NEW k \in 1..Len(x.raw)
              PROVE  x.raw[k] = AsShown(x.type, k, src[Total + k])
          <6>1. k \in 1..n /\ k \in 1..Len(s)
            BY <1>3, <1>4, <3>1
          <6>2. x.raw[k] = src[Total + k]
            BY <1>3, <3>1, <4>1, <6>1
          <6>3. QED  BY <3>1, <6>2 DEF AsShown
        <5>2. QED  BY <5>1
      <4>2. CASE stale # <<>> /\ Len(s) <= Inline
        <5>1. Exposed(Len(obs) + 1) /\ Len(x.raw) <= Inline
          BY <1>3, <1>4, <3>1, <4>2 DEF StaleExposed
        <5>2. QED  BY <5>1
      <4>3. QED  BY <1>4, <4>1, <4>2
    <3>4. ObsOK' /\ IndexedAtStart' /\ Total' = Total + Len(x.raw)
      BY <3>1, <3>2, <3>3, Shows
    <3>5. QED  BY <1>3, <3>1, <3>4
  <2>3. QED  BY <2>1, <2>2
<1>6. Total' + Len(scratch') = pos'
  BY <1>3, <1>4, <1>5
<1>7. \A k \in 1..Len(scratch') : scratch'[k] = src[Total' + k]
  <2> TAKE k \in 1..Len(scratch')
  <2>1. k \in 1..(Len(s) - n) /\ n + k \in 1..Len(s)
    BY <1>3, <1>4
  <2>2. Total + (n + k) = Total' + k
    BY <1>3, <1>4, <1>5
  <2>3. scratch'[k] = s[n + k] /\ s[n + k] = src[Total + (n + k)]
    BY <1>3, <2>1
  <2>4. QED  BY <2>2, <2>3
<1>8. ScratchOK'
  BY <1>6, <1>7 DEF ScratchOK, ScratchType, AsShown
<1>9. StaleExposed'
  <2>1. CASE n = 0
    <3>1. stale' = stale /\ obs' = obs
      BY <1>1, <1>2, <2>1 DEF StaleAfter
    <3>2. QED  BY <3>1, StaleKept
  <2>2. CASE n # 0 /\ stale' # <<>>
    <3>1. stale # <<>> \/ Len(s) > Inline
      BY <1>2, <2>2 DEF StaleAfter
    <3>2. x \in Observed /\ x.type = "NotSync" /\ x.raw = raw
      BY <1>3 DEF Typed, TypeOK, Observed, Types
    <3>3. obs' = Append(obs, x) /\ obs \in Seq(Observed)
      BY <1>1, <2>2 DEF Typed
    <3> HIDE DEF x
    <3>4. Exposed(Len(obs) + 1) \/ Len(x.raw) >= Inline
      BY <1>3, <1>4, <3>1, <3>2 DEF StaleExposed
    <3>5. Exposed(Len(obs) + 1)'
      BY <3>2, <3>3, <3>4, ExposedStays
    <3>6. QED  BY <3>5 DEF StaleExposed
  <2>3. CASE stale' = <<>>
    BY <2>3, StaleGone
  <2>4. QED  BY <2>1, <2>2, <2>3
<1>10. QED  BY <1>5, <1>8, <1>9

\* The byte that is read before a flush.
LEMMA FlushedByteIInv2 ==
  ASSUME IInv1, IInv2, Searching, NEW n \in 0..Len(Taken(1)), n >= Len(scratch),
         pos' = pos + 1, Flush(Append(scratch, Rest[1]), n), UNCHANGED <<src, ps>>
  PROVE  ObsOK' /\ IndexedAtStart' /\ ScratchOK' /\ StaleExposed'
<1>0. Typed /\ ObsOK /\ IndexedAtStart /\ ScratchOK /\ StaleExposed
  BY DEF IInv1, IInv2
<1>1. ps = "WaitSync" /\ Len(Rest) >= 1
  BY SearchingState
<1>2. 1 \in 0..Len(Rest) /\ Append(scratch, Rest[1]) = Taken(1)
  BY <1>0, <1>1, TakenOne
<1>3. Flush(Taken(1), n)
  BY <1>2, Zenon
<1>4. ps # "SendPkt"
  BY <1>1
<1>5. /\ Taken(1) \in Seq(0..255) /\ Len(scratch) \in Nat /\ pos \in Nat
      /\ Len(Taken(1)) = Len(scratch) + 1 /\ Total \in Nat /\ Total + Len(scratch) = pos
      /\ \A k \in 1..Len(Taken(1)) : Taken(1)[k] = src[Total + k]
  BY <1>0, <1>2, <1>4, TakenShown
<1>6. pos' = Total + Len(Taken(1)) /\ ps' = "WaitSync"
  <2>1. Total \in Nat /\ Len(scratch) \in Nat /\ Total + Len(scratch) = pos
    BY <1>5
  <2>2. pos + 1 = Total + (Len(scratch) + 1)
    BY <2>1
  <2>3. QED  BY <1>1, <1>5, <2>2
<1>7. n >= Len(Taken(1)) - 1
  BY <1>5
<1>8. QED  BY <1>0, <1>3, <1>5, <1>6, <1>7, FlushIInv2

LEMMA UnsyncedZeroIInv2 == IInv1 /\ IInv2 /\ UnsyncedZero => IInv2'
<1> SUFFICES ASSUME IInv1, IInv2, UnsyncedZero PROVE IInv2'
  OBVIOUS
<1>0. Typed
  BY DEF IInv1
<1>1. /\ Searching /\ pos' = pos + 1 /\ Flush(Append(scratch, Rest[1]), dump) /\ pktIndex' = pos
      /\ UNCHANGED <<src, ps>>
  BY DEF UnsyncedZero, inputVars, ZeroIndex
<1>2. ps = "WaitSync" /\ Len(Rest) >= 1 /\ dump = Len(scratch)
  BY SearchingState DEF UnsyncedZero
<1>3. /\ Taken(1) \in Seq(0..255) /\ Len(Taken(1)) = Len(scratch) + 1 /\ Len(scratch) \in Nat
      /\ Append(scratch, Rest[1]) = Taken(1) /\ pos \in Nat
  BY <1>0, <1>2, TakenOne, RestProperties DEF Typed, TypeOK
<1>4. dump \in 0..Len(Taken(1))
  BY <1>2, <1>3
<1>5. ObsOK' /\ IndexedAtStart' /\ ScratchOK' /\ StaleExposed'
  <2>1. dump >= Len(scratch)
    BY <1>2, <1>3
  <2>2. QED  BY <1>1, <1>4, <2>1, FlushedByteIInv2
<1>6. Len(scratch') = 1
  <2>1. scratch' = Kept(Taken(1), dump)
    BY <1>1, <1>3 DEF Flush
  <2>2. Len(scratch') = Len(Taken(1)) - dump
    BY <1>3, <1>4, <2>1, CutProperties
  <2>3. QED  BY <1>2, <1>3, <2>2
<1>7. IndexOK'
  BY <1>1, <1>3, <1>6 DEF IndexOK
<1>8. Placed'
  BY <1>1, <1>2, <1>7 DEF Placed
<1>9. QED  BY <1>5, <1>8 DEF IInv2

LEMMA UnsyncedByteIInv2 == IInv1 /\ IInv2 /\ UnsyncedByte => IInv2'
<1> SUFFICES ASSUME IInv1, IInv2, UnsyncedByte PROVE IInv2'
  OBVIOUS
<1>0. Typed
  BY DEF IInv1
<1>1. /\ Searching /\ ~syncStart /\ UNCHANGED <<src, ps, syncStart>>
  BY DEF UnsyncedByte, inputVars
<1>2. ps = "WaitSync" /\ Len(Rest) >= 1 /\ dump = Len(scratch)
  BY <1>1, SearchingState
<1>3. Len(Taken(1)) = Len(scratch) + 1 /\ Len(scratch) \in Nat /\ 1 \in 0..Len(Rest)
  BY <1>0, <1>2, TakenOne
<1>4. Placed'
  BY <1>1, <1>2 DEF Placed
<1>5. CASE Read(1) /\ UNCHANGED outVars
  <2>1. ps' = "WaitSync" /\ UNCHANGED <<src, obs>>
    BY <1>1, <1>2, <1>5 DEF outVars
  <2>2. ObsOK' /\ IndexedAtStart' /\ ScratchOK' /\ StaleExposed'
    BY <1>2, <1>3, <1>5, <2>1, SearchReads
  <2>3. QED  BY <1>4, <2>2 DEF IInv2
<1>6. CASE pos' = pos + 1 /\ Flush(Append(scratch, Rest[1]), dump + 1)
  <2>1. dump + 1 \in 0..Len(Taken(1)) /\ dump + 1 >= Len(scratch)
    BY <1>2, <1>3
  <2>2. ObsOK' /\ IndexedAtStart' /\ ScratchOK' /\ StaleExposed'
    BY <1>1, <1>6, <2>1, FlushedByteIInv2
  <2>3. QED  BY <1>4, <2>2 DEF IInv2
<1>7. QED  BY <1>5, <1>6 DEF UnsyncedByte

LEMMA SearchEndsIInv2 == IInv1 /\ IInv2 /\ SearchEnds => IInv2'
<1> SUFFICES ASSUME IInv1, IInv2, SearchEnds PROVE IInv2'
  OBVIOUS
<1>0. Typed /\ ObsOK /\ IndexedAtStart /\ ScratchOK /\ StaleExposed
  BY DEF IInv1, IInv2
<1>1. /\ ps = "WaitSync" /\ dump = IF syncStart THEN 0 ELSE Len(scratch)
  BY DEF SearchEnds, IInv1, Control, SearchOK
<1>2. UNCHANGED <<src, closed, pos, ps, pktIndex, bStreamSync, syncStart>>
  BY DEF SearchEnds, inputVars
<1>3. CASE syncStart /\ UNCHANGED <<scratch, stale, outVars>>
  <2>1. ObsOK' /\ IndexedAtStart' /\ Total' = Total /\ (LastBad' <=> LastBad)
    BY <1>0, <1>2, <1>3, ShowsNothing DEF outVars
  <2>2. ScratchOK'
    BY <1>0, <1>1, <1>2, <1>3, <2>1 DEF ScratchOK, ScratchType, AsShown
  <2>3. Placed'
    BY <1>1, <1>2, <1>3, <2>1 DEF IInv2, Placed, IndexOK
  <2>4. StaleExposed'
    BY <1>0, <1>3, StaleKept DEF outVars
  <2>5. QED  BY <2>1, <2>2, <2>3, <2>4 DEF IInv2
<1>4. CASE ~syncStart /\ Flush(scratch, dump)
  <2>1. scratch \in Seq(0..255) /\ dump \in 0..Len(scratch)
    BY <1>0, <1>1, <1>4, LenProperties DEF Typed, TypeOK
  <2>2. Total \in Nat
    <3>1. obs \in Seq(Observed)
      BY <1>0 DEF Typed
    <3>2. Len(obs) \in 0..Len(obs)
      BY <3>1, LenProperties
    <3>3. QED  BY <3>1, <3>2, ShownProperties DEF Total
  <2>3. pos' = Total + Len(scratch) /\ \A k \in 1..Len(scratch) : scratch[k] = src[Total + k]
    BY <1>0, <1>1, <1>2 DEF ScratchOK, ScratchType, AsShown
  <2>4. src' = src /\ ps' = "WaitSync" /\ dump >= Len(scratch) - 1
    BY <1>0, <1>1, <1>2, <1>4, LenProperties DEF Typed, TypeOK
  <2>5. ObsOK' /\ IndexedAtStart' /\ ScratchOK' /\ StaleExposed'
    BY <1>0, <1>4, <2>1, <2>2, <2>3, <2>4, FlushIInv2
  <2>6. Placed'
    BY <1>1, <1>2, <1>4 DEF Placed
  <2>7. QED  BY <2>5, <2>6 DEF IInv2
<1>5. QED  BY <1>3, <1>4 DEF SearchEnds

\* A step that shows the whole scratch, as a packet of type ty.
LEMMA ShowsScratch ==
  ASSUME Typed, ObsOK, IndexedAtStart, ScratchOK, StaleExposed, NEW ty \in Types,
         obs' = obs \o Seen(pktIndex, ty, Scratch(scratch)), scratch' = <<>>, stale' = <<>>,
         UNCHANGED <<src, pos>>,
         ScratchType = ty \/ (ps # "SendPkt" /\ ty # "TSGlobal1"),
         scratch # <<>> => IndexOK
  PROVE  /\ ObsOK' /\ IndexedAtStart' /\ ScratchOK' /\ StaleExposed'
         /\ LastBad' <=> IF scratch = <<>> THEN LastBad ELSE ty \in BadTypes
<1> DEFINE raw == Scratch(scratch)
           x == [index |-> pktIndex, type |-> ty, raw |-> raw]
<1>1. scratch \in Seq(0..255) /\ Len(scratch) \in Nat /\ pos \in Nat /\ Total \in Nat
  <2>1. obs \in Seq(Observed) /\ scratch \in Seq(0..255)
    BY DEF Typed, TypeOK
  <2>2. Len(obs) \in 0..Len(obs) /\ Len(scratch) \in Nat
    BY <2>1, LenProperties
  <2>3. Total \in Nat
    BY <2>1, <2>2, ShownProperties DEF Total
  <2>4. QED  BY <2>1, <2>2, <2>3, RestProperties DEF Typed, TypeOK
<1>0. /\ raw \in Seq(0..255) /\ Len(raw) = Len(scratch) /\ (raw = <<>> <=> scratch = <<>>)
      /\ stale = <<>> \/ Len(scratch) > Inline => raw = scratch
  BY <1>1, ScratchProperties
<1>7. StaleExposed'
  BY StaleGone
<1>8. obs' = obs \o Seen(pktIndex, ty, raw)
  OBVIOUS
<1> HIDE DEF raw
<1>9. obs' = (IF raw = <<>> THEN obs ELSE Append(obs, x)) /\ x \in Observed
  BY <1>0, <1>8, SeenProperties, Zenon
<1>2. obs' = (IF scratch = <<>> THEN obs ELSE Append(obs, x)) /\ x \in Observed
  BY <1>0, <1>9, Zenon
<1>3. Len(scratch') = 0 /\ Total + Len(scratch) = pos
  BY DEF ScratchOK
<1>4. CASE scratch = <<>>
  <2>1. obs' = obs /\ Len(scratch) = 0
    BY <1>2, <1>4
  <2>2. ObsOK' /\ IndexedAtStart' /\ Total' = Total /\ (LastBad' <=> LastBad)
    BY <2>1, ShowsNothing
  <2>3. Total' + Len(scratch') = pos'
    BY <1>1, <1>3, <2>1, <2>2
  <2>4. ScratchOK'
    BY <1>3, <2>3 DEF ScratchOK
  <2>5. QED  BY <1>4, <1>7, <2>2, <2>4
<1>5. CASE scratch # <<>>
  <2>1. obs' = Append(obs, x) /\ x \in Observed
    BY <1>2, <1>5
  <2>2. x.type = ty /\ x.raw = raw /\ x.index = pktIndex
    OBVIOUS
  <2> HIDE DEF x
  <2>3. \/ \A k \in 1..Len(x.raw) : x.raw[k] = AsShown(x.type, k, src[Total + k])
        \/ Exposed(Len(obs) + 1) /\ Len(x.raw) <= Inline
    <3>0. Inline \in Nat
      BY InlineAssumption
    <3>1. CASE raw = scratch /\ ScratchType = ty
      BY <2>2, <3>1 DEF ScratchOK
    <3>2. CASE raw = scratch /\ ps # "SendPkt" /\ ty # "TSGlobal1"
      BY <2>2, <3>2 DEF ScratchOK, ScratchType, AsShown
    <3>3. CASE stale # <<>> /\ Len(scratch) <= Inline
      BY <1>0, <2>2, <3>3 DEF StaleExposed
    <3>4. raw = scratch \/ (stale # <<>> /\ Len(scratch) <= Inline)
      BY <1>0, <1>1, <3>0
    <3>5. QED  BY <3>1, <3>2, <3>3, <3>4, Zenon
  <2>4. LastBad \/ x.index = Total
    <3>1. pktIndex = pos - Len(scratch) \/ LastBad
      BY <1>5 DEF IndexOK
    <3>2. pos - Len(scratch) = Total
      BY <1>1, <1>3
    <3>3. QED  BY <2>2, <3>1, <3>2
  <2>5. /\ ObsOK' /\ IndexedAtStart' /\ Total' = Total + Len(x.raw)
        /\ LastBad' <=> x.type \in BadTypes
    BY <2>1, <2>3, <2>4, Shows
  <2>6. Total' + Len(scratch') = pos'
    BY <1>0, <1>1, <1>3, <2>2, <2>5
  <2>7. ScratchOK'
    BY <1>3, <2>6 DEF ScratchOK
  <2>8. QED  BY <1>5, <1>7, <2>2, <2>5, <2>7
<1>6. QED  BY <1>4, <1>5

LEMMA SendPktIInv2 == IInv1 /\ IInv2 /\ SendPkt => IInv2'
<1> SUFFICES ASSUME IInv1, IInv2, SendPkt PROVE IInv2'
  OBVIOUS
<1>0. Typed /\ Control /\ ObsOK /\ IndexedAtStart /\ ScratchOK /\ Placed /\ StaleExposed
  BY DEF IInv1, IInv2
<1>1. ps = "SendPkt"
  BY <1>0, TurnOpen DEF SendPkt
<1> DEFINE r == processPacket(dec, pkt, pktIndex)
<1>2. /\ bStreamSync' = (bStreamSync /\ ~r.bad)
      /\ ps' = IF r.bad THEN "SendPkt" ELSE IF bStreamSync THEN "ProcHdr" ELSE "WaitSync"
      /\ obs' = obs \o Seen(pktIndex, pkt.type, Scratch(scratch))
      /\ scratch' = <<>> /\ stale' = <<>>
      /\ UNCHANGED <<src, pos>>
  BY DEF SendPkt, inputVars
<1>3. \/ r.bad = FALSE /\ bStreamSync
      \/ r.bad = FALSE /\ ~bStreamSync
      \/ r.bad = TRUE /\ ~bStreamSync
  BY <1>0, <1>1, SendPktState, Zenon
<1>4. \/ ps' = "ProcHdr"
      \/ ps' = "WaitSync" /\ ~bStreamSync
      \/ ps' = "SendPkt" /\ ~bStreamSync
  <2> HIDE DEF r
  <2>1. CASE r.bad = FALSE /\ bStreamSync
    BY <1>2, <2>1, Zenon
  <2>2. CASE r.bad = FALSE /\ ~bStreamSync
    BY <1>2, <2>2, Zenon
  <2>3. CASE r.bad = TRUE /\ ~bStreamSync
    BY <1>2, <2>3, Zenon
  <2>4. QED  BY <1>3, <2>1, <2>2, <2>3, Zenon
<1>5. pkt.type \in Types /\ ScratchType = pkt.type
  BY <1>0, <1>1 DEF Typed, Packets, ScratchType
<1>6. /\ scratch # <<>> => IndexOK
      /\ scratch = <<>> => LastBad
  BY <1>0, <1>1 DEF Placed
<1>7. /\ ObsOK' /\ IndexedAtStart' /\ ScratchOK' /\ StaleExposed'
      /\ LastBad' <=> IF scratch = <<>> THEN LastBad ELSE pkt.type \in BadTypes
  <2> DEFINE ty == pkt.type
  <2>1. /\ ty \in Types /\ ScratchType = ty /\ obs' = obs \o Seen(pktIndex, ty, Scratch(scratch))
        /\ scratch' = <<>> /\ stale' = <<>> /\ UNCHANGED <<src, pos>>
    BY <1>2, <1>5
  <2> HIDE DEF ty
  <2>2. /\ ObsOK' /\ IndexedAtStart' /\ ScratchOK' /\ StaleExposed'
        /\ LastBad' <=> IF scratch = <<>> THEN LastBad ELSE ty \in BadTypes
    BY <1>0, <1>6, <2>1, ShowsScratch
  <2>3. QED  BY <2>2 DEF ty
<1>8. ~bStreamSync => LastBad'
  <2>1. ~bStreamSync => pkt.type \in BadTypes
    BY <1>0, <1>1 DEF Control
  <2>2. QED  BY <1>6, <1>7, <2>1
<1>9. ~bStreamSync => ~bStreamSync'
  BY <1>2, Zenon
<1>10. Placed'
  BY <1>2, <1>4, <1>8, <1>9 DEF Placed, IndexOK
<1>11. QED  BY <1>7, <1>10 DEF IInv2

LEMMA CloseIInv2 == IInv1 /\ IInv2 /\ Close => IInv2'
<1> SUFFICES ASSUME IInv1, IInv2, Close PROVE IInv2'
  OBVIOUS
<1>0. Typed /\ Control /\ SearchOK /\ ObsOK /\ IndexedAtStart /\ ScratchOK /\ Placed /\ StaleExposed
  BY DEF IInv1, IInv2
<1>1. /\ pc = "idle" /\ ~closed /\ closed' = TRUE
      /\ obs' = obs \o Seen(pktIndex, "IncompleteEOT", Scratch(scratch))
      /\ scratch' = <<>> /\ stale' = <<>>
      /\ UNCHANGED <<src, pos, ps>>
  BY DEF Close
<1>2. ps # "SendPkt" /\ ps \in {"WaitSync", "ProcHdr", "ProcData", "ProcErr"}
  BY <1>0, <1>1 DEF Control, Typed, TypeOK
<1>3. scratch # <<>> => IndexOK
  BY <1>0, <1>1, <1>2 DEF SearchOK, Placed
<1>4. "IncompleteEOT" \in Types /\ "IncompleteEOT" # "TSGlobal1"
  BY DEF Types
<1>5. ObsOK' /\ IndexedAtStart' /\ ScratchOK' /\ StaleExposed'
  BY <1>0, <1>1, <1>2, <1>3, <1>4, ShowsScratch
<1>6. Placed'
  BY <1>1, <1>2 DEF Placed
<1>7. QED  BY <1>5, <1>6 DEF IInv2

\* A session that begins has shown nothing.
LEMMA NothingShown ==
  ASSUME obs = <<>>, scratch = <<>>, stale = <<>>, pos = 0, ps = "WaitSync", ~syncStart
  PROVE  IInv2
<1>1. <<>> \in Seq(Observed) /\ Len(obs) = 0 /\ Len(scratch) = 0
  OBVIOUS
<1>2. Shown(<<>>, 0) = 0
  BY <1>1, ShownProperties
<1>3. Total = 0
  BY <1>1, <1>2 DEF Total
<1>4. ObsOK /\ IndexedAtStart
  BY <1>1 DEF ObsOK, IndexedAtStart
<1>5. ScratchOK
  BY <1>1, <1>3 DEF ScratchOK
<1>6. StaleExposed
  BY DEF StaleExposed
<1>7. QED  BY <1>4, <1>5, <1>6 DEF IInv2, Placed

LEMMA ResetIInv2 == \A s \in NextStreams : Reset(s) => IInv2'
<1> SUFFICES ASSUME NEW s \in NextStreams, Reset(s) PROVE IInv2'
  OBVIOUS
<1>1. obs' = <<>> /\ scratch' = <<>> /\ stale' = <<>> /\ pos' = 0 /\ ps' = "WaitSync" /\ ~syncStart'
  BY DEF Reset
<1>2. Len(obs') = 0 /\ Len(scratch') = 0 /\ <<>> \in Seq(Observed)
  BY <1>1
<1>3. Shown(<<>>, 0) = 0
  BY <1>2, ShownProperties
<1>4. Total' = 0
  BY <1>1, <1>2, <1>3 DEF Total
<1>5. ObsOK' /\ IndexedAtStart'
  BY <1>2 DEF ObsOK, IndexedAtStart
<1>6. ScratchOK'
  BY <1>1, <1>2, <1>4 DEF ScratchOK
<1>7. StaleExposed'
  BY <1>1, StaleGone
<1>8. QED  BY <1>1, <1>5, <1>6, <1>7 DEF IInv2, Placed

LEMMA NextIInv2 == IInv1 /\ IInv2 /\ [Next]_vars => IInv2'
<1> SUFFICES ASSUME IInv1, IInv2, [Next]_vars PROVE IInv2'
  OBVIOUS
<1>1. CASE Step
  <2>1. CASE pktAsync \/ pktData \/ pktLocalTS \/ pktGlobalTS1 \/ pktGlobalTS2 \/ pktExtension
    BY <2>1, AsyncStep, DataPacketStep, LocalTSStep, GlobalTS1Step, GlobalTS2Step, ExtensionStep,
       DataStepIInv2
  <2>2. CASE AsyncFound \/ AsyncBroken \/ AsyncGoesOn \/ UnsyncedZero \/ UnsyncedByte \/ SearchEnds
    BY <2>2, AsyncFoundIInv2, AsyncBrokenIInv2, AsyncGoesOnIInv2, UnsyncedZeroIInv2,
       UnsyncedByteIInv2, SearchEndsIInv2
  <2>3. CASE Return \/ WaitASync \/ ProcHdr \/ ProcErr \/ SendPkt
    BY <2>3, CallsIInv2, WaitASyncIInv2, ProcHdrIInv2, ProcErrIInv2, SendPktIInv2
  <2>4. QED  BY <1>1, <2>1, <2>2, <2>3 DEF Step
<1>2. CASE Close
  BY <1>2, CloseIInv2
<1>3. CASE (\E n \in ChunkSizes : Write(n)) \/ UNCHANGED vars
  BY <1>3, CallsIInv2
<1>4. CASE \E s \in NextStreams : Reset(s)
  BY <1>4, ResetIInv2
<1>5. QED  BY <1>1, <1>2, <1>3, <1>4 DEF Next

\* In every reachable state the shown packets and the scratch are the stream so
\* far, and the packet in the making has the index of its first byte.
LEMMA ShownAlways == Spec => [](IInv1 /\ IInv2)
<1>1. Init => IInv1 /\ IInv2
  <2>1. Init => IInv2
    BY NothingShown DEF Init
  <2>2. QED  BY <2>1, InitIInv1
<1>2. (IInv1 /\ IInv2) /\ [Next]_vars => (IInv1 /\ IInv2)'
  BY NextIInv1, NextIInv2
<1>3. QED  BY <1>1, <1>2, PTL DEF Spec

\* The observer is shown every byte of the stream once and in order, cut into
\* packets, and what is not shown yet is in the scratch, for any streams, any
\* blocks and any number of resets; only the packets that follow a NotSync packet
\* at least as long as the reader's array, and fit the array, may have other
\* bytes, as many: BytesAccounted.
THEOREM EveryByteShown == Spec => []BytesAccounted
<1>1. IInv1 /\ IInv2 => BytesAccounted
  <2> SUFFICES ASSUME IInv1, IInv2 PROVE BytesAccounted
    OBVIOUS
  <2>1. (Len(obs) + 1) - 1 = Len(obs)
    <3>1. Len(obs) \in Nat
      BY LenProperties DEF IInv1, Typed
    <3>2. QED  BY <3>1
  <2>2. Offset(Len(obs) + 1) = Total
    BY <2>1 DEF Offset, Total
  <2>3. Offset(Len(obs) + 1) + Len(scratch) = pos
    BY <2>2 DEF IInv2, ScratchOK
  <2>4. QED  BY <2>3 DEF IInv2, ObsOK, BytesAccounted, Offset, AsShown
<1>2. QED  BY <1>1, ShownAlways, PTL

\* A packet is shown with the index of its first byte, but for the bytes in
\* front of an Async and an Async right behind a bad packet: IndexedAtStart.
THEOREM AlwaysIndexedAtStart == Spec => []IndexedAtStart
<1>1. IInv2 => IndexedAtStart
  BY DEF IInv2
<1>2. QED  BY <1>1, ShownAlways, PTL

=============================================================================
