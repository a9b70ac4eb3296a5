----------------------------- MODULE StmProofs -----------------------------
(***************************************************************************)
(* Proofs about the STM decoder, for all streams, every way to cut them    *)
(* into blocks and any number of errors and resets: a packet that was bad  *)
(* yields no element before the next Async, every packet is shown with the *)
(* bytes it lies in, and every variable keeps its type, so that no value   *)
(* is longer than its packet type says.                                    *)
(***************************************************************************)
EXTENDS StmProps, CommonLemmas, FiniteSetTheorems

\* The packets that stand for an error, and the handlers that end with one.
BadTypes == {"BadSequence", "Reserved"}
FaultFns == {"Reserved", "Version", "ExtractTS", "ASync"}

Typed ==
  /\ src \in Streams \cup NextStreams /\ avail \in Nat /\ 2 * avail <= Len(src)
  /\ pos \in Nat /\ pos <= 2 * avail
  /\ raw \in Seq(Nat) /\ IsSeq(obs) /\ IsSeq(elems)
  /\ "type" \in DOMAIN pkt /\ "state" \in DOMAIN dec /\ "index" \in DOMAIN dec
  /\ fault.n \in Nat /\ fault.obs \in 0..Len(obs) /\ fault.elems \in 0..Len(elems)

\* Nothing but NotSync has been shown, and no error was met: so it is until the
\* first sync, for which the parser never waits again.
BeforeSync == fault.n = 0 /\ \A n \in 1..Len(obs) : obs[n].type = "NotSync"

Control ==
  /\ pc \in {"idle", "loop", "sync"} /\ ps \in {"WaitSync", "ProcHdr", "ProcData", "SendPkt"}
  /\ pc = "sync" => ps = "WaitSync"
  /\ ps = "SendPkt" => pc = "loop"
  /\ closed => pc = "idle"
  /\ ps \in {"ProcHdr", "ProcData"} => streamSync
  /\ ps = "WaitSync" /\ ~closed => BeforeSync
  /\ ps = "SendPkt" /\ ~streamSync => pkt.type = "NotSync" /\ BeforeSync

\* A packet that is being read has a byte to show, at the latest in the nibble
\* that was left of the one before.
Saved ==
  ~closed =>
    /\ ps = "ProcHdr" /\ pos % 2 = 1 => raw # <<>>
    /\ ps = "ProcData" => raw # <<>>
    /\ ps = "SendPkt" => raw # <<>> \/ BeforeSync

\* The bytes of s between the nibbles i and j, without the low nibble of the
\* first when i lies inside it.
Lies(s, i, j) ==
  [k \in 1..((j + 1) \div 2 - i \div 2) |->
     LET b == 2 * (i \div 2) + 2 * k - 1
     IN  (IF k = 1 /\ i % 2 = 1 THEN 0 ELSE s[b]) + 16 * s[b + 1]]

\* What is saved goes on where the last packet ended.
SavedFrom(o) == o.end \in 0..pos /\ raw = Lies(src, o.end, pos)
ReadOK == ~closed /\ obs # <<>> => obs[Len(obs)].type = "NotSync" \/ SavedFrom(obs[Len(obs)])

Shown ==
  \A n \in 2..Len(obs) :
    \/ obs[n].type \in {"NotSync", "Async"} \/ obs[n - 1].type = "NotSync"
    \/ obs[n].raw = Lies(src, obs[n - 1].end, obs[n].end)

\* The index of a packet in the making, behind an error.
Indexed ==
  ~closed /\ (ps = "ProcData" \/ (ps = "SendPkt" /\ fault.n > 0)) => pktIndex \in Nat /\ pktIndex <= Offset

\* Behind an error the decoder is out of sync, or is about to leave it with the
\* bad packet or to be handed an Async; or an Async was shown in front of all
\* that comes.
OutOfSync ==
  \/ dec.state # "Pkts"
  \/ ps = "ProcData" /\ pkt.type \in BadTypes /\ fn \in FaultFns
  \/ ps = "SendPkt" /\ pkt.type \in BadTypes \cup {"Async"}
NoneSince == \A k \in (fault.elems + 1)..Len(elems) : elems[k].kind # "SWT"
Here == IF ps = "ProcHdr" THEN Offset ELSE pktIndex
Resynced(i) ==
  \E n \in (fault.obs + 1)..Len(obs) : obs[n].type = "Async" /\ obs[n].index \in Nat /\ obs[n].index <= i
Behind == fault.n > 0 /\ ~closed => (OutOfSync /\ NoneSince) \/ Resynced(Here)

IInv ==
  /\ Typed /\ Control /\ Saved /\ ReadOK /\ Shown /\ Indexed /\ Behind
  /\ ResyncedBehindFault

----------------------------------------------------------------------------
(* The bytes between two nibbles.                                          *)

\* A packet that starts where the last one ended has the nibble that is left.
LEMMA LiesNowhere ==
  ASSUME NEW s, NEW j \in Nat, s[j + 1] \in Nat \/ j % 2 = 0
  PROVE  Lies(s, j, j) = IF j % 2 = 1 THEN <<16 * s[j + 1]>> ELSE <<>>
<1>1. CASE j % 2 = 0
  <2>1. (j + 1) \div 2 - j \div 2 = 0
    BY <1>1
  <2>2. QED  BY <1>1, <2>1 DEF Lies
<1>2. CASE j % 2 = 1
  <2>1. (j + 1) \div 2 - j \div 2 = 1 /\ 2 * (j \div 2) + 2 * 1 - 1 + 1 = j + 1
    BY <1>2
  <2>2. Lies(s, j, j) =
          [k \in 1..1 |-> (IF k = 1 /\ j % 2 = 1 THEN 0 ELSE s[2 * (j \div 2) + 2 * k - 1])
                          + 16 * s[2 * (j \div 2) + 2 * k - 1 + 1]]
    BY <2>1 DEF Lies
  <2>3. s[j + 1] \in Nat
    BY <1>2
  <2>4. \A k \in 1..1 : (IF k = 1 /\ j % 2 = 1 THEN 0 ELSE s[2 * (j \div 2) + 2 * k - 1])
                          + 16 * s[2 * (j \div 2) + 2 * k - 1 + 1] = 16 * s[j + 1]
    BY <1>2, <2>1, <2>3
  <2>5. Lies(s, j, j) = [k \in 1..1 |-> 16 * s[j + 1]]
    BY <2>2, <2>4
  <2>6. [k \in 1..1 |-> 16 * s[j + 1]] = <<16 * s[j + 1]>>
    OBVIOUS
  <2>7. QED  BY <1>2, <2>5, <2>6
<1>3. QED  BY <1>1, <1>2

\* The high nibble of a byte adds nothing.
LEMMA LiesOdd ==
  ASSUME NEW s, NEW i \in Nat, NEW j \in Nat, j % 2 = 1
  PROVE  Lies(s, i, j + 1) = Lies(s, i, j)
<1>1. (j + 1 + 1) \div 2 = (j + 1) \div 2
  OBVIOUS
<1>2. QED  BY <1>1 DEF Lies

\* The low one adds the byte.
LEMMA LiesEven ==
  ASSUME NEW s, NEW i \in Nat, NEW j \in Nat, i <= j, j % 2 = 0, Lies(s, i, j) \in Seq(Nat),
         s[j + 1] + 16 * s[j + 2] \in Nat
  PROVE  Lies(s, i, j + 1) = Append(Lies(s, i, j), s[j + 1] + 16 * s[j + 2])
<1> DEFINE n == (j + 1) \div 2 - i \div 2
           v(k) == (IF k = 1 /\ i % 2 = 1 THEN 0 ELSE s[2 * (i \div 2) + 2 * k - 1])
                   + 16 * s[2 * (i \div 2) + 2 * k - 1 + 1]
           x == s[j + 1] + 16 * s[j + 2]
<1>1. n \in Nat /\ (j + 1 + 1) \div 2 - i \div 2 = n + 1
  OBVIOUS
<1>2. v(n + 1) = x
  <2>1. 2 * (i \div 2) + 2 * (n + 1) - 1 + 1 = j + 2 /\ 2 * (i \div 2) + 2 * (n + 1) - 1 = j + 1
    OBVIOUS
  <2>2. ~(n + 1 = 1 /\ i % 2 = 1)
    OBVIOUS
  <2>3. QED  BY <2>1, <2>2
<1>3. Lies(s, i, j) = [k \in 1..n |-> v(k)] /\ Lies(s, i, j + 1) = [k \in 1..(n + 1) |-> v(k)]
  BY <1>1 DEF Lies
<1> HIDE DEF n, v, x
<1>4. Len([k \in 1..n |-> v(k)]) = n
  BY <1>1
<1>5. Append([k \in 1..n |-> v(k)], x) = [k \in 1..(n + 1) |-> IF k <= n THEN v(k) ELSE x]
  <2> DEFINE a == [k \in 1..n |-> v(k)]
             b == [k \in 1..(n + 1) |-> IF k <= n THEN v(k) ELSE x]
  <2>1. a \in Seq(Nat) /\ x \in Nat
    BY <1>3 DEF x
  <2>2. /\ Append(a, x) \in Seq(Nat) /\ Len(Append(a, x)) = n + 1
        /\ \A k \in 1..n : Append(a, x)[k] = a[k]
        /\ Append(a, x)[n + 1] = x
    <3> HIDE DEF a
    <3>1. /\ Append(a, x) \in Seq(Nat) /\ Len(Append(a, x)) = Len(a) + 1
          /\ \A k \in 1..Len(a) : Append(a, x)[k] = a[k]
          /\ Append(a, x)[Len(a) + 1] = x
      BY <2>1, AppendProperties
    <3>2. Len(a) = n
      BY <1>4 DEF a
    <3>3. QED  BY <3>1, <3>2
  <2>3. DOMAIN Append(a, x) = 1..(n + 1) /\ Append(a, x) = [k \in 1..(n + 1) |-> Append(a, x)[k]]
    <3> DEFINE c == Append(a, x)
    <3>1. c \in Seq(Nat) /\ Len(c) = n + 1
      BY <2>2
    <3> HIDE DEF c
    <3>2. c \in [1..Len(c) -> Nat]
      BY <3>1, LenProperties
    <3>3. DOMAIN c = 1..(n + 1) /\ c = [k \in 1..(n + 1) |-> c[k]]
      BY <3>1, <3>2
    <3>4. QED  BY <3>3 DEF c
  <2>4. \A k \in 1..(n + 1) : Append(a, x)[k] = IF k <= n THEN v(k) ELSE x
    BY <1>1, <2>2
  <2>5. QED  BY <2>3, <2>4
<1>6. [k \in 1..(n + 1) |-> IF k <= n THEN v(k) ELSE x] = [k \in 1..(n + 1) |-> v(k)]
  <2>1. ASSUME NEW k \in 1..(n + 1), ~(k <= n)  PROVE v(k) = x
    <3>1. k = n + 1
      BY <1>1, <2>1
    <3>2. QED  BY <1>2, <3>1
  <2>2. \A k \in 1..(n + 1) : (IF k <= n THEN v(k) ELSE x) = v(k)
    BY <2>1
  <2>3. QED  BY <2>2
<1>7. QED  BY <1>3, <1>5, <1>6 DEF x

----------------------------------------------------------------------------
(* The decoder: an element of data comes only in sync, under the index of  *)
(* its packet; a bad packet takes the decoder out of sync, and only an     *)
(* Async brings it back.                                                   *)

Quiet == BadTypes \cup {"Async", "NotSync", "IncompleteEOT"}

LEMMA IdentifiedKeeps ==
  ASSUME NEW d, NEW p, "state" \in DOMAIN d, "index" \in DOMAIN d
  PROVE  /\ "state" \in DOMAIN Identified(d, p) /\ "index" \in DOMAIN Identified(d, p)
         /\ Identified(d, p).state = d.state /\ Identified(d, p).index = d.index
BY DEF Identified

LEMMA Decoded ==
  ASSUME NEW d, NEW p, "state" \in DOMAIN d, "index" \in DOMAIN d
  PROVE  /\ "state" \in DOMAIN decodePacket(d, p).dec /\ "index" \in DOMAIN decodePacket(d, p).dec
         /\ p.type \in BadTypes => decodePacket(d, p).dec.state # "Pkts"
         /\ \/ decodePacket(d, p).out = <<>>
            \/ \E x : /\ decodePacket(d, p).out = <<x>> /\ x.index = d.index
                      /\ p.type \notin Quiet
<1> DEFINE r == decodePacket(d, p)
           e == Identified(d, p)
           w == resetDecoder([d EXCEPT !.unsync = "BadPacket"])
           z == resetDecoder(d)
<1>1. "state" \in DOMAIN e /\ "index" \in DOMAIN e /\ e.index = d.index
  BY IdentifiedKeeps
<1>2. /\ "state" \in DOMAIN w /\ "index" \in DOMAIN w /\ w.state = "NoSync"
      /\ "state" \in DOMAIN z /\ "index" \in DOMAIN z
  BY DEF resetDecoder
<1>3. \A c : SWTElem(c, p).index = c.index
  BY DEF SWTElem
<1>4. CASE p.type \in BadTypes
  <2>1. r.dec = w /\ r.out = <<>>
    BY <1>4 DEF decodePacket, BadTypes
  <2>2. QED  BY <1>2, <2>1
<1>5. CASE p.type = "NotSync"
  <2>1. r.dec = z /\ r.out = <<>>
    BY <1>5 DEF decodePacket
  <2>2. QED  BY <1>2, <1>5, <2>1 DEF BadTypes
<1>6. CASE p.type \in {"Async", "IncompleteEOT", "Version", "M8", "C8", "C16"}
  <2>1. r.dec = e /\ r.out = <<>>
    BY <1>6 DEF decodePacket
  <2>2. QED  BY <1>1, <1>6, <2>1 DEF BadTypes
<1>7. CASE p.type = "Null"
  <2>1. r.dec = d /\ (r.out = <<>> \/ r.out = <<SWTElem(d, p)>>)
    BY <1>7 DEF decodePacket
  <2>2. p.type \notin Quiet /\ p.type \notin BadTypes
    BY <1>7 DEF Quiet, BadTypes
  <2>3. QED  BY <1>3, <2>1, <2>2
<1>8. CASE p.type \notin BadTypes \cup {"NotSync", "Async", "IncompleteEOT", "Version", "M8", "C8",
                                       "C16", "Null"}
  <2>1. r.dec = e /\ r.out = <<SWTElem(e, p)>>
    BY <1>8 DEF decodePacket, BadTypes
  <2>2. p.type \notin Quiet /\ p.type \notin BadTypes
    BY <1>8 DEF Quiet
  <2>3. QED  BY <1>1, <1>3, <2>1, <2>2
<1>9. QED  BY <1>4, <1>5, <1>6, <1>7, <1>8

\* What one packet makes of the decoder d.
Effect(d, p, index, r) ==
  /\ "state" \in DOMAIN r.dec /\ "index" \in DOMAIN r.dec
  /\ d.state # "Pkts" => r.dec.state # "Pkts" \/ p.type = "Async"
  /\ d.state = "Pkts" /\ p.type \in BadTypes => r.dec.state # "Pkts"
  /\ \/ r.out = <<>>
     \/ \E x : /\ r.out = <<x>>
               /\ x.kind = "SWT" => x.index = index /\ d.state = "Pkts" /\ p.type \notin Quiet

LEMMA Processed ==
  ASSUME NEW d, NEW p, NEW index, "state" \in DOMAIN d, "index" \in DOMAIN d
  PROVE  Effect(d, p, index, processPacket(d, p, index))
<1> DEFINE e == [d EXCEPT !.index = index]
           f == [e EXCEPT !.state = IF p.type = "Async" THEN "Pkts" ELSE "WaitSync"]
           lost == Elem(e, "NoSync", e.unsync)
           r == processPacket(d, p, index)
<1>1. "state" \in DOMAIN e /\ "index" \in DOMAIN e /\ e.state = d.state /\ e.index = index
  OBVIOUS
<1>2. /\ "state" \in DOMAIN f /\ "index" \in DOMAIN f
      /\ f.state = IF p.type = "Async" THEN "Pkts" ELSE "WaitSync"
  OBVIOUS
<1>3. lost.kind # "SWT"
  BY DEF Elem
<1>4. CASE d.state = "Pkts"
  <2>1. r = decodePacket(e, p)
    BY <1>1, <1>4 DEF processPacket
  <2> HIDE DEF e
  <2>2. QED  BY <1>1, <1>4, <2>1, Decoded DEF Effect
<1>5. CASE d.state # "Pkts"
  <2>1. r.dec = f /\ (r.out = <<>> \/ r.out = <<lost>>)
    BY <1>1, <1>5 DEF processPacket
  <2> HIDE DEF e, f, lost
  <2>2. QED  BY <1>2, <1>3, <1>5, <2>1 DEF Effect
<1>6. QED  BY <1>4, <1>5


----------------------------------------------------------------------------
(* What the handlers have in common.                                       *)

Reads ==
  /\ pos < 2 * avail /\ pos' = pos + 1
  /\ raw' = IF pos % 2 = 0 THEN Append(raw, src[pos + 1] + 16 * src[pos + 2]) ELSE raw

BadOne == ps = "ProcData" /\ pkt.type \in BadTypes /\ fn \in FaultFns

\* An error: the packet is marked, and the handler comes again.
Faults ==
  /\ pc' = "idle" /\ ps' = "ProcData" /\ avail' = (pos' + 1) \div 2
  /\ pkt'.type \in BadTypes /\ fn' \in FaultFns
  /\ fault' = [obs |-> Len(obs), elems |-> Len(elems), pos |-> pos', n |-> fault.n + 1]

\* No error: a packet that was bad stays bad, or is an Async.
GoesAhead ==
  /\ pc' = "loop" /\ ps' \in {"ProcData", "SendPkt"} /\ avail' = avail /\ fault' = fault
  /\ BadOne => \/ ps' = "ProcData" /\ fn' = fn /\ pkt'.type = pkt.type
               \/ ps' = "SendPkt" /\ pkt'.type \in BadTypes \cup {"Async"}

InSync ==
  /\ pc = "loop" /\ ps \in {"ProcHdr", "ProcData"}
  /\ Reads \/ (ps = "ProcData" /\ pos' = pos /\ raw' = raw)
  /\ Faults \/ GoesAhead
  /\ "type" \in DOMAIN pkt'
  /\ pktIndex' = IF ps = "ProcHdr" THEN Offset ELSE pktIndex
  /\ streamSync' = streamSync \/ streamSync' = TRUE
  /\ UNCHANGED <<src, closed, dec, obs, elems>>

LEMMA ReadNibbleReads == readNibble => Reads
BY DEF readNibble, More, Reads

LEMMA FatalFaults ==
  ASSUME NEW type \in BadTypes, "type" \in DOMAIN pkt, Fatal(type), fn' \in FaultFns
  PROVE  /\ Faults /\ "type" \in DOMAIN pkt' /\ streamSync' = streamSync
<1>1. /\ pc' = "idle" /\ avail' = (pos' + 1) \div 2 /\ pkt' = [pkt EXCEPT !.type = type]
      /\ fault' = [obs |-> Len(obs), elems |-> Len(elems), pos |-> pos', n |-> fault.n + 1]
      /\ ps' = "ProcData" /\ streamSync' = streamSync
  BY DEF Fatal
<1>2. pkt'.type = type /\ "type" \in DOMAIN pkt'
  BY <1>1
<1>3. QED  BY <1>1, <1>2 DEF Faults

LEMMA ValuedKeeps ==
  ASSUME NEW p, NEW v, "type" \in DOMAIN p
  PROVE  "type" \in DOMAIN Valued(p, v)
<1> DEFINE N == Number(v)
<1>1. /\ "type" \in DOMAIN SetMaster(p, N) /\ "type" \in DOMAIN SetChannel(p, N, TRUE)
      /\ "type" \in DOMAIN SetChannel(p, N, FALSE)
      /\ "type" \in DOMAIN [SetChannel(p, 0, FALSE) EXCEPT !.payload = v]
      /\ "type" \in DOMAIN [SetMaster(p, 0) EXCEPT !.payload = v]
      /\ "type" \in DOMAIN [p EXCEPT !.payload = v]
  BY DEF SetMaster, SetChannel
<1>2. Valued(p, v) \in {SetMaster(p, N), SetChannel(p, N, TRUE), SetChannel(p, N, FALSE),
                        [SetChannel(p, 0, FALSE) EXCEPT !.payload = v],
                        [SetMaster(p, 0) EXCEPT !.payload = v], p, [p EXCEPT !.payload = v]}
  BY DEF Valued
<1>3. QED  BY <1>1, <1>2

LEMMA EndOfValueKeeps ==
  ASSUME NEW p, NEW v, NEW ts, "type" \in DOMAIN p, AtEndOfValue(p, v, ts)
  PROVE  "type" \in DOMAIN pkt' /\ ps' \in {"ProcData", "SendPkt"}
<1>1. pkt' = Valued(p, v) /\ ps' \in {"ProcData", "SendPkt"}
  BY DEF AtEndOfValue
<1>2. QED  BY <1>1, ValuedKeeps

\* A handler that begins has not met an error in its packet before.
LEMMA BeginStep ==
  ASSUME NEW name, Begin(name), "type" \in DOMAIN pkt, ~BadOne, pc = "loop"
  PROVE  /\ Faults \/ GoesAhead
         /\ "type" \in DOMAIN pkt' /\ streamSync' = streamSync
<1>1. CASE /\ name \in {"FExt", "F0Ext", "ASync"}
           /\ fn' = name /\ ps' = "ProcData" /\ GoesOn /\ UNCHANGED <<size, pkt, val, time, streamSync>>
  BY <1>1 DEF GoesOn, GoesAhead
<1>2. CASE /\ name = "Version"
           /\ fn' = name /\ ps' = "ProcData" /\ pkt' = [pkt EXCEPT !.type = name]
           /\ GoesOn /\ UNCHANGED <<size, val, time, streamSync>>
  BY <1>2 DEF GoesOn, GoesAhead
<1>3. CASE /\ name \in DOMAIN handlers
           /\ LET h == handlers[name]
                  p == [pkt EXCEPT !.type = h.type, !.marker = h.marker]
              IN  /\ size' = h.n
                  /\ IF h.n = numNibbles' THEN AtEndOfValue(p, <<>>, h.ts)
                     ELSE /\ fn' = "ExtractVal" /\ ps' = "ProcData" /\ pkt' = p
                          /\ time' = [NoTime EXCEPT !.needed = h.ts]
           /\ GoesOn /\ UNCHANGED <<val, streamSync>>
  <2> DEFINE h == handlers[name]
             p == [pkt EXCEPT !.type = h.type, !.marker = h.marker]
  <2>1. "type" \in DOMAIN p
    OBVIOUS
  <2>2. \/ AtEndOfValue(p, <<>>, h.ts)
        \/ ps' = "ProcData" /\ pkt' = p
    BY <1>3
  <2>3. pc' = pc /\ avail' = avail /\ fault' = fault /\ streamSync' = streamSync
    BY <1>3 DEF GoesOn
  <2> HIDE DEF p, h
  <2>4. "type" \in DOMAIN pkt' /\ ps' \in {"ProcData", "SendPkt"}
    BY <2>1, <2>2, EndOfValueKeeps
  <2>5. QED  BY <2>3, <2>4 DEF GoesAhead
<1>4. CASE name = "Reserved" /\ fn' = name /\ Fatal(name) /\ UNCHANGED time
  <2>1. name \in BadTypes /\ fn' \in FaultFns
    BY <1>4 DEF BadTypes, FaultFns
  <2>2. QED  BY <1>4, <2>1, FatalFaults
<1>5. QED  BY <1>1, <1>2, <1>3, <1>4 DEF Begin

LEMMA ProcHdrStep == Typed /\ ProcHdr => InSync
<1> SUFFICES ASSUME Typed, ProcHdr
             PROVE  InSync
  OBVIOUS
<1>1. /\ pc = "loop" /\ ps = "ProcHdr" /\ readNibble /\ pktIndex' = Offset /\ Begin(op1(Nibble))
      /\ UNCHANGED <<src, closed, dec, obs, elems>>
  BY DEF ProcHdr, Turn, inputVars, outVars
<1>2. "type" \in DOMAIN pkt /\ ~BadOne
  BY <1>1 DEF Typed, BadOne
<1>3. /\ Faults \/ GoesAhead
      /\ "type" \in DOMAIN pkt' /\ streamSync' = streamSync
  BY <1>1, <1>2, BeginStep
<1>4. Reads
  BY <1>1, ReadNibbleReads
<1>5. QED  BY <1>1, <1>3, <1>4 DEF InSync

LEMMA FExtStep == Typed /\ (stmPktFExt \/ stmPktF0Ext) => InSync
<1> SUFFICES ASSUME Typed, stmPktFExt \/ stmPktF0Ext
             PROVE  InSync
  OBVIOUS
<1>1. /\ pc = "loop" /\ ps = "ProcData" /\ fn \in {"FExt", "F0Ext"} /\ readNibble
      /\ pktIndex' = pktIndex /\ UNCHANGED <<src, closed, dec, obs, elems>>
  BY DEF stmPktFExt, stmPktF0Ext, Turn, inputVars, outVars
<1>2. \E name : Begin(name)
  BY DEF stmPktFExt, stmPktF0Ext
<1>3. "type" \in DOMAIN pkt /\ ~BadOne
  BY <1>1 DEF Typed, BadOne, FaultFns
<1>4. /\ Faults \/ GoesAhead
      /\ "type" \in DOMAIN pkt' /\ streamSync' = streamSync
  BY <1>1, <1>2, <1>3, BeginStep
<1>5. Reads
  BY <1>1, ReadNibbleReads
<1>6. QED  BY <1>1, <1>4, <1>5 DEF InSync

LEMMA ReservedStep == Typed /\ stmPktReserved => InSync
<1> SUFFICES ASSUME Typed, stmPktReserved
             PROVE  InSync
  OBVIOUS
<1>1. /\ pc = "loop" /\ ps = "ProcData" /\ fn = "Reserved" /\ Fatal("Reserved") /\ fn' = fn
      /\ pos' = pos /\ raw' = raw
      /\ pktIndex' = pktIndex /\ UNCHANGED <<src, closed, dec, obs, elems>>
  BY DEF stmPktReserved, Turn, inputVars, outVars
<1>2. "type" \in DOMAIN pkt /\ fn' \in FaultFns /\ "Reserved" \in BadTypes
  BY <1>1 DEF Typed, FaultFns, BadTypes
<1>3. Faults /\ "type" \in DOMAIN pkt' /\ streamSync' = streamSync
  BY <1>1, <1>2, FatalFaults
<1>4. QED  BY <1>1, <1>3 DEF InSync

LEMMA ExtractValStep == Typed /\ ExtractVal => InSync
<1> SUFFICES ASSUME Typed, ExtractVal
             PROVE  InSync
  OBVIOUS
<1>1. /\ pc = "loop" /\ ps = "ProcData" /\ fn = "ExtractVal" /\ readNibble /\ GoesOn
      /\ pktIndex' = pktIndex /\ streamSync' = streamSync /\ UNCHANGED <<src, closed, dec, obs, elems>>
  BY DEF ExtractVal, Turn, inputVars, outVars
<1>2. AtEndOfValue(pkt, val', time.needed) \/ UNCHANGED <<ps, fn, pkt, time>>
  BY DEF ExtractVal
<1>3. "type" \in DOMAIN pkt /\ ~BadOne
  BY <1>1 DEF Typed, BadOne, FaultFns
<1>4. "type" \in DOMAIN pkt' /\ ps' \in {"ProcData", "SendPkt"}
  BY <1>1, <1>2, <1>3, EndOfValueKeeps
<1>5. GoesAhead
  BY <1>1, <1>3, <1>4 DEF GoesAhead, GoesOn
<1>6. Reads
  BY <1>1, ReadNibbleReads
<1>7. QED  BY <1>1, <1>4, <1>5, <1>6 DEF InSync


LEMMA VersionStep == Typed /\ stmPktVersion => InSync
<1> SUFFICES ASSUME Typed, stmPktVersion
             PROVE  InSync
  OBVIOUS
<1>1. /\ pc = "loop" /\ ps = "ProcData" /\ fn = "Version" /\ readNibble
      /\ pktIndex' = pktIndex /\ UNCHANGED <<src, closed, dec, obs, elems>>
  BY DEF stmPktVersion, Turn, inputVars, outVars
<1>2. "type" \in DOMAIN pkt
  BY DEF Typed
<1>3. Reads
  BY <1>1, ReadNibbleReads
<1>4. CASE /\ pkt' = [OnVersionPkt(pkt, IF Nibble = 3 THEN "NatBinary" ELSE "Grey")
                        EXCEPT !.payload = <<Nibble>>]
           /\ ps' = "SendPkt" /\ GoesOn /\ UNCHANGED <<fn, size, val, time, streamSync>>
  <2>1. "type" \in DOMAIN pkt' /\ pkt'.type = pkt.type
    BY <1>2, <1>4 DEF OnVersionPkt
  <2>2. GoesAhead
    BY <1>1, <1>4, <2>1 DEF GoesAhead, GoesOn, BadOne
  <2>3. QED  BY <1>1, <1>3, <1>4, <2>1, <2>2 DEF InSync
<1>5. CASE Fatal("BadSequence") /\ UNCHANGED <<fn, time>>
  <2>1. "BadSequence" \in BadTypes /\ fn' \in FaultFns
    BY <1>1, <1>5 DEF BadTypes, FaultFns
  <2>2. Faults /\ "type" \in DOMAIN pkt' /\ streamSync' = streamSync
    BY <1>2, <1>5, <2>1, FatalFaults
  <2>3. QED  BY <1>1, <1>3, <2>2 DEF InSync
<1>6. QED  BY <1>4, <1>5 DEF stmPktVersion

\* A time that is complete is applied, or its encoding is unknown.
LEMMA ApplyTSStep ==
  ASSUME NEW t, ApplyTS(t), "type" \in DOMAIN pkt, pc = "loop", fn = "ExtractTS", fn' = fn
  PROVE  /\ Faults \/ GoesAhead
         /\ "type" \in DOMAIN pkt' /\ streamSync' = streamSync
<1>1. CASE /\ pkt' = IF pkt.tsType = "Grey" THEN GrayUpdate(pkt, t.nibs) ELSE setTimestamp(pkt, t.nibs)
           /\ time' = t /\ ps' = "SendPkt" /\ GoesOn /\ UNCHANGED <<size, val, streamSync>>
  <2>1. \A ns : "type" \in DOMAIN setTimestamp(pkt, ns) /\ setTimestamp(pkt, ns).type = pkt.type
    BY DEF setTimestamp
  <2>2. \E ns : pkt' = setTimestamp(pkt, ns)
    BY <1>1 DEF GrayUpdate
  <2>3. "type" \in DOMAIN pkt' /\ pkt'.type = pkt.type
    BY <2>1, <2>2
  <2>4. QED  BY <1>1, <2>3 DEF GoesAhead, GoesOn, BadOne
<1>2. CASE time' = t /\ Fatal("BadSequence")
  <2>1. "BadSequence" \in BadTypes /\ fn' \in FaultFns
    BY DEF BadTypes, FaultFns
  <2>2. QED  BY <1>2, <2>1, FatalFaults
<1>3. QED  BY <1>1, <1>2 DEF ApplyTS

LEMMA TimeSoFarStep ==
  ASSUME NEW t, TimeSoFar(t), "type" \in DOMAIN pkt, pc = "loop", ps = "ProcData", fn = "ExtractTS",
         fn' = fn
  PROVE  /\ Faults \/ GoesAhead
         /\ "type" \in DOMAIN pkt' /\ streamSync' = streamSync
<1>1. CASE ApplyTS(t)
  BY <1>1, ApplyTSStep
<1>2. CASE time' = t /\ GoesOn /\ UNCHANGED <<ps, size, pkt, val, streamSync>>
  BY <1>2 DEF GoesAhead, GoesOn
<1>3. QED  BY <1>1, <1>2 DEF TimeSoFar

LEMMA ExtractTSStep == Typed /\ stmExtractTS => InSync
<1> SUFFICES ASSUME Typed, stmExtractTS
             PROVE  InSync
  OBVIOUS
<1>1. /\ pc = "loop" /\ ps = "ProcData" /\ fn = "ExtractTS" /\ fn' = fn /\ readNibble
      /\ pktIndex' = pktIndex /\ UNCHANGED <<src, closed, dec, obs, elems>>
  BY DEF stmExtractTS, Turn, inputVars, outVars
<1>2. "type" \in DOMAIN pkt
  BY DEF Typed
<1>3. (\E t : TimeSoFar(t)) \/ Fatal("BadSequence")
  BY DEF stmExtractTS
<1>4. /\ Faults \/ GoesAhead
      /\ "type" \in DOMAIN pkt' /\ streamSync' = streamSync
  <2>1. CASE \E t : TimeSoFar(t)
    BY <1>1, <1>2, <2>1, TimeSoFarStep
  <2>2. CASE Fatal("BadSequence")
    <3>1. "BadSequence" \in BadTypes /\ fn' \in FaultFns
      BY <1>1 DEF BadTypes, FaultFns
    <3>2. QED  BY <1>2, <2>2, <3>1, FatalFaults
  <2>3. QED  BY <1>3, <2>1, <2>2
<1>5. Reads
  BY <1>1, ReadNibbleReads
<1>6. QED  BY <1>1, <1>4, <1>5 DEF InSync

LEMMA ExtractTSAgainStep == Typed /\ stmExtractTSAgain => InSync
<1> SUFFICES ASSUME Typed, stmExtractTSAgain
             PROVE  InSync
  OBVIOUS
<1>1. /\ pc = "loop" /\ ps = "ProcData" /\ fn = "ExtractTS" /\ fn' = fn /\ ApplyTS(time)
      /\ pos' = pos /\ raw' = raw
      /\ pktIndex' = pktIndex /\ UNCHANGED <<src, closed, dec, obs, elems>>
  BY DEF stmExtractTSAgain, Turn, inputVars, outVars
<1>2. "type" \in DOMAIN pkt
  BY DEF Typed
<1>3. /\ Faults \/ GoesAhead
      /\ "type" \in DOMAIN pkt' /\ streamSync' = streamSync
  BY <1>1, <1>2, ApplyTSStep
<1>4. QED  BY <1>1, <1>3 DEF InSync

LEMMA ASyncStep == Typed /\ stmPktASync => InSync
<1> SUFFICES ASSUME Typed, stmPktASync
             PROVE  InSync
  OBVIOUS
<1>1. /\ pc = "loop" /\ ps = "ProcData" /\ fn = "ASync" /\ fn' = fn /\ readNibble
      /\ pktIndex' = pktIndex /\ UNCHANGED <<src, closed, dec, obs, elems>>
  BY DEF stmPktASync, Turn, inputVars, outVars
<1>2. "type" \in DOMAIN pkt
  BY DEF Typed
<1>3. \/ streamSync' = TRUE /\ pkt' = [pkt EXCEPT !.type = "Async"] /\ ps' = "SendPkt" /\ GoesOn
      \/ GoesOn /\ UNCHANGED <<ps, pkt, streamSync>>
      \/ Fatal("BadSequence")
  BY DEF stmPktASync
<1>4. Reads
  BY <1>1, ReadNibbleReads
<1>5. CASE streamSync' = TRUE /\ pkt' = [pkt EXCEPT !.type = "Async"] /\ ps' = "SendPkt" /\ GoesOn
  <2>1. "type" \in DOMAIN pkt' /\ pkt'.type = "Async"
    BY <1>2, <1>5
  <2>2. GoesAhead
    BY <1>1, <1>5, <2>1 DEF GoesAhead, GoesOn
  <2>3. QED  BY <1>1, <1>4, <1>5, <2>1, <2>2, Zenon DEF InSync
<1>6. CASE GoesOn /\ UNCHANGED <<ps, pkt, streamSync>>
  <2>1. GoesAhead
    BY <1>1, <1>6 DEF GoesAhead, GoesOn
  <2>2. QED  BY <1>1, <1>2, <1>4, <1>6, <2>1 DEF InSync
<1>7. CASE Fatal("BadSequence")
  <2>1. "BadSequence" \in BadTypes /\ fn' \in FaultFns
    BY <1>1 DEF BadTypes, FaultFns
  <2>2. Faults /\ "type" \in DOMAIN pkt' /\ streamSync' = streamSync
    BY <1>2, <1>7, <2>1, FatalFaults
  <2>3. QED  BY <1>1, <1>4, <2>2 DEF InSync
<1>8. QED  BY <1>3, <1>5, <1>6, <1>7


----------------------------------------------------------------------------
(* A step of a handler keeps the invariant.                                *)

LEMMA NibbleRange == ASSUME Typed, NEW k \in 1..Len(src) PROVE src[k] \in Nat
<1>1. src \in Seq(Nibbles)
  BY StreamsAssumption DEF Typed
<1>2. src[k] \in Nibbles
  BY <1>1, ElementOfSeq
<1>3. QED  BY <1>2 DEF Nibbles

LEMMA StreamLen == ASSUME Typed PROVE Len(src) \in Nat
<1>1. src \in Seq(Nibbles)
  BY StreamsAssumption DEF Typed
<1>2. QED  BY <1>1, LenProperties

\* The byte that goes with an even nibble.
LEMMA ByteRange ==
  ASSUME Typed, pos < 2 * avail, pos % 2 = 0
  PROVE  src[pos + 1] + 16 * src[pos + 2] \in Nat
<1>1. Len(src) \in Nat /\ pos \in Nat /\ avail \in Nat /\ 2 * avail <= Len(src)
  BY StreamLen DEF Typed
<1>2. pos + 1 \in 1..Len(src) /\ pos + 2 \in 1..Len(src)
  BY <1>1
<1>3. src[pos + 1] \in Nat /\ src[pos + 2] \in Nat
  BY <1>2, NibbleRange
<1>4. QED  BY <1>3

ReadsOrNot == Reads \/ (pos' = pos /\ raw' = raw)

LEMMA ReadsTyped ==
  ASSUME Typed, ReadsOrNot
  PROVE  /\ pos' \in Nat /\ pos <= pos' /\ pos' <= 2 * avail /\ raw' \in Seq(Nat)
         /\ raw # <<>> => raw' # <<>>
         /\ Reads /\ pos % 2 = 0 => raw' # <<>>
<1>1. pos \in Nat /\ avail \in Nat /\ pos <= 2 * avail /\ raw \in Seq(Nat)
  BY DEF Typed
<1>2. CASE Reads /\ pos % 2 = 0
  <2>1. src[pos + 1] + 16 * src[pos + 2] \in Nat
    BY <1>2, ByteRange DEF Reads
  <2>2. raw' = Append(raw, src[pos + 1] + 16 * src[pos + 2])
    BY <1>2 DEF Reads
  <2> DEFINE b == src[pos + 1] + 16 * src[pos + 2]
  <2> HIDE DEF b
  <2>3. raw' = Append(raw, b) /\ b \in Nat
    BY <2>1, <2>2 DEF b
  <2>4. raw' \in Seq(Nat) /\ raw' # <<>>
    BY <1>1, <2>3, AppendProperties
  <2>5. pos' = pos + 1 /\ pos < 2 * avail
    BY <1>2 DEF Reads
  <2>6. QED  BY <1>1, <2>4, <2>5
<1>3. CASE Reads /\ pos % 2 # 0
  <2>1. pos' = pos + 1 /\ pos < 2 * avail /\ raw' = raw
    BY <1>3 DEF Reads
  <2>2. QED  BY <1>1, <1>3, <2>1
<1>4. CASE ~Reads /\ pos' = pos /\ raw' = raw
  BY <1>1, <1>4
<1>5. QED  BY <1>2, <1>3, <1>4 DEF ReadsOrNot, Reads

\* What is saved goes on with the nibbles.
LEMMA ReadsSaved ==
  ASSUME Typed, ReadsOrNot, NEW e \in 0..pos, raw = Lies(src, e, pos)
  PROVE  raw' = Lies(src, e, pos')
<1>1. pos \in Nat /\ e \in Nat /\ e <= pos /\ raw \in Seq(Nat)
  BY DEF Typed
<1>2. CASE Reads /\ pos % 2 = 0
  <2>1. src[pos + 1] + 16 * src[pos + 2] \in Nat
    BY <1>2, ByteRange DEF Reads
  <2>2. raw' = Append(raw, src[pos + 1] + 16 * src[pos + 2]) /\ pos' = pos + 1
    BY <1>2 DEF Reads
  <2>3. Lies(src, e, pos) \in Seq(Nat)
    BY <1>1
  <2>4. Lies(src, e, pos + 1) = Append(Lies(src, e, pos), src[pos + 1] + 16 * src[pos + 2])
    BY <1>1, <1>2, <2>1, <2>3, LiesEven
  <2>5. QED  BY <2>2, <2>4
<1>3. CASE Reads /\ pos % 2 # 0
  <2>1. pos' = pos + 1 /\ raw' = raw /\ pos % 2 = 1
    BY <1>1, <1>3 DEF Reads
  <2>2. Lies(src, e, pos + 1) = Lies(src, e, pos)
    BY <1>1, <2>1, LiesOdd
  <2>3. QED  BY <2>1, <2>2
<1>4. CASE pos' = pos /\ raw' = raw
  BY <1>4
<1>5. QED  BY <1>2, <1>3, <1>4 DEF ReadsOrNot

LEMMA InSyncTyped == IInv /\ InSync => Typed' /\ ReadsOrNot
<1> SUFFICES ASSUME IInv, InSync
             PROVE  Typed' /\ ReadsOrNot
  OBVIOUS
<1>0. Typed
  BY DEF IInv
<1>1. ReadsOrNot
  BY DEF InSync, ReadsOrNot
<1>2. pos' \in Nat /\ pos' <= 2 * avail /\ raw' \in Seq(Nat)
  BY <1>0, <1>1, ReadsTyped
<1>3. /\ src' = src /\ obs' = obs /\ elems' = elems /\ dec' = dec /\ "type" \in DOMAIN pkt'
  BY DEF InSync
<1>4. /\ src \in Streams \cup NextStreams /\ avail \in Nat /\ 2 * avail <= Len(src)
      /\ IsSeq(obs) /\ IsSeq(elems) /\ "state" \in DOMAIN dec /\ "index" \in DOMAIN dec
      /\ fault.n \in Nat /\ fault.obs \in 0..Len(obs) /\ fault.elems \in 0..Len(elems)
  BY <1>0 DEF Typed
<1>5. Len(obs) \in Nat /\ Len(elems) \in Nat /\ Len(src) \in Nat
  BY <1>0, <1>4, AnySeqLen, StreamLen
<1>6. avail' \in Nat /\ 2 * avail' <= Len(src) /\ pos' <= 2 * avail'
  <2>1. CASE avail' = avail
    BY <1>2, <1>4, <2>1
  <2>2. CASE avail' = (pos' + 1) \div 2
    <3>1. ASSUME NEW p \in Nat, NEW a \in Nat, NEW l \in Nat, p <= 2 * a, 2 * a <= l
          PROVE  LET q == (p + 1) \div 2 IN q \in Nat /\ 2 * q <= l /\ p <= 2 * q
      <4>1. (p + 1) \div 2 <= a /\ p <= 2 * ((p + 1) \div 2) /\ (p + 1) \div 2 \in Nat
        BY <3>1
      <4>2. QED  BY <3>1, <4>1
    <3>2. QED  BY <1>2, <1>4, <1>5, <2>2, <3>1
  <2>3. QED  BY <2>1, <2>2 DEF InSync, Faults, GoesAhead
<1>7. fault'.n \in Nat /\ fault'.obs \in 0..Len(obs) /\ fault'.elems \in 0..Len(elems)
  <2>1. CASE fault' = fault
    BY <1>4, <2>1
  <2>2. CASE fault' = [obs |-> Len(obs), elems |-> Len(elems), pos |-> pos', n |-> fault.n + 1]
    BY <1>4, <1>5, <2>2
  <2>3. QED  BY <2>1, <2>2 DEF InSync, Faults, GoesAhead
<1>8. Typed'
  BY <1>2, <1>3, <1>4, <1>6, <1>7 DEF Typed
<1>9. QED  BY <1>1, <1>8

LEMMA InSyncKeeps == IInv /\ InSync => IInv'
<1> SUFFICES ASSUME IInv, InSync
             PROVE  IInv'
  OBVIOUS
<1>0. /\ Typed /\ Control /\ Saved /\ ReadOK /\ Shown /\ Indexed /\ Behind
      /\ ResyncedBehindFault
  BY DEF IInv
<1>1. Typed' /\ ReadsOrNot
  BY InSyncTyped
<1>2. /\ pos' \in Nat /\ pos \in Nat /\ pos <= pos'
      /\ raw # <<>> => raw' # <<>>
      /\ Reads /\ pos % 2 = 0 => raw' # <<>>
  BY <1>0, <1>1, ReadsTyped DEF Typed
<1>3. /\ pc = "loop" /\ ps \in {"ProcHdr", "ProcData"} /\ ps' \in {"ProcData", "SendPkt"}
      /\ src' = src /\ closed' = closed /\ dec' = dec /\ obs' = obs /\ elems' = elems
      /\ Reads \/ ps = "ProcData"
      /\ pktIndex' = IF ps = "ProcHdr" THEN Offset ELSE pktIndex
      /\ (pc' = "idle" /\ ps' = "ProcData") \/ pc' = "loop"
  BY DEF InSync, Faults, GoesAhead
<1>4. ~closed /\ streamSync
  BY <1>0, <1>3 DEF Control
<1>5. streamSync'
  BY <1>4 DEF InSync
<1>6. Control'
  BY <1>3, <1>4, <1>5 DEF Control
<1>7. raw' # <<>>
  BY <1>0, <1>2, <1>3, <1>4 DEF Saved
<1>8. Saved'
  BY <1>7 DEF Saved
<1>9. ReadOK'
  BY <1>0, <1>1, <1>2, <1>3, <1>4, ReadsSaved DEF ReadOK, SavedFrom
<1>10. Shown'
  BY <1>0, <1>3 DEF Shown
<1>11. Indexed'
  BY <1>0, <1>2, <1>3, <1>4 DEF Indexed, Offset
<1>12. Here' = Here
  BY <1>3 DEF Here
<1>13. CASE Faults
  <2>1. /\ pkt'.type \in BadTypes /\ fn' \in FaultFns /\ ps' = "ProcData"
        /\ fault'.elems = Len(elems')
    BY <1>3, <1>13 DEF Faults
  <2>2. OutOfSync' /\ NoneSince' /\ ResyncedBehindFault'
    BY <1>1, <2>1, AnySeqLen DEF OutOfSync, NoneSince, ResyncedBehindFault, Typed
  <2>3. QED  BY <1>1, <1>6, <1>8, <1>9, <1>10, <1>11, <2>2 DEF IInv, Behind
<1>14. CASE GoesAhead
  <2>1. fault' = fault
    BY <1>14 DEF GoesAhead
  <2>2. ResyncedBehindFault'
    BY <1>0, <1>3, <2>1 DEF ResyncedBehindFault
  <2>3. Behind'
    <3>1. CASE ~(fault.n > 0)
      BY <2>1, <3>1 DEF Behind
    <3>2. CASE OutOfSync /\ NoneSince
      <4>1. NoneSince'
        BY <1>3, <2>1, <3>2 DEF NoneSince
      <4>2. OutOfSync'
        BY <1>3, <1>14, <3>2 DEF OutOfSync, GoesAhead, BadOne
      <4>3. QED  BY <4>1, <4>2 DEF Behind
    <3>3. CASE Resynced(Here)
      <4>1. Resynced(Here)'
        BY <1>3, <1>12, <2>1, <3>3 DEF Resynced
      <4>2. QED  BY <4>1 DEF Behind
    <3>4. QED  BY <1>0, <1>4, <3>1, <3>2, <3>3 DEF Behind
  <2>4. QED  BY <1>1, <1>6, <1>8, <1>9, <1>10, <1>11, <2>2, <2>3 DEF IInv
<1>15. QED  BY <1>13, <1>14 DEF InSync


----------------------------------------------------------------------------
(* The search for sync, and calls that begin and end.                      *)

Waits ==
  /\ ps = "WaitSync" /\ pc \in {"loop", "sync"}
  /\ \/ ps' = "WaitSync" /\ pc' \in {"loop", "sync", "idle"}
     \/ ps' = "SendPkt" /\ pc' = "loop" /\ (pkt'.type = "NotSync" \/ streamSync')
  /\ "type" \in DOMAIN pkt' /\ raw' \in Seq(Nat) /\ pos' \in Nat /\ pos' <= 2 * avail
  /\ UNCHANGED <<src, avail, closed, dec, obs, elems, fault>>

LEMMA WaitsKeeps == IInv /\ Waits => IInv'
<1> SUFFICES ASSUME IInv, Waits
             PROVE  IInv'
  OBVIOUS
<1>0. Typed /\ Control /\ Shown /\ ResyncedBehindFault
  BY DEF IInv
<1>1. /\ ps' \in {"WaitSync", "SendPkt"} /\ pc' \in {"loop", "sync", "idle"}
      /\ src' = src /\ avail' = avail /\ closed' = closed /\ dec' = dec /\ obs' = obs
      /\ elems' = elems /\ fault' = fault
      /\ "type" \in DOMAIN pkt' /\ raw' \in Seq(Nat) /\ pos' \in Nat /\ pos' <= 2 * avail
  BY DEF Waits
<1>2. ~closed /\ BeforeSync
  BY <1>0 DEF Waits, Control
<1>3. BeforeSync'
  BY <1>1, <1>2 DEF BeforeSync
<1>4. Typed'
  BY <1>0, <1>1 DEF Typed
<1>5. Control'
  <2>1. /\ pc' = "sync" => ps' = "WaitSync"
        /\ ps' = "SendPkt" => pc' = "loop" /\ (pkt'.type = "NotSync" \/ streamSync')
    BY DEF Waits
  <2>2. QED  BY <1>1, <1>2, <1>3, <2>1 DEF Control
<1>6. Saved'
  BY <1>1, <1>3 DEF Saved
<1>7. ReadOK'
  <2>1. IsSeq(obs)
    BY <1>0 DEF Typed
  <2>2. obs # <<>> => Len(obs) \in 1..Len(obs)
    <3>1. PICK S : obs \in Seq(S)
      BY <2>1 DEF IsSeq
    <3>2. QED  BY <3>1, EmptySeq
  <2>3. obs # <<>> => obs[Len(obs)].type = "NotSync"
    BY <1>2, <2>2 DEF BeforeSync
  <2>4. QED  BY <1>1, <2>3 DEF ReadOK
<1>8. Shown'
  BY <1>0, <1>1 DEF Shown
<1>9. fault'.n = 0
  BY <1>3 DEF BeforeSync
<1>10. Indexed' /\ Behind'
  BY <1>1, <1>9 DEF Indexed, Behind
<1>11. ResyncedBehindFault'
  BY <1>0, <1>1 DEF ResyncedBehindFault
<1>12. QED  BY <1>4, <1>5, <1>6, <1>7, <1>8, <1>10, <1>11 DEF IInv

LEMMA SyncDoneSends ==
  ASSUME Typed, NEW s, NEW nn, NEW r \in Seq(Nat), NEW index, NEW onEntry, SyncDone(s, nn, r, index, onEntry)
  PROVE  /\ ps' = "SendPkt" /\ pc' = "loop" /\ (pkt'.type = "NotSync" \/ streamSync')
         /\ "type" \in DOMAIN pkt' /\ raw' \in Seq(Nat)
<1>0. "type" \in DOMAIN pkt
  BY DEF Typed
<1>1. CASE /\ pkt' = [pkt EXCEPT !.type = "Async"] /\ streamSync' = TRUE
           /\ raw' = IF onEntry THEN r \o [k \in 1..10 |-> 255] \o <<15>> ELSE r
  <2>1. [k \in 1..10 |-> 255] \in Seq(Nat) /\ <<15>> \in Seq(Nat)
    OBVIOUS
  <2>2. r \o [k \in 1..10 |-> 255] \o <<15>> \in Seq(Nat)
    BY <2>1, ConcatProperties
  <2>3. raw' \in Seq(Nat)
    BY <1>1, <2>2
  <2>4. "type" \in DOMAIN pkt' /\ streamSync'
    BY <1>0, <1>1
  <2>5. QED  BY <2>3, <2>4 DEF SyncDone
<1>2. CASE /\ pkt' = [pkt EXCEPT !.type = "NotSync"]
           /\ raw' = IF s.isSync /\ Len(r) >= 11 THEN SubSeq(r, 1, Len(r) - 11) ELSE r
  <2>1. Len(r) >= 11 => SubSeq(r, 1, Len(r) - 11) \in Seq(Nat)
    <3>1. Len(r) \in Nat
      BY LenProperties
    <3>2. \A i \in 1..(Len(r) - 11) : r[i] \in Nat
      BY <3>1, ElementOfSeq
    <3>3. Len(r) - 11 \in Int /\ 1 \in Int
      BY <3>1
    <3>4. QED  BY <3>2, <3>3, SubSeqProperties
  <2>2. raw' \in Seq(Nat)
    BY <1>2, <2>1
  <2>3. "type" \in DOMAIN pkt' /\ pkt'.type = "NotSync"
    BY <1>0, <1>2
  <2>4. QED  BY <2>2, <2>3 DEF SyncDone
<1>3. QED  BY <1>1, <1>2 DEF SyncDone

LEMMA SyncWaits == IInv /\ (SyncOnEntry \/ SyncSearch \/ SyncNibble \/ SyncEnds) => Waits
<1> SUFFICES ASSUME IInv, SyncOnEntry \/ SyncSearch \/ SyncNibble \/ SyncEnds
             PROVE  Waits
  OBVIOUS
<1>0. Typed /\ Control
  BY DEF IInv
<1>1. pos \in Nat /\ pos <= 2 * avail /\ raw \in Seq(Nat) /\ "type" \in DOMAIN pkt
  BY <1>0 DEF Typed
<1>2. CASE SyncOnEntry
  <2>1. /\ ps = "WaitSync" /\ pc = "loop" /\ SyncDone(sync, numNibbles', raw, Offset, TRUE)
        /\ pos' = pos /\ UNCHANGED <<src, avail, closed, dec, obs, elems, fault>>
    BY <1>2 DEF SyncOnEntry, Turn, inputVars, outVars
  <2>2. /\ ps' = "SendPkt" /\ pc' = "loop" /\ (pkt'.type = "NotSync" \/ streamSync')
        /\ "type" \in DOMAIN pkt' /\ raw' \in Seq(Nat)
    BY <1>0, <1>1, <2>1, SyncDoneSends
  <2>3. QED  BY <1>1, <2>1, <2>2 DEF Waits
<1>3. CASE SyncSearch
  <2>1. /\ ps = "WaitSync" /\ pc = "loop" /\ pc' = "sync" /\ ps' = ps
        /\ pos' = pos /\ raw' = raw /\ pkt' = pkt
        /\ UNCHANGED <<src, avail, closed, dec, obs, elems, fault>>
    BY <1>3 DEF SyncSearch, Turn, inputVars, outVars, pktVars
  <2>2. QED  BY <1>1, <2>1 DEF Waits
<1>4. CASE SyncNibble
  <2>1. /\ pc = "sync" /\ pc' = pc /\ ps' = ps /\ readNibble /\ pkt' = pkt
        /\ UNCHANGED <<src, avail, closed, dec, obs, elems, fault>>
    BY <1>4 DEF SyncNibble, inputVars, outVars, pktVars
  <2>2. ps = "WaitSync"
    BY <1>0, <2>1 DEF Control
  <2>3. ReadsOrNot
    BY <2>1, ReadNibbleReads DEF ReadsOrNot
  <2>4. pos' \in Nat /\ pos' <= 2 * avail /\ raw' \in Seq(Nat)
    BY <1>0, <2>3, ReadsTyped
  <2>5. QED  BY <1>1, <2>1, <2>2, <2>4 DEF Waits
<1>5. CASE SyncEnds
  <2>1. /\ pc = "sync" /\ pos' = pos /\ UNCHANGED <<src, avail, closed, dec, obs, elems, fault>>
        /\ \/ SyncDone(sync, numNibbles, raw, pktIndex, FALSE)
           \/ pc' = "loop" /\ UNCHANGED <<ps, pkt, sync, streamSync, pktIndex, raw>>
    BY <1>5 DEF SyncEnds, inputVars, outVars
  <2>2. ps = "WaitSync"
    BY <1>0, <2>1 DEF Control
  <2>3. CASE SyncDone(sync, numNibbles, raw, pktIndex, FALSE)
    <3>1. /\ ps' = "SendPkt" /\ pc' = "loop" /\ (pkt'.type = "NotSync" \/ streamSync')
          /\ "type" \in DOMAIN pkt' /\ raw' \in Seq(Nat)
      BY <1>0, <1>1, <2>3, SyncDoneSends
    <3>2. QED  BY <1>1, <2>1, <2>2, <3>1 DEF Waits
  <2>4. CASE pc' = "loop" /\ UNCHANGED <<ps, pkt, sync, streamSync, pktIndex, raw>>
    BY <1>1, <2>1, <2>2, <2>4 DEF Waits
  <2>5. QED  BY <2>1, <2>3, <2>4
<1>6. QED  BY <1>2, <1>3, <1>4, <1>5

\* Write and Return move bytes and control only.
Calls ==
  /\ \/ pc = "idle" /\ ~closed /\ pc' = "loop"
     \/ pc = "loop" /\ ps # "SendPkt" /\ pc' = "idle"
  /\ avail' \in Nat /\ avail <= avail' /\ 2 * avail' <= Len(src)
  /\ UNCHANGED <<src, closed, pos, ps, fn, pkt, pktIndex, raw, streamSync, dec, obs, elems, fault>>

LEMMA CallsKeeps == IInv /\ Calls => IInv'
<1> SUFFICES ASSUME IInv, Calls
             PROVE  IInv'
  OBVIOUS
<1>0. /\ Typed /\ Control /\ Saved /\ ReadOK /\ Shown /\ Indexed /\ Behind
      /\ ResyncedBehindFault
  BY DEF IInv
<1>1. /\ src' = src /\ closed' = closed /\ pos' = pos /\ ps' = ps /\ fn' = fn /\ pkt' = pkt
      /\ pktIndex' = pktIndex /\ raw' = raw /\ streamSync' = streamSync /\ dec' = dec
      /\ obs' = obs /\ elems' = elems /\ fault' = fault
      /\ avail' \in Nat /\ avail <= avail' /\ 2 * avail' <= Len(src)
  BY DEF Calls
<1>2. Typed'
  <2>1. /\ src \in Streams \cup NextStreams /\ avail \in Nat
        /\ pos \in Nat /\ pos <= 2 * avail
        /\ raw \in Seq(Nat) /\ IsSeq(obs) /\ IsSeq(elems)
        /\ "type" \in DOMAIN pkt /\ "state" \in DOMAIN dec /\ "index" \in DOMAIN dec
        /\ fault.n \in Nat /\ fault.obs \in 0..Len(obs) /\ fault.elems \in 0..Len(elems)
    BY <1>0 DEF Typed
  <2>2. pos <= 2 * avail'
    <3>1. ASSUME NEW p \in Nat, NEW a \in Nat, NEW b \in Nat, p <= 2 * a, a <= b
          PROVE  p <= 2 * b
      BY <3>1
    <3>2. avail' \in Nat /\ avail <= avail'
      BY <1>1
    <3>3. QED  BY <2>1, <3>1, <3>2
  <2>3. QED  BY <1>1, <2>1, <2>2 DEF Typed
<1>3. Control'
  <2>1. /\ pc' \in {"idle", "loop"} /\ (ps = "SendPkt" => pc' = "loop")
        /\ pc \in {"idle", "loop"} /\ (closed => pc' = "idle")
    BY <1>0 DEF Calls, Control
  <2>2. BeforeSync' <=> BeforeSync
    BY <1>1 DEF BeforeSync
  <2>3. QED  BY <1>0, <1>1, <2>1, <2>2 DEF Control
<1>4. Saved'
  BY <1>0, <1>1 DEF Saved, BeforeSync
<1>5. ReadOK' /\ Shown'
  BY <1>0, <1>1 DEF ReadOK, SavedFrom, Shown
<1>6. Indexed'
  BY <1>0, <1>1 DEF Indexed, Offset
<1>7. Behind'
  BY <1>0, <1>1 DEF Behind, OutOfSync, NoneSince, Resynced, Here, Offset
<1>8. ResyncedBehindFault'
  BY <1>0, <1>1 DEF ResyncedBehindFault
<1>9. QED  BY <1>2, <1>3, <1>4, <1>5, <1>6, <1>7, <1>8 DEF IInv

LEMMA WriteCalls == ASSUME IInv, NEW n \in ChunkSizes(Len(src)), Write(n) PROVE Calls
<1>1. Typed
  BY DEF IInv
<1>2. n \in Nat
  BY <1>1, ChunkAssumption DEF Typed
<1>3. avail \in Nat /\ Len(src) \in Nat
  BY <1>1, StreamLen DEF Typed
<1>4. /\ pc = "idle" /\ ~closed /\ pc' = "loop" /\ 2 * (avail + n) <= Len(src) /\ avail' = avail + n
      /\ UNCHANGED <<src, closed, pos, ps, fn, pkt, pktIndex, raw, streamSync, dec, obs, elems, fault>>
  BY DEF Write, inputVars, outVars, pktVars
<1>5. avail' \in Nat /\ avail <= avail' /\ 2 * avail' <= Len(src)
  BY <1>2, <1>3, <1>4
<1>6. QED  BY <1>4, <1>5 DEF Calls

LEMMA ReturnCalls == IInv /\ Return => Calls
<1> SUFFICES ASSUME IInv, Return
             PROVE  Calls
  OBVIOUS
<1>1. /\ pc = "loop" /\ ps # "SendPkt" /\ pc' = "idle" /\ avail' = avail
      /\ UNCHANGED <<src, closed, pos, ps, fn, pkt, pktIndex, raw, streamSync, dec, obs, elems, fault>>
  BY DEF Return, dataToProcess, inputVars, outVars, pktVars
<1>2. avail \in Nat /\ 2 * avail <= Len(src)
  BY DEF IInv, Typed
<1>3. QED  BY <1>1, <1>2 DEF Calls


----------------------------------------------------------------------------
(* A packet goes out.                                                      *)

\* t is elems with more behind it, in which data comes only from the packet p.
Grown(t, p) ==
  /\ IsSeq(t) /\ Len(t) \in Nat /\ Len(elems) <= Len(t) /\ \A k \in 1..Len(elems) : t[k] = elems[k]
  /\ \A k \in (Len(elems) + 1)..Len(t) :
       t[k].kind = "SWT" => t[k].index = pktIndex /\ dec.state = "Pkts" /\ p.type \notin Quiet

LEMMA GrownByOne ==
  ASSUME NEW t, NEW p, NEW x, Grown(t, p), Len(elems) \in Nat,
         x.kind = "SWT" => x.index = pktIndex /\ dec.state = "Pkts" /\ p.type \notin Quiet
  PROVE  Grown(t \o <<x>>, p)
<1> DEFINE u == t \o <<x>>
<1>1. IsSeq(t) /\ Len(t) \in Nat /\ Len(elems) <= Len(t)
  BY DEF Grown
<1>2. /\ IsSeq(u) /\ Len(u) = Len(t) + 1 /\ u[Len(t) + 1] = x
      /\ \A k \in 1..Len(t) : u[k] = t[k]
  BY <1>1, AnyOneMore
<1> HIDE DEF u
<1>3. Len(u) \in Nat /\ Len(elems) <= Len(u)
  BY <1>1, <1>2
<1>4. \A k \in 1..Len(elems) : u[k] = elems[k]
  <2> TAKE k \in 1..Len(elems)
  <2>1. k \in 1..Len(t)
    BY <1>1
  <2>2. QED  BY <1>2, <2>1 DEF Grown
<1>5. ASSUME NEW k \in (Len(elems) + 1)..Len(u)
      PROVE  u[k].kind = "SWT" => u[k].index = pktIndex /\ dec.state = "Pkts" /\ p.type \notin Quiet
  <2>1. CASE k = Len(t) + 1
    BY <1>2, <2>1
  <2>2. CASE k # Len(t) + 1
    <3>1. k \in 1..Len(t) /\ k \in (Len(elems) + 1)..Len(t)
      BY <1>1, <1>2, <1>5, <2>2
    <3>2. u[k] = t[k]
      BY <1>2, <3>1
    <3>3. t[k].kind = "SWT" => t[k].index = pktIndex /\ dec.state = "Pkts" /\ p.type \notin Quiet
      BY <3>1 DEF Grown
    <3>4. QED  BY <3>2, <3>3
  <2>3. QED  BY <2>1, <2>2
<1>6. Grown(u, p)
  BY <1>2, <1>3, <1>4, <1>5 DEF Grown
<1>7. QED  BY <1>6 DEF u

LEMMA NotGrown == ASSUME Typed, NEW p PROVE Grown(elems, p)
<1>1. IsSeq(elems) /\ Len(elems) \in Nat
  BY AnySeqLen DEF Typed
<1>2. QED  BY <1>1 DEF Grown

\* The record that the observer gets.
Record(p) == [index |-> pktIndex, type |-> p.type, raw |-> raw, end |-> pos]

\* What outputPacket changes.
LEMMA OutputEffect ==
  ASSUME Typed, NEW p, "type" \in DOMAIN p, NEW atEnd, outputPacket(p, atEnd)
  PROVE  /\ "state" \in DOMAIN dec' /\ "index" \in DOMAIN dec'
         /\ dec.state # "Pkts" => dec'.state # "Pkts" \/ p.type = "Async"
         /\ dec.state = "Pkts" /\ p.type \in BadTypes => dec'.state # "Pkts"
         /\ Grown(elems', p)
         /\ obs' = IF raw = <<>> THEN obs ELSE obs \o <<Record(p)>>
         /\ "type" \in DOMAIN pkt'
<1> DEFINE r == processPacket(dec, p, pktIndex)
           last == EndElem(r.dec)
<1>1. /\ dec' = r.dec
      /\ elems' = elems \o r.out \o IF atEnd THEN <<last>> ELSE <<>>
      /\ obs' = obs \o Seen(p.type) /\ pkt' = NextPacket(p)
  BY DEF outputPacket
<1>2. IsSeq(obs) /\ IsSeq(elems) /\ "state" \in DOMAIN dec /\ "index" \in DOMAIN dec
  BY DEF Typed
<1>3. Effect(dec, p, pktIndex, r)
  BY <1>2, Processed
<1>4. last.kind # "SWT"
  BY DEF EndElem, Elem
<1> HIDE DEF r, last
<1>5. /\ "state" \in DOMAIN r.dec /\ "index" \in DOMAIN r.dec
      /\ dec.state # "Pkts" => r.dec.state # "Pkts" \/ p.type = "Async"
      /\ dec.state = "Pkts" /\ p.type \in BadTypes => r.dec.state # "Pkts"
  BY <1>3 DEF Effect
<1>6. Grown(elems \o r.out, p)
  <2>1. Grown(elems, p) /\ Len(elems) \in Nat
    BY <1>2, NotGrown, AnySeqLen
  <2>2. CASE r.out = <<>>
    <3>1. elems \o r.out = elems
      BY <1>2, <2>2, AnyNoMore
    <3>2. QED  BY <2>1, <3>1
  <2>3. CASE r.out # <<>>
    <3>1. PICK x : /\ r.out = <<x>>
                   /\ x.kind = "SWT" => x.index = pktIndex /\ dec.state = "Pkts" /\ p.type \notin Quiet
      BY <1>3, <2>3 DEF Effect
    <3>2. Grown(elems \o <<x>>, p)
      BY <2>1, <3>1, GrownByOne
    <3>3. QED  BY <3>1, <3>2
  <2>4. QED  BY <2>2, <2>3
<1>7. Grown(elems', p)
  <2> DEFINE t == elems \o r.out
  <2>1. elems' = t \o <<last>> \/ elems' = t \o <<>>
    BY <1>1
  <2>2. Grown(t, p) /\ IsSeq(t) /\ Len(elems) \in Nat
    BY <1>2, <1>6, AnySeqLen DEF Grown
  <2> HIDE DEF t
  <2>3. Grown(t \o <<last>>, p)
    BY <1>4, <2>2, GrownByOne
  <2>4. t \o <<>> = t
    BY <2>2, AnyNoMore
  <2>5. QED  BY <2>1, <2>2, <2>3, <2>4
<1>8. obs' = IF raw = <<>> THEN obs ELSE obs \o <<Record(p)>>
  <2>1. obs \o <<>> = obs
    BY <1>2, AnyNoMore
  <2>2. Seen(p.type) = IF raw = <<>> THEN <<>> ELSE <<Record(p)>>
    BY DEF Seen, Record
  <2>3. QED  BY <1>1, <2>1, <2>2
<1>9. "type" \in DOMAIN pkt'
  BY <1>1 DEF NextPacket
<1>10. QED  BY <1>1, <1>5, <1>7, <1>8, <1>9

\* The sequence of packets grows by the one that is shown.
LEMMA ObsGrows ==
  ASSUME Typed, NEW p, obs' = IF raw = <<>> THEN obs ELSE obs \o <<Record(p)>>
  PROVE  /\ IsSeq(obs') /\ Len(obs) \in Nat
         /\ \A k \in 1..Len(obs) : obs'[k] = obs[k]
         /\ \/ raw = <<>> /\ obs' = obs /\ Len(obs') = Len(obs)
            \/ /\ raw # <<>> /\ Len(obs') = Len(obs) + 1 /\ obs'[Len(obs) + 1] = Record(p)
<1>1. IsSeq(obs) /\ Len(obs) \in Nat
  BY AnySeqLen DEF Typed
<1>2. CASE raw = <<>>
  BY <1>1, <1>2
<1>3. CASE raw # <<>>
  <2> DEFINE x == Record(p)
  <2> HIDE DEF x
  <2>1. /\ IsSeq(obs \o <<x>>) /\ Len(obs \o <<x>>) = Len(obs) + 1
        /\ (obs \o <<x>>)[Len(obs) + 1] = x
        /\ \A k \in 1..Len(obs) : (obs \o <<x>>)[k] = obs[k]
    BY <1>1, AnyOneMore
  <2>2. obs' = obs \o <<x>>
    BY <1>3 DEF x
  <2>3. x = Record(p)
    BY DEF x
  <2>4. QED  BY <1>1, <1>3, <2>1, <2>2, <2>3
<1>4. QED  BY <1>2, <1>3

LEMMA RecordFields ==
  ASSUME NEW p
  PROVE  /\ Record(p).index = pktIndex /\ Record(p).type = p.type /\ Record(p).raw = raw
         /\ Record(p).end = pos
BY DEF Record


\* The nibble that is left is what lies between the end of the packet and the
\* nibbles read, which is the same place.
LEMMA LeftNibbleLies == Typed => LeftNibble \in Seq(Nat) /\ LeftNibble = Lies(src, pos, pos)
<1> SUFFICES ASSUME Typed
             PROVE  LeftNibble \in Seq(Nat) /\ LeftNibble = Lies(src, pos, pos)
  OBVIOUS
<1>1. pos \in Nat /\ avail \in Nat /\ pos <= 2 * avail /\ 2 * avail <= Len(src) /\ Len(src) \in Nat
  BY StreamLen DEF Typed
<1>2. CASE pos % 2 = 1
  <2>1. pos + 1 \in 1..Len(src)
    BY <1>1, <1>2
  <2>2. src[pos + 1] \in Nat
    BY <2>1, NibbleRange
  <2>3. Lies(src, pos, pos) = <<16 * src[pos + 1]>>
    BY <1>1, <1>2, <2>2, LiesNowhere
  <2>4. LeftNibble = <<16 * src[pos + 1]>>
    BY <1>2 DEF LeftNibble, Nibble
  <2>5. <<16 * src[pos + 1]>> \in Seq(Nat)
    BY <2>2
  <2>6. QED  BY <2>3, <2>4, <2>5
<1>3. CASE pos % 2 # 1
  <2>1. pos % 2 = 0
    BY <1>1, <1>3
  <2>2. Lies(src, pos, pos) = <<>>
    BY <1>1, <2>1, LiesNowhere
  <2>3. LeftNibble = <<>>
    BY <1>3 DEF LeftNibble
  <2>4. <<>> \in Seq(Nat)
    OBVIOUS
  <2>5. QED  BY <2>2, <2>3, <2>4
<1>4. QED  BY <1>2, <1>3

\* What outputPacket keeps, whoever calls it.
LEMMA OutputKeeps ==
  ASSUME IInv, ~closed, NEW p, "type" \in DOMAIN p, NEW atEnd, outputPacket(p, atEnd)
  PROVE  Typed' /\ Shown'
<1>0. Typed /\ ReadOK /\ Shown
  BY DEF IInv
<1>1. /\ "state" \in DOMAIN dec' /\ "index" \in DOMAIN dec' /\ "type" \in DOMAIN pkt'
      /\ Grown(elems', p)
      /\ obs' = IF raw = <<>> THEN obs ELSE obs \o <<Record(p)>>
  BY <1>0, OutputEffect
<1>2. /\ raw' = LeftNibble
      /\ src' = src /\ avail' = avail /\ pos' = pos /\ fault' = fault
  BY DEF outputPacket
<1>3. /\ IsSeq(obs') /\ Len(obs) \in Nat
      /\ \A k \in 1..Len(obs) : obs'[k] = obs[k]
      /\ \/ raw = <<>> /\ obs' = obs /\ Len(obs') = Len(obs)
         \/ /\ raw # <<>> /\ Len(obs') = Len(obs) + 1 /\ obs'[Len(obs) + 1] = Record(p)
  BY <1>0, <1>1, ObsGrows
<1>4. Typed'
  <2>1. /\ src \in Streams \cup NextStreams /\ avail \in Nat /\ 2 * avail <= Len(src)
        /\ pos \in Nat /\ pos <= 2 * avail
        /\ fault.n \in Nat /\ fault.obs \in 0..Len(obs) /\ fault.elems \in 0..Len(elems)
    BY <1>0 DEF Typed
  <2>2. LeftNibble \in Seq(Nat)
    BY <1>0, LeftNibbleLies
  <2>3. fault.obs \in 0..Len(obs')
    BY <1>3, <2>1
  <2>4. IsSeq(elems') /\ Len(elems') \in Nat /\ Len(elems) <= Len(elems')
    BY <1>1 DEF Grown
  <2>5. Len(elems) \in Nat
    BY <1>0, AnySeqLen DEF Typed
  <2>6. fault.elems \in 0..Len(elems')
    BY <2>1, <2>4, <2>5
  <2>7. QED  BY <1>1, <1>2, <1>3, <2>1, <2>2, <2>3, <2>4, <2>6 DEF Typed
<1>5. Shown'
  <2> SUFFICES ASSUME NEW n \in 2..Len(obs')
               PROVE  \/ obs'[n].type \in {"NotSync", "Async"} \/ obs'[n - 1].type = "NotSync"
                      \/ obs'[n].raw = Lies(src, obs'[n - 1].end, obs'[n].end)
    BY <1>2 DEF Shown
  <2>1. CASE n \in 2..Len(obs)
    <3>1. n \in 1..Len(obs) /\ n - 1 \in 1..Len(obs)
      BY <1>3, <2>1
    <3>2. obs'[n] = obs[n] /\ obs'[n - 1] = obs[n - 1]
      BY <1>3, <3>1
    <3>3. QED  BY <1>0, <2>1, <3>2 DEF Shown
  <2>2. CASE n \notin 2..Len(obs)
    <3>1. n = Len(obs) + 1 /\ Len(obs) \in 1..Len(obs) /\ obs'[n] = Record(p)
      BY <1>3, <2>2
    <3>2. n - 1 = Len(obs) /\ obs'[n - 1] = obs[Len(obs)]
      BY <1>3, <3>1
    <3>3. obs # <<>>
      BY <3>1
    <3>4. obs[Len(obs)].type = "NotSync" \/ raw = Lies(src, obs[Len(obs)].end, pos)
      BY <1>0, <3>3 DEF ReadOK, SavedFrom
    <3>5. obs'[n].raw = raw /\ obs'[n].end = pos
      BY <3>1, RecordFields
    <3>6. QED  BY <3>2, <3>4, <3>5
  <2>3. QED  BY <2>1, <2>2
<1>6. QED  BY <1>4, <1>5

\* An Async that was there before stays, and comes before data with a larger index.
LEMMA ResyncedStays ==
  ASSUME Len(obs) \in Nat, Len(obs') \in Nat, Len(obs) <= Len(obs'),
         \A k \in 1..Len(obs) : obs'[k] = obs[k], fault.obs \in Nat,
         fault' = fault, NEW i \in Nat, NEW j \in Nat, i <= j, Resynced(i)
  PROVE  \E n \in (fault'.obs + 1)..Len(obs') :
           obs'[n].type = "Async" /\ obs'[n].index \in Nat /\ obs'[n].index <= j
<1>1. PICK n \in (fault.obs + 1)..Len(obs) :
        obs[n].type = "Async" /\ obs[n].index \in Nat /\ obs[n].index <= i
  BY DEF Resynced
<1>2. n \in 1..Len(obs) /\ n \in (fault'.obs + 1)..Len(obs')
  BY <1>1
<1>3. obs'[n] = obs[n]
  BY <1>2
<1>4. obs'[n].type = "Async" /\ obs'[n].index \in Nat /\ obs'[n].index <= j
  BY <1>1, <1>3
<1>5. QED  BY <1>2, <1>4

\* No element of data comes behind an error without an Async, if the packet that
\* goes out cannot yield one, or lies behind an Async.
LEMMA OutputResynced ==
  ASSUME IInv, ~closed, NEW p, "type" \in DOMAIN p, NEW atEnd, outputPacket(p, atEnd),
         fault.n > 0 /\ dec.state = "Pkts" /\ p.type \notin Quiet => pktIndex \in Nat /\ Resynced(pktIndex)
  PROVE  ResyncedBehindFault'
<1>0. Typed /\ ResyncedBehindFault
  BY DEF IInv
<1>1. /\ Grown(elems', p)
      /\ obs' = IF raw = <<>> THEN obs ELSE obs \o <<Record(p)>>
  BY <1>0, OutputEffect
<1>2. fault' = fault
  BY DEF outputPacket
<1>3. /\ Len(obs) \in Nat /\ Len(obs') \in Nat /\ Len(obs) <= Len(obs')
      /\ \A k \in 1..Len(obs) : obs'[k] = obs[k]
  BY <1>0, <1>1, ObsGrows
<1>4. fault.obs \in Nat /\ fault.elems \in Nat /\ Len(elems) \in Nat
  BY <1>0, AnySeqLen DEF Typed
<1> SUFFICES ASSUME NEW k \in (fault.elems + 1)..Len(elems'),
                    elems'[k].kind = "SWT", fault.n > 0
             PROVE  \E n \in (fault.obs + 1)..Len(obs') :
                      obs'[n].type = "Async" /\ obs'[n].index <= elems'[k].index
  BY <1>2 DEF ResyncedBehindFault
<1>5. CASE k <= Len(elems)
  <2>1. k \in 1..Len(elems) /\ k \in (fault.elems + 1)..Len(elems)
    BY <1>4, <1>5
  <2>2. elems'[k] = elems[k]
    BY <1>1, <2>1 DEF Grown
  <2>3. PICK n \in (fault.obs + 1)..Len(obs) : obs[n].type = "Async" /\ obs[n].index <= elems[k].index
    BY <1>0, <2>1, <2>2 DEF ResyncedBehindFault
  <2>4. n \in 1..Len(obs) /\ n \in (fault.obs + 1)..Len(obs')
    BY <1>3, <1>4, <2>3
  <2>5. obs'[n] = obs[n]
    BY <1>3, <2>4
  <2>6. QED  BY <2>2, <2>3, <2>4, <2>5
<1>6. CASE ~(k <= Len(elems))
  <2>1. k \in (Len(elems) + 1)..Len(elems')
    BY <1>4, <1>6
  <2>2. elems'[k].index = pktIndex /\ dec.state = "Pkts" /\ p.type \notin Quiet
    BY <1>1, <2>1 DEF Grown
  <2>3. pktIndex \in Nat /\ Resynced(pktIndex)
    BY <2>2
  <2>4. pktIndex <= pktIndex
    BY <2>3
  <2>5. \E n \in (fault'.obs + 1)..Len(obs') :
          obs'[n].type = "Async" /\ obs'[n].index \in Nat /\ obs'[n].index <= pktIndex
    BY <1>2, <1>3, <1>4, <2>3, <2>4, ResyncedStays
  <2>6. QED  BY <1>2, <2>2, <2>5
<1>7. QED  BY <1>5, <1>6


LEMMA SendPktKeeps == IInv /\ SendPkt => IInv'
<1> SUFFICES ASSUME IInv, SendPkt
             PROVE  IInv'
  OBVIOUS
<1>0. /\ Typed /\ Control /\ Saved /\ ReadOK /\ Shown /\ Indexed /\ Behind
  BY DEF IInv
<1>1. /\ pc = "loop" /\ ps = "SendPkt" /\ outputPacket(pkt, FALSE) /\ closed' = closed
  BY DEF SendPkt, Turn
<1>2. ~closed /\ "type" \in DOMAIN pkt
  BY <1>0, <1>1 DEF Control, Typed
<1>3. /\ dec.state # "Pkts" => dec'.state # "Pkts" \/ pkt.type = "Async"
      /\ dec.state = "Pkts" /\ pkt.type \in BadTypes => dec'.state # "Pkts"
      /\ Grown(elems', pkt)
      /\ obs' = IF raw = <<>> THEN obs ELSE obs \o <<Record(pkt)>>
  BY <1>0, <1>1, <1>2, OutputEffect
<1>4. /\ raw' = LeftNibble /\ ps' = IF streamSync THEN "ProcHdr" ELSE "WaitSync"
      /\ src' = src /\ pos' = pos /\ fault' = fault /\ pc' = pc /\ pktIndex' = pktIndex
      /\ streamSync' = streamSync
  BY <1>1 DEF outputPacket
<1>5. /\ IsSeq(obs') /\ Len(obs) \in Nat
      /\ \A k \in 1..Len(obs) : obs'[k] = obs[k]
      /\ \/ raw = <<>> /\ obs' = obs /\ Len(obs') = Len(obs)
         \/ /\ raw # <<>> /\ Len(obs') = Len(obs) + 1 /\ obs'[Len(obs) + 1] = Record(pkt)
  BY <1>0, <1>3, ObsGrows
<1>6. /\ Record(pkt).index = pktIndex /\ Record(pkt).type = pkt.type /\ Record(pkt).raw = raw
      /\ Record(pkt).end = pos
  BY RecordFields
<1>7. Typed' /\ Shown'
  BY <1>1, <1>2, OutputKeeps
<1>8. ps' \in {"ProcHdr", "WaitSync"} /\ (ps' = "WaitSync" <=> ~streamSync)
  BY <1>4
<1>9. ~streamSync => BeforeSync'
  <2> SUFFICES ASSUME ~streamSync PROVE BeforeSync'
    OBVIOUS
  <2>1. pkt.type = "NotSync" /\ BeforeSync
    BY <1>0, <1>1 DEF Control
  <2>2. \A n \in 1..Len(obs') : obs'[n].type = "NotSync"
    BY <1>5, <1>6, <2>1 DEF BeforeSync
  <2>3. QED  BY <1>4, <2>1, <2>2 DEF BeforeSync
<1>10. Control'
  BY <1>1, <1>2, <1>4, <1>8, <1>9 DEF Control
<1>11. Saved'
  <2>1. pos % 2 = 1 => LeftNibble # <<>>
    BY DEF LeftNibble
  <2>2. QED  BY <1>4, <1>8, <2>1 DEF Saved
<1>12. ReadOK'
  <2>1. CASE raw = <<>>
    <3>1. BeforeSync
      BY <1>0, <1>1, <1>2, <2>1 DEF Saved
    <3>2. obs # <<>> => Len(obs) \in 1..Len(obs)
      <4>1. IsSeq(obs)
        BY <1>0 DEF Typed
      <4>2. PICK S : obs \in Seq(S)
        BY <4>1 DEF IsSeq
      <4>3. QED  BY <4>2, EmptySeq
    <3>3. obs' # <<>> => obs'[Len(obs')].type = "NotSync"
      BY <1>5, <2>1, <3>1, <3>2 DEF BeforeSync
    <3>4. QED  BY <3>3 DEF ReadOK
  <2>2. CASE raw # <<>>
    <3>1. obs'[Len(obs')].end = pos
      BY <1>5, <1>6, <2>2
    <3>2. pos \in 0..pos /\ LeftNibble = Lies(src, pos, pos)
      BY <1>0, LeftNibbleLies DEF Typed
    <3>3. SavedFrom(obs[Len(obs)])'
      BY <1>4, <3>1, <3>2 DEF SavedFrom
    <3>4. QED  BY <3>3 DEF ReadOK
  <2>3. QED  BY <2>1, <2>2
<1>13. Indexed'
  BY <1>8 DEF Indexed
<1>14. fault.n > 0 => /\ streamSync /\ raw # <<>> /\ pktIndex \in Nat /\ pktIndex <= Offset
                      /\ Here = pktIndex /\ Here' = Offset /\ Offset \in Nat
  <2> SUFFICES ASSUME fault.n > 0
               PROVE  /\ streamSync /\ raw # <<>> /\ pktIndex \in Nat /\ pktIndex <= Offset
                      /\ Here = pktIndex /\ Here' = Offset /\ Offset \in Nat
    OBVIOUS
  <2>1. ~BeforeSync
    BY DEF BeforeSync
  <2>2. streamSync
    BY <1>0, <1>1, <2>1 DEF Control
  <2>3. raw # <<>>
    BY <1>0, <1>1, <1>2, <2>1 DEF Saved
  <2>4. pktIndex \in Nat /\ pktIndex <= Offset
    BY <1>0, <1>1, <1>2 DEF Indexed
  <2>5. Here = pktIndex /\ Here' = Offset
    BY <1>1, <1>4, <2>2 DEF Here, Offset
  <2>6. Offset \in Nat
    BY <1>0 DEF Typed, Offset
  <2>7. QED  BY <2>2, <2>3, <2>4, <2>5, <2>6
<1>15. Behind'
  <2> SUFFICES ASSUME fault.n > 0
               PROVE  (OutOfSync' /\ NoneSince') \/ Resynced(Here)'
    BY <1>4 DEF Behind
  <2>1. fault.obs \in 0..Len(obs) /\ fault.elems \in 0..Len(elems) /\ Len(elems) \in Nat
    BY <1>0, AnySeqLen DEF Typed
  <2>2. Len(obs') \in Nat /\ Len(obs) <= Len(obs') /\ fault.obs \in Nat
    BY <1>5, <2>1
  <2>3. CASE Resynced(Here)
    <3>1. Resynced(pktIndex)
      BY <1>14, <2>3 DEF Resynced
    <3>2. \E n \in (fault'.obs + 1)..Len(obs') :
            obs'[n].type = "Async" /\ obs'[n].index \in Nat /\ obs'[n].index <= Offset
      BY <1>4, <1>5, <1>14, <2>2, <3>1, ResyncedStays
    <3>3. Resynced(Here)'
      BY <1>14, <3>2 DEF Resynced
    <3>4. QED  BY <3>3
  <2>4. CASE pkt.type = "Async"
    <3>1. obs'[Len(obs')] = Record(pkt) /\ Len(obs') = Len(obs) + 1
      BY <1>5, <1>14
    <3>2. Len(obs') \in (fault'.obs + 1)..Len(obs')
      BY <1>4, <1>5, <2>1, <3>1
    <3>3. Resynced(Here)'
      BY <1>6, <1>14, <2>4, <3>1, <3>2 DEF Resynced
    <3>4. QED  BY <3>3
  <2>5. CASE OutOfSync /\ NoneSince /\ pkt.type # "Async"
    <3>1. dec.state # "Pkts" \/ pkt.type \in BadTypes
      BY <1>1, <2>5 DEF OutOfSync
    <3>2. OutOfSync'
      BY <1>3, <2>5, <3>1 DEF OutOfSync
    <3>3. dec.state # "Pkts" \/ pkt.type \in Quiet
      BY <3>1 DEF Quiet
    <3>4. ASSUME NEW k \in (fault.elems + 1)..Len(elems')
          PROVE  elems'[k].kind # "SWT"
      <4>1. CASE k <= Len(elems)
        <5>1. k \in 1..Len(elems) /\ k \in (fault.elems + 1)..Len(elems)
          BY <2>1, <4>1
        <5>2. elems'[k] = elems[k]
          BY <1>3, <5>1 DEF Grown
        <5>3. QED  BY <2>5, <5>1, <5>2 DEF NoneSince
      <4>2. CASE ~(k <= Len(elems))
        <5>1. k \in (Len(elems) + 1)..Len(elems')
          BY <2>1, <4>2
        <5>2. QED  BY <1>3, <3>3, <5>1 DEF Grown
      <4>3. QED  BY <4>1, <4>2
    <3>5. NoneSince'
      BY <1>4, <3>4 DEF NoneSince
    <3>6. QED  BY <3>2, <3>5
  <2>6. QED  BY <1>0, <1>2, <2>3, <2>4, <2>5 DEF Behind
<1>16. ResyncedBehindFault'
  <2>1. fault.n > 0 /\ dec.state = "Pkts" /\ pkt.type \notin Quiet => pktIndex \in Nat /\ Resynced(pktIndex)
    <3> SUFFICES ASSUME fault.n > 0, dec.state = "Pkts", pkt.type \notin Quiet
                 PROVE  pktIndex \in Nat /\ Resynced(pktIndex)
      OBVIOUS
    <3>1. ~OutOfSync
      BY <1>1 DEF OutOfSync, Quiet
    <3>2. Resynced(Here)
      BY <1>0, <1>2, <3>1 DEF Behind
    <3>3. QED  BY <1>14, <3>2 DEF Resynced
  <2>2. QED  BY <1>1, <1>2, <2>1, OutputResynced
<1>17. QED  BY <1>7, <1>10, <1>11, <1>12, <1>13, <1>15, <1>16 DEF IInv

LEMMA CloseKeeps == IInv /\ Close => IInv'
<1> SUFFICES ASSUME IInv, Close
             PROVE  IInv'
  OBVIOUS
<1>0. Typed /\ Control /\ Shown /\ ResyncedBehindFault
  BY DEF IInv
<1>1. pc = "idle" /\ ~closed /\ closed'
  BY DEF Close
<1>2. Saved' /\ ReadOK' /\ Indexed' /\ Behind'
  BY <1>1 DEF Saved, ReadOK, Indexed, Behind
<1> DEFINE p == [pkt EXCEPT !.type = "IncompleteEOT"]
<1>3. CASE outputPacket(p, TRUE)
  <2>1. "type" \in DOMAIN p /\ p.type = "IncompleteEOT"
    BY <1>0 DEF Typed
  <2> HIDE DEF p
  <2>2. p.type \in Quiet
    BY <2>1 DEF Quiet
  <2>3. Typed' /\ Shown'
    BY <1>1, <1>3, <2>1, OutputKeeps
  <2>4. ResyncedBehindFault'
    BY <1>1, <1>3, <2>1, <2>2, OutputResynced
  <2>5. /\ ps' = IF streamSync THEN "ProcHdr" ELSE "WaitSync"
        /\ pc' = pc /\ streamSync' = streamSync
    BY <1>3 DEF outputPacket
  <2>6. Control'
    BY <1>1, <2>5 DEF Control
  <2>7. QED  BY <1>2, <2>3, <2>4, <2>6 DEF IInv
<1>4. CASE /\ elems' = IF numNibbles = 0 THEN Append(elems, EndElem(dec)) ELSE elems
           /\ UNCHANGED <<src, avail, pos, resets, stale, pc, ps, pktVars, pktIndex, raw, numNibbles,
                          sync, streamSync, dec, obs, fault>>
  <2>1. /\ src' = src /\ avail' = avail /\ pos' = pos /\ pc' = pc /\ ps' = ps /\ pkt' = pkt
        /\ raw' = raw /\ streamSync' = streamSync /\ dec' = dec /\ obs' = obs /\ fault' = fault
    BY <1>4 DEF pktVars
  <2>2. /\ src \in Streams \cup NextStreams /\ avail \in Nat /\ 2 * avail <= Len(src)
        /\ pos \in Nat /\ pos <= 2 * avail
        /\ raw \in Seq(Nat) /\ IsSeq(obs) /\ IsSeq(elems)
        /\ "type" \in DOMAIN pkt /\ "state" \in DOMAIN dec /\ "index" \in DOMAIN dec
        /\ fault.n \in Nat /\ fault.obs \in 0..Len(obs) /\ fault.elems \in 0..Len(elems)
    BY <1>0 DEF Typed
  <2> DEFINE x == EndElem(dec)
  <2>3. x.kind = "EOTrace"
    BY DEF EndElem, Elem
  <2>4. elems' = elems \/ elems' = Append(elems, x)
    BY <1>4
  <2> HIDE DEF x
  <2>5. elems' = elems \/ elems' = elems \o <<x>>
    BY <2>2, <2>4, AnyAppend
  <2>6. /\ IsSeq(elems') /\ Len(elems) \in Nat
        /\ Len(elems') = Len(elems) \/ (Len(elems') = Len(elems) + 1 /\ elems'[Len(elems) + 1] = x)
        /\ \A k \in 1..Len(elems) : elems'[k] = elems[k]
    <3>1. CASE elems' = elems
      BY <2>2, <3>1, AnySeqLen
    <3>2. CASE elems' = elems \o <<x>>
      BY <2>2, <3>2, AnyOneMore
    <3>3. QED  BY <2>5, <3>1, <3>2
  <2>7. fault.elems \in 0..Len(elems')
    BY <2>2, <2>6
  <2>8. Typed'
    BY <2>1, <2>2, <2>6, <2>7 DEF Typed
  <2>9. Shown'
    BY <1>0, <2>1 DEF Shown
  <2>10. Control'
    BY <1>0, <1>1, <2>1 DEF Control
  <2>11. ResyncedBehindFault'
    <3> SUFFICES ASSUME NEW k \in (fault.elems + 1)..Len(elems'), elems'[k].kind = "SWT", fault.n > 0
                 PROVE  \E n \in (fault.obs + 1)..Len(obs) :
                          obs[n].type = "Async" /\ obs[n].index <= elems'[k].index
      BY <2>1 DEF ResyncedBehindFault
    <3>1. k # Len(elems) + 1 \/ Len(elems') = Len(elems)
      BY <2>3, <2>6
    <3>2. k \in 1..Len(elems) /\ k \in (fault.elems + 1)..Len(elems)
      BY <2>2, <2>6, <3>1
    <3>3. elems'[k] = elems[k]
      BY <2>6, <3>2
    <3>4. QED  BY <1>0, <3>2, <3>3 DEF ResyncedBehindFault
  <2>12. QED  BY <1>2, <2>8, <2>9, <2>10, <2>11 DEF IInv
<1>5. QED  BY <1>3, <1>4 DEF Close

----------------------------------------------------------------------------
(* The whole.                                                              *)

\* A session that begins with nothing shown.
LEMMA FreshSession ==
  ASSUME obs = <<>>, elems = <<>>, fault = NoFault, ps = "WaitSync", pc = "idle"
  PROVE  Control /\ Saved /\ ReadOK /\ Shown /\ Indexed /\ Behind /\ ResyncedBehindFault
<1>1. Len(obs) = 0 /\ Len(elems) = 0
  OBVIOUS
<1>2. fault.n = 0
  BY DEF NoFault
<1>3. BeforeSync
  BY <1>1, <1>2 DEF BeforeSync
<1>4. Control
  BY <1>3 DEF Control
<1>5. Saved /\ ReadOK /\ Indexed /\ Behind
  BY <1>2 DEF Saved, ReadOK, Indexed, Behind
<1>6. Shown /\ ResyncedBehindFault
  BY <1>1, <1>2 DEF Shown, ResyncedBehindFault
<1>7. QED  BY <1>4, <1>5, <1>6

LEMMA FreshTyped ==
  ASSUME NEW s \in Streams \cup NextStreams
  PROVE  /\ 0 \in Nat /\ 2 * 0 <= Len(s) /\ 0 <= 2 * 0 /\ <<>> \in Seq(Nat) /\ IsSeq(<<>>)
         /\ "type" \in DOMAIN StartPacket
         /\ NoFault.n \in Nat /\ NoFault.obs \in 0..Len(<<>>) /\ NoFault.elems \in 0..Len(<<>>)
<1>1. s \in Seq(Nibbles)
  BY StreamsAssumption
<1>2. Len(s) \in Nat
  BY <1>1, LenProperties
<1>3. 2 * 0 <= Len(s) /\ 0 <= 2 * 0 /\ <<>> \in Seq(Nat)
  BY <1>2
<1>4. "type" \in DOMAIN StartPacket
  BY DEF StartPacket
<1>5. NoFault.n \in Nat /\ NoFault.obs \in 0..Len(<<>>) /\ NoFault.elems \in 0..Len(<<>>)
  BY DEF NoFault
<1>6. QED  BY <1>3, <1>4, <1>5, AnyEmpty

LEMMA InitHolds == Init => IInv
<1> SUFFICES ASSUME Init
             PROVE  IInv
  OBVIOUS
<1>1. /\ src \in Streams \cup NextStreams /\ avail = 0 /\ pos = 0 /\ pc = "idle" /\ ps = "WaitSync"
      /\ pkt = StartPacket /\ raw = <<>> /\ dec = NewDecoder /\ obs = <<>> /\ elems = <<>>
      /\ fault = NoFault
  BY DEF Init
<1>2. "state" \in DOMAIN NewDecoder /\ "index" \in DOMAIN NewDecoder
  BY DEF NewDecoder
<1>3. Typed
  BY <1>1, <1>2, FreshTyped DEF Typed
<1>4. Control /\ Saved /\ ReadOK /\ Shown /\ Indexed /\ Behind /\ ResyncedBehindFault
  BY <1>1, FreshSession
<1>5. QED  BY <1>3, <1>4 DEF IInv


LEMMA ResetKeeps == ASSUME IInv, NEW s \in NextStreams, Reset(s) PROVE IInv'
<1>1. /\ src' = s /\ avail' = 0 /\ pos' = 0 /\ pc = "idle" /\ pc' = pc /\ ps' = "WaitSync"
      /\ pkt' = StartPacket /\ raw' = <<>> /\ obs' = <<>> /\ elems' = <<>> /\ fault' = NoFault
      /\ dec' = resetDecoder([dec EXCEPT !.unsync = "ResetDecoder"])
  BY DEF Reset
<1>2. "state" \in DOMAIN dec' /\ "index" \in DOMAIN dec'
  BY <1>1 DEF IInv, Typed, resetDecoder
<1>3. s \in Streams \cup NextStreams
  OBVIOUS
<1>4. Typed'
  BY <1>1, <1>2, <1>3, FreshTyped DEF Typed
<1>5. Len(obs') = 0 /\ Len(elems') = 0 /\ fault'.n = 0
  BY <1>1 DEF NoFault
<1>6. BeforeSync'
  BY <1>5 DEF BeforeSync
<1>7. Control'
  BY <1>1, <1>6 DEF Control
<1>8. Saved' /\ ReadOK' /\ Indexed' /\ Behind'
  BY <1>1, <1>5 DEF Saved, ReadOK, Indexed, Behind
<1>9. Shown' /\ ResyncedBehindFault'
  BY <1>5 DEF Shown, ResyncedBehindFault
<1>10. QED  BY <1>4, <1>7, <1>8, <1>9 DEF IInv

LEMMA StutterKeeps == IInv /\ UNCHANGED vars => IInv'
<1> SUFFICES ASSUME IInv, UNCHANGED vars
             PROVE  IInv'
  OBVIOUS
<1>0. /\ Typed /\ Control /\ Saved /\ ReadOK /\ Shown /\ Indexed /\ Behind
      /\ ResyncedBehindFault
  BY DEF IInv
<1>1. /\ src' = src /\ avail' = avail /\ closed' = closed /\ pos' = pos /\ pc' = pc /\ ps' = ps
      /\ fn' = fn /\ pkt' = pkt /\ pktIndex' = pktIndex /\ raw' = raw
      /\ streamSync' = streamSync /\ dec' = dec
      /\ obs' = obs /\ elems' = elems /\ fault' = fault
  BY DEF vars, inputVars, pktVars, outVars
<1>2. Typed' /\ Shown' /\ ResyncedBehindFault'
  BY <1>0, <1>1 DEF Typed, Shown, ResyncedBehindFault
<1>3. Control' /\ Saved'
  BY <1>0, <1>1 DEF Control, Saved, BeforeSync
<1>4. ReadOK' /\ Indexed'
  BY <1>0, <1>1 DEF ReadOK, SavedFrom, Indexed, Offset
<1>5. Behind'
  BY <1>0, <1>1 DEF Behind, OutOfSync, NoneSince, Resynced, Here, Offset
<1>6. QED  BY <1>2, <1>3, <1>4, <1>5 DEF IInv

LEMMA NextKeeps == IInv /\ [Next]_vars => IInv'
<1> SUFFICES ASSUME IInv, [Next]_vars
             PROVE  IInv'
  OBVIOUS
<1>0. Typed
  BY DEF IInv
<1>1. CASE \E n \in ChunkSizes(Len(src)) : Write(n)
  BY <1>1, WriteCalls, CallsKeeps
<1>2. CASE Return
  BY <1>2, ReturnCalls, CallsKeeps
<1>3. CASE SyncOnEntry \/ SyncSearch \/ SyncNibble \/ SyncEnds
  BY <1>3, SyncWaits, WaitsKeeps
<1>4. CASE ProcHdr
  BY <1>0, <1>4, ProcHdrStep, InSyncKeeps
<1>5. CASE stmPktFExt \/ stmPktF0Ext
  BY <1>0, <1>5, FExtStep, InSyncKeeps
<1>6. CASE stmPktReserved
  BY <1>0, <1>6, ReservedStep, InSyncKeeps
<1>7. CASE ExtractVal
  BY <1>0, <1>7, ExtractValStep, InSyncKeeps
<1>8. CASE stmPktVersion
  BY <1>0, <1>8, VersionStep, InSyncKeeps
<1>9. CASE stmExtractTS
  BY <1>0, <1>9, ExtractTSStep, InSyncKeeps
<1>10. CASE stmExtractTSAgain
  BY <1>0, <1>10, ExtractTSAgainStep, InSyncKeeps
<1>11. CASE stmPktASync
  BY <1>0, <1>11, ASyncStep, InSyncKeeps
<1>12. CASE SendPkt
  BY <1>12, SendPktKeeps
<1>13. CASE Close
  BY <1>13, CloseKeeps
<1>14. CASE \E s \in NextStreams : Reset(s)
  BY <1>14, ResetKeeps
<1>15. CASE UNCHANGED vars
  BY <1>15, StutterKeeps
<1>16. QED  BY <1>1, <1>2, <1>3, <1>4, <1>5, <1>6, <1>7, <1>8, <1>9, <1>10, <1>11, <1>12, <1>13,
               <1>14, <1>15 DEF Next, Step

LEMMA ShownIsAsRead == Shown => ShownAsRead
BY DEF Shown, ShownAsRead, BytesOf, Lies

\* Whatever a caller does behind an error of Write, the decoder hands out no
\* element of data before the parser has shown an Async that comes behind the
\* error, and none that lies in front of that Async (the handlers of
\* stm_parser_packets.go, throwReservedHdrError and throwBadSequenceError of stm_parser.go).
THEOREM AlwaysResyncedBehindFault == Spec => []ResyncedBehindFault
<1>1. IInv => ResyncedBehindFault
  BY DEF IInv
<1>2. QED  BY <1>1, InitHolds, NextKeeps, PTL DEF Spec

\* Every packet behind the first sync is shown with the bytes it lies in, and of
\* a byte that it shares with the packet in front with the high nibble only,
\* across blocks, errors and resets (readNibble, savePacketByte).
THEOREM AlwaysShownAsRead == Spec => []ShownAsRead
<1>1. IInv => ShownAsRead
  BY ShownIsAsRead DEF IInv
<1>2. QED  BY <1>1, InitHolds, NextKeeps, PTL DEF Spec

----------------------------------------------------------------------------
(* How many nibbles a packet takes.                                        *)

PktTypes ==
  {"NotSync", "Async", "IncompleteEOT", "BadSequence", "Reserved", "Version", "Null", "M8", "Merr",
   "C8", "C16", "Gerr", "D4", "D8", "D16", "D32", "D64", "Flag", "Trig", "Freq"}

Channels == {c \in Nat : c < 256 * 256}
FullTimes == [1..16 -> Nibbles]

Packets ==
  [type : PktTypes, master : 0..255, channel : Channels, ts : FullTimes,
   tsType : {"Unknown", "NatBinary", "Grey"}, hasTS : BOOLEAN, marker : BOOLEAN,
   payload : Seq(Nibbles)]

SyncStates == [isSync : BOOLEAN, start : BOOLEAN, index : Nat, nF : 0..255]

Times == [needed : BOOLEAN, size : 0..16, known : BOOLEAN, nibs : Seq(Nibbles)]

\* The nibbles of the value of a packet.
ValueNibbles(type) ==
  CASE type = "D4" -> 1
    [] type \in {"M8", "Merr", "C8", "Gerr", "D8", "Trig"} -> 2
    [] type \in {"C16", "D16"} -> 4
    [] type \in {"D32", "Freq"} -> 8
    [] type = "D64" -> 16
    [] OTHER -> 0

DecStates == {"NoSync", "WaitSync", "Pkts"}

SideOK ==
  /\ resets \in 0..MaxResets /\ closed \in BOOLEAN /\ numNibbles \in 0..255
  /\ sync \in SyncStates /\ dec.state \in DecStates

PktOK == size \in 0..18 /\ val \in Seq(Nibbles) /\ pkt \in Packets /\ time \in Times

\* A value in the making has the nibbles that were read for it, and those still to
\* come are what its type asks for.
ValueOK ==
  /\ Len(val) <= 16
  /\ ps = "ProcHdr" => numNibbles = 0 /\ val = <<>>
  /\ ps = "ProcData" /\ fn = "FExt"  => numNibbles = 1 /\ val = <<>>
  /\ ps = "ProcData" /\ fn = "F0Ext" => numNibbles = 2 /\ val = <<>>
  /\ ps = "ProcData" /\ fn = "ExtractVal" =>
       numNibbles < size /\ Len(val) + size = numNibbles + ValueNibbles(pkt.type)

\* A time has no more nibbles than its size says, and none before it has a size.
TimeOK(t) == Len(t.nibs) <= t.size /\ (~t.known => t.nibs = <<>>)

Sized == SideOK /\ PktOK /\ ValueOK /\ TimeOK(time)

----------------------------------------------------------------------------
(* The table of handlers: a handler reads its opcode and its value.        *)

OpcodeNibbles(name) ==
  CASE name \in {"Version", "NullTS", "Trigger", "TriggerTS", "Freq"} -> 3
    [] name \in {"GERR", "C16", "D4TS", "D8TS", "D16TS", "D32TS", "D64TS", "D4M", "D8M", "D16M",
                 "D32M", "D64M", "Flag"} -> 2
    [] OTHER -> 1

Entries == [type : PktTypes, n : 1..18, marker : BOOLEAN, ts : BOOLEAN]

EntryFits(name, h) == h \in Entries /\ h.n = OpcodeNibbles(name) + ValueNibbles(h.type)

Fits(table) == \A name \in DOMAIN table : EntryFits(name, table[name])

\* The names without an entry.
Unhandled == {"F0Ext", "FExt", "Reserved", "ASync", "Version"}

LEMMA NullHandlersFit == Fits(NullHandlers) /\ DOMAIN NullHandlers \cap Unhandled = {}
<1>1. DOMAIN NullHandlers = {"Null", "NullTS"}
  BY DEF NullHandlers
<1>2. /\ EntryFits("Null", Handler("Null", 1, FALSE, FALSE))
      /\ EntryFits("NullTS", Handler("Null", 3, FALSE, TRUE))
  BY DEF EntryFits, Handler, Entries, PktTypes, OpcodeNibbles, ValueNibbles
<1>3. /\ NullHandlers["Null"] = Handler("Null", 1, FALSE, FALSE)
      /\ NullHandlers["NullTS"] = Handler("Null", 3, FALSE, TRUE)
  BY DEF NullHandlers
<1>4. \A name \in DOMAIN NullHandlers : EntryFits(name, NullHandlers[name])
  BY <1>1, <1>2, <1>3, Zenon
<1>5. QED  BY <1>1, <1>4 DEF Fits, Unhandled

LEMMA IDHandlersFit == Fits(IDHandlers) /\ DOMAIN IDHandlers \cap Unhandled = {}
<1>1. DOMAIN IDHandlers = {"M8", "MERR", "C8"}
  BY DEF IDHandlers
<1>2. /\ EntryFits("M8", Handler("M8", 3, FALSE, FALSE))
      /\ EntryFits("MERR", Handler("Merr", 3, FALSE, FALSE))
      /\ EntryFits("C8", Handler("C8", 3, FALSE, FALSE))
  BY DEF EntryFits, Handler, Entries, PktTypes, OpcodeNibbles, ValueNibbles
<1>3. /\ IDHandlers["M8"] = Handler("M8", 3, FALSE, FALSE)
      /\ IDHandlers["MERR"] = Handler("Merr", 3, FALSE, FALSE)
      /\ IDHandlers["C8"] = Handler("C8", 3, FALSE, FALSE)
  BY DEF IDHandlers
<1>4. \A name \in DOMAIN IDHandlers : EntryFits(name, IDHandlers[name])
  BY <1>1, <1>2, <1>3, Zenon
<1>5. QED  BY <1>1, <1>4 DEF Fits, Unhandled

LEMMA DataHandlersFit == Fits(DataHandlers) /\ DOMAIN DataHandlers \cap Unhandled = {}
<1>1. DOMAIN DataHandlers = {"D4", "D8", "D16", "D32", "D64"}
  BY DEF DataHandlers
<1>2. /\ EntryFits("D4", Handler("D4", 2, FALSE, FALSE))
      /\ EntryFits("D8", Handler("D8", 3, FALSE, FALSE))
      /\ EntryFits("D16", Handler("D16", 5, FALSE, FALSE))
      /\ EntryFits("D32", Handler("D32", 9, FALSE, FALSE))
      /\ EntryFits("D64", Handler("D64", 17, FALSE, FALSE))
  BY DEF EntryFits, Handler, Entries, PktTypes, OpcodeNibbles, ValueNibbles
<1>3. /\ DataHandlers["D4"] = Handler("D4", 2, FALSE, FALSE)
      /\ DataHandlers["D8"] = Handler("D8", 3, FALSE, FALSE)
      /\ DataHandlers["D16"] = Handler("D16", 5, FALSE, FALSE)
      /\ DataHandlers["D32"] = Handler("D32", 9, FALSE, FALSE)
      /\ DataHandlers["D64"] = Handler("D64", 17, FALSE, FALSE)
  BY DEF DataHandlers
<1>4. \A name \in DOMAIN DataHandlers : EntryFits(name, DataHandlers[name])
  BY <1>1, <1>2, <1>3, Zenon
<1>5. QED  BY <1>1, <1>4 DEF Fits, Unhandled

LEMMA MTSHandlersFit == Fits(MTSHandlers) /\ DOMAIN MTSHandlers \cap Unhandled = {}
<1>1. DOMAIN MTSHandlers = {"D4MTS", "D8MTS", "D16MTS", "D32MTS", "D64MTS"}
  BY DEF MTSHandlers
<1>2. /\ EntryFits("D4MTS", Handler("D4", 2, TRUE, TRUE))
      /\ EntryFits("D8MTS", Handler("D8", 3, TRUE, TRUE))
      /\ EntryFits("D16MTS", Handler("D16", 5, TRUE, TRUE))
      /\ EntryFits("D32MTS", Handler("D32", 9, TRUE, TRUE))
      /\ EntryFits("D64MTS", Handler("D64", 17, TRUE, TRUE))
  BY DEF EntryFits, Handler, Entries, PktTypes, OpcodeNibbles, ValueNibbles
<1>3. /\ MTSHandlers["D4MTS"] = Handler("D4", 2, TRUE, TRUE)
      /\ MTSHandlers["D8MTS"] = Handler("D8", 3, TRUE, TRUE)
      /\ MTSHandlers["D16MTS"] = Handler("D16", 5, TRUE, TRUE)
      /\ MTSHandlers["D32MTS"] = Handler("D32", 9, TRUE, TRUE)
      /\ MTSHandlers["D64MTS"] = Handler("D64", 17, TRUE, TRUE)
  BY DEF MTSHandlers
<1>4. \A name \in DOMAIN MTSHandlers : EntryFits(name, MTSHandlers[name])
  BY <1>1, <1>2, <1>3, Zenon
<1>5. QED  BY <1>1, <1>4 DEF Fits, Unhandled

LEMMA FlagTSHandlerFit == Fits(FlagTSHandler) /\ DOMAIN FlagTSHandler \cap Unhandled = {}
<1>1. DOMAIN FlagTSHandler = {"FlagTS"}
  BY DEF FlagTSHandler
<1>2. /\ EntryFits("FlagTS", Handler("Flag", 1, FALSE, TRUE))
  BY DEF EntryFits, Handler, Entries, PktTypes, OpcodeNibbles, ValueNibbles
<1>3. /\ FlagTSHandler["FlagTS"] = Handler("Flag", 1, FALSE, TRUE)
  BY DEF FlagTSHandler
<1>4. \A name \in DOMAIN FlagTSHandler : EntryFits(name, FlagTSHandler[name])
  BY <1>1, <1>2, <1>3, Zenon
<1>5. QED  BY <1>1, <1>4 DEF Fits, Unhandled

LEMMA ExtHandlersFit == Fits(ExtHandlers) /\ DOMAIN ExtHandlers \cap Unhandled = {}
<1>1. DOMAIN ExtHandlers = {"GERR", "C16"}
  BY DEF ExtHandlers
<1>2. /\ EntryFits("GERR", Handler("Gerr", 4, FALSE, FALSE))
      /\ EntryFits("C16", Handler("C16", 6, FALSE, FALSE))
  BY DEF EntryFits, Handler, Entries, PktTypes, OpcodeNibbles, ValueNibbles
<1>3. /\ ExtHandlers["GERR"] = Handler("Gerr", 4, FALSE, FALSE)
      /\ ExtHandlers["C16"] = Handler("C16", 6, FALSE, FALSE)
  BY DEF ExtHandlers
<1>4. \A name \in DOMAIN ExtHandlers : EntryFits(name, ExtHandlers[name])
  BY <1>1, <1>2, <1>3, Zenon
<1>5. QED  BY <1>1, <1>4 DEF Fits, Unhandled

LEMMA TSHandlersFit == Fits(TSHandlers) /\ DOMAIN TSHandlers \cap Unhandled = {}
<1>1. DOMAIN TSHandlers = {"D4TS", "D8TS", "D16TS", "D32TS", "D64TS"}
  BY DEF TSHandlers
<1>2. /\ EntryFits("D4TS", Handler("D4", 3, FALSE, TRUE))
      /\ EntryFits("D8TS", Handler("D8", 4, FALSE, TRUE))
      /\ EntryFits("D16TS", Handler("D16", 6, FALSE, TRUE))
      /\ EntryFits("D32TS", Handler("D32", 10, FALSE, TRUE))
      /\ EntryFits("D64TS", Handler("D64", 18, FALSE, TRUE))
  BY DEF EntryFits, Handler, Entries, PktTypes, OpcodeNibbles, ValueNibbles
<1>3. /\ TSHandlers["D4TS"] = Handler("D4", 3, FALSE, TRUE)
      /\ TSHandlers["D8TS"] = Handler("D8", 4, FALSE, TRUE)
      /\ TSHandlers["D16TS"] = Handler("D16", 6, FALSE, TRUE)
      /\ TSHandlers["D32TS"] = Handler("D32", 10, FALSE, TRUE)
      /\ TSHandlers["D64TS"] = Handler("D64", 18, FALSE, TRUE)
  BY DEF TSHandlers
<1>4. \A name \in DOMAIN TSHandlers : EntryFits(name, TSHandlers[name])
  BY <1>1, <1>2, <1>3, Zenon
<1>5. QED  BY <1>1, <1>4 DEF Fits, Unhandled

LEMMA MHandlersFit == Fits(MHandlers) /\ DOMAIN MHandlers \cap Unhandled = {}
<1>1. DOMAIN MHandlers = {"D4M", "D8M", "D16M", "D32M", "D64M"}
  BY DEF MHandlers
<1>2. /\ EntryFits("D4M", Handler("D4", 3, TRUE, FALSE))
      /\ EntryFits("D8M", Handler("D8", 4, TRUE, FALSE))
      /\ EntryFits("D16M", Handler("D16", 6, TRUE, FALSE))
      /\ EntryFits("D32M", Handler("D32", 10, TRUE, FALSE))
      /\ EntryFits("D64M", Handler("D64", 18, TRUE, FALSE))
  BY DEF EntryFits, Handler, Entries, PktTypes, OpcodeNibbles, ValueNibbles
<1>3. /\ MHandlers["D4M"] = Handler("D4", 3, TRUE, FALSE)
      /\ MHandlers["D8M"] = Handler("D8", 4, TRUE, FALSE)
      /\ MHandlers["D16M"] = Handler("D16", 6, TRUE, FALSE)
      /\ MHandlers["D32M"] = Handler("D32", 10, TRUE, FALSE)
      /\ MHandlers["D64M"] = Handler("D64", 18, TRUE, FALSE)
  BY DEF MHandlers
<1>4. \A name \in DOMAIN MHandlers : EntryFits(name, MHandlers[name])
  BY <1>1, <1>2, <1>3, Zenon
<1>5. QED  BY <1>1, <1>4 DEF Fits, Unhandled

LEMMA FlagHandlerFit == Fits(FlagHandler) /\ DOMAIN FlagHandler \cap Unhandled = {}
<1>1. DOMAIN FlagHandler = {"Flag"}
  BY DEF FlagHandler
<1>2. /\ EntryFits("Flag", Handler("Flag", 2, FALSE, FALSE))
  BY DEF EntryFits, Handler, Entries, PktTypes, OpcodeNibbles, ValueNibbles
<1>3. /\ FlagHandler["Flag"] = Handler("Flag", 2, FALSE, FALSE)
  BY DEF FlagHandler
<1>4. \A name \in DOMAIN FlagHandler : EntryFits(name, FlagHandler[name])
  BY <1>1, <1>2, <1>3, Zenon
<1>5. QED  BY <1>1, <1>4 DEF Fits, Unhandled

LEMMA TriggerHandlersFit == Fits(TriggerHandlers) /\ DOMAIN TriggerHandlers \cap Unhandled = {}
<1>1. DOMAIN TriggerHandlers = {"Trigger", "TriggerTS", "Freq"}
  BY DEF TriggerHandlers
<1>2. /\ EntryFits("Trigger", Handler("Trig", 5, FALSE, FALSE))
      /\ EntryFits("TriggerTS", Handler("Trig", 5, FALSE, TRUE))
      /\ EntryFits("Freq", Handler("Freq", 11, FALSE, FALSE))
  BY DEF EntryFits, Handler, Entries, PktTypes, OpcodeNibbles, ValueNibbles
<1>3. /\ TriggerHandlers["Trigger"] = Handler("Trig", 5, FALSE, FALSE)
      /\ TriggerHandlers["TriggerTS"] = Handler("Trig", 5, FALSE, TRUE)
      /\ TriggerHandlers["Freq"] = Handler("Freq", 11, FALSE, FALSE)
  BY DEF TriggerHandlers
<1>4. \A name \in DOMAIN TriggerHandlers : EntryFits(name, TriggerHandlers[name])
  BY <1>1, <1>2, <1>3, Zenon
<1>5. QED  BY <1>1, <1>4 DEF Fits, Unhandled

LEMMA JoinedFits ==
  ASSUME NEW f, NEW g, Fits(f), Fits(g), DOMAIN f \cap Unhandled = {}, DOMAIN g \cap Unhandled = {}
  PROVE  Fits(Joined(f, g)) /\ DOMAIN Joined(f, g) \cap Unhandled = {}
BY DEF Fits, Joined

LEMMA HandlersFit == Fits(handlers) /\ DOMAIN handlers \cap Unhandled = {}
<1> DEFINE s1 == Joined(NullHandlers, IDHandlers)
           s2 == Joined(Joined(DataHandlers, MTSHandlers), FlagTSHandler)
           l1 == Joined(ExtHandlers, TSHandlers)
           l2 == Joined(MHandlers, Joined(FlagHandler, TriggerHandlers))
<1>1. Fits(s1) /\ DOMAIN s1 \cap Unhandled = {}
  BY NullHandlersFit, IDHandlersFit, JoinedFits
<1>2. Fits(s2) /\ DOMAIN s2 \cap Unhandled = {}
  BY DataHandlersFit, MTSHandlersFit, FlagTSHandlerFit, JoinedFits
<1>3. Fits(l1) /\ DOMAIN l1 \cap Unhandled = {}
  BY ExtHandlersFit, TSHandlersFit, JoinedFits
<1>4. Fits(l2) /\ DOMAIN l2 \cap Unhandled = {}
  BY MHandlersFit, FlagHandlerFit, TriggerHandlersFit, JoinedFits
<1>5. handlers = Joined(Joined(s1, s2), Joined(l1, l2))
  BY DEF handlers
<1> HIDE DEF s1, s2, l1, l2
<1>6. QED  BY <1>1, <1>2, <1>3, <1>4, <1>5, JoinedFits

LEMMA NibbleCases ==
  ASSUME NEW x \in Nibbles
  PROVE  \/ x = 0 \/ x = 1 \/ x = 2 \/ x = 3 \/ x = 4 \/ x = 5 \/ x = 6 \/ x = 7
         \/ x = 8 \/ x = 9 \/ x = 10 \/ x = 11 \/ x = 12 \/ x = 13 \/ x = 14 \/ x = 15
BY DEF Nibbles

LEMMA OpcodeLengths ==
  ASSUME NEW x \in Nibbles
  PROVE  /\ OpcodeNibbles(op1(x)) = 1 /\ op1(x) # "F0Ext"
         /\ (op2(x) \in Unhandled \/ OpcodeNibbles(op2(x)) = 2) /\ op2(x) # "FExt"
         /\ (op3(x) \in Unhandled \/ OpcodeNibbles(op3(x)) = 3) /\ op3(x) \notin {"FExt", "F0Ext"}
<1>1. OpcodeNibbles(op1(x)) = 1 /\ op1(x) # "F0Ext"
  BY NibbleCases DEF op1, OpcodeNibbles
<1>2. (op2(x) \in Unhandled \/ OpcodeNibbles(op2(x)) = 2) /\ op2(x) # "FExt"
  BY NibbleCases DEF op2, OpcodeNibbles, Unhandled
<1>3. (op3(x) \in Unhandled \/ OpcodeNibbles(op3(x)) = 3) /\ op3(x) \notin {"FExt", "F0Ext"}
  BY NibbleCases DEF op3, OpcodeNibbles, Unhandled
<1>4. QED  BY <1>1, <1>2, <1>3

----------------------------------------------------------------------------
(* Numbers and times.                                                      *)

LEMMA NumberSteps ==
  ASSUME NEW v \in Seq(Nibbles)
  PROVE  \E g : /\ Number(v) = g[Len(v)] /\ g[0] = 0
                /\ \A n \in 1..Len(v) : g[n] = 16 * g[n - 1] + v[n]
<1> DEFINE N == Len(v)
           step == [n \in 1..N |-> [x \in Nat |-> 16 * x + v[n]]]
           IsNumber(f) == f = [k \in 0..N |-> IF k = 0 THEN 0 ELSE 16 * f[k - 1] + v[k]]
<1>1. N \in Nat
  BY LenProperties
<1>2. \A n \in 1..N : v[n] \in Nat
  BY ElementOfSeq DEF Nibbles
<1>3. step \in [1..N -> [Nat -> Nat]]
  <2>1. \A n \in 1..N, x \in Nat : 16 * x + v[n] \in Nat
    BY <1>2
  <2>2. QED  BY <2>1, Zenon
<1>4. PICK f : Iterates(f, N, Nat, 0, step)
  <2> HIDE DEF step, N
  <2>1. 0 \in Nat
    OBVIOUS
  <2>2. QED  BY <1>1, <1>3, <2>1, Iteration, Zenon
<1>5. IsNumber(f)
  <2>1. ASSUME NEW n \in 0..N PROVE f[n] = IF n = 0 THEN 0 ELSE 16 * f[n - 1] + v[n]
    <3>1. CASE n = 0
      BY <3>1, <1>4 DEF Iterates
    <3>2. CASE n # 0
      <4>1. n \in 1..N /\ n - 1 \in 0..N
        BY <1>1, <3>2
      <4>2. f[n - 1] \in Nat
        BY <4>1, <1>4 DEF Iterates
      <4>3. QED  BY <3>2, <4>1, <4>2, <1>4 DEF Iterates
    <3>3. QED  BY <3>1, <3>2
  <2> HIDE DEF N
  <2>2. QED  BY <2>1, <1>4 DEF Iterates
<1> DEFINE g == CHOOSE h : IsNumber(h)
<1>6. IsNumber(g)
  <2> HIDE DEF IsNumber
  <2>1. QED  BY <1>5, Zenon
<1>7. Number(v) = g[N]
  BY DEF Number
<1> HIDE DEF g
<1>8. g[0] = 0 /\ \A n \in 1..N : g[n] = 16 * g[n - 1] + v[n]
  <2>1. \A n \in 0..N : g[n] = IF n = 0 THEN 0 ELSE 16 * g[n - 1] + v[n]
    BY <1>6
  <2> HIDE DEF N
  <2>2. 0 \in 0..N /\ \A n \in 1..N : n \in 0..N /\ n # 0
    BY <1>1
  <2>3. QED  BY <2>1, <2>2, Zenon
<1>9. QED  BY <1>7, <1>8, Zenon

LEMMA HexValue ==
  ASSUME NEW a \in 0..15, NEW b \in 0..15, NEW c \in 0..15, NEW d \in 0..15
  PROVE  /\ 16 * a + b \in 0..255
         /\ 16 * (16 * (16 * a + b) + c) + d \in Channels
<1>1. 16 * a + b \in 0..255
  OBVIOUS
<1>2. ASSUME NEW x \in 0..255 PROVE 16 * (16 * x + c) + d \in Nat /\ 16 * (16 * x + c) + d < 256 * 256
  OBVIOUS
<1>3. QED  BY <1>1, <1>2 DEF Channels

LEMMA InRange == ASSUME NEW m \in Nat, NEW n \in Nat, n <= m PROVE n \in 0..m
OBVIOUS

\* A byte and two of them.
LEMMA NumberBounds ==
  ASSUME NEW v \in Seq(Nibbles)
  PROVE  /\ Len(v) = 2 => Number(v) \in 0..255
         /\ Len(v) = 4 => Number(v) \in Channels
<1>1. PICK g : /\ Number(v) = g[Len(v)] /\ g[0] = 0
               /\ \A n \in 1..Len(v) : g[n] = 16 * g[n - 1] + v[n]
  BY NumberSteps, Zenon
<1>2. \A n \in 1..Len(v) : v[n] \in 0..15
  BY ElementOfSeq DEF Nibbles
<1>3. Len(v) \in {2, 4} => g[2] = 16 * v[1] + v[2] /\ v[1] \in 0..15 /\ v[2] \in 0..15
  <2> SUFFICES ASSUME Len(v) \in {2, 4}
               PROVE  g[2] = 16 * v[1] + v[2] /\ v[1] \in 0..15 /\ v[2] \in 0..15
    OBVIOUS
  <2>1. 1 \in 1..Len(v) /\ 2 \in 1..Len(v)
    OBVIOUS
  <2>2. v[1] \in 0..15 /\ v[2] \in 0..15
    BY <1>2, <2>1, Zenon
  <2>3. g[1] = 16 * g[1 - 1] + v[1] /\ g[2] = 16 * g[2 - 1] + v[2] /\ g[0] = 0
    BY <1>1, <2>1, Zenon
  <2>4. g[1] = v[1]
    BY <2>2, <2>3
  <2>5. QED  BY <2>2, <2>3, <2>4
<1>4. CASE Len(v) = 2
  <2>1. Number(v) = 16 * v[1] + v[2] /\ v[1] \in 0..15 /\ v[2] \in 0..15
    BY <1>1, <1>3, <1>4
  <2>2. Number(v) \in 0..255
    BY <2>1, HexValue, Zenon
  <2>3. QED  BY <1>4, <2>2
<1>5. CASE Len(v) = 4
  <2>1. 3 \in 1..Len(v) /\ 4 \in 1..Len(v)
    BY <1>5
  <2>2. v[3] \in 0..15 /\ v[4] \in 0..15
    BY <1>2, <2>1, Zenon
  <2>3. g[3] = 16 * g[3 - 1] + v[3] /\ g[4] = 16 * g[4 - 1] + v[4]
    BY <1>1, <2>1, Zenon
  <2>4. g[2] = 16 * v[1] + v[2] /\ v[1] \in 0..15 /\ v[2] \in 0..15
    BY <1>3, <1>5
  <2>5. 3 - 1 = 2 /\ 4 - 1 = 3
    OBVIOUS
  <2>6. g[4] = 16 * (16 * (16 * v[1] + v[2]) + v[3]) + v[4]
    BY <2>3, <2>4, <2>5, Zenon
  <2>7. Number(v) \in Channels
    <3>1. Number(v) = g[4]
      BY <1>1, <1>5
    <3>2. 16 * (16 * (16 * v[1] + v[2]) + v[3]) + v[4] \in Channels
      BY <2>2, <2>4, HexValue, Zenon
    <3>3. QED  BY <2>6, <3>1, <3>2, Zenon
  <2>8. QED  BY <1>5, <2>7
<1>6. QED  BY <1>4, <1>5

LEMMA SameInterval ==
  ASSUME NEW m \in Nat, NEW n \in Nat, 1..m = 1..n
  PROVE  m = n
OBVIOUS

LEMMA SixteenNibbles ==
  ASSUME NEW s
  PROVE  s \in FullTimes <=> s \in Seq(Nibbles) /\ Len(s) = 16
<1>1. ASSUME s \in FullTimes PROVE s \in Seq(Nibbles) /\ Len(s) = 16
  <2>1. 16 \in Nat /\ s \in [1..16 -> Nibbles]
    BY <1>1 DEF FullTimes
  <2>2. s \in Seq(Nibbles)
    BY <2>1, SeqDef, Zenon
  <2>3. DOMAIN s = 1..16
    BY <2>1, Zenon
  <2>4. DOMAIN s = 1..Len(s) /\ Len(s) \in Nat
    BY <2>2, LenProperties, Zenon
  <2>5. QED  BY <2>1, <2>2, <2>3, <2>4, SameInterval, Zenon
<1>2. ASSUME s \in Seq(Nibbles), Len(s) = 16 PROVE s \in FullTimes
  <2>1. s \in [1..Len(s) -> Nibbles]
    BY <1>2, LenProperties, Zenon
  <2>2. QED  BY <1>2, <2>1 DEF FullTimes
<1>3. QED  BY <1>1, <1>2, Zenon

\* A packet with one field replaced.
LEMMA FieldReplaced ==
  ASSUME NEW p \in Packets
  PROVE  /\ \A x \in PktTypes : [p EXCEPT !.type = x] \in Packets
         /\ \A x \in 0..255 : [p EXCEPT !.master = x] \in Packets
         /\ \A x \in Channels : [p EXCEPT !.channel = x] \in Packets
         /\ \A x \in FullTimes : [p EXCEPT !.ts = x] \in Packets
         /\ \A x \in {"Unknown", "NatBinary", "Grey"} : [p EXCEPT !.tsType = x] \in Packets
         /\ \A x \in BOOLEAN : [p EXCEPT !.hasTS = x] \in Packets
         /\ \A x \in BOOLEAN : [p EXCEPT !.marker = x] \in Packets
         /\ \A x \in Seq(Nibbles) : [p EXCEPT !.payload = x] \in Packets
<1>1. \A x \in PktTypes : [p EXCEPT !.type = x] \in Packets
  BY DEF Packets
<1>2. \A x \in 0..255 : [p EXCEPT !.master = x] \in Packets
  BY DEF Packets
<1>3. \A x \in Channels : [p EXCEPT !.channel = x] \in Packets
  BY DEF Packets
<1>4. \A x \in FullTimes : [p EXCEPT !.ts = x] \in Packets
  BY DEF Packets
<1>5. \A x \in {"Unknown", "NatBinary", "Grey"} : [p EXCEPT !.tsType = x] \in Packets
  BY DEF Packets
<1>6. \A x \in BOOLEAN : [p EXCEPT !.hasTS = x] \in Packets
  BY DEF Packets
<1>7. \A x \in BOOLEAN : [p EXCEPT !.marker = x] \in Packets
  BY DEF Packets
<1>8. \A x \in Seq(Nibbles) : [p EXCEPT !.payload = x] \in Packets
  BY DEF Packets
<1>9. QED  BY <1>1, <1>2, <1>3, <1>4, <1>5, <1>6, <1>7, <1>8

LEMMA LowByteReplaced ==
  ASSUME NEW x \in Channels, NEW c \in 0..255
  PROVE  x - (x % 256) + c \in Channels
<1>1. x = 256 * (x \div 256) + (x % 256) /\ x \div 256 \in 0..255 /\ x % 256 \in 0..255
  BY DEF Channels
<1>2. QED  BY <1>1 DEF Channels

LEMMA ValuedShape ==
  ASSUME NEW p \in Packets, NEW v \in Seq(Nibbles), Len(v) = ValueNibbles(p.type)
  PROVE  Valued(p, v) \in Packets
<1>1. p.type \in PktTypes /\ p.channel \in Channels
  BY DEF Packets
<1>2. p.type \in {"M8", "C8"} => Number(v) \in 0..255
  BY NumberBounds DEF ValueNibbles
<1>3. p.type = "C16" => Number(v) \in Channels
  BY NumberBounds DEF ValueNibbles
<1>4. 0 \in Channels /\ 0 \in 0..255
  BY DEF Channels
<1>5. \A m \in 0..255 : SetMaster(p, m) \in Packets
  <2> TAKE m \in 0..255
  <2> DEFINE q == [p EXCEPT !.master = m]
  <2>1. q \in Packets
    BY FieldReplaced
  <2>2. SetMaster(p, m) = [q EXCEPT !.channel = 0]
    BY DEF SetMaster
  <2> HIDE DEF q
  <2>3. QED  BY <1>4, <2>1, <2>2, FieldReplaced
<1>6. /\ \A c \in Channels : SetChannel(p, c, FALSE) \in Packets
      /\ \A c \in 0..255 : SetChannel(p, c, TRUE) \in Packets
  <2>1. ASSUME NEW c \in Channels PROVE SetChannel(p, c, FALSE) \in Packets
    <3>1. SetChannel(p, c, FALSE) = [p EXCEPT !.channel = c]
      BY DEF SetChannel
    <3>2. QED  BY <3>1, FieldReplaced
  <2>2. ASSUME NEW c \in 0..255 PROVE SetChannel(p, c, TRUE) \in Packets
    <3> DEFINE d == p.channel - (p.channel % 256) + c
    <3>1. d \in Channels
      BY <1>1, LowByteReplaced
    <3>2. SetChannel(p, c, TRUE) = [p EXCEPT !.channel = d]
      BY DEF SetChannel
    <3> HIDE DEF d
    <3>3. QED  BY <3>1, <3>2, FieldReplaced
  <2>3. QED  BY <2>1, <2>2
<1>7. \A q \in Packets : [q EXCEPT !.payload = v] \in Packets
  BY FieldReplaced
<1>8. CASE p.type = "M8"
  <2>1. Valued(p, v) = SetMaster(p, Number(v))
    BY <1>8 DEF Valued
  <2>2. QED  BY <1>2, <1>5, <1>8, <2>1, Zenon
<1>9. CASE p.type = "Merr"
  <2>1. Valued(p, v) = [SetChannel(p, 0, FALSE) EXCEPT !.payload = v]
    BY <1>9 DEF Valued
  <2>2. SetChannel(p, 0, FALSE) \in Packets
    BY <1>4, <1>6
  <2>3. QED  BY <1>7, <2>1, <2>2, Zenon
<1>10. CASE p.type = "C8"
  <2>1. Valued(p, v) = SetChannel(p, Number(v), TRUE)
    BY <1>10 DEF Valued
  <2>2. QED  BY <1>2, <1>6, <1>10, <2>1, Zenon
<1>11. CASE p.type = "C16"
  <2>1. Valued(p, v) = SetChannel(p, Number(v), FALSE)
    BY <1>11 DEF Valued
  <2>2. QED  BY <1>3, <1>6, <1>11, <2>1, Zenon
<1>12. CASE p.type = "Gerr"
  <2>1. Valued(p, v) = [SetMaster(p, 0) EXCEPT !.payload = v]
    BY <1>12 DEF Valued
  <2>2. SetMaster(p, 0) \in Packets
    BY <1>4, <1>5
  <2>3. QED  BY <1>7, <2>1, <2>2, Zenon
<1>13. CASE p.type \notin {"M8", "Merr", "C8", "C16", "Gerr"}
  BY <1>7, <1>13 DEF Valued
<1>14. QED  BY <1>8, <1>9, <1>10, <1>11, <1>12, <1>13

\* The low nibbles of a time replaced.
LEMMA LowReplaced ==
  ASSUME NEW s \in FullTimes, NEW ns \in Seq(Nibbles), Len(ns) <= 16
  PROVE  SubSeq(s, 1, 16 - Len(ns)) \o ns \in FullTimes
<1>1. s \in Seq(Nibbles) /\ Len(s) = 16
  BY SixteenNibbles
<1>2. Len(ns) \in Nat /\ Len(ns) \in 0..16
  <2>1. Len(ns) \in Nat
    BY LenProperties
  <2>2. QED  BY <2>1, InRange
<1> DEFINE r == SubSeq(s, 1, 16 - Len(ns))
<1>3. r \in Seq(Nibbles) /\ Len(r) = 16 - Len(ns)
  <2>1. ASSUME NEW i \in 1..(16 - Len(ns)) PROVE s[i] \in Nibbles
    <3>1. i \in 1..16
      BY <1>2
    <3>2. QED  BY <1>1, <3>1, ElementOfSeq
  <2>2. 1 \in Int /\ 16 - Len(ns) \in Int
    BY <1>2
  <2>3. /\ SubSeq(s, 1, 16 - Len(ns)) \in Seq(Nibbles)
        /\ Len(SubSeq(s, 1, 16 - Len(ns))) = IF 1 <= 16 - Len(ns) THEN 16 - Len(ns) - 1 + 1 ELSE 0
    BY <1>1, <2>1, <2>2, SubSeqProperties
  <2>4. ASSUME NEW n \in 0..16
        PROVE  (IF 1 <= 16 - n THEN 16 - n - 1 + 1 ELSE 0) = 16 - n
    OBVIOUS
  <2>5. QED  BY <1>2, <2>3, <2>4, Zenon
<1>4. r \o ns \in Seq(Nibbles) /\ Len(r \o ns) = 16
  BY <1>2, <1>3, ConcatProperties
<1>5. QED  BY <1>4, SixteenNibbles

LEMMA TimestampShape ==
  ASSUME NEW p \in Packets, NEW ns \in Seq(Nibbles), Len(ns) <= 16
  PROVE  setTimestamp(p, ns) \in Packets
<1> DEFINE x == SubSeq(p.ts, 1, 16 - Len(ns)) \o ns
           q == [p EXCEPT !.ts = x]
<1>1. p.ts \in FullTimes
  BY DEF Packets
<1>2. x \in FullTimes
  BY <1>1, LowReplaced
<1>3. setTimestamp(p, ns) = [[p EXCEPT !.ts = x] EXCEPT !.hasTS = TRUE]
  BY DEF setTimestamp
<1> HIDE DEF x
<1>4. q \in Packets
  BY <1>2, FieldReplaced
<1> HIDE DEF q
<1>5. [q EXCEPT !.hasTS = TRUE] \in Packets
  BY <1>4, FieldReplaced
<1>6. QED  BY <1>3, <1>5 DEF q

\* The bits of a time.
BitTimes == [1..64 -> 0..1]

LEMMA SixtyFourBits == ASSUME NEW b \in BitTimes PROVE Len(b) = 64 /\ DOMAIN b = 1..64
<1>1. 64 \in Nat /\ b \in [1..64 -> 0..1]
  BY DEF BitTimes
<1>2. b \in Seq(0..1)
  BY <1>1, SeqDef, Zenon
<1>3. DOMAIN b = 1..64
  BY <1>1, Zenon
<1>4. DOMAIN b = 1..Len(b) /\ Len(b) \in Nat
  BY <1>2, LenProperties, Zenon
<1>5. QED  BY <1>1, <1>3, <1>4, SameInterval, Zenon

LEMMA BitPlace ==
  ASSUME NEW i \in 1..64
  PROVE  /\ ((i - 1) \div 4) + 1 \in 1..16
         /\ 2^(3 - ((i - 1) % 4)) \in 1..8
<1>1. ((i - 1) \div 4) + 1 \in 1..16 /\ 3 - ((i - 1) % 4) \in {0, 1, 2, 3}
  OBVIOUS
<1>2. 2^0 = 1 /\ 2^1 = 2 /\ 2^2 = 4 /\ 2^3 = 8
  OBVIOUS
<1>3. \A k \in {0, 1, 2, 3} : 2^k = 1 \/ 2^k = 2 \/ 2^k = 4 \/ 2^k = 8
  BY <1>2, Zenon
<1>4. 1 \in 1..8 /\ 2 \in 1..8 /\ 4 \in 1..8 /\ 8 \in 1..8
  OBVIOUS
<1>5. QED  BY <1>1, <1>3, <1>4, Zenon

LEMMA OneBit == ASSUME NEW x \in 0..15, NEW z \in 1..8 PROVE (x \div z) % 2 \in 0..1
<1>1. x \div z \in Int
  OBVIOUS
<1>2. QED  BY <1>1

LEMMA BitsShape == ASSUME NEW s \in FullTimes PROVE Bits(s) \in BitTimes
<1>1. Len(s) = 16 /\ 4 * 16 = 64 /\ \A k \in 1..16 : s[k] \in 0..15
  BY SixteenNibbles DEF FullTimes, Nibbles
<1>2. Bits(s) = [i \in 1..64 |-> (s[((i - 1) \div 4) + 1] \div 2^(3 - ((i - 1) % 4))) % 2]
  BY <1>1 DEF Bits
<1>3. ASSUME NEW i \in 1..64
      PROVE  (s[((i - 1) \div 4) + 1] \div 2^(3 - ((i - 1) % 4))) % 2 \in 0..1
  <2>1. s[((i - 1) \div 4) + 1] \in 0..15
    BY <1>1, BitPlace, Zenon
  <2>2. QED  BY <2>1, BitPlace, OneBit, Zenon
<1>4. QED  BY <1>2, <1>3, Zenon DEF BitTimes

LEMMA GrayBitsShape == ASSUME NEW b \in BitTimes PROVE GrayBits(b) \in BitTimes
<1>1. DOMAIN b = 1..64
  BY SixtyFourBits
<1>2. GrayBits(b) = [i \in 1..64 |-> IF i = 1 THEN b[1] ELSE (b[i] + b[i - 1]) % 2]
  BY <1>1, Zenon DEF GrayBits
<1>3. ASSUME NEW i \in 1..64 PROVE (IF i = 1 THEN b[1] ELSE (b[i] + b[i - 1]) % 2) \in 0..1
  <2>1. b[i] \in 0..1 /\ (i # 1 => b[i - 1] \in 0..1)
    BY DEF BitTimes
  <2>2. ASSUME NEW x \in 0..1, NEW y \in 0..1 PROVE (x + y) % 2 \in 0..1
    OBVIOUS
  <2>3. QED  BY <2>1, <2>2, Zenon
<1>4. QED  BY <1>2, <1>3, Zenon DEF BitTimes

LEMMA BinBitsShape == ASSUME NEW b \in BitTimes PROVE BinBits(b) \in BitTimes
<1>1. DOMAIN b = 1..64
  BY SixtyFourBits
<1>2. BinBits(b) = [i \in 1..64 |-> Cardinality({k \in 1..i : b[k] = 1}) % 2]
  BY <1>1, Zenon DEF BinBits
<1>3. ASSUME NEW i \in 1..64 PROVE Cardinality({k \in 1..i : b[k] = 1}) % 2 \in 0..1
  <2> DEFINE S == {k \in 1..i : b[k] = 1}
  <2>1. IsFiniteSet(1..i) /\ S \subseteq 1..i
    BY FS_Interval
  <2>2. Cardinality(S) \in Nat
    BY <2>1, FS_Subset, FS_CardinalityType
  <2>3. ASSUME NEW n \in Nat PROVE n % 2 \in 0..1
    OBVIOUS
  <2>4. QED  BY <2>2, <2>3, Zenon
<1>4. QED  BY <1>2, <1>3, Zenon DEF BitTimes

LEMMA PackShape == ASSUME NEW b \in BitTimes PROVE Pack(b) \in FullTimes
<1>1. Len(b) = 64 /\ 64 \div 4 = 16
  BY SixtyFourBits
<1>2. Pack(b) = [i \in 1..16 |-> 8 * b[4 * i - 3] + 4 * b[4 * i - 2] + 2 * b[4 * i - 1] + b[4 * i]]
  BY <1>1, Zenon DEF Pack
<1>3. ASSUME NEW i \in 1..16
      PROVE  8 * b[4 * i - 3] + 4 * b[4 * i - 2] + 2 * b[4 * i - 1] + b[4 * i] \in Nibbles
  <2>1. 4 * i - 3 \in 1..64 /\ 4 * i - 2 \in 1..64 /\ 4 * i - 1 \in 1..64 /\ 4 * i \in 1..64
    OBVIOUS
  <2>2. b[4 * i - 3] \in 0..1 /\ b[4 * i - 2] \in 0..1 /\ b[4 * i - 1] \in 0..1 /\ b[4 * i] \in 0..1
    BY <2>1, Zenon DEF BitTimes
  <2>3. ASSUME NEW w \in 0..1, NEW x \in 0..1, NEW y \in 0..1, NEW z \in 0..1
        PROVE  8 * w + 4 * x + 2 * y + z \in Nibbles
    BY DEF Nibbles
  <2>4. QED  BY <2>2, <2>3, Zenon
<1>4. QED  BY <1>2, <1>3, Zenon DEF FullTimes

LEMMA GrayUpdateShape ==
  ASSUME NEW p \in Packets, NEW ns \in Seq(Nibbles), Len(ns) <= 16
  PROVE  GrayUpdate(p, ns) \in Packets
<1> DEFINE u == SubSeq(binToGray(p.ts), 1, 16 - Len(ns)) \o ns
           t == grayToBin(u)
           low == SubSeq(t, 17 - Len(ns), 16)
<1>1. p.ts \in FullTimes
  BY DEF Packets
<1>2. binToGray(p.ts) \in FullTimes
  BY <1>1, BitsShape, GrayBitsShape, PackShape DEF binToGray
<1>3. u \in FullTimes
  BY <1>2, LowReplaced
<1> HIDE DEF u
<1>4. t \in FullTimes
  BY <1>3, BitsShape, BinBitsShape, PackShape DEF grayToBin
<1> HIDE DEF t
<1>5. low \in Seq(Nibbles) /\ Len(low) <= 16
  <2>1. Len(ns) \in Nat
    BY LenProperties
  <2>2. Len(ns) \in 0..16
    BY <2>1, InRange
  <2>3. ASSUME NEW i \in (17 - Len(ns))..16 PROVE t[i] \in Nibbles
    <3>1. i \in 1..16
      BY <2>2
    <3>2. QED  BY <1>4, <3>1 DEF FullTimes
  <2>4. 17 - Len(ns) \in Int /\ 16 \in Int
    BY <2>1
  <2>5. low \in Seq(Nibbles) /\ Len(low) = IF 17 - Len(ns) <= 16 THEN 16 - (17 - Len(ns)) + 1 ELSE 0
    BY <2>3, <2>4, SubSeqProperties
  <2>6. ASSUME NEW n \in 0..16 PROVE (IF 17 - n <= 16 THEN 16 - (17 - n) + 1 ELSE 0) <= 16
    OBVIOUS
  <2>7. QED  BY <2>2, <2>5, <2>6, Zenon
<1>6. GrayUpdate(p, ns) = setTimestamp(p, low)
  BY DEF GrayUpdate, u, t
<1> HIDE DEF low
<1>7. QED  BY <1>5, <1>6, TimestampShape
----------------------------------------------------------------------------
(* The handlers keep to the sizes.                                         *)

LEMMA CheckSyncShape ==
  ASSUME NEW s \in SyncStates, NEW x, pos \in Nat
  PROVE  checkSyncNibble(s, x) \in SyncStates /\ Unsynced(s) \in SyncStates
<1>1. Unsynced(s) \in SyncStates
  <2>1. FALSE \in BOOLEAN /\ 0 \in 0..255
    OBVIOUS
  <2>2. Unsynced(s) = [[[s EXCEPT !.isSync = FALSE] EXCEPT !.start = FALSE] EXCEPT !.nF = 0]
    BY DEF Unsynced
  <2>3. [s EXCEPT !.isSync = FALSE] \in SyncStates
    BY DEF SyncStates
  <2>4. [[s EXCEPT !.isSync = FALSE] EXCEPT !.start = FALSE] \in SyncStates
    BY <2>3 DEF SyncStates
  <2>5. [[[s EXCEPT !.isSync = FALSE] EXCEPT !.start = FALSE] EXCEPT !.nF = 0] \in SyncStates
    BY <2>1, <2>4 DEF SyncStates
  <2>6. QED  BY <2>2, <2>5
<1>2. CASE x = 15
  <2>1. pos \div 2 \in Nat /\ (s.nF + 1) % 256 \in 0..255 /\ s.nF \in 0..255 /\ s.index \in Nat
    <3>1. s.nF \in 0..255 /\ s.index \in Nat
      BY DEF SyncStates
    <3>2. QED  BY <3>1
  <2>2. checkSyncNibble(s, x) = [s EXCEPT !.index = IF s.start THEN @ ELSE pos \div 2,
                                          !.start = TRUE, !.nF = (@ + 1) % 256]
    BY <1>2 DEF checkSyncNibble
  <2>3. QED  BY <1>1, <2>1, <2>2 DEF SyncStates
<1>3. CASE x = 0 /\ s.start /\ s.nF >= 21
  <2>1. checkSyncNibble(s, x) = [s EXCEPT !.isSync = TRUE, !.nF = 21] /\ 21 \in 0..255
    BY <1>3 DEF checkSyncNibble
  <2>2. QED  BY <1>1, <2>1 DEF SyncStates
<1>4. CASE x # 15 /\ ~(x = 0 /\ s.start /\ s.nF >= 21)
  <2>1. checkSyncNibble(s, x) = Unsynced(s)
    BY <1>4 DEF checkSyncNibble
  <2>2. QED  BY <1>1, <2>1
<1>5. QED  BY <1>2, <1>3, <1>4

\* What a nibble is, and how the count goes on.
LEMMA NibbleRead ==
  ASSUME Typed, SideOK, readNibble
  PROVE  Nibble \in Nibbles /\ numNibbles' \in 0..255 /\ (numNibbles < 255 => numNibbles' = numNibbles + 1)
<1>1. pos < 2 * avail /\ numNibbles' = (numNibbles + 1) % 256
  BY DEF readNibble, More
<1>2. Len(src) \in Nat /\ pos \in Nat /\ avail \in Nat /\ 2 * avail <= Len(src) /\ src \in Seq(Nibbles)
  BY StreamLen, StreamsAssumption DEF Typed
<1>3. pos + 1 \in 1..Len(src)
  <2>1. ASSUME NEW n \in Nat, NEW m \in Nat, NEW k \in Nat, n < 2 * m, 2 * m <= k PROVE n + 1 \in 1..k
    BY <2>1
  <2>2. QED  BY <1>1, <1>2, <2>1
<1>4. Nibble \in Nibbles
  BY <1>2, <1>3, ElementOfSeq DEF Nibble
<1>5. ASSUME NEW n \in 0..255 PROVE (n + 1) % 256 \in 0..255 /\ (n < 255 => (n + 1) % 256 = n + 1)
  OBVIOUS
<1>6. numNibbles \in 0..255
  BY DEF SideOK
<1>7. QED  BY <1>1, <1>4, <1>5, <1>6, Zenon

\* The steps that read a nibble, or none.
LEMMA SideKeeps ==
  ASSUME Typed, SideOK, UNCHANGED <<resets, closed, dec>>,
         readNibble \/ numNibbles' = numNibbles,
         sync' \in SyncStates
  PROVE  SideOK'
<1>1. numNibbles' \in 0..255
  BY NibbleRead DEF SideOK
<1>2. QED  BY <1>1 DEF SideOK

\* A packet that has failed asks for no value.
LEMMA FatalSized ==
  ASSUME PktOK, ValueOK, NEW type \in PktTypes, Fatal(type), fn' \in FaultFns,
         time' \in Times, TimeOK(time')
  PROVE  PktOK' /\ ValueOK' /\ TimeOK(time)'
<1>1. pkt' = [pkt EXCEPT !.type = type] /\ ps' = "ProcData" /\ size' = size /\ val' = val
  BY DEF Fatal
<1>2. pkt' \in Packets
  BY <1>1, FieldReplaced DEF PktOK
<1>3. PktOK'
  BY <1>1, <1>2 DEF PktOK
<1>4. ValueOK'
  BY <1>1 DEF ValueOK, FaultFns
<1>5. QED  BY <1>3, <1>4

LEMMA NoTimeShape ==
  ASSUME NEW b \in BOOLEAN
  PROVE  /\ [NoTime EXCEPT !.needed = b] \in Times /\ TimeOK([NoTime EXCEPT !.needed = b])
<1>1. Len(<<>>) = 0 /\ <<>> \in Seq(Nibbles) /\ 0 \in 0..16
  OBVIOUS
<1>2. NoTime \in Times /\ NoTime.size = 0 /\ NoTime.nibs = <<>>
  BY <1>1 DEF NoTime, Times
<1>3. [NoTime EXCEPT !.needed = b] \in Times
  BY <1>2 DEF Times
<1>4. [NoTime EXCEPT !.needed = b].size = 0 /\ [NoTime EXCEPT !.needed = b].nibs = <<>>
  BY <1>2 DEF Times
<1>5. QED  BY <1>1, <1>3, <1>4 DEF TimeOK

LEMMA EndOfValueSized ==
  ASSUME NEW p \in Packets, NEW v \in Seq(Nibbles), NEW b \in BOOLEAN, Len(v) = ValueNibbles(p.type),
         AtEndOfValue(p, v, b)
  PROVE  /\ pkt' \in Packets /\ time' \in Times /\ TimeOK(time')
         /\ ps' = "SendPkt" \/ (ps' = "ProcData" /\ fn' = "ExtractTS")
<1>1. /\ pkt' = Valued(p, v) /\ time' = [NoTime EXCEPT !.needed = b]
      /\ ps' = "SendPkt" \/ (ps' = "ProcData" /\ fn' = "ExtractTS")
  BY DEF AtEndOfValue
<1>2. QED  BY <1>1, ValuedShape, NoTimeShape, Zenon

\* A handler begins, k nibbles into its packet.
LEMMA BeginSized ==
  ASSUME PktOK, ValueOK, TimeOK(time), NEW k \in 1..3, numNibbles' = k, val = <<>>,
         NEW name, Begin(name), name \in Unhandled \/ OpcodeNibbles(name) = k,
         name = "FExt" => k = 1, name = "F0Ext" => k = 2
  PROVE  PktOK' /\ ValueOK' /\ TimeOK(time)'
<1>1. Len(<<>>) = 0 /\ <<>> \in Seq(Nibbles)
  OBVIOUS
<1>2. CASE /\ name \in {"FExt", "F0Ext", "ASync"}
           /\ fn' = name /\ ps' = "ProcData" /\ GoesOn /\ UNCHANGED <<size, pkt, val, time, streamSync>>
  <2>1. PktOK' /\ TimeOK(time)'
    BY <1>2 DEF PktOK
  <2>2. ValueOK'
    BY <1>2 DEF ValueOK
  <2>3. QED  BY <2>1, <2>2
<1>3. CASE /\ name = "Version"
           /\ fn' = name /\ ps' = "ProcData" /\ pkt' = [pkt EXCEPT !.type = name]
           /\ GoesOn /\ UNCHANGED <<size, val, time, streamSync>>
  <2>1. "Version" \in PktTypes
    BY DEF PktTypes
  <2>2. pkt' \in Packets
    BY <1>3, <2>1, FieldReplaced DEF PktOK
  <2>3. PktOK' /\ TimeOK(time)'
    BY <1>3, <2>2 DEF PktOK
  <2>4. ValueOK'
    BY <1>3 DEF ValueOK
  <2>5. QED  BY <2>3, <2>4
<1>4. CASE /\ name \in DOMAIN handlers
           /\ LET h == handlers[name]
                  p == [pkt EXCEPT !.type = h.type, !.marker = h.marker]
              IN  /\ size' = h.n
                  /\ IF h.n = numNibbles' THEN AtEndOfValue(p, <<>>, h.ts)
                     ELSE /\ fn' = "ExtractVal" /\ ps' = "ProcData" /\ pkt' = p
                          /\ time' = [NoTime EXCEPT !.needed = h.ts]
           /\ GoesOn /\ UNCHANGED <<val, streamSync>>
  <2> DEFINE h == handlers[name]
             q == [pkt EXCEPT !.type = h.type]
             p == [pkt EXCEPT !.type = h.type, !.marker = h.marker]
  <2>1. name \notin Unhandled /\ EntryFits(name, h)
    BY <1>4, HandlersFit DEF Fits
  <2>2. h \in Entries /\ h.n = k + ValueNibbles(h.type)
    BY <2>1 DEF EntryFits
  <2>3. /\ size' = h.n /\ val' = val
        /\ \/ h.n = k /\ AtEndOfValue(p, <<>>, h.ts)
           \/ /\ h.n # k
              /\ fn' = "ExtractVal" /\ ps' = "ProcData" /\ pkt' = p
              /\ time' = [NoTime EXCEPT !.needed = h.ts]
    BY <1>4
  <2> HIDE DEF h
  <2>4. h.type \in PktTypes /\ h.n \in 1..18 /\ h.marker \in BOOLEAN /\ h.ts \in BOOLEAN
    BY <2>2 DEF Entries
  <2>5. q \in Packets
    BY <2>4, FieldReplaced DEF PktOK
  <2>6. p = [q EXCEPT !.marker = h.marker]
    OBVIOUS
  <2>7. p.type = h.type
    BY DEF PktOK, Packets
  <2> HIDE DEF p, q
  <2>8. p \in Packets
    BY <2>4, <2>5, <2>6, FieldReplaced
  <2>9. ValueNibbles(h.type) \in Nat
    BY DEF ValueNibbles
  <2>10. size' \in 0..18 /\ val' \in Seq(Nibbles) /\ Len(val') <= 16
    BY <1>1, <2>3, <2>4
  <2>11. CASE h.n = k /\ AtEndOfValue(p, <<>>, h.ts)
    <3>1. Len(<<>>) = ValueNibbles(p.type)
      BY <1>1, <2>2, <2>7, <2>9, <2>11
    <3>2. /\ pkt' \in Packets /\ time' \in Times /\ TimeOK(time')
          /\ ps' = "SendPkt" \/ (ps' = "ProcData" /\ fn' = "ExtractTS")
      BY <1>1, <2>4, <2>8, <2>11, <3>1, EndOfValueSized
    <3>3. QED  BY <2>10, <3>2 DEF PktOK, ValueOK
  <2>12. CASE /\ h.n # k
              /\ fn' = "ExtractVal" /\ ps' = "ProcData" /\ pkt' = p
              /\ time' = [NoTime EXCEPT !.needed = h.ts]
    <3>1. time' \in Times /\ TimeOK(time')
      BY <2>4, <2>12, NoTimeShape
    <3>2. k < size' /\ 0 + size' = k + ValueNibbles(pkt'.type)
      BY <2>2, <2>3, <2>7, <2>9, <2>12
    <3>3. Len(val') = 0
      BY <1>1, <2>3
    <3>4. ValueOK'
      BY <2>10, <2>12, <3>2, <3>3 DEF ValueOK
    <3>5. QED  BY <2>8, <2>10, <2>12, <3>1, <3>4 DEF PktOK
  <2>13. QED  BY <2>3, <2>11, <2>12
<1>5. CASE name = "Reserved" /\ fn' = name /\ Fatal(name) /\ UNCHANGED time
  <2>1. name \in PktTypes /\ fn' \in FaultFns
    BY <1>5 DEF PktTypes, FaultFns
  <2>2. time' \in Times /\ TimeOK(time')
    BY <1>5 DEF PktOK
  <2>3. QED  BY <1>5, <2>1, <2>2, FatalSized
<1>6. QED  BY <1>2, <1>3, <1>4, <1>5 DEF Begin

\* A step that leaves the value as it is, in a packet of which no value is read.
LEMMA ValueRests ==
  ASSUME PktOK, ValueOK, UNCHANGED <<size, val>>, pkt' \in Packets, time' \in Times, TimeOK(time'),
         ps' # "ProcHdr", ps' = "ProcData" => fn' \in FaultFns
  PROVE  PktOK' /\ ValueOK' /\ TimeOK(time)'
<1>1. PktOK'
  BY DEF PktOK
<1>2. ValueOK'
  BY DEF ValueOK, FaultFns
<1>3. QED  BY <1>1, <1>2

\* The calls.
LEMMA CallsSized ==
  ASSUME Sized, UNCHANGED <<resets, closed, ps, fn, size, pkt, val, time, numNibbles, sync, dec>>
  PROVE  Sized'
<1>1. SideOK' /\ PktOK'
  BY DEF Sized, SideOK, PktOK
<1>2. ValueOK' /\ TimeOK(time)'
  BY DEF Sized, ValueOK
<1>3. QED  BY <1>1, <1>2 DEF Sized

LEMMA WriteSized == ASSUME Sized, NEW n, Write(n) PROVE Sized'
<1>1. UNCHANGED <<resets, closed, ps, fn, size, pkt, val, time, numNibbles, sync, dec>>
  BY DEF Write, inputVars, pktVars, outVars
<1>2. QED  BY <1>1, CallsSized

LEMMA ReturnSized == Sized /\ Return => Sized'
<1> SUFFICES ASSUME Sized, Return PROVE Sized'
  OBVIOUS
<1>1. UNCHANGED <<resets, closed, ps, fn, size, pkt, val, time, numNibbles, sync, dec>>
  BY DEF Return, inputVars, pktVars, outVars
<1>2. QED  BY <1>1, CallsSized

LEMMA StutterSized == Sized /\ UNCHANGED vars => Sized'
<1> SUFFICES ASSUME Sized, UNCHANGED vars PROVE Sized'
  OBVIOUS
<1>1. UNCHANGED <<resets, closed, ps, fn, size, pkt, val, time, numNibbles, sync, dec>>
  BY DEF vars, inputVars, pktVars, outVars
<1>2. QED  BY <1>1, CallsSized

\* The search for a sync sends what it finds.
LEMMA SyncDoneSized ==
  ASSUME Typed, Sized, NEW nn, NEW r, NEW index, NEW onEntry, SyncDone(sync, nn, r, index, onEntry),
         numNibbles' \in 0..255, UNCHANGED <<resets, closed, fn, size, val, time, dec>>
  PROVE  Sized'
<1>1. /\ ps' = "SendPkt"
      /\ pkt' = [pkt EXCEPT !.type = "Async"] \/ pkt' = [pkt EXCEPT !.type = "NotSync"]
      /\ sync' = Unsynced(sync) \/ sync' = sync
  BY DEF SyncDone
<1>2. "Async" \in PktTypes /\ "NotSync" \in PktTypes
  BY DEF PktTypes
<1>3. pkt \in Packets /\ sync \in SyncStates /\ time \in Times /\ TimeOK(time) /\ PktOK /\ ValueOK
  BY DEF Sized, SideOK, PktOK
<1>4. pkt' \in Packets
  BY <1>1, <1>2, <1>3, FieldReplaced
<1>5. pos \in Nat
  BY DEF Typed
<1>6. Unsynced(sync) \in SyncStates
  BY <1>3, <1>5, CheckSyncShape
<1>7. sync' \in SyncStates
  BY <1>1, <1>3, <1>6
<1>8. SideOK'
  BY <1>7 DEF Sized, SideOK
<1>9. PktOK' /\ ValueOK' /\ TimeOK(time)'
  BY <1>1, <1>3, <1>4, ValueRests
<1>10. QED  BY <1>8, <1>9 DEF Sized

LEMMA SyncSized == ASSUME IInv, Sized, SyncOnEntry \/ SyncSearch \/ SyncNibble \/ SyncEnds PROVE Sized'
<1>1. Typed /\ Control
  BY DEF IInv
<1>2. SideOK /\ PktOK /\ ValueOK /\ TimeOK(time)
  BY DEF Sized
<1>3. sync \in SyncStates /\ numNibbles \in 0..255 /\ pkt \in Packets /\ time \in Times /\ pos \in Nat
  BY <1>1, <1>2 DEF SideOK, PktOK, Typed
<1>4. ASSUME NEW m \in 0..255 PROVE (m + 1) % 256 \in 0..255
  OBVIOUS
<1>5. CASE SyncOnEntry
  <2>1. /\ numNibbles' = (sync.nF + 1) % 256 /\ SyncDone(sync, numNibbles', raw, Offset, TRUE)
        /\ UNCHANGED <<resets, closed, fn, size, val, time, dec>>
    BY <1>5 DEF SyncOnEntry, inputVars, outVars
  <2>2. sync.nF \in 0..255
    BY <1>3 DEF SyncStates
  <2>3. numNibbles' \in 0..255
    BY <1>4, <2>1, <2>2
  <2>4. QED  BY <1>1, <2>1, <2>3, SyncDoneSized
<1>6. CASE SyncSearch
  <2>1. /\ ps = "WaitSync" /\ numNibbles' = sync.nF
        /\ UNCHANGED <<resets, closed, ps, fn, size, pkt, val, time, sync, dec>>
    BY <1>6 DEF SyncSearch, Turn, inputVars, pktVars, outVars
  <2>2. SideOK'
    BY <1>2, <2>1 DEF SideOK, SyncStates
  <2>3. PktOK' /\ ValueOK' /\ TimeOK(time)'
    BY <1>2, <1>3, <2>1, ValueRests
  <2>4. QED  BY <2>2, <2>3 DEF Sized
<1>7. CASE SyncNibble
  <2>1. /\ ps = "WaitSync" /\ readNibble /\ sync' = checkSyncNibble(sync, Nibble)
        /\ UNCHANGED <<resets, closed, ps, fn, size, pkt, val, time, dec>>
    BY <1>1, <1>7 DEF SyncNibble, Control, inputVars, pktVars, outVars
  <2>2. sync' \in SyncStates
    BY <1>3, <2>1, CheckSyncShape
  <2>3. SideOK'
    BY <1>1, <1>2, <2>1, <2>2, SideKeeps
  <2>4. PktOK' /\ ValueOK' /\ TimeOK(time)'
    BY <1>2, <1>3, <2>1, ValueRests
  <2>5. QED  BY <2>3, <2>4 DEF Sized
<1>8. CASE SyncEnds
  <2>1. /\ UNCHANGED <<resets, closed, fn, size, val, time, numNibbles, dec>>
        /\ \/ SyncDone(sync, numNibbles, raw, pktIndex, FALSE)
           \/ UNCHANGED <<ps, pkt, sync>>
    BY <1>8 DEF SyncEnds, inputVars, outVars
  <2>2. CASE SyncDone(sync, numNibbles, raw, pktIndex, FALSE)
    BY <1>1, <1>3, <2>1, <2>2, SyncDoneSized
  <2>3. CASE UNCHANGED <<ps, pkt, sync>>
    BY <2>1, <2>3, CallsSized
  <2>4. QED  BY <2>1, <2>2, <2>3
<1>9. QED  BY <1>5, <1>6, <1>7, <1>8

----------------------------------------------------------------------------
(* The handlers, one by one.                                               *)

\* The sync state behind a nibble, in every handler that reads one.
LEMMA HandlerSide ==
  ASSUME Typed, Sized, readNibble, sync' = checkSyncNibble(sync, Nibble), UNCHANGED <<resets, closed, dec>>
  PROVE  SideOK' /\ Nibble \in Nibbles /\ numNibbles' \in 0..255
         /\ (numNibbles < 255 => numNibbles' = numNibbles + 1)
<1>1. SideOK /\ sync \in SyncStates /\ pos \in Nat
  BY DEF Sized, SideOK, Typed
<1>2. sync' \in SyncStates
  BY <1>1, CheckSyncShape
<1>3. SideOK'
  BY <1>1, <1>2, SideKeeps
<1>4. QED  BY <1>1, <1>3, NibbleRead

LEMMA ProcHdrSized == ASSUME Typed, Sized, ProcHdr PROVE Sized'
<1>1. /\ ps = "ProcHdr" /\ readNibble /\ sync' = checkSyncNibble(sync, Nibble) /\ Begin(op1(Nibble))
      /\ UNCHANGED <<resets, closed, dec>>
  BY DEF ProcHdr, Turn, inputVars, outVars
<1>2. SideOK' /\ Nibble \in Nibbles /\ (numNibbles < 255 => numNibbles' = numNibbles + 1)
  BY <1>1, HandlerSide
<1>3. PktOK /\ ValueOK /\ TimeOK(time) /\ numNibbles = 0 /\ val = <<>>
  BY <1>1 DEF Sized, ValueOK
<1>4. numNibbles' = 1 /\ 1 \in 1..3
  BY <1>2, <1>3
<1>5. OpcodeNibbles(op1(Nibble)) = 1 /\ op1(Nibble) # "F0Ext"
  BY <1>2, OpcodeLengths
<1>6. PktOK' /\ ValueOK' /\ TimeOK(time)'
  BY <1>1, <1>3, <1>4, <1>5, BeginSized
<1>7. QED  BY <1>2, <1>6 DEF Sized

LEMMA FExtSized == ASSUME Typed, Sized, stmPktFExt PROVE Sized'
<1>1. /\ ps = "ProcData" /\ fn = "FExt"
      /\ readNibble /\ sync' = checkSyncNibble(sync, Nibble) /\ Begin(op2(Nibble))
      /\ UNCHANGED <<resets, closed, dec>>
  BY DEF stmPktFExt, Turn, inputVars, outVars
<1>2. SideOK' /\ Nibble \in Nibbles /\ (numNibbles < 255 => numNibbles' = numNibbles + 1)
  BY <1>1, HandlerSide
<1>3. PktOK /\ ValueOK /\ TimeOK(time) /\ numNibbles = 1 /\ val = <<>>
  BY <1>1 DEF Sized, ValueOK
<1>4. numNibbles' = 2 /\ 2 \in 1..3
  BY <1>2, <1>3
<1>5. (op2(Nibble) \in Unhandled \/ OpcodeNibbles(op2(Nibble)) = 2) /\ op2(Nibble) # "FExt"
  BY <1>2, OpcodeLengths
<1>6. PktOK' /\ ValueOK' /\ TimeOK(time)'
  BY <1>1, <1>3, <1>4, <1>5, BeginSized
<1>7. QED  BY <1>2, <1>6 DEF Sized

LEMMA F0ExtSized == ASSUME Typed, Sized, stmPktF0Ext PROVE Sized'
<1>1. /\ ps = "ProcData" /\ fn = "F0Ext"
      /\ readNibble /\ sync' = checkSyncNibble(sync, Nibble) /\ Begin(op3(Nibble))
      /\ UNCHANGED <<resets, closed, dec>>
  BY DEF stmPktF0Ext, Turn, inputVars, outVars
<1>2. SideOK' /\ Nibble \in Nibbles /\ (numNibbles < 255 => numNibbles' = numNibbles + 1)
  BY <1>1, HandlerSide
<1>3. PktOK /\ ValueOK /\ TimeOK(time) /\ numNibbles = 2 /\ val = <<>>
  BY <1>1 DEF Sized, ValueOK
<1>4. numNibbles' = 3 /\ 3 \in 1..3
  BY <1>2, <1>3
<1>5. (op3(Nibble) \in Unhandled \/ OpcodeNibbles(op3(Nibble)) = 3) /\ op3(Nibble) \notin {"FExt", "F0Ext"}
  BY <1>2, OpcodeLengths
<1>6. PktOK' /\ ValueOK' /\ TimeOK(time)'
  BY <1>1, <1>3, <1>4, <1>5, BeginSized
<1>7. QED  BY <1>2, <1>6 DEF Sized

LEMMA ReservedSized == ASSUME Typed, Sized, stmPktReserved PROVE Sized'
<1>1. /\ fn = "Reserved" /\ Fatal("Reserved")
      /\ UNCHANGED <<resets, closed, dec, fn, time, numNibbles, sync>>
  BY DEF stmPktReserved, inputVars, outVars
<1>2. SideOK'
  BY <1>1 DEF Sized, SideOK
<1>3. "Reserved" \in PktTypes /\ fn' \in FaultFns /\ time' \in Times /\ TimeOK(time') /\ PktOK /\ ValueOK
  BY <1>1 DEF Sized, PktOK, PktTypes, FaultFns
<1>4. PktOK' /\ ValueOK' /\ TimeOK(time)'
  BY <1>1, <1>3, FatalSized
<1>5. QED  BY <1>2, <1>4 DEF Sized

\* Adding up the nibbles of a value.
LEMMA ValueCount ==
  ASSUME NEW l \in Nat, NEW sz \in 0..18, NEW n \in 0..255, NEW w \in 0..16, n < sz, l + sz = n + w
  PROVE  /\ l + 1 <= 16 /\ n < 255
         /\ n + 1 = sz => l + 1 = w
         /\ n + 1 # sz => n + 1 < sz
         /\ (l + 1) + sz = (n + 1) + w
OBVIOUS

LEMMA ExtractValSized == ASSUME Typed, Sized, ExtractVal PROVE Sized'
<1>1. /\ ps = "ProcData" /\ fn = "ExtractVal" /\ readNibble /\ sync' = checkSyncNibble(sync, Nibble)
      /\ val' = Append(val, Nibble) /\ size' = size
      /\ \/ numNibbles' = size /\ AtEndOfValue(pkt, val', time.needed)
         \/ numNibbles' # size /\ UNCHANGED <<ps, fn, pkt, time>>
      /\ UNCHANGED <<resets, closed, dec>>
  BY DEF ExtractVal, Turn, inputVars, outVars
<1>2. SideOK' /\ Nibble \in Nibbles /\ (numNibbles < 255 => numNibbles' = numNibbles + 1)
  BY <1>1, HandlerSide
<1>3. /\ PktOK /\ TimeOK(time) /\ numNibbles \in 0..255 /\ numNibbles < size
      /\ Len(val) + size = numNibbles + ValueNibbles(pkt.type)
      /\ val \in Seq(Nibbles) /\ size \in 0..18 /\ pkt \in Packets /\ time \in Times
  BY <1>1 DEF Sized, ValueOK, SideOK, PktOK
<1>4. ValueNibbles(pkt.type) \in 0..16
  BY DEF ValueNibbles
<1>5. Len(val) \in Nat /\ val' \in Seq(Nibbles) /\ Len(val') = Len(val) + 1
  BY <1>1, <1>2, <1>3, AppendProperties, LenProperties
<1>6. /\ Len(val) + 1 <= 16 /\ numNibbles < 255
      /\ numNibbles + 1 = size => Len(val) + 1 = ValueNibbles(pkt.type)
      /\ numNibbles + 1 # size => numNibbles + 1 < size
      /\ (Len(val) + 1) + size = (numNibbles + 1) + ValueNibbles(pkt.type)
  BY <1>3, <1>4, <1>5, ValueCount, Zenon
<1>7. numNibbles' = numNibbles + 1
  BY <1>2, <1>6
<1>8. CASE numNibbles' = size /\ AtEndOfValue(pkt, val', time.needed)
  <2>1. Len(val') = ValueNibbles(pkt.type) /\ Len(val') <= 16
    BY <1>5, <1>6, <1>7, <1>8, Zenon
  <2>2. time.needed \in BOOLEAN
    BY <1>3 DEF Times
  <2>3. /\ pkt' \in Packets /\ time' \in Times /\ TimeOK(time')
        /\ ps' = "SendPkt" \/ (ps' = "ProcData" /\ fn' = "ExtractTS")
    BY <1>3, <1>5, <1>8, <2>1, <2>2, EndOfValueSized
  <2>4. PktOK'
    BY <1>1, <1>3, <1>5, <2>3 DEF PktOK
  <2>5. ValueOK'
    BY <2>1, <2>3 DEF ValueOK
  <2>6. QED  BY <1>2, <2>3, <2>4, <2>5 DEF Sized
<1>9. CASE numNibbles' # size /\ UNCHANGED <<ps, fn, pkt, time>>
  <2>1. PktOK'
    BY <1>1, <1>3, <1>5, <1>9 DEF PktOK
  <2>2. /\ Len(val') <= 16 /\ numNibbles' < size'
        /\ Len(val') + size' = numNibbles' + ValueNibbles(pkt'.type)
    BY <1>1, <1>5, <1>6, <1>7, <1>9, Zenon
  <2>3. ValueOK'
    BY <1>1, <1>9, <2>2 DEF ValueOK
  <2>4. QED  BY <1>2, <1>3, <1>9, <2>1, <2>3 DEF Sized
<1>10. QED  BY <1>1, <1>8, <1>9

LEMMA VersionShape ==
  ASSUME NEW p \in Packets, NEW t \in {"Unknown", "NatBinary", "Grey"}, NEW x \in Nibbles
  PROVE  [OnVersionPkt(p, t) EXCEPT !.payload = <<x>>] \in Packets
<1> DEFINE a == [p EXCEPT !.tsType = t]
           b == [a EXCEPT !.master = 0]
           c == [b EXCEPT !.channel = 0]
<1>1. 0 \in 0..255 /\ 0 \in Channels /\ <<x>> \in Seq(Nibbles)
  BY DEF Channels
<1>2. OnVersionPkt(p, t) = c
  BY DEF OnVersionPkt
<1>3. a \in Packets
  BY FieldReplaced
<1> HIDE DEF a
<1>4. b \in Packets
  BY <1>1, <1>3, FieldReplaced
<1> HIDE DEF b
<1>5. c \in Packets
  BY <1>1, <1>4, FieldReplaced
<1> HIDE DEF c
<1>6. QED  BY <1>1, <1>2, <1>5, FieldReplaced

LEMMA VersionSized == ASSUME Typed, Sized, stmPktVersion PROVE Sized'
<1>1. /\ fn = "Version" /\ readNibble /\ sync' = checkSyncNibble(sync, Nibble)
      /\ \/ /\ pkt' = [OnVersionPkt(pkt, IF Nibble = 3 THEN "NatBinary" ELSE "Grey") EXCEPT !.payload = <<Nibble>>]
            /\ ps' = "SendPkt" /\ UNCHANGED <<size, val, time>>
         \/ Fatal("BadSequence") /\ UNCHANGED <<fn, time>>
      /\ UNCHANGED <<resets, closed, dec>>
  BY DEF stmPktVersion, inputVars, outVars
<1>2. SideOK' /\ Nibble \in Nibbles
  BY <1>1, HandlerSide
<1>3. PktOK /\ ValueOK /\ TimeOK(time) /\ pkt \in Packets /\ time \in Times
  BY DEF Sized, PktOK
<1>4. CASE /\ pkt' = [OnVersionPkt(pkt, IF Nibble = 3 THEN "NatBinary" ELSE "Grey") EXCEPT !.payload = <<Nibble>>]
           /\ ps' = "SendPkt" /\ UNCHANGED <<size, val, time>>
  <2>1. (IF Nibble = 3 THEN "NatBinary" ELSE "Grey") \in {"Unknown", "NatBinary", "Grey"}
    OBVIOUS
  <2>2. pkt' \in Packets
    BY <1>2, <1>3, <1>4, <2>1, VersionShape, Zenon
  <2>3. PktOK' /\ ValueOK' /\ TimeOK(time)'
    BY <1>3, <1>4, <2>2, ValueRests
  <2>4. QED  BY <1>2, <2>3 DEF Sized
<1>5. CASE Fatal("BadSequence") /\ UNCHANGED <<fn, time>>
  <2>1. "BadSequence" \in PktTypes /\ fn' \in FaultFns /\ time' \in Times /\ TimeOK(time')
    BY <1>1, <1>3, <1>5 DEF PktTypes, FaultFns
  <2>2. PktOK' /\ ValueOK' /\ TimeOK(time)'
    BY <1>3, <1>5, <2>1, FatalSized
  <2>3. QED  BY <1>2, <2>2 DEF Sized
<1>6. QED  BY <1>1, <1>4, <1>5

\* A time is applied, or fails.
LEMMA ApplyTSSized ==
  ASSUME PktOK, ValueOK, NEW t \in Times, TimeOK(t), ApplyTS(t), fn' = "ExtractTS"
  PROVE  PktOK' /\ ValueOK' /\ TimeOK(time)'
<1>1. pkt \in Packets /\ t.nibs \in Seq(Nibbles) /\ t.size \in 0..16 /\ Len(t.nibs) <= t.size
  BY DEF PktOK, Times, TimeOK
<1>2. Len(t.nibs) <= 16
  <2>1. Len(t.nibs) \in Nat
    BY <1>1, LenProperties
  <2>2. ASSUME NEW a \in Nat, NEW b \in 0..16, a <= b PROVE a <= 16
    BY <2>2
  <2>3. QED  BY <1>1, <2>1, <2>2, Zenon
<1>3. CASE /\ pkt' = IF pkt.tsType = "Grey" THEN GrayUpdate(pkt, t.nibs) ELSE setTimestamp(pkt, t.nibs)
           /\ time' = t /\ ps' = "SendPkt" /\ GoesOn /\ UNCHANGED <<size, val, streamSync>>
  <2>1. GrayUpdate(pkt, t.nibs) \in Packets /\ setTimestamp(pkt, t.nibs) \in Packets
    BY <1>1, <1>2, GrayUpdateShape, TimestampShape, Zenon
  <2>2. pkt' \in Packets
    BY <1>3, <2>1
  <2>3. QED  BY <1>3, <2>2, ValueRests
<1>4. CASE time' = t /\ Fatal("BadSequence")
  <2>1. "BadSequence" \in PktTypes /\ fn' \in FaultFns
    BY DEF PktTypes, FaultFns
  <2>2. QED  BY <1>4, <2>1, FatalSized
<1>5. QED  BY <1>3, <1>4 DEF ApplyTS

LEMMA TimeSoFarSized ==
  ASSUME PktOK, ValueOK, NEW t \in Times, TimeOK(t), TimeSoFar(t), fn' = "ExtractTS", ps # "ProcHdr"
  PROVE  PktOK' /\ ValueOK' /\ TimeOK(time)'
<1>1. CASE ApplyTS(t)
  BY <1>1, ApplyTSSized
<1>2. CASE time' = t /\ GoesOn /\ UNCHANGED <<ps, size, pkt, val, streamSync>>
  BY <1>2, ValueRests DEF PktOK, FaultFns
<1>3. QED  BY <1>1, <1>2 DEF TimeSoFar

\* One more nibble of a time, and its size.
LEMMA TimeGrows ==
  ASSUME NEW t \in Times, TimeOK(t), t.known, Len(t.nibs) # t.size, NEW x \in Nibbles
  PROVE  [t EXCEPT !.nibs = Append(@, x)] \in Times /\ TimeOK([t EXCEPT !.nibs = Append(@, x)])
<1> DEFINE ns == Append(t.nibs, x)
           u == [t EXCEPT !.nibs = ns]
<1>1. t.nibs \in Seq(Nibbles) /\ t.size \in 0..16 /\ Len(t.nibs) <= t.size
  BY DEF Times, TimeOK
<1>2. ns \in Seq(Nibbles) /\ Len(ns) = Len(t.nibs) + 1 /\ Len(t.nibs) \in Nat
  BY <1>1, AppendProperties, LenProperties
<1>3. Len(ns) <= t.size
  <2>1. ASSUME NEW a \in Nat, NEW b \in 0..16, a <= b, a # b PROVE a + 1 <= b
    BY <2>1
  <2>2. QED  BY <1>1, <1>2, <2>1, Zenon
<1> HIDE DEF ns
<1>4. u \in Times /\ u.nibs = ns /\ u.size = t.size /\ u.known
  BY <1>2 DEF Times
<1>5. QED  BY <1>3, <1>4 DEF TimeOK, ns

LEMMA TimeBegins ==
  ASSUME NEW t \in Times, TimeOK(t), ~t.known, NEW x \in Nibbles, x # 15
  PROVE  LET u == [t EXCEPT !.known = TRUE, !.size = TimeSize(x)] IN u \in Times /\ TimeOK(u)
<1> DEFINE n == TimeSize(x)
           v == [t EXCEPT !.known = TRUE]
           u == [v EXCEPT !.size = n]
<1>1. n \in 0..16
  BY DEF TimeSize, Nibbles
<1>2. t.nibs = <<>> /\ Len(<<>>) = 0
  BY DEF TimeOK
<1> HIDE DEF n
<1>3. v \in Times /\ v.nibs = <<>>
  BY <1>2 DEF Times
<1>4. u \in Times /\ u.nibs = <<>> /\ u.size = n /\ u.known
  BY <1>1, <1>3 DEF Times
<1>5. Len(u.nibs) <= u.size
  BY <1>1, <1>2, <1>4
<1>6. u = [t EXCEPT !.known = TRUE, !.size = TimeSize(x)]
  BY DEF n
<1>7. QED  BY <1>4, <1>5, <1>6 DEF TimeOK

LEMMA ExtractTSSized == ASSUME Typed, Sized, stmExtractTS PROVE Sized'
<1>1. /\ ps = "ProcData" /\ fn = "ExtractTS" /\ ~(time.known /\ Len(time.nibs) = time.size)
      /\ readNibble /\ sync' = checkSyncNibble(sync, Nibble)
      /\ \/ time.known /\ TimeSoFar([time EXCEPT !.nibs = Append(@, Nibble)])
         \/ ~time.known /\ Nibble # 15 /\ TimeSoFar([time EXCEPT !.known = TRUE, !.size = TimeSize(Nibble)])
         \/ Fatal("BadSequence") /\ UNCHANGED time
      /\ UNCHANGED <<resets, closed, dec, fn>>
  BY DEF stmExtractTS, Turn, inputVars, outVars
<1>2. SideOK' /\ Nibble \in Nibbles
  BY <1>1, HandlerSide
<1>3. PktOK /\ ValueOK /\ TimeOK(time) /\ time \in Times /\ fn' = "ExtractTS"
  BY <1>1 DEF Sized, PktOK
<1>4. CASE time.known /\ TimeSoFar([time EXCEPT !.nibs = Append(@, Nibble)])
  <2> DEFINE t == [time EXCEPT !.nibs = Append(@, Nibble)]
  <2>1. t \in Times /\ TimeOK(t)
    BY <1>1, <1>2, <1>3, <1>4, TimeGrows, Zenon
  <2> HIDE DEF t
  <2>2. TimeSoFar(t)
    BY <1>4 DEF t
  <2>3. PktOK' /\ ValueOK' /\ TimeOK(time)'
    BY <1>1, <1>3, <2>1, <2>2, TimeSoFarSized
  <2>4. QED  BY <1>2, <2>3 DEF Sized
<1>5. CASE ~time.known /\ Nibble # 15 /\ TimeSoFar([time EXCEPT !.known = TRUE, !.size = TimeSize(Nibble)])
  <2> DEFINE t == [time EXCEPT !.known = TRUE, !.size = TimeSize(Nibble)]
  <2>1. t \in Times /\ TimeOK(t)
    BY <1>2, <1>3, <1>5, TimeBegins, Zenon
  <2> HIDE DEF t
  <2>2. TimeSoFar(t)
    BY <1>5 DEF t
  <2>3. PktOK' /\ ValueOK' /\ TimeOK(time)'
    BY <1>1, <1>3, <2>1, <2>2, TimeSoFarSized
  <2>4. QED  BY <1>2, <2>3 DEF Sized
<1>6. CASE Fatal("BadSequence") /\ UNCHANGED time
  <2>1. "BadSequence" \in PktTypes /\ fn' \in FaultFns /\ time' \in Times /\ TimeOK(time')
    BY <1>3, <1>6 DEF PktTypes, FaultFns
  <2>2. PktOK' /\ ValueOK' /\ TimeOK(time)'
    BY <1>3, <1>6, <2>1, FatalSized
  <2>3. QED  BY <1>2, <2>2 DEF Sized
<1>7. QED  BY <1>1, <1>4, <1>5, <1>6

LEMMA ExtractTSAgainSized == ASSUME Typed, Sized, stmExtractTSAgain PROVE Sized'
<1>1. /\ fn = "ExtractTS" /\ ApplyTS(time) /\ UNCHANGED <<resets, closed, dec, fn, numNibbles, sync>>
  BY DEF stmExtractTSAgain, inputVars, outVars
<1>2. SideOK'
  BY <1>1 DEF Sized, SideOK
<1>3. PktOK /\ ValueOK /\ TimeOK(time) /\ time \in Times /\ fn' = "ExtractTS"
  BY <1>1 DEF Sized, PktOK
<1>4. PktOK' /\ ValueOK' /\ TimeOK(time)'
  BY <1>1, <1>3, ApplyTSSized
<1>5. QED  BY <1>2, <1>4 DEF Sized

LEMMA ASyncSized == ASSUME Typed, Sized, stmPktASync PROVE Sized'
<1> DEFINE s == checkSyncNibble(sync, Nibble)
<1>1. /\ ps = "ProcData" /\ fn = "ASync" /\ readNibble
      /\ sync' = Unsynced(s) \/ sync' = s
      /\ \/ pkt' = [pkt EXCEPT !.type = "Async"] /\ ps' = "SendPkt" /\ UNCHANGED <<size, val, time>>
         \/ UNCHANGED <<ps, size, pkt, val, time>>
         \/ Fatal("BadSequence") /\ UNCHANGED time
      /\ UNCHANGED <<resets, closed, dec, fn>>
  BY DEF stmPktASync, Turn, inputVars, outVars
<1>2. PktOK /\ ValueOK /\ TimeOK(time) /\ pkt \in Packets /\ time \in Times /\ SideOK
      /\ sync \in SyncStates /\ pos \in Nat
  BY DEF Sized, PktOK, SideOK, Typed
<1>3. s \in SyncStates
  BY <1>2, CheckSyncShape
<1> HIDE DEF s
<1>4. sync' \in SyncStates
  BY <1>1, <1>2, <1>3, CheckSyncShape
<1>5. SideOK'
  BY <1>1, <1>2, <1>4, SideKeeps
<1>6. "BadSequence" \in PktTypes /\ "Async" \in PktTypes /\ fn' \in FaultFns
  BY <1>1 DEF PktTypes, FaultFns
<1>7. CASE pkt' = [pkt EXCEPT !.type = "Async"] /\ ps' = "SendPkt" /\ UNCHANGED <<size, val, time>>
  <2>1. pkt' \in Packets
    BY <1>2, <1>6, <1>7, FieldReplaced
  <2>2. PktOK' /\ ValueOK' /\ TimeOK(time)'
    BY <1>2, <1>7, <2>1, ValueRests
  <2>3. QED  BY <1>5, <2>2 DEF Sized
<1>8. CASE UNCHANGED <<ps, size, pkt, val, time>>
  <2>1. PktOK' /\ ValueOK' /\ TimeOK(time)'
    BY <1>1, <1>2, <1>6, <1>8, ValueRests
  <2>2. QED  BY <1>5, <2>1 DEF Sized
<1>9. CASE Fatal("BadSequence") /\ UNCHANGED time
  <2>1. PktOK' /\ ValueOK' /\ TimeOK(time)'
    BY <1>2, <1>6, <1>9, FatalSized
  <2>2. QED  BY <1>5, <2>1 DEF Sized
<1>10. QED  BY <1>1, <1>7, <1>8, <1>9

LEMMA StateStays ==
  ASSUME NEW d, NEW p, NEW index, "state" \in DOMAIN d, "index" \in DOMAIN d, d.state \in DecStates
  PROVE  processPacket(d, p, index).dec.state \in DecStates
<1> DEFINE e == [d EXCEPT !.index = index]
           f == [e EXCEPT !.state = IF p.type = "Async" THEN "Pkts" ELSE "WaitSync"]
           r == processPacket(d, p, index)
<1>1. "state" \in DOMAIN e /\ "index" \in DOMAIN e /\ e.state = d.state
  OBVIOUS
<1>2. CASE d.state = "Pkts"
  <2>1. r = decodePacket(e, p)
    BY <1>1, <1>2 DEF processPacket
  <2> HIDE DEF e
  <2>2. /\ Identified(e, p).state = e.state
        /\ resetDecoder([e EXCEPT !.unsync = "BadPacket"]).state = "NoSync"
        /\ resetDecoder(e).state = "NoSync"
    BY <1>1, IdentifiedKeeps DEF resetDecoder
  <2>3. r.dec \in {e, Identified(e, p), resetDecoder(e), resetDecoder([e EXCEPT !.unsync = "BadPacket"])}
    BY <2>1 DEF decodePacket
  <2>4. QED  BY <1>1, <2>2, <2>3 DEF DecStates
<1>3. CASE d.state # "Pkts"
  <2>1. r.dec = f
    BY <1>1, <1>3 DEF processPacket
  <2>2. f.state \in {"Pkts", "WaitSync"}
    BY <1>1
  <2> HIDE DEF e, f
  <2>3. QED  BY <2>1, <2>2 DEF DecStates
<1>4. QED  BY <1>2, <1>3

\* A time of which no more is wanted.
LEMMA TimeDone ==
  ASSUME NEW t \in Times, TimeOK(t)
  PROVE  [t EXCEPT !.needed = FALSE] \in Times /\ TimeOK([t EXCEPT !.needed = FALSE])
<1> DEFINE u == [t EXCEPT !.needed = FALSE]
<1>1. u \in Times /\ u.nibs = t.nibs /\ u.size = t.size /\ u.known = t.known
  BY DEF Times
<1> HIDE DEF u
<1>2. QED  BY <1>1 DEF TimeOK, u

\* The next packet begins with nothing of a value.
LEMMA NothingOfValue ==
  ASSUME PktOK, TimeOK(time), pkt' \in Packets, numNibbles' = 0, val' = <<>>, size' = 0,
         time' = [time EXCEPT !.needed = FALSE], ps' \in {"ProcHdr", "WaitSync"}
  PROVE  PktOK' /\ ValueOK' /\ TimeOK(time)'
<1>1. Len(<<>>) = 0 /\ <<>> \in Seq(Nibbles) /\ 0 \in 0..18 /\ 0 <= 16
  OBVIOUS
<1>2. time' \in Times /\ TimeOK(time')
  BY TimeDone DEF PktOK
<1>3. PktOK'
  BY <1>1, <1>2 DEF PktOK
<1>4. ValueOK'
  BY <1>1 DEF ValueOK
<1>5. QED  BY <1>2, <1>3, <1>4

LEMMA OutputSized ==
  ASSUME Typed, Sized, NEW p \in Packets, NEW atEnd, outputPacket(p, atEnd), closed' \in BOOLEAN
  PROVE  Sized'
<1>1. /\ dec' = processPacket(dec, p, pktIndex).dec /\ pkt' = NextPacket(p)
      /\ numNibbles' = 0 /\ val' = <<>> /\ size' = 0
      /\ time' = [time EXCEPT !.needed = FALSE] /\ ps' \in {"ProcHdr", "WaitSync"}
      /\ UNCHANGED <<resets, sync>>
  BY DEF outputPacket
<1>2. SideOK /\ PktOK /\ ValueOK /\ TimeOK(time)
  BY DEF Sized
<1>3. dec'.state \in DecStates
  BY <1>1, <1>2, StateStays DEF Typed, SideOK
<1>4. SideOK'
  BY <1>1, <1>2, <1>3 DEF SideOK
<1>5. pkt' \in Packets
  <2> DEFINE a == [p EXCEPT !.hasTS = FALSE]
             b == [a EXCEPT !.marker = FALSE]
  <2>1. a \in Packets
    BY FieldReplaced
  <2>2. NextPacket(p) = [b EXCEPT !.payload = <<>>]
    BY DEF NextPacket
  <2> HIDE DEF a
  <2>3. b \in Packets
    BY <2>1, FieldReplaced
  <2> HIDE DEF b
  <2>4. <<>> \in Seq(Nibbles)
    OBVIOUS
  <2>5. QED  BY <1>1, <2>2, <2>3, <2>4, FieldReplaced
<1>6. PktOK' /\ ValueOK' /\ TimeOK(time)'
  BY <1>1, <1>2, <1>5, NothingOfValue
<1>7. QED  BY <1>4, <1>6 DEF Sized

LEMMA SendPktSized == ASSUME Typed, Sized, SendPkt PROVE Sized'
<1>1. outputPacket(pkt, FALSE) /\ closed' = closed
  BY DEF SendPkt
<1>2. pkt \in Packets /\ closed' \in BOOLEAN
  BY <1>1 DEF Sized, PktOK, SideOK
<1>3. QED  BY <1>1, <1>2, OutputSized

LEMMA CloseSized == ASSUME Typed, Sized, Close PROVE Sized'
<1>1. closed' = TRUE
  BY DEF Close
<1> DEFINE p == [pkt EXCEPT !.type = "IncompleteEOT"]
<1>2. CASE outputPacket(p, TRUE)
  <2>1. "IncompleteEOT" \in PktTypes
    BY DEF PktTypes
  <2>2. p \in Packets
    BY <2>1, FieldReplaced DEF Sized, PktOK
  <2> HIDE DEF p
  <2>3. QED  BY <1>1, <1>2, <2>2, OutputSized
<1>3. CASE UNCHANGED <<src, avail, pos, resets, stale, pc, ps, pktVars, pktIndex, raw, numNibbles,
                       sync, streamSync, dec, obs, fault>>
  <2>1. UNCHANGED <<resets, ps, fn, size, pkt, val, time, numNibbles, sync, dec>>
    BY <1>3 DEF pktVars
  <2>2. SideOK' /\ PktOK'
    BY <1>1, <2>1 DEF Sized, SideOK, PktOK
  <2>3. ValueOK' /\ TimeOK(time)'
    BY <2>1 DEF Sized, ValueOK
  <2>4. QED  BY <2>2, <2>3 DEF Sized
<1>4. QED  BY <1>2, <1>3 DEF Close

LEMMA StartShape == StartPacket \in Packets
<1>1. <<>> \in Seq(Nibbles) /\ 0 \in 0..255 /\ 0 \in Channels /\ "NotSync" \in PktTypes
  BY DEF Channels, PktTypes
<1>2. [k \in 1..16 |-> 0] \in FullTimes
  BY DEF FullTimes, Nibbles
<1> DEFINE t == [k \in 1..16 |-> 0]
<1>3. StartPacket = [type |-> "NotSync", master |-> 0, channel |-> 0, ts |-> t, tsType |-> "Unknown",
                     hasTS |-> FALSE, marker |-> FALSE, payload |-> <<>>]
  BY DEF StartPacket
<1> HIDE DEF t
<1>4. t \in FullTimes
  BY <1>2 DEF t
<1>5. QED  BY <1>1, <1>3, <1>4 DEF Packets

LEMMA ResetSized == ASSUME Typed, Sized, NEW s, Reset(s) PROVE Sized'
<1>1. /\ resets < MaxResets /\ resets' = resets + 1 /\ closed' = FALSE /\ sync' = sync
      /\ ps' = "WaitSync" /\ pkt' = StartPacket /\ numNibbles' = 0 /\ val' = <<>> /\ size' = 0
      /\ time' = [time EXCEPT !.needed = FALSE]
      /\ dec' = resetDecoder([dec EXCEPT !.unsync = "ResetDecoder"])
  BY DEF Reset
<1>2. SideOK /\ PktOK /\ TimeOK(time)
  BY DEF Sized
<1>3. dec'.state = "NoSync"
  BY <1>1 DEF Typed, resetDecoder
<1>4. resets' \in 0..MaxResets
  BY <1>1, <1>2, BoundsAssumption DEF SideOK
<1>5. SideOK'
  <2>1. "NoSync" \in DecStates /\ 0 \in 0..255
    BY DEF DecStates
  <2>2. QED  BY <1>1, <1>2, <1>3, <1>4, <2>1 DEF SideOK
<1>6. pkt' \in Packets
  BY <1>1, StartShape
<1>7. PktOK' /\ ValueOK' /\ TimeOK(time)'
  BY <1>1, <1>2, <1>6, NothingOfValue
<1>8. QED  BY <1>5, <1>7 DEF Sized

LEMMA InitSized == Init => Sized
<1> SUFFICES ASSUME Init PROVE Sized
  OBVIOUS
<1>1. /\ resets = 0 /\ closed = FALSE /\ ps = "WaitSync" /\ size = 0 /\ pkt = StartPacket
      /\ numNibbles = 0 /\ val = <<>> /\ time = NoTime
      /\ sync = [isSync |-> FALSE, start |-> FALSE, index |-> 0, nF |-> 0] /\ dec = NewDecoder
  BY DEF Init
<1>2. Len(<<>>) = 0 /\ <<>> \in Seq(Nibbles) /\ 0 \in 0..255 /\ 0 \in 0..18 /\ 0 \in 0..16 /\ 0 \in Nat
  OBVIOUS
<1>3. sync \in SyncStates
  BY <1>1, <1>2 DEF SyncStates
<1>4. dec.state \in DecStates
  BY <1>1 DEF NewDecoder, DecStates
<1>5. SideOK
  <2>1. 0 \in 0..MaxResets
    BY BoundsAssumption
  <2>2. QED  BY <1>1, <1>2, <1>3, <1>4, <2>1 DEF SideOK
<1>6. time \in Times /\ time.nibs = <<>> /\ time.size = 0
  BY <1>1, <1>2 DEF NoTime, Times
<1>7. PktOK
  BY <1>1, <1>2, <1>6, StartShape DEF PktOK
<1>8. ValueOK
  BY <1>1, <1>2 DEF ValueOK
<1>9. TimeOK(time)
  BY <1>2, <1>6 DEF TimeOK
<1>10. QED  BY <1>5, <1>7, <1>8, <1>9 DEF Sized

LEMMA NextSized == IInv /\ Sized /\ [Next]_vars => Sized'
<1> SUFFICES ASSUME IInv, Sized, [Next]_vars
             PROVE  Sized'
  OBVIOUS
<1>0. Typed
  BY DEF IInv
<1>1. CASE \E n \in ChunkSizes(Len(src)) : Write(n)
  BY <1>1, WriteSized
<1>2. CASE Return
  BY <1>2, ReturnSized
<1>3. CASE SyncOnEntry \/ SyncSearch \/ SyncNibble \/ SyncEnds
  BY <1>3, SyncSized
<1>4. CASE ProcHdr
  BY <1>0, <1>4, ProcHdrSized
<1>5. CASE stmPktFExt
  BY <1>0, <1>5, FExtSized
<1>6. CASE stmPktF0Ext
  BY <1>0, <1>6, F0ExtSized
<1>7. CASE stmPktReserved
  BY <1>0, <1>7, ReservedSized
<1>8. CASE ExtractVal
  BY <1>0, <1>8, ExtractValSized
<1>9. CASE stmPktVersion
  BY <1>0, <1>9, VersionSized
<1>10. CASE stmExtractTS
  BY <1>0, <1>10, ExtractTSSized
<1>11. CASE stmExtractTSAgain
  BY <1>0, <1>11, ExtractTSAgainSized
<1>12. CASE stmPktASync
  BY <1>0, <1>12, ASyncSized
<1>13. CASE SendPkt
  BY <1>0, <1>13, SendPktSized
<1>14. CASE Close
  BY <1>0, <1>14, CloseSized
<1>15. CASE \E s \in NextStreams : Reset(s)
  BY <1>0, <1>15, ResetSized
<1>16. CASE UNCHANGED vars
  BY <1>16, StutterSized
<1>17. QED  BY <1>1, <1>2, <1>3, <1>4, <1>5, <1>6, <1>7, <1>8, <1>9, <1>10, <1>11, <1>12, <1>13,
               <1>14, <1>15, <1>16 DEF Next, Step

LEMMA SizedTypes == IInv /\ Sized => TypeOK
<1> SUFFICES ASSUME IInv, Sized PROVE TypeOK
  OBVIOUS
<1>1. Typed /\ Control
  BY DEF IInv
<1>2. /\ src \in Streams \cup NextStreams /\ 2 * avail <= Len(src) /\ pos \in 0..(2 * avail)
      /\ pc \in {"idle", "loop", "sync"} /\ ps \in {"WaitSync", "ProcHdr", "ProcData", "SendPkt"}
  BY <1>1 DEF Typed, Control
<1>3. /\ resets \in 0..MaxResets /\ closed \in BOOLEAN /\ numNibbles \in 0..255
      /\ sync.nF \in 0..255 /\ dec.state \in {"NoSync", "WaitSync", "Pkts"}
  BY DEF Sized, SideOK, SyncStates, DecStates
<1>4. /\ size \in 0..18 /\ val \in Seq(Nibbles) /\ Len(val) <= 16 /\ Len(time.nibs) <= time.size
  BY DEF Sized, PktOK, ValueOK, TimeOK
<1>5. pkt.ts \in FullTimes /\ pkt.master \in 0..255 /\ pkt.channel \in Channels
  BY DEF Sized, PktOK, Packets
<1>6. Len(pkt.ts) = 16
  BY <1>5, SixteenNibbles, Zenon
<1>7. pkt.channel \in 0..(256 * 256 - 1)
  <2> DEFINE c == pkt.channel
             n == 256 * 256
  <2>1. c \in Nat /\ c < n /\ n \in Nat
    BY <1>5 DEF Channels
  <2> HIDE DEF c, n
  <2>2. c \in 0..(n - 1)
    BY <2>1
  <2>3. QED  BY <2>2, Zenon DEF c, n
<1>8. QED  BY <1>2, <1>3, <1>4, <1>5, <1>6, <1>7, Zenon DEF TypeOK

\* Every variable keeps its type: a value has at most the nibbles its type asks
\* for, a time those of its size, and the counts of nibbles, the master and the
\* channel their width, whatever the nibbles are and wherever blocks, errors and
\* resets cut them (the handlers of stm_parser_packets.go, checkSyncNibble).
THEOREM TypeCorrect == Spec => []TypeOK
<1>1. IInv /\ Sized => TypeOK
  BY SizedTypes
<1>2. Init => IInv /\ Sized
  BY InitHolds, InitSized
<1>3. IInv /\ Sized /\ [Next]_vars => (IInv /\ Sized)'
  BY NextKeeps, NextSized
<1>4. QED  BY <1>1, <1>2, <1>3, PTL DEF Spec

=============================================================================
