------------------------------ MODULE ItmProps ------------------------------
(***************************************************************************)
(* The ITM protocol read off a whole stream, without blocks, buffers or a  *)
(* parser state, and the properties that compare Itm with it.              *)
(***************************************************************************)
EXTENDS Itm

Prefix == SubSeq(src, 1, pos)

\* Packets are [index, end, type, srcID, value, valSz]: bytes index+1..end of s.
Packet(i, j, type, srcID, value, valSz) ==
  [index |-> i, end |-> j, type |-> type, srcID |-> srcID, value |-> value, valSz |-> valSz]

\* The end of an Async: 0x80 behind at least five zeros, all behind offset i.
AsyncEnds(s, i) == {j \in (i + 6)..Len(s) : s[j] = 128 /\ \A k \in (j - 5)..(j - 1) : s[k] = 0}

\* Where the payload that starts behind offset i stops.
Stops(s, i, limit) == {j \in (i + 2)..Len(s) : s[j] < 128 \/ j = i + limit}

Digits(s, i, j) == LittleEndian(SubSeq(s, i + 2, j), 128)

\* The packets that start at offset i of a synced stream: one, or none yet.
PacketAt(s, i) ==
  LET b == s[i + 1]
      h == Header(b)
      cont(limit, Value(_), Src(_)) ==
        LET j == Min(Stops(s, i, limit))
        IN  IF Stops(s, i, limit) = {} THEN {}
            ELSE IF s[j] >= 128 THEN {Packet(i, j, "Bad", 0, 0, 0)}
            ELSE {Packet(i, j, h.type, Src(j), Value(j), j - i - 1)}
  IN  CASE h.type \in {"SWIT", "DWT"} ->
             IF i + 1 + h.n > Len(s) THEN {}
             ELSE {Packet(i, i + 1 + h.n, h.type, h.srcID,
                          LittleEndian(SubSeq(s, i + 2, i + 1 + h.n), 256), h.n)}
        [] h.type = "Async" ->
             LET js == {j \in (i + 2)..Len(s) : s[j] # 0}
             IN  IF js = {} THEN {}
                 ELSE {Packet(i, Min(js), IF Min(js) \in AsyncEnds(s, i) THEN "Async" ELSE "Bad",
                              0, 0, 0)}
        [] h.type = "Overflow" -> {Packet(i, i + 1, h.type, 0, 0, 0)}
        [] h.type = "TSLocal" ->
             IF b < 128 THEN {Packet(i, i + 1, h.type, 0, b \div 16, 1)}
             ELSE cont(5, LAMBDA j : Digits(s, i, j), LAMBDA j : (b \div 16) % 4)
        [] h.type = "Extension" ->
             IF b < 128 THEN {Packet(i, i + 1, h.type, 2 + 128 * Bit(b, 2), b \div 16, 4)}
             ELSE cont(5, LAMBDA j : 8 * Digits(s, i, j) + ((b \div 16) % 8), LAMBDA j : 9)
        [] h.type = "TSGlobal1" ->
             cont(5, LAMBDA j : IF j = i + 5 THEN Digits(s, i, j) % 2^26 ELSE Digits(s, i, j),
                     LAMBDA j : IF j = i + 5 THEN s[j] \div 32 ELSE 0)
        [] h.type = "TSGlobal2" -> cont(7, LAMBDA j : Digits(s, i, j), LAMBDA j : 0)
        [] h.type = "Reserved" ->
             IF i + 1 = Len(s) THEN {} ELSE {Packet(i, i + 1, "Bad", 0, 0, 0)}

\* All packets of s, from Async to bad packet and from there to the next Async.
PacketsOf(s) ==
  LET parse[i \in 0..Len(s), synced \in BOOLEAN] ==
        LET next == IF i = Len(s) THEN {}
                    ELSE IF synced THEN PacketAt(s, i)
                    ELSE IF AsyncEnds(s, i) = {} THEN {}
                    ELSE {Packet(Min(AsyncEnds(s, i)) - 6, Min(AsyncEnds(s, i)), "Async", 0, 0, 0)}
        IN  IF next = {} THEN <<>>
            ELSE LET p == CHOOSE q \in next : TRUE
                 IN  <<p>> \o parse[p.end, p.type # "Bad"]
  IN  parse[0, FALSE]

----------------------------------------------------------------------------
(* What the packets mean: p is PacketsOf a stream, k the number of one.    *)

\* The packets up to k since sync was last lost.
Since(p, k) == {m \in 1..k : \A x \in m..k : p[x].type # "Bad"}

OfType(p, ks, type) == {m \in ks : p[m].type = type}

\* The last of ks whose packet satisfies nothing more, or 0.
LastOf(ks) == Max(ks \cup {0})

GlobalNow(p, k) ==
  LET ks  == Since(p, k)
      g1  == OfType(p, ks, "TSGlobal1")
      g2  == LastOf(OfType(p, ks, "TSGlobal2"))
      digit(n) == LET m == LastOf({x \in g1 : p[x].valSz > n})
                  IN  IF m = 0 THEN 0 ELSE (p[m].value \div 128^n) % 128
  IN  [hi |-> IF g2 = 0 THEN 0 ELSE p[g2].value,
       lo |-> digit(0) + 128 * digit(1) + 128^2 * digit(2) + 128^3 * digit(3)]

\* A global time is complete from a GTS2 on, until a GTS1 says that the high
\* part has wrapped.
GlobalKnown(p, k) ==
  LET g2 == LastOf(OfType(p, Since(p, k), "TSGlobal2"))
  IN  g2 > 0 /\ \A m \in OfType(p, g2..k, "TSGlobal1") : Bit(p[m].srcID, 1) = 0

Sends(p, k) ==
  /\ Since(p, k) # {}
  /\ \/ p[k].type \in {"SWIT", "DWT", "TSLocal", "TSGlobal2"}
     \/ p[k].type = "TSGlobal1" /\ GlobalKnown(p, k)

\* Overflows and clock changes are reported once, with the next element that
\* can carry them.
AfterOverflow(p, k) ==
  LET o == LastOf(OfType(p, Since(p, k), "Overflow"))
  IN  o > 0 /\ \A m \in o..(k - 1) : ~Sends(p, m)

ClockChanged(p, k) ==
  \E m \in OfType(p, Since(p, k), "TSGlobal1") :
    /\ Bit(p[m].srcID, 0) = 1
    /\ \A x \in m..(k - 1) : ~(Sends(p, x) /\ p[x].type \in {"TSGlobal1", "TSGlobal2"})

\* Local time: the sum of the local time stamps since sync or overflow.
LocalNow(p, k) ==
  LET o == LastOf(OfType(p, Since(p, k), "Overflow"))
  IN  Prescale * FoldSet(LAMBDA m, acc : p[m].value + acc, 0,
                         {m \in OfType(p, Since(p, k), "TSLocal") : m > o})

\* The stimulus page: the last page register write since sync.
PageNow(p, k) ==
  LET e == LastOf({m \in OfType(p, Since(p, k), "Extension") : p[m].srcID = 2})
  IN  IF e = 0 THEN 0 ELSE p[e].value

ElementOf(p, k) ==
  LET q == p[k]
      e(type, size, value, srcID, ts, freq) ==
        [kind |-> "ITM", index |-> q.index, type |-> type, size |-> size, value |-> value,
         src |-> srcID, ts |-> ts, freq |-> freq, overflow |-> AfterOverflow(p, k)]
  IN  CASE q.type = "SWIT" ->
             e("SWITPayload", q.valSz, q.value, q.srcID + 32 * PageNow(p, k), NoTS, FALSE)
        [] q.type = "DWT" -> e("DWTPayload", q.valSz, q.value, q.srcID, NoTS, FALSE)
        [] q.type = "TSLocal" -> e(LocalTSType(q.srcID), q.valSz, q.value, 0,
                                   [hi |-> 0, lo |-> LocalNow(p, k)], FALSE)
        [] OTHER -> e("TSGlobal", 0, 0, 0, GlobalNow(p, k), ClockChanged(p, k))

FirstReason == IF resets = 0 THEN "InitDecoder" ELSE "ResetDecoder"
NoSync(i, reason) == [kind |-> "NoSync", index |-> i, reason |-> reason]

\* The elements of a stream: NoSync with the first byte that is not zero and
\* with every bad packet, and in between what the packets say.
ElementsOf(s) ==
  LET p == PacketsOf(s)
  IN  (IF \A k \in 1..Len(s) : s[k] = 0 THEN <<>> ELSE <<NoSync(0, FirstReason)>>)
      \o FlattenSeq([k \in 1..Len(p) |->
           IF p[k].type = "Bad" THEN <<NoSync(p[k].index, "BadPacket")>>
           ELSE IF Sends(p, k) THEN <<ElementOf(p, k)>> ELSE <<>>])

----------------------------------------------------------------------------
\* Between calls the elements are those of the bytes so far, whatever the
\* blocks were that brought them and wherever they cut a packet, an Async or
\* the bytes in front of it; also after Reset, and after a bad packet.  Close
\* adds the end of the trace and, if even NoSync was not said, NoSync.
ElementsOfStream ==
  pc = "idle" =>
    IF closed
    THEN /\ elems # <<>> /\ Last(elems).kind = "EOTrace"
         /\ \/ Front(elems) = ElementsOf(Prefix)
            \/ ElementsOf(Prefix) = <<>> /\ Len(elems) = 2 /\ elems[1].kind = "NoSync"
    ELSE elems = ElementsOf(Prefix)

\* The decoder takes packets exactly while the parser is in step with the
\* stream: it has left sync before the parser reads another byte.
InStep ==
  pc # "loop" \/ ps # "SendPkt" =>
    (dec.state = "Pkts" <=> bStreamSync)

\* The bytes of the first n packets of a sequence of observed ones.
Shown(packets, n) ==
  LET shown[m \in 0..Len(packets)] ==
        IF m = 0 THEN 0 ELSE shown[m - 1] + Len(packets[m].raw)
  IN  shown[n]

\* Offset of the n-th observed packet: the bytes of the ones before it.
Offset(n) == Shown(obs, n - 1)

\* What follows a NotSync packet at least as long as the reader's array, up to
\* the end of a run of NotSync packets: its bytes may come from stale memory.
Exposed(n) ==
  \E m \in 1..(n - 1) : /\ Len(obs[m].raw) >= Inline
                        /\ \A j \in m..(n - 1) : obs[j].type = "NotSync"

\* The observer sees every byte once and in order, except that the fifth byte of
\* a GTS1 is without its flags; what is not shown yet is the scratch.  Behind a
\* broken run of zeros that has outgrown the reader's array, up to the Async
\* that ends the search, only packets that outgrow it too are sure to have their
\* own bytes; the others have as many.
BytesAccounted ==
  /\ \A n \in 1..Len(obs) : \A k \in 1..Len(obs[n].raw) :
       LET b == src[Offset(n) + k]
       IN  \/ obs[n].raw[k] = IF obs[n].type = "TSGlobal1" /\ k = 5 THEN b % 32 ELSE b
           \/ Exposed(n) /\ Len(obs[n].raw) <= Inline
  /\ Offset(Len(obs) + 1) + Len(scratch) = pos

\* A packet is shown with the index of its first byte, but for the bytes that
\* are reported as NotSync and an Async right behind a bad packet.
IndexedAtStart ==
  \A n \in 1..Len(obs) :
    \/ obs[n].type = "NotSync"
    \/ n > 1 /\ obs[n - 1].type \in {"BadSequence", "Reserved"}
    \/ obs[n].index = Offset(n)

\* Every call of Write comes to an end, bad packets included.
WriteReturns == pc # "idle" ~> pc = "idle"

TypeOK ==
  /\ src \in Streams \cup NextStreams /\ avail \in 0..Len(src) /\ pos \in 0..avail
  /\ resets \in 0..MaxResets /\ closed \in BOOLEAN
  /\ pc \in {"idle", "loop", "sync"}
  /\ ps \in {"WaitSync", "ProcHdr", "ProcData", "SendPkt", "ProcErr"}
  /\ scratch \in Seq(0..255) /\ stale \in {<<>>} \cup [1..Inline -> 0..255]
  /\ pktIndex \in Nat /\ headerByte \in 0..255
  /\ pkt.srcID \in 0..255 /\ pkt.value \in Nat /\ pkt.valSz \in 0..5
  /\ bytesExpected \in {0, 1, 2, 4} /\ dump \in Nat
  /\ bStreamSync \in BOOLEAN /\ sentNotSync \in BOOLEAN /\ syncStart \in BOOLEAN
  /\ dec.state \in {"NoSync", "WaitSync", "Pkts"}
============================================================================
