---------------------------- MODULE Etmv4Proofs ----------------------------
(***************************************************************************)
(* Proofs about the ETMv4 and ETE parser, for every configuration, every   *)
(* stream, every way to cut it into blocks, and any number of packets that *)
(* the decoder refuses: every byte is shown once, at its place.            *)
(*                                                                         *)
(* Proofs about the decoder, for every program, every configuration and    *)
(* every sequence of packets: the depth is the number of elements in       *)
(* doubt, and what a packet does to them is what Speculation says.  A run  *)
(* of committed entries is worked off one entry at a time, and each leaves *)
(* the stack and the depths alone or loses sync; from that follows what a  *)
(* commit, a cancel and an overfull stack do, then what each packet does.  *)
(***************************************************************************)
EXTENDS Etmv4ParserProps, Etmv4Props, CommonLemmas, SequenceTheorems, FiniteSetTheorems, TLAPS

----------------------------------------------------------------------------
(* The parser.                                                             *)

\* The bytes that were shown and taken.
Done == Accepted(shown, Len(shown))

\* Every byte from i up to the place b is a zero.
ZerosFrom(i, b) == i <= b /\ \A k \in (i + 1)..b : src[k] = 0

Typed ==
  /\ session \in Sessions /\ pos \in Nat /\ avail \in Nat /\ pos <= avail /\ avail <= Len(src)
  /\ raw \in Seq(0..255) /\ packetIndex \in Nat /\ upd \in Nat
  /\ closed => pc = "idle"

\* The packets shown are bytes, each packet behind those that were taken before it.
Packet(p) == p.raw \in Seq(0..255) /\ p.index \in Nat
PlacedAt(p, b) == (\A k \in 1..Len(p.raw) : p.raw[k] = src[b + k]) /\ ZerosFrom(p.index, b)
ShownOK ==
  /\ IsSeq(shown)
  /\ \A n \in 1..Len(shown) : Packet(shown[n]) /\ PlacedAt(shown[n], Accepted(shown, n - 1))

\* The bytes read and not yet shown are in raw.
RawOK ==
  IF closed THEN Done = pos
  ELSE Done + Len(raw) = pos /\ \A k \in 1..Len(raw) : raw[k] = src[Done + k]

\* The place of the packet that is being read is that of its first byte, or there are
\* only zeros between the two.  What waits to be shown outside of a packet ends where
\* the next one will start, or is the first zero of an Async that is too long.
Searching == ~isSync /\ handler \in {"iPktExtension", "iPktASync"}
IndexOK ==
  ~closed =>
    /\ ps = "ProcHdr" => raw = <<>>
    /\ ps # "ProcHdr" => ZerosFrom(packetIndex, Done)
    /\ ps # "SendUnsynced" => upd = 0
    /\ ps = "SendUnsynced" =>
         /\ dump \in 1..Len(raw)
         /\ upd = Done + dump \/ (upd = 0 /\ dump = 1 /\ raw[1] = 0)

\* The bytes of an Async that may be the first one are zeros.
SearchOK ==
  ~closed /\ Searching =>
    /\ ps = "ProcData" => raw # <<>> /\ \A k \in 1..Len(raw) : raw[k] = 0
    /\ ps = "SendUnsynced" => dump < Len(raw) /\ \A k \in (dump + 1)..Len(raw) : raw[k] = 0

IInv == Typed /\ ShownOK /\ RawOK /\ IndexOK /\ SearchOK

----------------------------------------------------------------------------
(* The log of packets.                                                     *)

Packets(s) == IsSeq(s) /\ \A n \in 1..Len(s) : Packet(s[n])

LEMMA CountedNat == ASSUME NEW p, Packet(p) PROVE Counted(p) \in Nat /\ Len(p.raw) \in Nat
<1>1. Len(p.raw) \in Nat
  BY LenProperties DEF Packet
<1>2. QED  BY <1>1 DEF Counted

\* The bytes taken, packet by packet.
LEMMA AcceptedProperties ==
  ASSUME NEW s, Packets(s)
  PROVE  /\ Accepted(s, 0) = 0
         /\ \A n \in 1..Len(s) : Accepted(s, n) = Accepted(s, n - 1) + Counted(s[n])
         /\ \A n \in 0..Len(s) : Accepted(s, n) \in Nat
<1> DEFINE N == Len(s)
           size == [n \in 1..N |-> Counted(s[n])]
           step == [n \in 1..N |-> [x \in Nat |-> x + size[n]]]
           IsAccepted(f) == f = [n \in 0..N |-> IF n = 0 THEN 0 ELSE f[n - 1] + Counted(s[n])]
<1>1. N \in Nat
  BY AnySeqLen DEF Packets
<1>2. \A n \in 1..N : size[n] \in Nat /\ size[n] = Counted(s[n])
  BY CountedNat DEF Packets
<1>3. step \in [1..N -> [Nat -> Nat]]
  <2>1. \A n \in 1..N, x \in Nat : x + size[n] \in Nat
    BY <1>2
  <2>2. QED  BY <2>1, Zenon
<1>4. PICK f : Iterates(f, N, Nat, 0, step)
  <2> HIDE DEF step, N
  <2>1. 0 \in Nat
    OBVIOUS
  <2>2. QED  BY <1>1, <1>3, <2>1, Iteration, Zenon
<1>5. IsAccepted(f)
  <2>1. ASSUME NEW n \in 0..N PROVE f[n] = IF n = 0 THEN 0 ELSE f[n - 1] + Counted(s[n])
    <3>1. CASE n = 0
      BY <3>1, <1>4 DEF Iterates
    <3>2. CASE n # 0
      <4>1. n \in 1..N /\ n - 1 \in 0..N
        BY <1>1, <3>2
      <4>2. f[n - 1] \in Nat
        BY <4>1, <1>4 DEF Iterates
      <4>3. QED  BY <3>2, <4>1, <4>2, <1>4 DEF Iterates
    <3>3. QED  BY <3>1, <3>2
  <2> HIDE DEF N
  <2>2. QED  BY <2>1, <1>4 DEF Iterates
<1> DEFINE g == CHOOSE h : IsAccepted(h)
<1>6. IsAccepted(g)
  <2> HIDE DEF IsAccepted
  <2>1. QED  BY <1>5, Zenon
<1>7. \A n : Accepted(s, n) = g[n]
  BY DEF Accepted
<1> HIDE DEF g
<1>8. g[0] = 0 /\ \A n \in 1..N : g[n] = g[n - 1] + Counted(s[n])
  <2>1. \A n \in 0..N : g[n] = IF n = 0 THEN 0 ELSE g[n - 1] + Counted(s[n])
    BY <1>6
  <2> HIDE DEF N
  <2>2. 0 \in 0..N /\ \A n \in 1..N : n \in 0..N /\ n # 0
    BY <1>1
  <2>3. QED  BY <2>1, <2>2, Zenon
<1>9. 0..N \subseteq {n \in 0..N : g[n] \in Nat}
  <2> DEFINE T == {n \in 0..N : g[n] \in Nat}
  <2>1. 0 \in T
    BY <1>1, <1>8
  <2>2. ASSUME NEW n \in 1..N, n - 1 \in T PROVE n \in T
    <3>1. g[n - 1] \in Nat /\ n \in 0..N
      BY <1>1, <2>2
    <3>2. QED  BY <1>2, <1>8, <3>1
  <2> HIDE DEF T, N
  <2>3. \A n \in 1..N : n - 1 \in T => n \in T
    BY <2>2
  <2>4. QED  BY <1>1, <2>1, <2>3, IntervalInduction DEF T
<1>10. QED  BY <1>7, <1>8, <1>9, Zenon

\* One packet more.
LEMMA AcceptedAppend ==
  ASSUME NEW s, Packets(s), NEW p, Packet(p)
  PROVE  /\ Packets(s \o <<p>>)
         /\ \A n \in 0..Len(s) : Accepted(s \o <<p>>, n) = Accepted(s, n)
         /\ Accepted(s \o <<p>>, Len(s) + 1) = Accepted(s, Len(s)) + Counted(p)
<1> DEFINE t == s \o <<p>>
<1>1. /\ IsSeq(t) /\ Len(s) \in Nat /\ Len(t) = Len(s) + 1
      /\ t[Len(s) + 1] = p
      /\ \A n \in 1..Len(s) : t[n] = s[n]
  BY AnyOneMore DEF Packets
<1> HIDE DEF t
<1>0. Packets(t)
  <2>1. \A n \in 1..Len(t) : n \in 1..Len(s) \/ n = Len(s) + 1
    BY <1>1
  <2>2. QED  BY <1>1, <2>1, Zenon DEF Packets
<1>2. /\ Accepted(s, 0) = 0
      /\ \A n \in 1..Len(s) : Accepted(s, n) = Accepted(s, n - 1) + Counted(s[n])
  BY AcceptedProperties
<1>3. /\ Accepted(t, 0) = 0
      /\ \A n \in 1..Len(t) : Accepted(t, n) = Accepted(t, n - 1) + Counted(t[n])
  BY <1>0, AcceptedProperties
<1> DEFINE T == {n \in 0..Len(s) : Accepted(t, n) = Accepted(s, n)}
<1>4. 0 \in T
  BY <1>1, <1>2, <1>3
<1>5. \A n \in 1..Len(s) : n - 1 \in T => n \in T
  <2> SUFFICES ASSUME NEW n \in 1..Len(s), n - 1 \in T PROVE n \in T
    OBVIOUS
  <2>1. n \in 1..Len(t) /\ n \in 0..Len(s) /\ t[n] = s[n] /\ Accepted(t, n - 1) = Accepted(s, n - 1)
    BY <1>1
  <2>2. Accepted(t, n) = Accepted(s, n)
    BY <1>2, <1>3, <2>1, Zenon
  <2>3. QED  BY <2>1, <2>2
<1>6. 0..Len(s) \subseteq T
  <2> HIDE DEF T
  <2>1. QED  BY <1>1, <1>4, <1>5, IntervalInduction
<1>7. Accepted(t, Len(s) + 1) = Accepted(t, Len(s)) + Counted(p)
  <2>1. Len(s) + 1 \in 1..Len(t) /\ (Len(s) + 1) - 1 = Len(s)
    BY <1>1
  <2>2. QED  BY <1>1, <1>3, <2>1, Zenon
<1>8. Accepted(t, Len(s)) = Accepted(s, Len(s))
  <2>1. Len(s) \in 0..Len(s)
    BY <1>1
  <2>2. QED  BY <1>6, <2>1
<1>9. QED  BY <1>0, <1>6, <1>7, <1>8 DEF t

LEMMA DoneNat == ShownOK => Done \in Nat /\ Len(shown) \in Nat /\ Packets(shown)
<1> HAVE ShownOK
<1>1. Packets(shown) /\ Len(shown) \in Nat
  BY AnySeqLen DEF ShownOK, Packets
<1>2. Len(shown) \in 0..Len(shown)
  BY <1>1
<1>3. QED  BY <1>1, <1>2, AcceptedProperties DEF Done

\* A step that shows nothing.
LEMMA ShowsNothing ==
  ASSUME ShownOK, shown' = shown, session' = session
  PROVE  ShownOK' /\ Done' = Done
BY DEF ShownOK, Done, PlacedAt, ZerosFrom, src

\* A step that shows a packet at its place.
LEMMA Shows ==
  ASSUME ShownOK, NEW p, Packet(p), PlacedAt(p, Done), shown' = Append(shown, p), session' = session
  PROVE  ShownOK' /\ Done' = Done + Counted(p)
<1> DEFINE N == Len(shown)
<1>1. N \in Nat /\ Packets(shown)
  BY DoneNat
<1>2. shown' = shown \o <<p>>
  BY <1>1, AnyAppend DEF Packets
<1>3. /\ Len(shown') = N + 1 /\ shown'[N + 1] = p
      /\ \A n \in 1..N : shown'[n] = shown[n]
  BY <1>1, <1>2, AnyOneMore DEF Packets
<1>4. /\ Packets(shown')
      /\ \A n \in 0..N : Accepted(shown', n) = Accepted(shown, n)
      /\ Accepted(shown', N + 1) = Done + Counted(p)
  BY <1>1, <1>2, AcceptedAppend DEF Done
<1>5. \A q, b : PlacedAt(q, b)' <=> PlacedAt(q, b)
  BY DEF PlacedAt, ZerosFrom, src
<1>6. ASSUME NEW n \in 1..(N + 1)
      PROVE  PlacedAt(shown'[n], Accepted(shown', n - 1))
  <2>1. CASE n \in 1..N
    <3>1. n - 1 \in 0..N
      BY <1>1, <2>1
    <3>2. PlacedAt(shown[n], Accepted(shown, n - 1))
      BY <2>1 DEF ShownOK
    <3>3. QED  BY <1>3, <1>4, <2>1, <3>1, <3>2
  <2>2. CASE n = N + 1
    <3>1. n - 1 = N /\ N \in 0..N
      BY <1>1, <2>2
    <3>2. QED  BY <1>3, <1>4, <2>2, <3>1 DEF Done
  <2>3. QED  BY <1>1, <2>1, <2>2
<1>7. ShownOK'
  <2>1. IsSeq(shown') /\ \A n \in 1..Len(shown') : Packet(shown'[n])
    BY <1>4 DEF Packets
  <2>2. \A n \in 1..Len(shown') : PlacedAt(shown[n], Accepted(shown, n - 1))'
    BY <1>3, <1>5, <1>6
  <2>3. QED  BY <2>1, <2>2 DEF ShownOK, Packet
<1>8. QED  BY <1>3, <1>4, <1>7 DEF Done

----------------------------------------------------------------------------
(* The handlers: a byte is read into raw.                                  *)

LEMMA SourceBytes == Typed => src \in Seq(0..255) /\ Len(src) \in Nat
<1> HAVE Typed
<1>1. src \in Seq(0..255)
  BY SessionsAssumption DEF Typed, src
<1>2. QED  BY <1>1, LenProperties

LEMMA ReadStep ==
  ASSUME IInv, Read
  PROVE  /\ ~closed /\ ~closed' /\ ps = "ProcData" /\ upd = 0 /\ ZerosFrom(packetIndex, Done)
         /\ Len(raw) \in Nat /\ pos = Done + Len(raw) /\ Done \in Nat
         /\ raw' \in Seq(0..255) /\ Len(raw') = Len(raw) + 1
         /\ raw'[Len(raw) + 1] = Byte /\ \A k \in 1..Len(raw) : raw'[k] = raw[k]
         /\ ShownOK' /\ RawOK' /\ Done' = Done
         /\ packetIndex' \in Nat /\ upd' \in Nat => Typed'
<1>1. /\ pc = "loop" /\ pos < avail /\ ps = "ProcData" /\ pos' = pos + 1 /\ raw' = Append(raw, Byte)
      /\ session' = session /\ closed' = closed /\ avail' = avail /\ pc' = pc /\ shown' = shown
  BY DEF Read, More, callVars, outVars
<1>2. /\ pos \in Nat /\ avail \in Nat /\ pos <= avail /\ avail <= Len(src) /\ raw \in Seq(0..255)
      /\ closed => pc = "idle"
  BY DEF IInv, Typed
<1>3. ~closed
  BY <1>1, <1>2
<1>4. upd = 0 /\ ZerosFrom(packetIndex, Done)
  BY <1>1, <1>3 DEF IInv, IndexOK
<1>5. Byte \in 0..255
  <2>1. src \in Seq(0..255) /\ Len(src) \in Nat
    BY SourceBytes DEF IInv
  <2>2. pos + 1 \in 1..Len(src)
    BY <1>1, <1>2, <2>1
  <2>3. QED  BY <2>1, <2>2, ElementOfSeq DEF Byte
<1>6. /\ raw' \in Seq(0..255) /\ Len(raw') = Len(raw) + 1 /\ Len(raw) \in Nat
      /\ raw'[Len(raw) + 1] = Byte /\ \A k \in 1..Len(raw) : raw'[k] = raw[k]
  BY <1>1, <1>2, <1>5, AppendProperties, LenProperties
<1>7. Done + Len(raw) = pos /\ \A k \in 1..Len(raw) : raw[k] = src[Done + k]
  BY <1>3 DEF IInv, RawOK
<1>8. Done \in Nat
  BY DoneNat DEF IInv
<1>9. ShownOK' /\ Done' = Done
  BY <1>1, ShowsNothing DEF IInv
<1>10. RawOK'
  <2>1. Done + Len(raw') = pos'
    BY <1>1, <1>6, <1>7, <1>8
  <2>2. ASSUME NEW k \in 1..Len(raw') PROVE raw'[k] = src[Done + k]
    <3>1. k \in 1..Len(raw) \/ k = Len(raw) + 1
      BY <1>6
    <3>2. CASE k \in 1..Len(raw)
      BY <1>6, <1>7, <3>2
    <3>3. CASE k = Len(raw) + 1
      <4>1. Done + k = pos + 1
        BY <1>6, <1>7, <1>8, <3>3
      <4>2. QED  BY <1>6, <3>3, <4>1 DEF Byte
    <3>4. QED  BY <3>1, <3>2, <3>3
  <2>3. src' = src
    BY <1>1 DEF src
  <2>4. ~closed'
    BY <1>1, <1>3
  <2>5. QED  BY <1>9, <2>1, <2>2, <2>3, <2>4 DEF RawOK
<1>11. ASSUME packetIndex' \in Nat, upd' \in Nat PROVE Typed'
  <2>1. src' = src
    BY <1>1 DEF src
  <2>2. session' \in Sessions
    BY <1>1 DEF IInv, Typed
  <2>3. pos' \in Nat /\ pos' <= avail'
    BY <1>1, <1>2
  <2>4. closed' => pc' = "idle"
    BY <1>1, <1>3
  <2>5. QED  BY <1>1, <1>2, <1>6, <1>11, <2>1, <2>2, <2>3, <2>4 DEF Typed
<1>12. QED  BY <1>1, <1>3, <1>4, <1>6, <1>7, <1>8, <1>9, <1>10, <1>11

\* A handler that leaves the place of the packet alone, and has nothing shown.
LEMMA ReadsOn ==
  ASSUME IInv, Read, packetIndex' = packetIndex, upd' = upd, ps' \in {"ProcData", "SendPkt"}
  PROVE  Typed' /\ ShownOK' /\ RawOK' /\ IndexOK'
<1>1. /\ ~closed' /\ upd = 0 /\ ZerosFrom(packetIndex, Done) /\ ShownOK' /\ RawOK' /\ Done' = Done
      /\ packetIndex' \in Nat /\ upd' \in Nat => Typed'
  BY ReadStep
<1>2. packetIndex \in Nat
  BY DEF IInv, Typed
<1>3. Typed'
  BY <1>1, <1>2
<1>4. ps' # "ProcHdr" /\ ps' # "SendUnsynced"
  OBVIOUS
<1>5. src' = src
  BY DEF Read, callVars, src
<1>6. ZerosFrom(packetIndex, Done)'
  BY <1>1, <1>5 DEF ZerosFrom
<1>7. QED  BY <1>1, <1>3, <1>4, <1>6 DEF IndexOK

LEMMA PayloadIInv == IInv /\ Payload => IInv'
<1> SUFFICES ASSUME IInv, Payload PROVE IInv'
  OBVIOUS
<1>1. /\ Read /\ packetIndex' = packetIndex /\ upd' = upd /\ handler' = handler
      /\ handler \notin {"iPktExtension", "iPktASync"}
      /\ ps' = "SendPkt" \/ ps' = ps
  BY DEF Payload
<1>2. ps = "ProcData"
  BY <1>1, ReadStep
<1>3. Typed' /\ ShownOK' /\ RawOK' /\ IndexOK'
  BY <1>1, <1>2, ReadsOn
<1>4. SearchOK'
  BY <1>1 DEF SearchOK, Searching
<1>5. QED  BY <1>3, <1>4 DEF IInv

\* Another zero of what may be an Async.
LEMMA OneMoreZero ==
  ASSUME IInv, Read, Searching, Byte = 0
  PROVE  raw' # <<>> /\ \A k \in 1..Len(raw') : raw'[k] = 0
<1>1. /\ ~closed /\ ps = "ProcData" /\ Len(raw) \in Nat /\ Len(raw') = Len(raw) + 1
      /\ raw' \in Seq(0..255)
      /\ raw'[Len(raw) + 1] = Byte /\ \A k \in 1..Len(raw) : raw'[k] = raw[k]
  BY ReadStep
<1>2. \A k \in 1..Len(raw) : raw[k] = 0
  BY <1>1 DEF IInv, SearchOK
<1>3. raw' # <<>>
  BY <1>1, EmptySeq
<1>4. \A k \in 1..Len(raw') : k \in 1..Len(raw) \/ k = Len(raw) + 1
  BY <1>1
<1>5. QED  BY <1>1, <1>2, <1>3, <1>4

LEMMA ExtensionIInv == IInv /\ iPktExtension => IInv'
<1> SUFFICES ASSUME IInv, iPktExtension PROVE IInv'
  OBVIOUS
<1>1. /\ Read /\ packetIndex' = packetIndex /\ upd' = upd /\ isSync' = isSync /\ handler = "iPktExtension"
      /\ \/ raw = <<>> /\ handler' = handler /\ ps' = ps
         \/ handler' = "iNotSync" /\ ps' = ps
         \/ isSync /\ (ps' = ps \/ ps' = "SendPkt")
         \/ Byte = 0 /\ ps' = ps
         \/ ps' = "SendPkt"
  BY DEF iPktExtension
<1>2. ps = "ProcData" /\ ~closed
  BY <1>1, ReadStep
<1>3. Typed' /\ ShownOK' /\ RawOK' /\ IndexOK'
  BY <1>1, <1>2, ReadsOn
<1>4. SearchOK'
  <2> SUFFICES ASSUME ~closed', Searching' PROVE
         /\ ps' = "ProcData" => raw' # <<>> /\ \A k \in 1..Len(raw') : raw'[k] = 0
         /\ ps' = "SendUnsynced" => dump' < Len(raw') /\ \A k \in (dump' + 1)..Len(raw') : raw'[k] = 0
    BY DEF SearchOK
  <2>1. ~isSync /\ Searching /\ handler' # "iNotSync"
    BY <1>1 DEF Searching
  <2>2. raw # <<>>
    BY <1>2, <2>1 DEF IInv, SearchOK
  <2>3. ps' = "SendPkt" \/ (ps' = "ProcData" /\ Byte = 0)
    BY <1>1, <1>2, <2>1, <2>2
  <2>4. CASE ps' = "SendPkt"
    BY <2>4
  <2>5. CASE ps' = "ProcData" /\ Byte = 0
    BY <1>1, <2>1, <2>5, OneMoreZero
  <2>6. QED  BY <2>3, <2>4, <2>5
<1>5. QED  BY <1>3, <1>4 DEF IInv

LEMMA ASyncIInv == IInv /\ iPktASync => IInv'
<1> SUFFICES ASSUME IInv, iPktASync PROVE IInv'
  OBVIOUS
<1>1. /\ Read /\ packetIndex' = packetIndex /\ upd' = upd /\ handler = "iPktASync"
      /\ \/ handler' = "iNotSync" /\ ps' = ps
         \/ ps' = "SendPkt"
         \/ /\ Byte = 0 /\ Len(raw) + 1 = 12 /\ ~isSync /\ dump' = 1 /\ ps' = "SendUnsynced"
            /\ isSync' = isSync
         \/ Byte = 0 /\ handler' = handler /\ ps' = ps /\ isSync' = isSync
  BY DEF iPktASync
<1>2. /\ ps = "ProcData" /\ ~closed /\ upd = 0 /\ ZerosFrom(packetIndex, Done) /\ Len(raw) \in Nat
      /\ Len(raw') = Len(raw) + 1 /\ ShownOK' /\ RawOK' /\ Done' = Done
      /\ packetIndex' \in Nat /\ upd' \in Nat => Typed'
  BY <1>1, ReadStep
<1>3. CASE handler' = "iNotSync" /\ ps' = ps
  <2>1. Typed' /\ ShownOK' /\ RawOK' /\ IndexOK'
    BY <1>1, <1>2, <1>3, ReadsOn
  <2>2. SearchOK'
    BY <1>3 DEF SearchOK, Searching
  <2>3. QED  BY <2>1, <2>2 DEF IInv
<1>4. CASE ps' = "SendPkt"
  <2>1. Typed' /\ ShownOK' /\ RawOK' /\ IndexOK'
    BY <1>1, <1>4, ReadsOn
  <2>2. SearchOK'
    BY <1>4 DEF SearchOK
  <2>3. QED  BY <2>1, <2>2 DEF IInv
<1>5. CASE Byte = 0 /\ handler' = handler /\ ps' = ps /\ isSync' = isSync
  <2>1. Typed' /\ ShownOK' /\ RawOK' /\ IndexOK'
    BY <1>1, <1>2, <1>5, ReadsOn
  <2>2. Searching' => raw' # <<>> /\ \A k \in 1..Len(raw') : raw'[k] = 0
    <3>1. Searching' => Searching
      BY <1>5 DEF Searching
    <3>2. QED  BY <1>1, <1>5, <3>1, OneMoreZero
  <2>3. SearchOK'
    BY <1>2, <1>5, <2>2 DEF SearchOK
  <2>4. QED  BY <2>1, <2>3 DEF IInv
<1>6. CASE /\ Byte = 0 /\ Len(raw) + 1 = 12 /\ ~isSync /\ dump' = 1 /\ ps' = "SendUnsynced"
           /\ isSync' = isSync
  <2>1. Searching
    BY <1>1, <1>6 DEF Searching
  <2>2. \A k \in 1..Len(raw') : raw'[k] = 0
    BY <1>1, <1>6, <2>1, OneMoreZero
  <2>3. Len(raw') = 12
    BY <1>2, <1>6
  <2>4. raw'[1] = 0 /\ dump' \in 1..Len(raw') /\ dump' < Len(raw')
    BY <1>6, <2>2, <2>3
  <2>5. Typed'
    <3>1. packetIndex' \in Nat
      BY <1>1 DEF IInv, Typed
    <3>2. upd' \in Nat
      BY <1>1, <1>2
    <3>3. QED  BY <1>2, <3>1, <3>2
  <2>6. ZerosFrom(packetIndex, Done)'
    <3>1. src' = src
      BY <1>1 DEF Read, callVars, src
    <3>2. QED  BY <1>1, <1>2, <3>1 DEF ZerosFrom
  <2>7. IndexOK'
    <3>1. upd' = 0
      BY <1>1, <1>2
    <3>2. QED  BY <1>6, <2>4, <2>6, <3>1 DEF IndexOK
  <2>8. SearchOK'
    <3>1. \A k \in 2..Len(raw') : raw'[k] = 0
      BY <2>2, <2>3
    <3>2. dump' + 1 = 2
      BY <1>6
    <3>3. QED  BY <1>6, <2>4, <3>1, <3>2 DEF SearchOK
  <2>9. QED  BY <1>2, <2>5, <2>7, <2>8 DEF IInv
<1>7. QED  BY <1>1, <1>3, <1>4, <1>5, <1>6

LEMMA NotSyncIInv == IInv /\ iNotSync => IInv'
<1> SUFFICES ASSUME IInv, iNotSync PROVE IInv'
  OBVIOUS
<1>1. /\ Read /\ handler = "iNotSync"
      /\ \/ /\ Byte = 0 /\ raw # <<>> /\ dump' = Len(raw) /\ ps' = "SendUnsynced" /\ upd' = pos
            /\ packetIndex' = packetIndex
         \/ /\ Byte = 0 /\ raw = <<>> /\ packetIndex' = pos /\ ps' = ps /\ upd' = upd
         \/ /\ dump' = Len(raw) + 1 /\ ps' = "SendUnsynced" /\ upd' = pos + 1
            /\ handler' = handler /\ packetIndex' = packetIndex
         \/ ps' = ps /\ upd' = upd /\ handler' = handler /\ packetIndex' = packetIndex
  BY DEF iNotSync
<1>2. /\ ps = "ProcData" /\ ~closed /\ ~closed' /\ upd = 0 /\ ZerosFrom(packetIndex, Done)
      /\ Len(raw) \in Nat /\ pos = Done + Len(raw) /\ Done \in Nat
      /\ raw' \in Seq(0..255) /\ Len(raw') = Len(raw) + 1
      /\ raw'[Len(raw) + 1] = Byte /\ \A k \in 1..Len(raw) : raw'[k] = raw[k]
      /\ ShownOK' /\ RawOK' /\ Done' = Done
      /\ packetIndex' \in Nat /\ upd' \in Nat => Typed'
  BY <1>1, ReadStep
<1>3. packetIndex \in Nat /\ pos \in Nat /\ raw \in Seq(0..255)
  BY DEF IInv, Typed
<1>4. \A i : ZerosFrom(i, Done) => ZerosFrom(i, Done)'
  <2>1. src' = src
    BY <1>1 DEF Read, callVars, src
  <2>2. QED  BY <1>2, <2>1 DEF ZerosFrom
<1>5. CASE /\ Byte = 0 /\ raw # <<>> /\ dump' = Len(raw) /\ ps' = "SendUnsynced" /\ upd' = pos
           /\ packetIndex' = packetIndex
  <2>1. Len(raw) # 0
    BY <1>3, <1>5, EmptySeq
  <2>2. Typed'
    BY <1>2, <1>3, <1>5
  <2>3. ZerosFrom(packetIndex, Done)'
    BY <1>2, <1>4, <1>5 DEF ZerosFrom
  <2>4. dump' \in 1..Len(raw') /\ upd' = Done' + dump' /\ dump' < Len(raw')
    BY <1>2, <1>5, <2>1
  <2>5. IndexOK'
    BY <1>5, <2>3, <2>4 DEF IndexOK
  <2>6. \A k \in (dump' + 1)..Len(raw') : raw'[k] = 0
    <3>1. \A k \in (dump' + 1)..Len(raw') : k = Len(raw) + 1
      BY <1>2, <1>5
    <3>2. QED  BY <1>2, <1>5, <3>1
  <2>7. SearchOK'
    BY <1>5, <2>4, <2>6 DEF SearchOK
  <2>8. QED  BY <1>2, <2>2, <2>5, <2>7 DEF IInv
<1>6. CASE Byte = 0 /\ raw = <<>> /\ packetIndex' = pos /\ ps' = ps /\ upd' = upd
  <2>1. Len(raw) = 0
    BY <1>3, <1>6, EmptySeq
  <2>2. Typed'
    BY <1>2, <1>3, <1>6
  <2>3. ZerosFrom(packetIndex, Done)'
    <3>1. packetIndex' = pos /\ Done' = pos
      BY <1>2, <1>6, <2>1
    <3>2. pos <= pos /\ (pos + 1)..pos = {}
      BY <1>3
    <3>3. QED  BY <3>1, <3>2 DEF ZerosFrom
  <2>4. IndexOK'
    BY <1>2, <1>6, <2>3 DEF IndexOK
  <2>5. raw' # <<>> /\ \A k \in 1..Len(raw') : raw'[k] = 0
    <3>1. Len(raw') = 1 /\ raw'[1] = 0
      BY <1>2, <1>6, <2>1
    <3>2. raw' # <<>>
      BY <3>1, AnyEmpty
    <3>3. \A k \in 1..1 : k = 1
      OBVIOUS
    <3>4. QED  BY <3>1, <3>2, <3>3
  <2>6. SearchOK'
    BY <1>2, <1>6, <2>5 DEF SearchOK
  <2>7. QED  BY <1>2, <2>2, <2>4, <2>6 DEF IInv
<1>7. CASE /\ dump' = Len(raw) + 1 /\ ps' = "SendUnsynced" /\ upd' = pos + 1
           /\ handler' = handler /\ packetIndex' = packetIndex
  <2>1. Typed'
    BY <1>2, <1>3, <1>7
  <2>2. ZerosFrom(packetIndex, Done)'
    BY <1>2, <1>4, <1>7 DEF ZerosFrom
  <2>3. dump' \in 1..Len(raw') /\ upd' = Done' + dump'
    BY <1>2, <1>7
  <2>4. IndexOK'
    BY <1>7, <2>2, <2>3 DEF IndexOK
  <2>5. SearchOK'
    BY <1>1, <1>7 DEF SearchOK, Searching
  <2>6. QED  BY <1>2, <2>1, <2>4, <2>5 DEF IInv
<1>8. CASE ps' = ps /\ upd' = upd /\ handler' = handler /\ packetIndex' = packetIndex
  <2>1. Typed' /\ ShownOK' /\ RawOK' /\ IndexOK'
    BY <1>1, <1>2, <1>8, ReadsOn
  <2>2. SearchOK'
    BY <1>1, <1>8 DEF SearchOK, Searching
  <2>3. QED  BY <2>1, <2>2 DEF IInv
<1>9. QED  BY <1>1, <1>5, <1>6, <1>7, <1>8

----------------------------------------------------------------------------
(* Headers, and what is sent.                                              *)

LEMMA ProcHdrIInv == IInv /\ ProcHdr => IInv'
<1> SUFFICES ASSUME IInv, ProcHdr PROVE IInv'
  OBVIOUS
<1>1. /\ pc = "loop" /\ ps = "ProcHdr" /\ packetIndex' = pos /\ ps' = "ProcData"
      /\ isSync \/ handler' = "iNotSync"
      /\ session' = session /\ closed' = closed /\ avail' = avail /\ pos' = pos /\ pc' = pc
      /\ raw' = raw /\ isSync' = isSync /\ upd' = upd /\ shown' = shown
  BY DEF ProcHdr, More, callVars, syncVars, outVars
<1>2. Typed /\ (closed => pc = "idle")
  BY DEF IInv, Typed
<1>3. ~closed /\ raw = <<>> /\ upd = 0
  BY <1>1, <1>2 DEF IInv, IndexOK
<1>4. ShownOK' /\ Done' = Done /\ Done \in Nat
  BY <1>1, ShowsNothing, DoneNat DEF IInv
<1>5. src' = src
  BY <1>1 DEF src
<1>6. Typed'
  BY <1>1, <1>2, <1>5 DEF Typed
<1>7. RawOK'
  BY <1>1, <1>4, <1>5 DEF IInv, RawOK
<1>8. Done = pos
  <2>1. Len(raw) = 0 /\ Done + Len(raw) = pos
    BY <1>3, AnyEmpty DEF IInv, RawOK
  <2>2. QED  BY <1>4, <2>1
<1>9. ZerosFrom(packetIndex, Done)'
  BY <1>1, <1>4, <1>8 DEF ZerosFrom
<1>10. IndexOK'
  BY <1>1, <1>3, <1>9 DEF IndexOK
<1>11. SearchOK'
  BY <1>1 DEF SearchOK, Searching
<1>12. QED  BY <1>4, <1>6, <1>7, <1>10, <1>11 DEF IInv

\* What Show adds to the log.
ShownPacket(bytes, ok) == [index |-> packetIndex, type |-> pkt.type, raw |-> bytes, ok |-> ok]

LEMMA ShowsBytes ==
  ASSUME Typed, ShownOK, session' = session, NEW bytes \in Seq(0..255),
         \A k \in 1..Len(bytes) : bytes[k] = src[Done + k], ZerosFrom(packetIndex, Done)
  PROVE  /\ Show(bytes, TRUE) => ShownOK' /\ Done' = Done + Len(bytes)
         /\ Show(bytes, FALSE) => ShownOK' /\ Done' = Done
<1>1. Done \in Nat
  BY DoneNat
<1>2. ASSUME NEW ok, Show(bytes, ok)
      PROVE  \/ bytes = <<>> /\ ShownOK' /\ Done' = Done
             \/ ShownOK' /\ Done' = Done + Counted(ShownPacket(bytes, ok))
  <2>1. CASE bytes = <<>>
    <3>1. shown' = shown
      BY <1>2, <2>1 DEF Show
    <3>2. QED  BY <2>1, <3>1, ShowsNothing
  <2>2. CASE bytes # <<>>
    <3> DEFINE p == ShownPacket(bytes, ok)
    <3>1. p.raw = bytes /\ p.index = packetIndex /\ packetIndex \in Nat
      BY DEF ShownPacket, Typed
    <3>2. shown' = Append(shown, p)
      BY <1>2, <2>2 DEF Show, ShownPacket
    <3> HIDE DEF p
    <3>3. Packet(p) /\ PlacedAt(p, Done)
      BY <3>1 DEF Packet, PlacedAt
    <3>4. ShownOK' /\ Done' = Done + Counted(p)
      BY <3>2, <3>3, Shows
    <3>5. QED  BY <3>4 DEF p
  <2>3. QED  BY <2>1, <2>2
<1>3. Counted(ShownPacket(bytes, TRUE)) = Len(bytes) /\ Counted(ShownPacket(bytes, FALSE)) = 0
  BY DEF Counted, ShownPacket
<1>4. bytes = <<>> => Len(bytes) = 0
  BY AnyEmpty
<1>5. ASSUME Show(bytes, TRUE) PROVE ShownOK' /\ Done' = Done + Len(bytes)
  <2>1. \/ bytes = <<>> /\ ShownOK' /\ Done' = Done
        \/ ShownOK' /\ Done' = Done + Counted(ShownPacket(bytes, TRUE))
    BY <1>2, <1>5, Zenon
  <2> DEFINE c == Counted(ShownPacket(bytes, TRUE))
  <2>2. c = Len(bytes)
    BY <1>3, Zenon
  <2>3. (bytes = <<>> /\ ShownOK' /\ Done' = Done) \/ (ShownOK' /\ Done' = Done + c)
    BY <2>1, Zenon
  <2> HIDE DEF c
  <2>4. QED  BY <1>1, <1>4, <2>2, <2>3
<1>6. ASSUME Show(bytes, FALSE) PROVE ShownOK' /\ Done' = Done
  <2>1. \/ bytes = <<>> /\ ShownOK' /\ Done' = Done
        \/ ShownOK' /\ Done' = Done + Counted(ShownPacket(bytes, FALSE))
    BY <1>2, <1>6, Zenon
  <2> DEFINE c == Counted(ShownPacket(bytes, FALSE))
  <2>2. c = 0
    BY <1>3, Zenon
  <2>3. (bytes = <<>> /\ ShownOK' /\ Done' = Done) \/ (ShownOK' /\ Done' = Done + c)
    BY <2>1, Zenon
  <2> HIDE DEF c
  <2>4. QED  BY <1>1, <2>2, <2>3
<1>7. QED  BY <1>5, <1>6

LEMMA SendPktIInv == IInv /\ SendPkt => IInv'
<1> SUFFICES ASSUME IInv, SendPkt PROVE IInv'
  OBVIOUS
<1>1. /\ pc = "loop" /\ ps = "SendPkt" /\ session' = session /\ closed' = closed
      /\ avail' = avail /\ pos' = pos /\ packetIndex' = packetIndex
      /\ \/ Show(raw, TRUE) /\ ps' = "ProcHdr" /\ raw' = <<>> /\ upd' = 0 /\ pc' = pc
         \/ Show(raw, FALSE) /\ ps' = ps /\ raw' = raw /\ upd' = upd
  BY DEF SendPkt, StaysToSend, callVars
<1>2. Typed /\ (closed => pc = "idle") /\ raw \in Seq(0..255) /\ upd \in Nat
  BY DEF IInv, Typed
<1>3. ~closed /\ upd = 0 /\ ZerosFrom(packetIndex, Done)
  BY <1>1, <1>2 DEF IInv, IndexOK
<1>4. Done + Len(raw) = pos /\ \A k \in 1..Len(raw) : raw[k] = src[Done + k]
  BY <1>3 DEF IInv, RawOK
<1>5. src' = src
  BY <1>1 DEF src
<1>6. /\ Show(raw, TRUE) => ShownOK' /\ Done' = Done + Len(raw)
      /\ Show(raw, FALSE) => ShownOK' /\ Done' = Done
  BY <1>1, <1>2, <1>3, <1>4, ShowsBytes DEF IInv
<1>7. CASE Show(raw, TRUE) /\ ps' = "ProcHdr" /\ raw' = <<>> /\ upd' = 0 /\ pc' = pc
  <2>1. raw' \in Seq(0..255) /\ Len(raw') = 0
    BY <1>7, EmptySeq
  <2>2. Typed'
    BY <1>1, <1>2, <1>3, <1>5, <1>7, <2>1 DEF Typed
  <2>3. RawOK'
    <3>1. pos' \in Nat
      BY <1>1, <1>2 DEF Typed
    <3>2. Done' + Len(raw') = pos'
      BY <1>1, <1>4, <1>6, <1>7, <2>1, <3>1
    <3>3. 1..Len(raw') = {}
      BY <2>1
    <3>4. QED  BY <1>1, <1>3, <3>2, <3>3 DEF RawOK
  <2>4. IndexOK' /\ SearchOK'
    BY <1>7 DEF IndexOK, SearchOK
  <2>5. QED  BY <1>6, <1>7, <2>2, <2>3, <2>4 DEF IInv
<1>8. CASE Show(raw, FALSE) /\ ps' = ps /\ raw' = raw /\ upd' = upd
  <2>1. Typed'
    <3>1. ~closed'
      BY <1>1, <1>3
    <3>2. QED  BY <1>1, <1>2, <1>5, <1>8, <3>1 DEF Typed
  <2>2. RawOK'
    BY <1>1, <1>3, <1>4, <1>5, <1>6, <1>8 DEF RawOK
  <2>3. ZerosFrom(packetIndex, Done)'
    BY <1>1, <1>3, <1>5, <1>6, <1>8 DEF ZerosFrom
  <2>4. IndexOK' /\ SearchOK'
    BY <1>1, <1>3, <1>8, <2>3 DEF IndexOK, SearchOK
  <2>5. QED  BY <1>6, <1>8, <2>1, <2>2, <2>4 DEF IInv
<1>9. QED  BY <1>1, <1>7, <1>8

\* The first n bytes of raw are shown, and the others stay.
LEMMA SplitRaw ==
  ASSUME Typed, NEW n \in 1..Len(raw)
  PROVE  /\ SubSeq(raw, 1, n) \in Seq(0..255) /\ Len(SubSeq(raw, 1, n)) = n
         /\ \A k \in 1..n : SubSeq(raw, 1, n)[k] = raw[k]
         /\ RawBehind(n) \in Seq(0..255) /\ Len(RawBehind(n)) = Len(raw) - n
         /\ \A k \in 1..(Len(raw) - n) : RawBehind(n)[k] = raw[n + k]
<1>1. raw \in Seq(0..255) /\ Len(raw) \in Nat
  BY LenProperties DEF Typed
<1>2. \A k \in 1..Len(raw) : raw[k] \in 0..255
  BY <1>1, ElementOfSeq
<1>3. /\ SubSeq(raw, 1, n) = [k \in 1..n |-> raw[k]] /\ Len(SubSeq(raw, 1, n)) = n
      /\ SubSeq(raw, 1, n) \in Seq(0..255)
  <2>1. \A k \in 1..n : raw[k] \in 0..255
    BY <1>1, <1>2
  <2>2. SubSeq(raw, 1, n) \in Seq(0..255)
    BY <1>1, <2>1, SubSeqProperties
  <2>3. Len(SubSeq(raw, 1, n)) = n /\ \A k \in 1..n : SubSeq(raw, 1, n)[k] = raw[k]
    BY <1>1, SubSeqProperties
  <2>4. QED  BY <2>2, <2>3, LenProperties
<1>4. /\ RawBehind(n) \in Seq(0..255) /\ Len(RawBehind(n)) = Len(raw) - n
      /\ \A k \in 1..(Len(raw) - n) : RawBehind(n)[k] = raw[n + k]
  <2>1. RawBehind(n) = SubSeq(raw, n + 1, Len(raw))
    BY DEF RawBehind, From
  <2>2. n + 1 \in Int /\ Len(raw) \in Int /\ \A k \in (n + 1)..Len(raw) : raw[k] \in 0..255
    BY <1>1, <1>2
  <2> DEFINE m == n + 1
             e == Len(raw)
  <2>3. m \in Int /\ e \in Int /\ \A k \in m..e : raw[k] \in 0..255
    BY <2>2
  <2> HIDE DEF m, e
  <2>4. /\ SubSeq(raw, m, e) \in Seq(0..255)
        /\ Len(SubSeq(raw, m, e)) = IF m <= e THEN e - m + 1 ELSE 0
        /\ \A k \in 1..(e - m + 1) : SubSeq(raw, m, e)[k] = raw[m + k - 1]
    BY ONLY <2>3, SubSeqProperties
  <2>5. RawBehind(n) = SubSeq(raw, m, e)
    BY <2>1 DEF m, e
  <2>6. Len(RawBehind(n)) = Len(raw) - n
    BY <1>1, <2>4, <2>5 DEF m, e
  <2>7. \A k \in 1..(Len(raw) - n) : k \in 1..(e - m + 1) /\ m + k - 1 = n + k
    BY <1>1 DEF m, e
  <2>8. QED  BY <2>4, <2>5, <2>6, <2>7
<1>5. QED  BY <1>3, <1>4

LEMMA SendUnsyncedIInv == IInv /\ SendUnsynced => IInv'
<1> SUFFICES ASSUME IInv, SendUnsynced PROVE IInv'
  OBVIOUS
<1> DEFINE n == Min({dump, Len(raw)})
<1>1. /\ pc = "loop" /\ ps = "SendUnsynced" /\ session' = session /\ closed' = closed /\ pc' = pc
      /\ avail' = avail /\ pos' = pos /\ handler' = handler /\ isSync' = isSync
      /\ Show(SubSeq(raw, 1, n), TRUE) /\ raw' = RawBehind(n)
      /\ packetIndex' = (IF upd # 0 THEN upd ELSE packetIndex) /\ upd' = 0 /\ ps' = "ProcData"
  BY DEF SendUnsynced, More, callVars
<1>2. Typed /\ (closed => pc = "idle") /\ raw \in Seq(0..255)
  BY DEF IInv, Typed
<1>3. /\ ~closed /\ ZerosFrom(packetIndex, Done) /\ dump \in 1..Len(raw)
      /\ upd = Done + dump \/ (upd = 0 /\ dump = 1 /\ raw[1] = 0)
  BY <1>1, <1>2 DEF IInv, IndexOK
<1>4. Len(raw) \in Nat
  BY <1>2, LenProperties
<1>5. n = dump
  <2>1. {dump, Len(raw)} \in SUBSET Nat /\ {dump, Len(raw)} # {}
    BY <1>3, <1>4
  <2>2. n \in {dump, Len(raw)} /\ \A m \in {dump, Len(raw)} : n <= m
    BY <2>1, MinMember
  <2> HIDE DEF n
  <2>3. QED  BY <1>3, <1>4, <2>2
<1> HIDE DEF n
<1> DEFINE head == SubSeq(raw, 1, n)
<1>6. /\ head \in Seq(0..255) /\ Len(head) = n /\ \A k \in 1..n : head[k] = raw[k]
      /\ raw' \in Seq(0..255) /\ Len(raw') = Len(raw) - n
      /\ \A k \in 1..(Len(raw) - n) : raw'[k] = raw[n + k]
  BY <1>1, <1>2, <1>3, <1>5, SplitRaw
<1> HIDE DEF head
<1>7. Done + Len(raw) = pos /\ (\A k \in 1..Len(raw) : raw[k] = src[Done + k]) /\ Done \in Nat
  BY <1>3, DoneNat DEF IInv, RawOK
<1>8. \A k \in 1..Len(head) : head[k] = src[Done + k]
  BY <1>3, <1>4, <1>5, <1>6, <1>7
<1>9. ShownOK' /\ Done' = Done + Len(head)
  <2>1. Show(head, TRUE)
    BY <1>1 DEF head
  <2>2. QED  BY <1>1, <1>2, <1>3, <1>6, <1>8, <2>1, ShowsBytes DEF IInv
<1>10. Done' = Done + dump
  BY <1>5, <1>6, <1>9
<1>11. src' = src
  BY <1>1 DEF src
<1>12. Typed'
  <2>1. packetIndex' \in Nat
    BY <1>1, <1>2 DEF Typed
  <2>2. QED  BY <1>1, <1>2, <1>3, <1>6, <1>11, <2>1 DEF Typed
<1>13. RawOK'
  <2>1. Done' + Len(raw') = pos'
    <3>1. Done' = Done + dump /\ Len(raw') = Len(raw) - dump /\ pos' = Done + Len(raw)
      BY <1>1, <1>5, <1>6, <1>7, <1>10
    <3>2. Done \in Int /\ dump \in Int /\ Len(raw) \in Int
      BY <1>3, <1>4, <1>7
    <3>3. (Done + dump) + (Len(raw) - dump) = Done + Len(raw)
      BY ONLY <3>2
    <3>4. QED  BY <3>1, <3>3
  <2>2. ASSUME NEW k \in 1..Len(raw') PROVE raw'[k] = src[Done' + k]
    <3>1. k \in 1..(Len(raw) - n) /\ n + k \in 1..Len(raw) /\ Done + (n + k) = Done' + k
      BY <1>3, <1>4, <1>5, <1>6, <1>7, <1>10
    <3>2. raw'[k] = raw[n + k] /\ raw[n + k] = src[Done + (n + k)]
      BY <1>6, <1>7, <3>1
    <3>3. QED  BY <3>1, <3>2
  <2>3. QED  BY <1>1, <1>3, <1>11, <2>1, <2>2 DEF RawOK
<1>14. ZerosFrom(packetIndex, Done)'
  <2>1. CASE upd = Done + dump
    <3>1. packetIndex' = Done' /\ Done' \in Nat
      <4>1. dump \in Nat /\ dump # 0 /\ Done \in Nat
        BY <1>3, <1>4, <1>7
      <4>2. Done + dump \in Nat /\ Done + dump # 0
        BY ONLY <4>1
      <4>3. packetIndex' = upd
        BY <1>1, <2>1, <4>2
      <4>4. QED  BY <1>10, <2>1, <4>2, <4>3
    <3>2. \A d \in Nat : d <= d /\ (d + 1)..d = {}
      OBVIOUS
    <3>3. QED  BY <3>1, <3>2 DEF ZerosFrom
  <2>2. CASE upd = 0 /\ dump = 1 /\ raw[1] = 0
    <3>1. packetIndex' = packetIndex /\ packetIndex \in Nat
      BY <1>1, <1>2, <2>2 DEF Typed
    <3>2. packetIndex <= Done /\ \A k \in (packetIndex + 1)..Done : src[k] = 0
      BY <1>3 DEF ZerosFrom
    <3>3. src[Done + 1] = 0
      <4>1. 1 \in 1..Len(raw)
        BY <1>3, <1>4
      <4>2. QED  BY <1>7, <2>2, <4>1
    <3>4. Done' = Done + 1
      BY <1>10, <2>2
    <3>5. packetIndex <= Done + 1 /\ \A k \in (packetIndex + 1)..(Done + 1) : src[k] = 0
      <4>1. \A k \in (packetIndex + 1)..(Done + 1) : k \in (packetIndex + 1)..Done \/ k = Done + 1
        BY <1>7, <3>1
      <4>2. packetIndex <= Done + 1
        BY <1>7, <3>1, <3>2
      <4>3. QED  BY <3>2, <3>3, <4>1, <4>2
    <3>6. QED  BY <1>11, <3>1, <3>4, <3>5 DEF ZerosFrom
  <2>3. QED  BY <1>3, <2>1, <2>2
<1>15. IndexOK'
  BY <1>1, <1>14 DEF IndexOK
<1>16. SearchOK'
  <2> SUFFICES ASSUME Searching' PROVE raw' # <<>> /\ \A k \in 1..Len(raw') : raw'[k] = 0
    BY <1>1 DEF SearchOK
  <2>1. Searching
    BY <1>1 DEF Searching
  <2>2. dump < Len(raw) /\ \A k \in (dump + 1)..Len(raw) : raw[k] = 0
    BY <1>1, <1>3, <2>1 DEF IInv, SearchOK
  <2>3. Len(raw') # 0
    BY <1>3, <1>4, <1>5, <1>6, <2>2
  <2>4. raw' # <<>>
    BY <2>3, AnyEmpty
  <2>5. \A k \in 1..Len(raw') : k \in 1..(Len(raw) - n) /\ n + k \in (dump + 1)..Len(raw)
    BY <1>3, <1>4, <1>5, <1>6
  <2>6. QED  BY <1>6, <2>2, <2>4, <2>5
<1>17. QED  BY <1>9, <1>12, <1>13, <1>15, <1>16 DEF IInv

----------------------------------------------------------------------------
(* Calls.                                                                  *)

\* A step that leaves the parser and the log as they are.
LEMMA CallIInv ==
  ASSUME IInv, UNCHANGED <<session, closed, pos, ps, handler, raw, packetIndex, isSync, dump, upd, shown>>,
         avail' \in Nat, pos <= avail', avail' <= Len(src), closed => pc' = "idle"
  PROVE  IInv'
<1>1. src' = src
  BY DEF src
<1>2. Typed'
  BY <1>1 DEF IInv, Typed
<1>3. ShownOK' /\ Done' = Done
  BY ShowsNothing DEF IInv
<1>4. RawOK'
  BY <1>1, <1>3 DEF IInv, RawOK
<1>5. ZerosFrom(packetIndex, Done) => ZerosFrom(packetIndex, Done)'
  BY <1>1, <1>3 DEF ZerosFrom
<1>6. IndexOK'
  BY <1>3, <1>5 DEF IInv, IndexOK
<1>7. SearchOK'
  BY DEF IInv, SearchOK, Searching
<1>8. QED  BY <1>2, <1>3, <1>4, <1>6, <1>7 DEF IInv

LEMMA ReturnIInv == IInv /\ Return => IInv'
<1> SUFFICES ASSUME IInv, Return PROVE IInv'
  OBVIOUS
<1>1. /\ UNCHANGED <<session, closed, pos, ps, handler, raw, packetIndex, isSync, dump, upd, shown>>
      /\ avail' = avail /\ pc' = "idle"
  BY DEF Return, callVars, syncVars, outVars
<1>2. avail \in Nat /\ pos <= avail /\ avail <= Len(src)
  BY DEF IInv, Typed
<1>3. QED  BY <1>1, <1>2, CallIInv

LEMMA WriteIInv == ASSUME NEW k \in session.blocks PROVE IInv /\ Write(k) => IInv'
<1> SUFFICES ASSUME IInv, Write(k) PROVE IInv'
  OBVIOUS
<1>1. /\ UNCHANGED <<session, closed, pos, ps, handler, raw, packetIndex, isSync, dump, upd, shown>>
      /\ ~closed /\ pos < Len(src) /\ avail' = Min({pos + k, Len(src)})
  BY DEF Write, callVars, syncVars, outVars
<1>2. Typed /\ pos \in Nat /\ Len(src) \in Nat
  BY SourceBytes DEF IInv, Typed
<1>3. k \in Nat \ {0}
  BY <1>2, SessionsAssumption DEF Typed
<1>4. avail' \in Nat /\ pos <= avail' /\ avail' <= Len(src)
  <2> DEFINE ends == {pos + k, Len(src)}
  <2>1. ends \in SUBSET Nat /\ ends # {}
    BY <1>2, <1>3
  <2>2. Min(ends) \in ends /\ \A m \in ends : Min(ends) <= m
    BY <2>1, MinMember
  <2>3. avail' \in ends /\ \A m \in ends : avail' <= m
    BY <1>1, <2>2
  <2>4. QED  BY <1>1, <1>2, <1>3, <2>3
<1>5. QED  BY <1>1, <1>4, CallIInv

LEMMA CloseIInv == IInv /\ Close => IInv'
<1> SUFFICES ASSUME IInv, Close PROVE IInv'
  OBVIOUS
<1>1. /\ pc = "idle" /\ ~closed /\ closed' = TRUE
      /\ UNCHANGED <<session, avail, pos, pc, ps, handler, raw, packetIndex, isSync, dump, upd>>
      /\ \/ raw = <<>> /\ shown' = shown
         \/ /\ raw # <<>>
            /\ \E t : shown' = Append(shown, [index |-> packetIndex, type |-> t, raw |-> raw, ok |-> TRUE])
  BY DEF Close, syncVars
<1>2. Typed /\ raw \in Seq(0..255) /\ packetIndex \in Nat
  BY DEF IInv, Typed
<1>3. Done + Len(raw) = pos /\ (\A k \in 1..Len(raw) : raw[k] = src[Done + k]) /\ Done \in Nat
  BY <1>1, DoneNat DEF IInv, RawOK
<1>4. src' = src
  BY <1>1 DEF src
<1>5. Typed'
  BY <1>1, <1>2, <1>4 DEF Typed
<1>6. IndexOK' /\ SearchOK'
  BY <1>1 DEF IndexOK, SearchOK
<1>7. ShownOK' /\ Done' = pos
  <2>1. CASE raw = <<>> /\ shown' = shown
    <3>1. Len(raw) = 0
      BY <2>1, AnyEmpty
    <3>2. QED  BY <1>1, <1>3, <2>1, <3>1, ShowsNothing DEF IInv
  <2>2. CASE /\ raw # <<>>
             /\ \E t : shown' = Append(shown, [index |-> packetIndex, type |-> t, raw |-> raw, ok |-> TRUE])
    <3>1. PICK t : shown' = Append(shown, [index |-> packetIndex, type |-> t, raw |-> raw, ok |-> TRUE])
      BY <2>2
    <3> DEFINE p == [index |-> packetIndex, type |-> t, raw |-> raw, ok |-> TRUE]
    <3>2. p.raw = raw /\ p.index = packetIndex /\ Counted(p) = Len(raw)
      BY DEF Counted
    <3>3. shown' = Append(shown, p)
      BY <3>1
    <3> HIDE DEF p
    <3>4. ZerosFrom(packetIndex, Done)
      BY <1>1, <2>2 DEF IInv, IndexOK
    <3>5. Packet(p) /\ PlacedAt(p, Done)
      BY <1>2, <1>3, <3>2, <3>4 DEF Packet, PlacedAt
    <3>6. ShownOK' /\ Done' = Done + Counted(p)
      BY <1>1, <3>3, <3>5, Shows DEF IInv
    <3>7. QED  BY <1>3, <3>2, <3>6
  <2>3. QED  BY <1>1, <2>1, <2>2
<1>8. RawOK'
  BY <1>1, <1>7 DEF RawOK
<1>9. QED  BY <1>5, <1>6, <1>7, <1>8 DEF IInv

\* Nothing read and nothing shown.
LEMMA StartIInv ==
  ASSUME session' \in Sessions, pos' = 0, avail' = 0, raw' = <<>>, packetIndex' = 0, upd' = 0,
         ~closed', ps' = "ProcHdr", shown' = <<>>
  PROVE  IInv'
<1>1. IsSeq(<<>>) /\ Len(<<>>) = 0
  BY AnyEmpty
<1>2. Packets(<<>>)
  BY <1>1 DEF Packets
<1>3. Accepted(<<>>, 0) = 0
  BY <1>2, AcceptedProperties
<1>4. Done' = 0
  BY <1>1, <1>3 DEF Done
<1>5. Typed'
  <2>1. session'.bytes \in Seq(0..255)
    BY SessionsAssumption
  <2>2. Len(session'.bytes) \in Nat
    BY <2>1, LenProperties
  <2>3. 0 <= Len(src')
    BY <2>2 DEF src
  <2>4. raw' \in Seq(0..255)
    BY EmptySeq
  <2>5. QED  BY <2>3, <2>4 DEF Typed
<1>6. ShownOK'
  BY <1>1 DEF ShownOK
<1>7. RawOK'
  BY <1>1, <1>4 DEF RawOK
<1>8. IndexOK' /\ SearchOK'
  BY DEF IndexOK, SearchOK
<1>9. QED  BY <1>5, <1>6, <1>7, <1>8 DEF IInv

LEMMA ResetIInv == IInv /\ Reset => IInv'
<1> SUFFICES ASSUME IInv, Reset PROVE IInv'
  OBVIOUS
<1>1. session' \in Sessions
  BY DEF Reset, IInv, Typed
<1>2. QED  BY <1>1, StartIInv DEF Reset

LEMMA InitIInv == Init => IInv
<1> SUFFICES ASSUME Init PROVE IInv
  OBVIOUS
<1>1. /\ session \in Sessions /\ pos = 0 /\ avail = 0 /\ raw = <<>> /\ packetIndex = 0 /\ upd = 0
      /\ ~closed /\ ps = "ProcHdr" /\ shown = <<>>
  BY DEF Init
<1>2. IsSeq(<<>>) /\ Len(<<>>) = 0
  BY AnyEmpty
<1>3. Accepted(<<>>, 0) = 0
  BY <1>2, AcceptedProperties DEF Packets
<1>4. Done = 0
  BY <1>1, <1>2, <1>3 DEF Done
<1>5. Typed
  <2>1. Len(src) \in Nat
    BY <1>1, SessionsAssumption, LenProperties DEF src
  <2>2. raw \in Seq(0..255)
    BY <1>1, EmptySeq
  <2>3. QED  BY <1>1, <2>1, <2>2 DEF Typed
<1>6. ShownOK /\ RawOK
  BY <1>1, <1>2, <1>4 DEF ShownOK, RawOK
<1>7. IndexOK /\ SearchOK
  BY <1>1 DEF IndexOK, SearchOK
<1>8. QED  BY <1>5, <1>6, <1>7 DEF IInv

LEMMA NextIInv == IInv /\ [Next]_vars => IInv'
<1> SUFFICES ASSUME IInv, [Next]_vars PROVE IInv'
  OBVIOUS
<1>1. CASE Step
  BY <1>1, ProcHdrIInv, NotSyncIInv, ExtensionIInv, ASyncIInv, PayloadIInv, SendPktIInv,
     SendUnsyncedIInv, ReturnIInv DEF Step
<1>2. CASE \E k \in session.blocks : Write(k)
  BY <1>2, WriteIInv
<1>3. CASE UNCHANGED vars
  <2>1. /\ UNCHANGED <<session, closed, pos, ps, handler, raw, packetIndex, isSync, dump, upd, shown>>
        /\ avail' = avail /\ pc' = pc
    BY <1>3 DEF vars, callVars, syncVars, outVars
  <2>2. avail \in Nat /\ pos <= avail /\ avail <= Len(src) /\ (closed => pc = "idle")
    BY DEF IInv, Typed
  <2>3. QED  BY <2>1, <2>2, CallIInv
<1>4. QED  BY <1>1, <1>2, <1>3, CloseIInv, ResetIInv DEF Next

\* Every byte that is read is shown to the observer once, at its place, whatever the
\* stream, the blocks of processData and the errors of the decoder.
THEOREM AlwaysAccounted == Spec => []BytesAccounted
<1>1. IInv => BytesAccounted
  <2> HAVE IInv
  <2>1. Len(shown) \in Nat
    BY DoneNat DEF IInv
  <2>2. (Len(shown) + 1) - 1 = Len(shown)
    BY <2>1
  <2>3. BytesBefore(Len(shown) + 1) = Done
    BY <2>2 DEF BytesBefore, Done
  <2>4. QED  BY <2>3 DEF IInv, ShownOK, RawOK, PlacedAt, ZerosFrom, BytesAccounted, BytesBefore
<1>2. QED  BY <1>1, InitIInv, NextIInv, PTL DEF Spec

----------------------------------------------------------------------------
(* The decoder.  First sequences, one element at a time.                   *)

\* The places of a sequence.
LEMMA AnyDomain == ASSUME NEW s, IsSeq(s) PROVE Len(s) \in Nat /\ DOMAIN s = 1..Len(s)
<1>1. PICK S : s \in Seq(S)
  BY DEF IsSeq
<1>2. QED  BY <1>1, LenProperties

\* What Append adds, and what it leaves.
LEMMA AppendFacts ==
  ASSUME NEW s, NEW x, IsSeq(s)
  PROVE  /\ IsSeq(Append(s, x)) /\ Len(s) \in Nat /\ Len(Append(s, x)) = Len(s) + 1
         /\ Append(s, x)[Len(s) + 1] = x
         /\ \A k \in 1..Len(s) : Append(s, x)[k] = s[k]
<1>1. Append(s, x) = s \o <<x>>
  BY AnyAppend
<1>2. /\ IsSeq(s \o <<x>>) /\ Len(s) \in Nat /\ Len(s \o <<x>>) = Len(s) + 1
      /\ (s \o <<x>>)[Len(s) + 1] = x
      /\ \A k \in 1..Len(s) : (s \o <<x>>)[k] = s[k]
  BY AnyOneMore
<1>3. QED  BY <1>1, <1>2, Zenon

\* Appending to the second of two sequences appends to both.
LEMMA AppendSplits ==
  ASSUME NEW a, NEW b, NEW x, IsSeq(a), IsSeq(b)
  PROVE  a \o Append(b, x) = Append(a \o b, x)
<1>1. PICK A : a \in Seq(A)
  BY DEF IsSeq
<1>2. PICK B : b \in Seq(B)
  BY DEF IsSeq
<1> DEFINE U == A \cup B \cup {x}
<1>3. A \subseteq U /\ B \subseteq U /\ x \in U
  OBVIOUS
<1> HIDE DEF U
<1>4. a \in Seq(U) /\ b \in Seq(U)
  BY <1>1, <1>2, <1>3, SeqMonotonic
<1>5. Append(b, x) = b \o <<x>> /\ a \o b \in Seq(U) /\ <<x>> \in Seq(U)
  BY <1>3, <1>4, AppendIsConcat, ConcatProperties
<1>6. Append(a \o b, x) = (a \o b) \o <<x>>
  BY <1>3, <1>5, AppendIsConcat
<1>7. (a \o b) \o <<x>> = a \o (b \o <<x>>)
  BY <1>4, <1>5, ConcatAssociative
<1>8. QED  BY <1>5, <1>6, <1>7

\* Equal length and equal elements.
LEMMA AnyEqual ==
  ASSUME NEW s, NEW t, IsSeq(s), IsSeq(t), Len(s) = Len(t), \A k \in 1..Len(s) : s[k] = t[k]
  PROVE  s = t
<1>1. PICK S : s \in Seq(S)
  BY DEF IsSeq
<1>2. PICK T : t \in Seq(T)
  BY DEF IsSeq
<1>3. s \in [1..Len(s) -> S] /\ t \in [1..Len(t) -> T]
  BY <1>1, <1>2, LenProperties
<1>4. QED  BY <1>3

\* The prefixes of a sequence.
Prefix(s, k) == SubSeq(s, 1, k)
Suffix(s, k) == SubSeq(s, k + 1, Len(s))

\* A prefix is a sequence of the first elements.
LEMMA PrefixFacts ==
  ASSUME NEW s, IsSeq(s), NEW k \in 0..Len(s)
  PROVE  /\ IsSeq(Prefix(s, k)) /\ Len(Prefix(s, k)) = k
         /\ \A i \in 1..k : Prefix(s, k)[i] = s[i]
         /\ \A S : s \in Seq(S) => Prefix(s, k) \in Seq(S)
<1>1. \A S : s \in Seq(S) => /\ Prefix(s, k) \in Seq(S) /\ Len(Prefix(s, k)) = k
                              /\ \A i \in 1..k : Prefix(s, k)[i] = s[i]
  <2> TAKE S
  <2> HAVE s \in Seq(S)
  <2>1. Len(s) \in Nat /\ \A i \in 1..Len(s) : s[i] \in S
    BY LenProperties
  <2>2. 1 \in Int /\ k \in Int /\ (\A i \in 1..k : s[i] \in S)
    BY <2>1
  <2>3. /\ SubSeq(s, 1, k) \in Seq(S)
        /\ Len(SubSeq(s, 1, k)) = IF 1 <= k THEN k - 1 + 1 ELSE 0
        /\ \A i \in 1 .. k - 1 + 1 : SubSeq(s, 1, k)[i] = s[1 + i - 1]
    BY ONLY <2>2, SubSeqProperties
  <2> DEFINE t == SubSeq(s, 1, k)
  <2>4. t = Prefix(s, k)
    BY DEF Prefix
  <2> HIDE DEF t
  <2>5. k \in Nat
    BY <2>1
  <2>6. Len(t) = k
    BY <2>3, <2>5 DEF t
  <2>7. \A i \in 1..k : t[i] = s[i]
    <3> TAKE i \in 1..k
    <3>1. i \in 1 .. k - 1 + 1 /\ 1 + i - 1 = i
      BY <2>5
    <3>2. t[i] = s[1 + i - 1]
      BY <2>3, <3>1 DEF t
    <3>3. QED  BY <3>1, <3>2
  <2>8. QED  BY <2>3, <2>4, <2>6, <2>7 DEF t
<1>2. PICK S : s \in Seq(S)
  BY DEF IsSeq
<1>3. QED  BY <1>1, <1>2 DEF IsSeq

\* A suffix is a sequence of the elements behind a place.
LEMMA SuffixFacts ==
  ASSUME NEW s, IsSeq(s), NEW k \in 0..Len(s)
  PROVE  /\ IsSeq(Suffix(s, k)) /\ Len(Suffix(s, k)) = Len(s) - k
         /\ \A i \in 1..(Len(s) - k) : Suffix(s, k)[i] = s[k + i]
         /\ \A S : s \in Seq(S) => Suffix(s, k) \in Seq(S)
<1>1. \A S : s \in Seq(S) => /\ Suffix(s, k) \in Seq(S) /\ Len(Suffix(s, k)) = Len(s) - k
                              /\ \A i \in 1..(Len(s) - k) : Suffix(s, k)[i] = s[k + i]
  <2> TAKE S
  <2> HAVE s \in Seq(S)
  <2>1. Len(s) \in Nat /\ \A i \in 1..Len(s) : s[i] \in S
    BY LenProperties
  <2> DEFINE N == Len(s)
             t == SubSeq(s, k + 1, N)
  <2>2. k + 1 \in Int /\ N \in Int /\ (\A i \in (k + 1)..N : s[i] \in S)
    BY <2>1
  <2>4. t = Suffix(s, k) /\ t = SubSeq(s, k + 1, N)
    BY DEF Suffix
  <2>0. N \in Nat /\ k \in 0..N
    BY <2>1
  <2> HIDE DEF t, N
  <2>3. /\ SubSeq(s, k + 1, N) \in Seq(S)
        /\ Len(SubSeq(s, k + 1, N)) = IF k + 1 <= N THEN N - (k + 1) + 1 ELSE 0
        /\ \A i \in 1 .. N - (k + 1) + 1 : SubSeq(s, k + 1, N)[i] = s[k + 1 + i - 1]
    BY ONLY <2>2, SubSeqProperties
  <2>6. Len(t) = N - k
    BY <2>3, <2>4, <2>0
  <2>7. \A i \in 1..(N - k) : t[i] = s[k + i]
    <3> TAKE i \in 1..(N - k)
    <3>1. i \in 1 .. N - (k + 1) + 1 /\ k + 1 + i - 1 = k + i
      BY <2>0
    <3>2. t[i] = s[k + 1 + i - 1]
      BY <2>3, <2>4, <3>1
    <3>3. QED  BY <3>1, <3>2
  <2>8. t \in Seq(S)
    BY <2>3, <2>4
  <2>9. QED  BY <2>4, <2>6, <2>7, <2>8 DEF N
<1>2. PICK S : s \in Seq(S)
  BY DEF IsSeq
<1>3. QED  BY <1>1, <1>2 DEF IsSeq

\* A prefix is one shorter and the element at its end.
LEMMA PrefixStep ==
  ASSUME NEW s, IsSeq(s), NEW k \in 1..Len(s)
  PROVE  Prefix(s, k) = Append(Prefix(s, k - 1), s[k])
<1>0. Len(s) \in Nat
  BY AnyDomain
<1>1. k \in 0..Len(s) /\ k - 1 \in 0..Len(s) /\ k - 1 + 1 = k
  BY <1>0
<1> DEFINE p == Prefix(s, k - 1)
           q == Prefix(s, k)
           r == Append(p, s[k])
<1>2. IsSeq(p) /\ Len(p) = k - 1 /\ \A i \in 1..(k - 1) : p[i] = s[i]
  BY <1>1, PrefixFacts
<1>3. IsSeq(q) /\ Len(q) = k /\ \A i \in 1..k : q[i] = s[i]
  BY <1>1, PrefixFacts
<1> HIDE DEF p, q
<1>4. IsSeq(r) /\ Len(r) = Len(p) + 1 /\ r[Len(p) + 1] = s[k] /\ \A i \in 1..Len(p) : r[i] = p[i]
  BY <1>2, AppendFacts
<1> HIDE DEF r
<1>5. Len(q) = Len(r)
  BY <1>1, <1>2, <1>3, <1>4
<1>6. ASSUME NEW i \in 1..Len(q) PROVE q[i] = r[i]
  <2>1. CASE i = k
    BY <2>1, <1>1, <1>2, <1>3, <1>4
  <2>2. CASE i # k
    <3>1. i \in 1..(k - 1) /\ i \in 1..k
      BY <2>2, <1>0, <1>3
    <3>2. QED  BY <3>1, <1>2, <1>3, <1>4
  <2>3. QED  BY <2>1, <2>2
<1>7. q = r
  BY <1>3, <1>4, <1>5, <1>6, AnyEqual
<1>8. QED  BY <1>7 DEF p, q, r

\* The empty and the whole prefix.
LEMMA PrefixEnds ==
  ASSUME NEW s, IsSeq(s)
  PROVE  Prefix(s, 0) = <<>> /\ Prefix(s, Len(s)) = s
<1>0. Len(s) \in Nat /\ 0 \in 0..Len(s) /\ Len(s) \in 0..Len(s)
  BY AnyDomain
<1>1. IsSeq(Prefix(s, Len(s))) /\ Len(Prefix(s, Len(s))) = Len(s)
      /\ \A i \in 1..Len(s) : Prefix(s, Len(s))[i] = s[i]
  BY <1>0, PrefixFacts
<1>2. Prefix(s, Len(s)) = s
  BY <1>1, AnyEqual
<1>3. Prefix(s, 0) = <<>>
  BY SubSeqEmpty DEF Prefix
<1>4. QED  BY <1>2, <1>3

\* An element appended changes no shorter prefix.
LEMMA PrefixOfAppend ==
  ASSUME NEW s, NEW x, IsSeq(s)
  PROVE  \A k \in 0..Len(s) : Prefix(Append(s, x), k) = Prefix(s, k)
<1> TAKE k \in 0..Len(s)
<1> DEFINE t == Append(s, x)
           p == Prefix(s, k)
           q == Prefix(t, k)
<1>1. IsSeq(t) /\ Len(s) \in Nat /\ Len(t) = Len(s) + 1 /\ \A i \in 1..Len(s) : t[i] = s[i]
  BY AppendFacts
<1> HIDE DEF t
<1>2. k \in 0..Len(t)
  BY <1>1
<1>3. IsSeq(p) /\ Len(p) = k /\ \A i \in 1..k : p[i] = s[i]
  BY PrefixFacts
<1>4. IsSeq(q) /\ Len(q) = k /\ \A i \in 1..k : q[i] = t[i]
  BY <1>1, <1>2, PrefixFacts
<1> HIDE DEF p, q
<1>5. \A i \in 1..Len(p) : p[i] = q[i]
  BY <1>1, <1>3, <1>4
<1>6. p = q
  BY <1>3, <1>4, <1>5, AnyEqual
<1>7. QED  BY <1>6 DEF p, q, t

\* A sequence is what stands up to a place and what stands behind it.
LEMMA PrefixAndSuffix ==
  ASSUME NEW s, IsSeq(s), NEW k \in 0..Len(s)
  PROVE  s = Prefix(s, k) \o Suffix(s, k)
<1>0. Len(s) \in Nat
  BY AnyDomain
<1> DEFINE p == Prefix(s, k)
           q == Suffix(s, k)
           r == p \o q
<1>1. IsSeq(p) /\ Len(p) = k /\ \A i \in 1..k : p[i] = s[i]
  BY PrefixFacts
<1>2. IsSeq(q) /\ Len(q) = Len(s) - k /\ \A i \in 1..(Len(s) - k) : q[i] = s[k + i]
  BY SuffixFacts
<1> HIDE DEF p, q
<1>3. /\ IsSeq(r) /\ Len(r) = Len(p) + Len(q)
      /\ \A i \in 1..Len(p) : r[i] = p[i]
      /\ \A i \in (Len(p) + 1)..(Len(p) + Len(q)) : r[i] = q[i - Len(p)]
  BY <1>1, <1>2, AnyConcat
<1> HIDE DEF r
<1>4. Len(s) = Len(r)
  BY <1>0, <1>1, <1>2, <1>3
<1>5. ASSUME NEW i \in 1..Len(s) PROVE s[i] = r[i]
  <2>1. CASE i <= k
    BY <2>1, <1>0, <1>1, <1>3
  <2>2. CASE ~(i <= k)
    <3>1. i - k \in 1..(Len(s) - k) /\ i \in (k + 1)..Len(s) /\ k + (i - k) = i
      BY <2>2, <1>0
    <3>2. r[i] = q[i - k] /\ q[i - k] = s[k + (i - k)]
      BY <3>1, <1>0, <1>1, <1>2, <1>3
    <3>3. QED  BY <3>1, <3>2
  <2>3. QED  BY <2>1, <2>2
<1>6. s = r
  BY <1>3, <1>4, <1>5, AnyEqual
<1>7. QED  BY <1>6 DEF p, q, r

----------------------------------------------------------------------------
(* Picking elements.                                                       *)

Picks(f, s, ks) ==
  /\ f[0] = <<>>
  /\ \A k \in 1..Len(s) : f[k] = IF k \in ks THEN Append(f[k - 1], s[k]) ELSE f[k - 1]

\* What Pick keeps of the first k elements, for every k.
LEMMA PickRecursion ==
  ASSUME NEW s, NEW E, s \in Seq(E), NEW ks
  PROVE  \E f : Picks(f, s, ks) /\ Pick(s, ks) = f[Len(s)] /\ \A k \in 0..Len(s) : f[k] \in Seq(E)
<1> DEFINE N == Len(s)
           step == [k \in 1..N |-> [x \in Seq(E) |-> IF k \in ks THEN Append(x, s[k]) ELSE x]]
           IsUpto(f) == f = [k \in 0..N |-> IF k = 0 THEN <<>>
                              ELSE IF k \in ks THEN Append(f[k - 1], s[k]) ELSE f[k - 1]]
<1>1. N \in Nat /\ \A k \in 1..N : s[k] \in E
  BY LenProperties
<1>2. step \in [1..N -> [Seq(E) -> Seq(E)]]
  <2>1. \A k \in 1..N, x \in Seq(E) : (IF k \in ks THEN Append(x, s[k]) ELSE x) \in Seq(E)
    BY <1>1
  <2>2. QED  BY <2>1, Zenon
<1>3. <<>> \in Seq(E)
  OBVIOUS
<1>4. PICK f : Iterates(f, N, Seq(E), <<>>, step)
  <2> HIDE DEF step, N
  <2>2. QED  BY <1>1, <1>2, <1>3, Iteration, Zenon
<1>5. IsUpto(f)
  <2>1. ASSUME NEW k \in 0..N
        PROVE  f[k] = IF k = 0 THEN <<>>
                      ELSE IF k \in ks THEN Append(f[k - 1], s[k]) ELSE f[k - 1]
    <3>1. CASE k = 0
      BY <3>1, <1>4 DEF Iterates
    <3>2. CASE k # 0
      <4>1. k \in 1..N /\ k - 1 \in 0..N
        BY <1>1, <3>2
      <4>2. f[k - 1] \in Seq(E) /\ f[k] = step[k][f[k - 1]]
        BY <4>1, <1>4 DEF Iterates
      <4> DEFINE x == f[k - 1]
      <4> HIDE DEF x
      <4>3. step[k][x] = IF k \in ks THEN Append(x, s[k]) ELSE x
        BY <4>1, <4>2, Zenon DEF x
      <4>4. QED  BY <3>2, <4>2, <4>3 DEF x
    <3>3. QED  BY <3>1, <3>2
  <2> HIDE DEF N
  <2>2. QED  BY <2>1, <1>4 DEF Iterates
<1> DEFINE g == CHOOSE h : IsUpto(h)
<1>6. IsUpto(g)
  <2> HIDE DEF IsUpto
  <2>1. QED  BY <1>5, Zenon
<1>7. Pick(s, ks) = g[N]
  BY DEF Pick
<1> HIDE DEF g
<1>8. \A k \in 0..N : g[k] = IF k = 0 THEN <<>>
                             ELSE IF k \in ks THEN Append(g[k - 1], s[k]) ELSE g[k - 1]
  BY <1>6
<1>9. Picks(g, s, ks)
  <2> HIDE DEF N
  <2>1. 0 \in 0..N /\ \A k \in 1..N : k \in 0..N /\ k # 0
    BY <1>1
  <2>2. QED  BY <2>1, <1>8, Zenon DEF Picks, N
<1>10. 0..N \subseteq {k \in 0..N : g[k] \in Seq(E)}
  <2> DEFINE T == {k \in 0..N : g[k] \in Seq(E)}
  <2>1. 0 \in T
    <3>1. g[0] = <<>> /\ 0 \in 0..N
      BY <1>1, <1>9 DEF Picks
    <3> HIDE DEF N
    <3>2. QED  BY <3>1, <1>3
  <2>2. ASSUME NEW k \in 1..N, k - 1 \in T PROVE k \in T
    <3>1. g[k - 1] \in Seq(E) /\ k \in 0..N
      BY <1>1, <2>2
    <3>2. g[k] = IF k \in ks THEN Append(g[k - 1], s[k]) ELSE g[k - 1]
      BY <1>9 DEF Picks
    <3>3. Append(g[k - 1], s[k]) \in Seq(E)
      BY <1>1, <3>1
    <3>4. g[k] \in Seq(E)
      BY <3>1, <3>2, <3>3
    <3>5. QED  BY <3>1, <3>4
  <2> HIDE DEF T, N
  <2>3. \A k \in 1..N : k - 1 \in T => k \in T
    BY <2>2
  <2>4. QED  BY <1>1, <2>1, <2>3, IntervalInduction DEF T
<1>11. QED  BY <1>7, <1>9, <1>10, Zenon

\* Pick adds no elements.
LEMMA PickIn ==
  ASSUME NEW s, NEW E, s \in Seq(E), NEW ks
  PROVE  Pick(s, ks) \in Seq(E)
<1>1. PICK f : Picks(f, s, ks) /\ Pick(s, ks) = f[Len(s)] /\ \A k \in 0..Len(s) : f[k] \in Seq(E)
  BY PickRecursion
<1>2. Len(s) \in 0..Len(s)
  BY LenProperties
<1>3. QED  BY <1>1, <1>2

LEMMA PickSeq == ASSUME NEW s, IsSeq(s), NEW ks PROVE IsSeq(Pick(s, ks))
<1>1. PICK E : s \in Seq(E)
  BY DEF IsSeq
<1>2. QED  BY <1>1, PickIn DEF IsSeq

LEMMA PickEmpty == \A ks : Pick(<<>>, ks) = <<>>
<1> TAKE ks
<1>1. <<>> \in Seq(Nat) /\ Len(<<>>) = 0
  OBVIOUS
<1>2. PICK f : Picks(f, <<>>, ks) /\ Pick(<<>>, ks) = f[Len(<<>>)]
  BY <1>1, PickRecursion
<1>3. QED  BY <1>1, <1>2 DEF Picks

\* One more element, which is picked or not.
LEMMA PickAppend ==
  ASSUME NEW s, NEW e, IsSeq(s), NEW ks, NEW js,
         \A k \in 1..Len(s) : (k \in js) <=> (k \in ks)
  PROVE  Pick(Append(s, e), js) =
           IF Len(s) + 1 \in js THEN Append(Pick(s, ks), e) ELSE Pick(s, ks)
<1>1. PICK A : s \in Seq(A)
  BY DEF IsSeq
<1> DEFINE E == A \cup {e}
           t == Append(s, e)
           N == Len(s)
<1>2. A \subseteq E /\ e \in E
  OBVIOUS
<1> HIDE DEF E
<1>3. s \in Seq(E)
  BY <1>1, <1>2, SeqMonotonic
<1>4. t \in Seq(E)
  BY <1>2, <1>3
<1>5. N \in Nat /\ Len(t) = N + 1 /\ t[N + 1] = e /\ \A k \in 1..N : t[k] = s[k]
  BY <1>3, AppendFacts DEF IsSeq
<1> HIDE DEF t, N
<1>6. PICK f : Picks(f, s, ks) /\ Pick(s, ks) = f[Len(s)]
  BY <1>3, PickRecursion
<1>7. PICK g : Picks(g, t, js) /\ Pick(t, js) = g[Len(t)]
  BY <1>4, PickRecursion
<1>8. f[0] = <<>> /\ \A k \in 1..N : f[k] = IF k \in ks THEN Append(f[k - 1], s[k]) ELSE f[k - 1]
  BY <1>6 DEF Picks, N
<1>9. /\ g[0] = <<>>
      /\ \A k \in 1..(N + 1) : g[k] = IF k \in js THEN Append(g[k - 1], t[k]) ELSE g[k - 1]
  BY <1>7, <1>5 DEF Picks
<1>10. 0..N \subseteq {k \in 0..N : g[k] = f[k]}
  <2> DEFINE T == {k \in 0..N : g[k] = f[k]}
  <2>1. 0 \in T
    BY <1>5, <1>8, <1>9
  <2>2. ASSUME NEW k \in 1..N, k - 1 \in T PROVE k \in T
    <3>1. g[k - 1] = f[k - 1] /\ k \in 0..N /\ k \in 1..(N + 1)
      BY <1>5, <2>2
    <3>2. g[k] = IF k \in js THEN Append(g[k - 1], t[k]) ELSE g[k - 1]
      BY <1>9, <3>1
    <3>3. f[k] = IF k \in ks THEN Append(f[k - 1], s[k]) ELSE f[k - 1]
      BY <1>8
    <3>4. (k \in js) <=> (k \in ks)
      BY DEF N
    <3>5. g[k] = f[k]
      BY <3>1, <3>2, <3>3, <3>4, <1>5
    <3>6. QED  BY <3>1, <3>5
  <2> HIDE DEF T
  <2>3. \A k \in 1..N : k - 1 \in T => k \in T
    BY <2>2
  <2>4. QED  BY <1>5, <2>1, <2>3, IntervalInduction DEF T
<1>11. g[N] = f[N] /\ N + 1 - 1 = N /\ N + 1 \in 1..(N + 1)
  BY <1>5, <1>10
<1>12. g[N + 1] = IF N + 1 \in js THEN Append(f[N], e) ELSE f[N]
  BY <1>9, <1>11, <1>5
<1>13. QED  BY <1>12, <1>6, <1>7, <1>5 DEF N, t

----------------------------------------------------------------------------
(* The P0 elements of a stack, and their number.                           *)

Depth(s) == Cardinality(P0At(s))

\* The P0 elements of a stack can be counted.
LEMMA P0Finite ==
  ASSUME NEW s, IsSeq(s)
  PROVE  P0At(s) \subseteq 1..Len(s) /\ IsFiniteSet(P0At(s)) /\ Depth(s) \in Nat
<1>1. Len(s) \in Nat /\ DOMAIN s = 1..Len(s)
  BY AnyDomain
<1>2. P0At(s) \subseteq 1..Len(s)
  BY <1>1 DEF P0At
<1>3. IsFiniteSet(1..Len(s))
  BY <1>1, FS_Interval
<1>4. IsFiniteSet(P0At(s))
  BY <1>2, <1>3, FS_Subset
<1>5. QED  BY <1>2, <1>4, FS_CardinalityType DEF Depth

\* Nothing is in doubt on an empty stack.
LEMMA P0Empty == P0At(<<>>) = {} /\ Depth(<<>>) = 0 /\ IDs(<<>>) = <<>>
<1>1. P0At(<<>>) = {}
  BY DEF P0At
<1>2. Pick(<<>>, P0At(<<>>)) = <<>>
  BY PickEmpty
<1>3. QED  BY <1>1, <1>2, FS_EmptySet DEF Depth, IDs

\* An entry on top of the stack counts if it is a P0 element.
LEMMA P0Append ==
  ASSUME NEW s, NEW e, IsSeq(s)
  PROVE  /\ P0At(Append(s, e)) = IF isP0(e) THEN P0At(s) \cup {Len(s) + 1} ELSE P0At(s)
         /\ Depth(Append(s, e)) = IF isP0(e) THEN Depth(s) + 1 ELSE Depth(s)
<1> DEFINE t == Append(s, e)
           N == Len(s)
<1>1. /\ IsSeq(t) /\ N \in Nat /\ Len(t) = N + 1 /\ t[N + 1] = e
      /\ \A k \in 1..N : t[k] = s[k]
  BY AppendFacts
<1> HIDE DEF t, N
<1>2. DOMAIN t = 1..(N + 1) /\ DOMAIN s = 1..N
  BY <1>1, AnyDomain DEF N
<1>3. \A k : k \in 1..(N + 1) <=> ((k \in 1..N) \/ (k = N + 1))
  BY <1>1
<1>4. P0At(t) = {k \in 1..(N + 1) : isP0(t[k])} /\ P0At(s) = {k \in 1..N : isP0(s[k])}
  BY <1>2 DEF P0At
<1>5. \A k : k \in P0At(t) <=> ((k \in P0At(s)) \/ ((k = N + 1) /\ isP0(e)))
  <2> TAKE k
  <2>1. k \in P0At(t) <=> ((k \in 1..(N + 1)) /\ isP0(t[k]))
    BY <1>4
  <2>2. k \in P0At(s) <=> ((k \in 1..N) /\ isP0(s[k]))
    BY <1>4
  <2>3. CASE k = N + 1
    <3>1. k \notin 1..N /\ k \in 1..(N + 1)
      BY <1>1, <2>3
    <3>2. QED  BY <2>1, <2>2, <3>1, <2>3, <1>1, Zenon
  <2>4. CASE k # N + 1
    <3>1. k \in 1..(N + 1) <=> k \in 1..N
      BY <1>3, <2>4
    <3>2. k \in 1..N => t[k] = s[k]
      BY <1>1
    <3>3. QED  BY <2>1, <2>2, <3>1, <3>2, <2>4, Zenon
  <2>5. QED  BY <2>3, <2>4
<1>6. P0At(t) = IF isP0(e) THEN P0At(s) \cup {N + 1} ELSE P0At(s)
  BY <1>5, Zenon
<1>7. IsFiniteSet(P0At(s)) /\ N + 1 \notin P0At(s)
  BY <1>1, P0Finite DEF N
<1>8. Cardinality(P0At(s) \cup {N + 1}) = Cardinality(P0At(s)) + 1
  BY <1>7, FS_AddElement
<1>9. QED  BY <1>6, <1>8 DEF Depth, t, N

\* Its ID is the last one.
LEMMA IDsAppend ==
  ASSUME NEW s, NEW e, IsSeq(s)
  PROVE  IDs(Append(s, e)) = IF isP0(e) THEN Append(IDs(s), e.id) ELSE IDs(s)
<1> DEFINE t == Append(s, e)
           p == Pick(s, P0At(s))
           q == Pick(t, P0At(t))
<1>1. /\ P0At(t) = IF isP0(e) THEN P0At(s) \cup {Len(s) + 1} ELSE P0At(s)
      /\ Len(s) \in Nat /\ P0At(s) \subseteq 1..Len(s)
  BY P0Append, P0Finite, AnyDomain
<1>2. \A k \in 1..Len(s) : (k \in P0At(t)) <=> (k \in P0At(s))
  BY <1>1
<1>3. Len(s) + 1 \in P0At(t) <=> isP0(e)
  BY <1>1
<1>4. q = IF Len(s) + 1 \in P0At(t) THEN Append(p, e) ELSE p
  BY <1>2, PickAppend
<1>5. IDs(t) = [k \in DOMAIN q |-> q[k].id] /\ IDs(s) = [k \in DOMAIN p |-> p[k].id]
  BY DEF IDs
<1> HIDE DEF t, p, q
<1>6. CASE isP0(e)
  <2>1. q = Append(p, e)
    BY <1>3, <1>4, <1>6
  <2>2. IsSeq(p)
    BY PickSeq DEF p
  <2>3. IsSeq(q) /\ Len(p) \in Nat /\ Len(q) = Len(p) + 1 /\ q[Len(p) + 1] = e
        /\ \A k \in 1..Len(p) : q[k] = p[k]
    BY <2>1, <2>2, AppendFacts
  <2>4. DOMAIN p = 1..Len(p) /\ DOMAIN q = 1..(Len(p) + 1)
    BY <2>2, <2>3, AnyDomain
  <2> DEFINE u == [k \in DOMAIN p |-> p[k].id]
             v == [k \in DOMAIN q |-> q[k].id]
  <2>5. IsSeq(u) /\ Len(u) = Len(p)
    <3>1. u \in Seq({p[k].id : k \in DOMAIN p}) /\ Len(u) = Len(p)
      BY <2>3, <2>4
    <3>2. QED  BY <3>1 DEF IsSeq
  <2>6. IsSeq(v) /\ Len(v) = Len(p) + 1
    <3>1. v \in Seq({q[k].id : k \in DOMAIN q}) /\ Len(v) = Len(p) + 1
      BY <2>3, <2>4
    <3>2. QED  BY <3>1 DEF IsSeq
  <2>7. \A k \in 1..Len(p) : v[k] = u[k]
    BY <2>3, <2>4
  <2>8. v[Len(p) + 1] = e.id
    BY <2>3, <2>4
  <2> HIDE DEF u, v
  <2> DEFINE w == Append(u, e.id)
  <2>9. IsSeq(w) /\ Len(w) = Len(u) + 1 /\ w[Len(u) + 1] = e.id /\ \A k \in 1..Len(u) : w[k] = u[k]
    BY <2>5, AppendFacts
  <2> HIDE DEF w
  <2>10. Len(v) = Len(w)
    BY <2>5, <2>6, <2>9
  <2>11. ASSUME NEW k \in 1..Len(v) PROVE v[k] = w[k]
    <3>1. k \in 1..Len(p) \/ k = Len(p) + 1
      BY <2>3, <2>6
    <3>2. QED  BY <3>1, <2>5, <2>7, <2>8, <2>9
  <2>12. v = w
    BY <2>6, <2>9, <2>10, <2>11, AnyEqual
  <2>13. QED  BY <2>12, <1>5, <1>6 DEF u, v, w, t
<1>7. CASE ~isP0(e)
  BY <1>7, <1>3, <1>4, <1>5 DEF t
<1>8. QED  BY <1>6, <1>7

\* There are as many IDs as P0 elements.
LEMMA IDsFacts ==
  ASSUME NEW s, IsSeq(s)
  PROVE  IsSeq(IDs(s)) /\ Len(IDs(s)) = Depth(s)
<1> DEFINE p(k) == Prefix(s, k)
           Holds(k) == IsSeq(IDs(p(k))) /\ Len(IDs(p(k))) = Depth(p(k))
           T == {k \in 0..Len(s) : Holds(k)}
<1>1. Len(s) \in Nat /\ p(0) = <<>> /\ p(Len(s)) = s
  BY AnyDomain, PrefixEnds
<1>2. 0 \in T
  <2>1. Holds(0)
    BY <1>1, P0Empty, AnyEmpty
  <2>2. QED  BY <2>1, <1>1
<1>3. ASSUME NEW k \in 1..Len(s), k - 1 \in T PROVE k \in T
  <2>0. k \in 0..Len(s) /\ k - 1 \in 0..Len(s)
    BY <1>1
  <2>1. IsSeq(p(k - 1)) /\ p(k) = Append(p(k - 1), s[k])
    BY <2>0, PrefixFacts, PrefixStep
  <2>2. Holds(k - 1)
    BY <1>3
  <2> DEFINE a == p(k - 1)
             b == p(k)
             e == s[k]
  <2>3. IsSeq(a) /\ b = Append(a, e) /\ IsSeq(IDs(a)) /\ Len(IDs(a)) = Depth(a)
    BY <2>1, <2>2
  <2> HIDE DEF a, b, e
  <2>4. IDs(b) = IF isP0(e) THEN Append(IDs(a), e.id) ELSE IDs(a)
    BY <2>3, IDsAppend
  <2>5. Depth(b) = IF isP0(e) THEN Depth(a) + 1 ELSE Depth(a)
    BY <2>3, P0Append
  <2>6. IsSeq(Append(IDs(a), e.id)) /\ Len(Append(IDs(a), e.id)) = Len(IDs(a)) + 1
    BY <2>3, AppendFacts
  <2>7. IsSeq(IDs(b)) /\ Len(IDs(b)) = Depth(b)
    BY <2>3, <2>4, <2>5, <2>6
  <2>8. Holds(k)
    BY <2>7 DEF b
  <2>9. QED  BY <2>8, <2>0
<1>4. 0..Len(s) \subseteq T
  <2> HIDE DEF T
  <2>1. \A k \in 1..Len(s) : k - 1 \in T => k \in T
    BY <1>3
  <2>2. QED  BY <1>1, <1>2, <2>1, IntervalInduction
<1>5. Holds(Len(s))
  BY <1>1, <1>4
<1>6. QED  BY <1>1, <1>5

\* IDs and depth of one stack on top of another.
LEMMA IDsConcat ==
  ASSUME NEW s, NEW t, IsSeq(s), IsSeq(t)
  PROVE  IDs(s \o t) = IDs(s) \o IDs(t) /\ Depth(s \o t) = Depth(s) + Depth(t)
<1> DEFINE p(k) == Prefix(t, k)
           Holds(k) == /\ IDs(s \o p(k)) = IDs(s) \o IDs(p(k))
                       /\ Depth(s \o p(k)) = Depth(s) + Depth(p(k))
           T == {k \in 0..Len(t) : Holds(k)}
<1>1. Len(t) \in Nat /\ p(0) = <<>> /\ p(Len(t)) = t
  BY AnyDomain, PrefixEnds
<1>0. IsSeq(IDs(s)) /\ Depth(s) \in Nat
  BY IDsFacts, P0Finite
<1>2. 0 \in T
  <2>1. s \o <<>> = s /\ IDs(s) \o <<>> = IDs(s)
    BY <1>0, AnyNoMore
  <2>2. Holds(0)
    <3> HIDE DEF p
    <3>1. s \o p(0) = s /\ IDs(p(0)) = <<>> /\ Depth(p(0)) = 0
      BY <1>1, <2>1, P0Empty
    <3>2. Depth(s) + 0 = Depth(s)
      BY <1>0
    <3>3. QED  BY <3>1, <3>2, <2>1
  <2>3. QED  BY <2>2, <1>1
<1>3. ASSUME NEW k \in 1..Len(t), k - 1 \in T PROVE k \in T
  <2>0. k \in 0..Len(t) /\ k - 1 \in 0..Len(t)
    BY <1>1
  <2>1. IsSeq(p(k - 1)) /\ p(k) = Append(p(k - 1), t[k])
    BY <2>0, PrefixFacts, PrefixStep
  <2>2. Holds(k - 1)
    BY <1>3
  <2> DEFINE a == p(k - 1)
             b == p(k)
             e == t[k]
  <2>3. /\ IsSeq(a) /\ b = Append(a, e)
        /\ IDs(s \o a) = IDs(s) \o IDs(a) /\ Depth(s \o a) = Depth(s) + Depth(a)
    BY <2>1, <2>2
  <2> HIDE DEF a, b, e
  <2>4. IDs(b) = (IF isP0(e) THEN Append(IDs(a), e.id) ELSE IDs(a)) /\ IsSeq(IDs(a))
    BY <2>3, IDsAppend, IDsFacts
  <2>5. Depth(b) = (IF isP0(e) THEN Depth(a) + 1 ELSE Depth(a)) /\ Depth(a) \in Nat
    BY <2>3, P0Append, P0Finite
  <2> DEFINE c == s \o a
  <2>6. IsSeq(c) /\ s \o b = Append(c, e)
    BY <2>3, AnyConcat, AppendSplits
  <2>c. IDs(c) = IDs(s) \o IDs(a) /\ Depth(c) = Depth(s) + Depth(a)
    BY <2>3
  <2> HIDE DEF c
  <2>7. IDs(Append(c, e)) = IF isP0(e) THEN Append(IDs(c), e.id) ELSE IDs(c)
    BY <2>6, IDsAppend
  <2>8. Depth(Append(c, e)) = IF isP0(e) THEN Depth(c) + 1 ELSE Depth(c)
    BY <2>6, P0Append
  <2>9. IDs(s) \o Append(IDs(a), e.id) = Append(IDs(s) \o IDs(a), e.id)
    BY <1>0, <2>4, AppendSplits
  <2>10. IDs(s \o b) = IDs(s) \o IDs(b)
    BY <2>4, <2>6, <2>7, <2>c, <2>9
  <2>11. Depth(s \o b) = Depth(s) + Depth(b)
    BY <1>0, <2>5, <2>6, <2>8, <2>c
  <2>12. Holds(k)
    BY <2>10, <2>11 DEF b
  <2>13. QED  BY <2>12, <2>0
<1>4. 0..Len(t) \subseteq T
  <2> HIDE DEF T
  <2>1. \A k \in 1..Len(t) : k - 1 \in T => k \in T
    BY <1>3
  <2>2. QED  BY <1>1, <1>2, <2>1, IntervalInduction
<1>5. Holds(Len(t))
  <2>1. Len(t) \in T
    <3> HIDE DEF T
    <3>1. QED  BY <1>1, <1>4
  <2> HIDE DEF Holds
  <2>2. QED  BY <2>1
<1>6. QED  BY <1>1, <1>5

\* What is left of the P0 elements when t is s with some of its elements changed,
\* and those at ks are picked: if they are those up to a cut, a prefix.
LEMMA IDsPick ==
  ASSUME NEW s, NEW t, IsSeq(s), IsSeq(t), Len(s) = Len(t), NEW ks, NEW cut \in 0..Len(s),
         \A k \in 1..Len(s) : ((k \in ks) /\ isP0(t[k])) <=> ((k <= cut) /\ isP0(s[k])),
         \A k \in 1..Len(s) : isP0(s[k]) => t[k].id = s[k].id
  PROVE  IDs(Pick(t, ks)) = IDs(Prefix(s, cut))
<1> DEFINE N == Len(s)
           m(k) == IF k <= cut THEN k ELSE cut
           p(k) == Prefix(s, m(k))
<1>1. N \in Nat /\ cut \in 0..N /\ Len(t) = N
  BY AnyDomain
<1>2. PICK A : t \in Seq(A)
  BY DEF IsSeq
<1>3. PICK f : Picks(f, t, ks) /\ Pick(t, ks) = f[Len(t)] /\ \A k \in 0..Len(t) : f[k] \in Seq(A)
  BY <1>2, PickRecursion
<1>4. /\ f[0] = <<>> /\ Pick(t, ks) = f[N]
      /\ \A k \in 1..N : f[k] = IF k \in ks THEN Append(f[k - 1], t[k]) ELSE f[k - 1]
      /\ \A k \in 0..N : IsSeq(f[k])
  BY <1>1, <1>3 DEF Picks, IsSeq
<1> DEFINE T == {k \in 0..N : IDs(f[k]) = IDs(p(k))}
<1>5. 0 \in T
  <2>1. m(0) = 0 /\ p(0) = <<>>
    BY <1>1, PrefixEnds
  <2>2. QED  BY <2>1, <1>1, <1>4
<1>6. ASSUME NEW k \in 1..N, k - 1 \in T PROVE k \in T
  <2>0. k \in 0..N /\ k - 1 \in 0..N /\ IsSeq(f[k - 1])
    BY <1>1, <1>4
  <2>1. IDs(f[k - 1]) = IDs(p(k - 1))
    BY <1>6
  <2> DEFINE g == f[k - 1]
             a == p(k - 1)
  <2>2. IDs(Append(g, t[k])) = IF isP0(t[k]) THEN Append(IDs(g), t[k].id) ELSE IDs(g)
    BY <2>0, IDsAppend
  <2>3. f[k] = IF k \in ks THEN Append(g, t[k]) ELSE g
    BY <1>4
  <2>4. ((k \in ks) /\ isP0(t[k])) <=> ((k <= cut) /\ isP0(s[k]))
    OBVIOUS
  <2>5. isP0(s[k]) => t[k].id = s[k].id
    OBVIOUS
  <2>6. CASE k <= cut
    <3>1. m(k) = k /\ m(k - 1) = k - 1
      BY <2>6, <1>1
    <3>2. p(k) = Append(a, s[k]) /\ IsSeq(a)
      BY <3>1, <2>0, PrefixStep, PrefixFacts
    <3> HIDE DEF a
    <3>3. IDs(p(k)) = IF isP0(s[k]) THEN Append(IDs(a), s[k].id) ELSE IDs(a)
      BY <3>2, IDsAppend
    <3>4. IDs(g) = IDs(a)
      BY <2>1 DEF a
    <3> HIDE DEF g, p
    <3>5. IDs(f[k]) = IDs(p(k))
      BY <2>2, <2>3, <2>4, <2>5, <2>6, <3>3, <3>4
    <3>6. QED  BY <3>5, <2>0
  <2>7. CASE ~(k <= cut)
    <3>1. m(k) = cut /\ m(k - 1) = cut
      BY <2>7, <1>1
    <3>2. p(k) = p(k - 1)
      BY <3>1
    <3>3. IDs(g) = IDs(p(k))
      BY <2>1, <3>2
    <3> HIDE DEF g, p
    <3>5. IDs(f[k]) = IDs(p(k))
      BY <2>2, <2>3, <2>4, <2>7, <3>3
    <3>6. QED  BY <3>5, <2>0
  <2>8. QED  BY <2>6, <2>7
<1>7. 0..N \subseteq T
  <2> HIDE DEF T, N
  <2>1. \A k \in 1..N : k - 1 \in T => k \in T
    BY <1>6
  <2>2. QED  BY <1>1, <1>5, <2>1, IntervalInduction
<1>8. IDs(f[N]) = IDs(p(N))
  BY <1>1, <1>7
<1>9. m(N) = cut
  BY <1>1
<1>10. QED  BY <1>4, <1>8, <1>9

----------------------------------------------------------------------------
(* How many elements in doubt stand before a place of the stack.           *)

\* The P0 elements below a place.
LEMMA P0Prefix ==
  ASSUME NEW s, IsSeq(s), NEW k \in 0..Len(s)
  PROVE  P0At(Prefix(s, k)) = {x \in P0At(s) : x <= k}
<1> DEFINE p == Prefix(s, k)
<1>1. IsSeq(p) /\ Len(p) = k /\ (\A i \in 1..k : p[i] = s[i])
  BY PrefixFacts
<1> HIDE DEF p
<1>2. DOMAIN p = 1..k /\ DOMAIN s = 1..Len(s) /\ Len(s) \in Nat
  BY <1>1, AnyDomain
<1>3. \A x : x \in P0At(p) <=> ((x \in P0At(s)) /\ (x <= k))
  <2> TAKE x
  <2>1. x \in P0At(p) <=> ((x \in 1..k) /\ isP0(p[x]))
    BY <1>2 DEF P0At
  <2>2. x \in P0At(s) <=> ((x \in 1..Len(s)) /\ isP0(s[x]))
    BY <1>2 DEF P0At
  <2>3. x \in 1..k <=> ((x \in 1..Len(s)) /\ (x <= k))
    BY <1>2
  <2>4. x \in 1..k => p[x] = s[x]
    BY <1>1
  <2>5. QED  BY <2>1, <2>2, <2>3, <2>4, Zenon
<1>4. QED  BY <1>3, Zenon DEF p

\* A lower part of the stack has no more P0 elements.
LEMMA DepthMonotone ==
  ASSUME NEW s, IsSeq(s), NEW j \in 0..Len(s), NEW k \in 0..Len(s), j <= k
  PROVE  Depth(Prefix(s, j)) <= Depth(Prefix(s, k)) /\ Depth(Prefix(s, k)) <= Depth(s)
<1>1. P0At(Prefix(s, j)) = {x \in P0At(s) : x <= j} /\ P0At(Prefix(s, k)) = {x \in P0At(s) : x <= k}
  BY P0Prefix
<1>2. IsFiniteSet(P0At(s)) /\ P0At(s) \subseteq 1..Len(s) /\ Len(s) \in Nat
  BY P0Finite, AnyDomain
<1>3. IsFiniteSet(P0At(Prefix(s, k)))
  BY PrefixFacts, P0Finite
<1>4. P0At(Prefix(s, j)) \subseteq P0At(Prefix(s, k))
  BY <1>1, <1>2
<1>5. P0At(Prefix(s, k)) \subseteq P0At(s)
  BY <1>1
<1>6. QED  BY <1>2, <1>3, <1>4, <1>5, FS_Subset DEF Depth

\* One more entry raises the depth by one or leaves it.
LEMMA DepthStep ==
  ASSUME NEW s, IsSeq(s), NEW k \in 1..Len(s)
  PROVE  /\ Depth(Prefix(s, k)) = IF isP0(s[k]) THEN Depth(Prefix(s, k - 1)) + 1
                                  ELSE Depth(Prefix(s, k - 1))
         /\ Depth(Prefix(s, k - 1)) \in Nat
<1>1. k - 1 \in 0..Len(s)
  BY AnyDomain
<1>2. IsSeq(Prefix(s, k - 1)) /\ Prefix(s, k) = Append(Prefix(s, k - 1), s[k])
  BY <1>1, PrefixFacts, PrefixStep
<1>3. QED  BY <1>2, P0Append, P0Finite

\* The depth is that below a place and that from there on.
LEMMA DepthSplit ==
  ASSUME NEW s, IsSeq(s), NEW k \in 0..Len(s)
  PROVE  /\ Depth(s) = Depth(Prefix(s, k)) + Depth(Suffix(s, k))
         /\ IDs(s) = IDs(Prefix(s, k)) \o IDs(Suffix(s, k))
         /\ Depth(Prefix(s, k)) \in Nat /\ Depth(Suffix(s, k)) \in Nat
<1> DEFINE p == Prefix(s, k)
           q == Suffix(s, k)
<1>1. IsSeq(p) /\ IsSeq(q) /\ s = p \o q
  BY PrefixFacts, SuffixFacts, PrefixAndSuffix
<1> HIDE DEF p, q
<1>2. IDs(p \o q) = IDs(p) \o IDs(q) /\ Depth(p \o q) = Depth(p) + Depth(q)
  BY <1>1, IDsConcat
<1>3. Depth(p) \in Nat /\ Depth(q) \in Nat
  BY <1>1, P0Finite
<1>4. QED  BY <1>1, <1>2, <1>3 DEF p, q

\* A commit of c elements ends behind the oldest c, or takes all that there are.
LEMMA EndOfFacts ==
  ASSUME NEW s, IsSeq(s), NEW c \in Nat
  PROVE  /\ EndOf(s, c) \in 0..Len(s)
         /\ Depth(Prefix(s, EndOf(s, c))) = IF c <= Depth(s) THEN c ELSE Depth(s)
<1> DEFINE D(k) == Depth(Prefix(s, k))
           N == Len(s)
           K == {0} \cup {k \in DOMAIN s : Cardinality({x \in P0At(s) : x < k}) < c}
           m == EndOf(s, c)
<1>1. N \in Nat /\ DOMAIN s = 1..N /\ P0At(s) \subseteq 1..N
  BY AnyDomain, P0Finite
<1>2. ASSUME NEW k \in 1..N PROVE Cardinality({x \in P0At(s) : x < k}) = D(k - 1)
  <2>1. k - 1 \in 0..N
    BY <1>1
  <2>2. P0At(Prefix(s, k - 1)) = {x \in P0At(s) : x <= k - 1}
    BY <2>1, P0Prefix
  <2>3. \A x \in P0At(s) : x < k <=> x <= k - 1
    BY <1>1
  <2>4. {x \in P0At(s) : x < k} = {x \in P0At(s) : x <= k - 1}
    BY <2>3
  <2>5. QED  BY <2>2, <2>4 DEF Depth
<1>3. K \in SUBSET (0..N) /\ K # {}
  BY <1>1
<1>4. m = Max(K)
  BY DEF EndOf
<1>5. m \in K /\ \A k \in K : k <= m
  BY <1>1, <1>3, <1>4, MaxMember
<1> HIDE DEF m
<1>6. m \in 0..N
  BY <1>3, <1>5
<1>7. m \in 1..N => D(m - 1) < c
  <2> HAVE m \in 1..N
  <2>1. m # 0
    BY <1>1
  <2>2. Cardinality({x \in P0At(s) : x < m}) < c
    BY <1>5, <2>1
  <2>3. QED  BY <2>2, <1>2
<1>8. m + 1 \in 1..N => ~(D(m) < c)
  <2> HAVE m + 1 \in 1..N
  <2>1. m + 1 - 1 = m /\ ~(m + 1 <= m)
    BY <1>1, <1>6
  <2>2. m + 1 \notin K
    BY <1>5, <2>1
  <2>3. ~(Cardinality({x \in P0At(s) : x < m + 1}) < c)
    BY <2>2, <1>1
  <2>4. Cardinality({x \in P0At(s) : x < m + 1}) = D(m)
    <3>1. ASSUME NEW k \in 1..N, k = m + 1
          PROVE  Cardinality({x \in P0At(s) : x < k}) = D(m)
      <4>1. k - 1 = m
        BY <3>1, <1>6
      <4>2. Cardinality({x \in P0At(s) : x < k}) = D(k - 1)
        BY <1>2
      <4>3. QED  BY <4>1, <4>2
    <3> HIDE DEF N, D
    <3>2. QED  BY <3>1
  <2>5. QED  BY <2>3, <2>4
<1>9. D(0) = 0 /\ D(N) = Depth(s)
  BY PrefixEnds, P0Empty
<1>10. D(m) <= Depth(s) /\ D(m) \in Nat /\ Depth(s) \in Nat
  <2>1. m \in 0..Len(s) /\ m <= m
    BY <1>6, <1>1
  <2>2. QED  BY <2>1, DepthMonotone, PrefixFacts, P0Finite
<1>11. D(m) <= c
  <2>1. CASE m = 0
    BY <2>1, <1>9
  <2>2. CASE m # 0
    <3>1. m \in 1..Len(s)
      BY <2>2, <1>6, <1>1
    <3>a. D(m) = (IF isP0(s[m]) THEN D(m - 1) + 1 ELSE D(m - 1)) /\ D(m - 1) \in Nat
      BY <3>1, DepthStep
    <3>2. D(m - 1) \in Nat /\ D(m) <= D(m - 1) + 1
      <4> HIDE DEF D
      <4>1. QED  BY <3>a
    <3>3. QED  BY <3>1, <3>2, <1>7, <1>10
  <2>3. QED  BY <2>1, <2>2
<1>12. (m = N) \/ (m + 1 \in 1..N)
  <2> HIDE DEF N
  <2>1. QED  BY <1>1, <1>6
<1> HIDE DEF D
<1>13. D(m) = IF c <= Depth(s) THEN c ELSE Depth(s)
  BY <1>8, <1>9, <1>10, <1>11, <1>12
<1>14. QED  BY <1>6, <1>13 DEF D, m

\* The elements that a cancel of num takes away.
Cancelled(s, num) == {k \in P0At(s) : Cardinality({x \in P0At(s) : x > k}) < num}

\* A cancel takes num P0 elements, or all there are, from the top of the stack.
LEMMA CancelledFacts ==
  ASSUME NEW s, IsSeq(s), NEW num \in Nat
  PROVE  \E cut \in 0..Len(s) :
           /\ Depth(Prefix(s, cut)) = IF num <= Depth(s) THEN Depth(s) - num ELSE 0
           /\ Cardinality(Cancelled(s, num)) = Depth(s) - Depth(Prefix(s, cut))
           /\ IDs(Pick(s, DOMAIN s \ Cancelled(s, num))) = IDs(Prefix(s, cut))
<1> DEFINE D(k) == Depth(Prefix(s, k))
           N == Len(s)
           c == IF num <= Depth(s) THEN Depth(s) - num ELSE 0
           cut == EndOf(s, c)
           gone == Cancelled(s, num)
<1>1. N \in Nat /\ DOMAIN s = 1..N /\ P0At(s) \subseteq 1..N
      /\ IsFiniteSet(P0At(s)) /\ Depth(s) \in Nat
  BY AnyDomain, P0Finite
<1>2. c \in Nat /\ c <= Depth(s)
  BY <1>1
<1>3. cut \in 0..N /\ D(cut) = c
  <2> HIDE DEF c
  <2>1. QED  BY <1>2, EndOfFacts
<1> HIDE DEF cut
<1>4. ASSUME NEW k \in 0..N PROVE Cardinality(P0At(s) \ P0At(Prefix(s, k))) = Depth(s) - D(k)
  <2>1. P0At(Prefix(s, k)) = {x \in P0At(s) : x <= k}
    BY P0Prefix
  <2>2. P0At(s) \cap P0At(Prefix(s, k)) = P0At(Prefix(s, k))
    BY <2>1
  <2>3. Cardinality(P0At(s) \ P0At(Prefix(s, k)))
          = Cardinality(P0At(s)) - Cardinality(P0At(s) \cap P0At(Prefix(s, k)))
    BY <1>1, FS_Difference
  <2>4. QED  BY <2>2, <2>3 DEF Depth
<1>5. ASSUME NEW k \in P0At(s) PROVE k \in gone <=> Depth(s) - D(k) < num
  <2>1. k \in 0..N
    BY <1>1
  <2>2. P0At(Prefix(s, k)) = {x \in P0At(s) : x <= k}
    BY <2>1, P0Prefix
  <2>3. {x \in P0At(s) : x > k} = P0At(s) \ P0At(Prefix(s, k))
    <3>1. \A x \in P0At(s) : x > k <=> ~(x <= k)
      BY <1>1
    <3>2. QED  BY <2>2, <3>1
  <2>4. QED  BY <2>1, <2>3, <1>4 DEF Cancelled
<1>6. ASSUME NEW k \in P0At(s) PROVE k \in gone <=> ~(k <= cut)
  <2>1. k \in 1..N /\ k \in 0..N /\ k - 1 \in 0..N /\ isP0(s[k])
    BY <1>1 DEF P0At
  <2>2. D(k) = D(k - 1) + 1 /\ D(k - 1) \in Nat
    BY <2>1, DepthStep
  <2>3. CASE k <= cut
    <3>1. D(k) <= D(cut)
      BY <2>1, <2>3, <1>3, DepthMonotone
    <3>2. ~(Depth(s) - D(k) < num)
      <4> HIDE DEF D
      <4>1. QED  BY <1>1, <1>3, <2>2, <3>1
    <3>3. QED  BY <3>2, <1>5, <2>3
  <2>4. CASE ~(k <= cut)
    <3>1. cut <= k - 1
      BY <2>4, <2>1, <1>3
    <3>2. D(cut) <= D(k - 1)
      BY <2>1, <3>1, <1>3, DepthMonotone
    <3>3. Depth(s) - D(k) < num
      <4> HIDE DEF D
      <4>1. QED  BY <1>1, <1>3, <2>2, <3>2
    <3>4. QED  BY <3>3, <1>5, <2>4
  <2>5. QED  BY <2>3, <2>4
<1>7. gone = P0At(s) \ P0At(Prefix(s, cut))
  <2>1. P0At(Prefix(s, cut)) = {x \in P0At(s) : x <= cut}
    BY <1>3, P0Prefix
  <2>2. gone \subseteq P0At(s)
    BY DEF Cancelled
  <2> HIDE DEF gone
  <2>3. QED  BY <1>6, <2>1, <2>2
<1>8. Cardinality(gone) = Depth(s) - D(cut)
  BY <1>3, <1>4, <1>7
<1>9. IDs(Pick(s, DOMAIN s \ gone)) = IDs(Prefix(s, cut))
  <2> DEFINE ks == DOMAIN s \ gone
  <2>1. \A k \in 1..N : ((k \in ks) /\ isP0(s[k])) <=> ((k <= cut) /\ isP0(s[k]))
    <3> TAKE k \in 1..N
    <3>1. isP0(s[k]) => k \in P0At(s)
      BY <1>1 DEF P0At
    <3>2. isP0(s[k]) => (k \in gone <=> ~(k <= cut))
      BY <3>1, <1>6
    <3>3. k \in ks <=> k \notin gone
      BY <1>1
    <3>4. QED  BY <3>2, <3>3, Zenon
  <2> HIDE DEF ks
  <2>2. QED  BY <2>1, <1>3, IDsPick DEF ks
<1>10. QED  BY <1>3, <1>8, <1>9

----------------------------------------------------------------------------
(* What working off committed entries does to a decoder.                   *)

DecoderFields ==
  {"state", "unsync", "iAddr", "needAddr", "specDepth", "unseenSpec", "traceOn", "contexts",
   "elements", "ite", "exceptRet", "cycleCount", "exception", "p0", "stack", "popPending",
   "prevOverflow", "eotPending", "seenData", "halt", "lost", "err", "respec", "out", "walk",
   "resolved"}

OneAtMost(d) ==
  /\ Len(d.traceOn) <= 1 /\ Len(d.ite) <= 1 /\ Len(d.exceptRet) <= 1 /\ Len(d.cycleCount) <= 1
  /\ Len(d.exception) <= 1

Data(d) ==
  /\ DOMAIN d = DecoderFields
  /\ d.iAddr \in Nat /\ d.needAddr \in BOOLEAN /\ d.popPending \in BOOLEAN
  /\ d.stack \in Seq(Nat) /\ Len(d.stack) <= RetStackCap
  /\ OneAtMost(d)

\* The stack, the depths and the session are left alone.
Kept(d, e) ==
  /\ e.state = d.state /\ e.lost = d.lost
  /\ e.p0 = d.p0 /\ e.specDepth = d.specDepth /\ e.unseenSpec = d.unseenSpec
  /\ e.exception = d.exception /\ e.respec = d.respec /\ e.resolved = d.resolved

Quiet(d, e) == Data(e) /\ Kept(d, e)

\* Sync was lost: nothing is in doubt any more.
NothingLeft(e) ==
  /\ e.p0 = <<>> /\ e.specDepth = 0 /\ e.unseenSpec = 0
  /\ e.stack = <<>> /\ e.exception = <<>> /\ e.popPending = FALSE

Cleared(d, e) ==
  /\ Data(e) /\ e.state = "WaitSync" /\ e.lost = TRUE /\ NothingLeft(e)
  /\ e.respec = d.respec /\ e.resolved = d.resolved

Runs(d, e) == Quiet(d, e) \/ Cleared(d, e)

LEMMA QuietSelf == ASSUME NEW d, Data(d) PROVE Quiet(d, d)
BY DEF Quiet, Kept

LEMMA QuietData == ASSUME NEW d, NEW e, Quiet(d, e) PROVE Data(e)
BY DEF Quiet

LEMMA RunsData == ASSUME NEW d, NEW e, Runs(d, e) PROVE Data(e)
BY DEF Runs, Quiet, Cleared

\* Two steps that leave the stack alone, one behind the other.
LEMMA QuietFollows == ASSUME NEW d, NEW e, NEW f, Quiet(d, e), Quiet(e, f) PROVE Quiet(d, f)
BY DEF Quiet, Kept

\* The same if the second may lose sync.
LEMMA RunsFollow == ASSUME NEW d, NEW e, NEW f, Quiet(d, e), Runs(e, f) PROVE Runs(d, f)
BY DEF Runs, Quiet, Kept, Cleared

LEMMA EmitQuiet == ASSUME NEW d, NEW x, Data(d) PROVE Quiet(d, Emit(d, x))
BY DEF Data, OneAtMost, Quiet, Kept, Emit, DecoderFields

LEMMA WalkedQuiet == ASSUME NEW d, NEW x, Data(d) PROVE Quiet(d, Walked(d, x))
BY DEF Data, OneAtMost, Quiet, Kept, Walked, DecoderFields

\* Showing what was held back leaves stack and depths alone.
LEMMA FlushQuiet == ASSUME NEW d, Data(d) PROVE Quiet(d, flushPendingElements(d))
<1>1. Len(<<>>) <= 1
  OBVIOUS
<1>2. QED  BY <1>1 DEF Data, OneAtMost, Quiet, Kept, flushPendingElements, DecoderFields

LEMMA AddressQuiet ==
  ASSUME NEW d, NEW p, Data(d), p.addr \in Nat
  PROVE  Quiet(d, updateAddress(d, p))
BY DEF Data, OneAtMost, Quiet, Kept, updateAddress, Walked, DecoderFields

LEMMA ContextQuiet ==
  ASSUME NEW d, NEW p, NEW index, Data(d)
  PROVE  Quiet(d, updateContext(d, p, index))
BY DEF Data, OneAtMost, Quiet, Kept, updateContext, DecoderFields

LEMMA PushQuiet == ASSUME NEW d, NEW a \in Nat, Data(d) PROVE Quiet(d, push(d, a))
<1> DEFINE s == d.stack
           t == Append(IF Len(s) = RetStackCap THEN Tail(s) ELSE s, a)
<1>1. s \in Seq(Nat) /\ Len(s) <= RetStackCap /\ Len(s) \in Nat /\ RetStackCap \in Nat \ {0}
  BY LenProperties, DepthAssumption DEF Data
<1>2. t \in Seq(Nat) /\ Len(t) <= RetStackCap
  <2>1. CASE Len(s) = RetStackCap
    <3>1. s # <<>>
      BY <2>1, <1>1
    <3>2. Tail(s) \in Seq(Nat) /\ Len(Tail(s)) = Len(s) - 1
      BY <3>1, <1>1
    <3>3. QED  BY <3>2, <2>1, <1>1
  <2>2. CASE Len(s) # RetStackCap
    BY <2>2, <1>1
  <2>3. QED  BY <2>1, <2>2
<1>3. push(d, a) = IF ~config.retStack THEN d ELSE [d EXCEPT !.stack = t]
  BY DEF push
<1> HIDE DEF t
<1>4. Quiet(d, [d EXCEPT !.stack = t]) /\ Quiet(d, d)
  BY <1>2 DEF Data, OneAtMost, Quiet, Kept, DecoderFields
<1>5. QED  BY <1>3, <1>4

LEMMA TakeReturnQuiet == ASSUME NEW d, Data(d) PROVE Quiet(d, TakeReturn(d))
<1> DEFINE s == d.stack
           top == Last(s)
           rest == Front(s)
           x == [d EXCEPT !.popPending = FALSE, !.needAddr = FALSE, !.iAddr = top, !.stack = rest]
           y == [d EXCEPT !.popPending = FALSE]
<1>1. s \in Seq(Nat) /\ Len(s) <= RetStackCap /\ Len(s) \in Nat /\ RetStackCap \in Nat
  BY LenProperties, DepthAssumption DEF Data
<1>2. Quiet(d, y)
  BY DEF Data, OneAtMost, Quiet, Kept, DecoderFields
<1>3. s # <<>> => Quiet(d, x)
  <2> HAVE s # <<>>
  <2>1. Len(s) \in 1..Len(s)
    BY <1>1
  <2>2. top \in Nat
    BY <1>1, <2>1 DEF Last
  <2>3. rest \in Seq(Nat) /\ Len(rest) = Len(s) - 1
    BY <1>1, <2>1 DEF Front
  <2>4. Len(rest) <= RetStackCap
    BY <1>1, <2>3
  <2> HIDE DEF top, rest
  <2>5. QED  BY <2>2, <2>3, <2>4 DEF Data, OneAtMost, Quiet, Kept, DecoderFields
<1>4. \/ TakeReturn(d) = x /\ s # <<>>
      \/ TakeReturn(d) = y
  BY DEF TakeReturn
<1> HIDE DEF x, y
<1>5. QED  BY <1>2, <1>3, <1>4

LEMMA PopReturnQuiet == ASSUME NEW d, Data(d) PROVE Quiet(d, PopReturn(d))
BY TakeReturnQuiet, QuietSelf DEF PopReturn

LEMMA ReturnWithinQuiet == ASSUME NEW d, NEW more, Data(d) PROVE Quiet(d, ReturnWithin(d, more))
BY TakeReturnQuiet, QuietSelf DEF ReturnWithin

LEMMA NaccQuiet ==
  ASSUME NEW d, NEW index, NEW a, Data(d)
  PROVE  Quiet(d, Nacc(d, index, a))
<1> DEFINE x == Emit(d, Elem("AddrNacc", index, a))
<1>1. Quiet(d, x)
  BY EmitQuiet
<1> HIDE DEF x
<1>2. Nacc(d, index, a) = [x EXCEPT !.needAddr = TRUE]
  BY DEF Nacc, x
<1>3. Quiet(x, [x EXCEPT !.needAddr = TRUE])
  BY <1>1 DEF Data, OneAtMost, Quiet, Kept, DecoderFields
<1>4. QED  BY <1>1, <1>2, <1>3, QuietFollows

LEMMA HaltQuiet == ASSUME NEW d, NEW h, Data(d) PROVE Quiet(d, [d EXCEPT !.halt = h])
BY DEF Data, OneAtMost, Quiet, Kept, DecoderFields

LEMMA StopQuiet == ASSUME NEW d, Data(d) PROVE Quiet(d, StopIfLost(d))
BY HaltQuiet DEF StopIfLost

LEMMA OutQuiet == ASSUME NEW d, NEW o, Data(d) PROVE Quiet(d, [d EXCEPT !.out = o])
BY DEF Data, OneAtMost, Quiet, Kept, DecoderFields

LEMMA WalkQuiet == ASSUME NEW d, NEW w, Data(d) PROVE Quiet(d, [d EXCEPT !.walk = w])
BY DEF Data, OneAtMost, Quiet, Kept, DecoderFields

LEMMA ShowRangeQuiet ==
  ASSUME NEW d, NEW index, NEW w, NEW taken, Data(d)
  PROVE  Quiet(d, ShowRange(d, index, w, taken))
BY OutQuiet DEF ShowRange

\* The place, and whether it is known and a return is open.
LEMMA MovedQuiet ==
  ASSUME NEW d, NEW a \in Nat, NEW need \in BOOLEAN, NEW pop \in BOOLEAN, Data(d)
  PROVE  Quiet(d, [d EXCEPT !.popPending = pop, !.iAddr = a, !.needAddr = need])
BY DEF Data, OneAtMost, Quiet, Kept, DecoderFields

\* resetDecoder leaves nothing in doubt.
LEMMA ResetClears ==
  ASSUME NEW d, Data(d)
  PROVE  LET e == resetDecoder(d)
         IN  /\ Data(e) /\ NothingLeft(e) /\ e.state = "NoSync" /\ e.lost = d.lost
             /\ e.respec = d.respec /\ e.resolved = d.resolved
<1> DEFINE x == [d EXCEPT
    !.state = "NoSync", !.iAddr = 0, !.needAddr = TRUE,
    !.specDepth = 0, !.unseenSpec = 0,
    !.traceOn = <<>>, !.contexts = <<>>, !.elements = <<>>, !.ite = <<>>,
    !.exceptRet = <<>>, !.cycleCount = <<>>, !.exception = <<>>,
    !.p0 = <<>>, !.stack = <<>>, !.popPending = FALSE]
<1>1. resetDecoder(d) = Walked(x, [kind |-> "Lost"])
  BY DEF resetDecoder
<1>2. Len(<<>>) <= 1 /\ <<>> \in Seq(Nat) /\ Len(<<>>) <= RetStackCap
  BY DepthAssumption
<1>3. DOMAIN x = DecoderFields
  BY DEF Data, DecoderFields
<1>4. /\ x.state = "NoSync" /\ x.iAddr = 0 /\ x.needAddr = TRUE /\ x.specDepth = 0
      /\ x.unseenSpec = 0
      /\ x.traceOn = <<>> /\ x.ite = <<>> /\ x.exceptRet = <<>> /\ x.cycleCount = <<>>
      /\ x.exception = <<>> /\ x.p0 = <<>> /\ x.stack = <<>> /\ x.popPending = FALSE
      /\ x.lost = d.lost /\ x.respec = d.respec /\ x.resolved = d.resolved
  BY DEF Data, DecoderFields
<1> HIDE DEF x
<1>5. Data(x) /\ NothingLeft(x)
  <2>1. x.iAddr \in Nat
    BY <1>4
  <2>2. x.needAddr \in BOOLEAN /\ x.popPending \in BOOLEAN
    BY <1>4
  <2>3. x.stack \in Seq(Nat) /\ Len(x.stack) <= RetStackCap /\ OneAtMost(x)
    BY <1>2, <1>4, Zenon DEF OneAtMost
  <2>4. Data(x)
    BY <1>3, <2>1, <2>2, <2>3, Zenon DEF Data
  <2>5. QED  BY <2>4, <1>4, Zenon DEF NothingLeft
<1> DEFINE e == Walked(x, [kind |-> "Lost"])
<1>6. Quiet(x, e) /\ e.stack = x.stack /\ e.popPending = x.popPending
  <2>1. Quiet(x, e)
    BY <1>5, WalkedQuiet
  <2>2. e.stack = x.stack /\ e.popPending = x.popPending
    BY <1>3 DEF Walked, DecoderFields
  <2>3. QED  BY <2>1, <2>2
<1> HIDE DEF e
<1>7. /\ Data(e) /\ NothingLeft(e) /\ e.state = "NoSync" /\ e.lost = d.lost
      /\ e.respec = d.respec /\ e.resolved = d.resolved
  BY <1>4, <1>5, <1>6 DEF Quiet, Kept, NothingLeft
<1>8. QED  BY <1>1, <1>7 DEF e

\* Nor does a loss of sync.
LEMMA LoseSyncClears ==
  ASSUME NEW d, NEW reason, NEW index, Data(d)
  PROVE  LET e == LoseSync(d, reason, index)
         IN  /\ Data(e) /\ NothingLeft(e) /\ e.state = "WaitSync" /\ e.lost = d.lost
             /\ e.respec = d.respec /\ e.resolved = d.resolved
<1> DEFINE x == [d EXCEPT !.unsync = reason]
           y == resetDecoder(x)
           z == Emit(y, Elem("NoSync", index, reason))
           e == [z EXCEPT !.state = "WaitSync"]
<1>1. /\ Data(x) /\ x.lost = d.lost /\ x.respec = d.respec /\ x.resolved = d.resolved
  BY DEF Data, OneAtMost, DecoderFields
<1> HIDE DEF x
<1>2. /\ Data(y) /\ NothingLeft(y) /\ y.lost = x.lost
      /\ y.respec = x.respec /\ y.resolved = x.resolved
  BY <1>1, ResetClears
<1>0. LoseSync(d, reason, index) = e
  BY DEF LoseSync, x
<1> HIDE DEF y
<1>3. /\ Data(z) /\ NothingLeft(z) /\ z.lost = y.lost
      /\ z.respec = y.respec /\ z.resolved = y.resolved
  BY <1>2 DEF Data, OneAtMost, NothingLeft, Emit, DecoderFields
<1> HIDE DEF z
<1>4. /\ Data(e) /\ NothingLeft(e) /\ e.lost = z.lost /\ e.state = "WaitSync"
      /\ e.respec = z.respec /\ e.resolved = z.resolved
  BY <1>3 DEF Data, OneAtMost, NothingLeft, DecoderFields
<1> HIDE DEF e
<1>5. QED  BY <1>0, <1>1, <1>2, <1>3, <1>4

\* An opcode that cannot be followed loses sync, and says so.
LEMMA SequenceErrorClears ==
  ASSUME NEW d, NEW index, Data(d)
  PROVE  Cleared(d, SequenceError(d, index)) /\ SequenceError(d, index).halt = TRUE
<1> DEFINE x == LoseSync(d, "BadPacket", index)
           e == [x EXCEPT !.halt = TRUE, !.lost = TRUE]
<1>1. /\ Data(x) /\ NothingLeft(x) /\ x.state = "WaitSync"
      /\ x.respec = d.respec /\ x.resolved = d.resolved
  BY LoseSyncClears
<1>2. SequenceError(d, index) = e
  BY DEF SequenceError
<1> HIDE DEF x
<1>3. Cleared(x, e) /\ e.halt = TRUE
  BY <1>1 DEF Data, OneAtMost, NothingLeft, Cleared, DecoderFields
<1> HIDE DEF e
<1>4. Cleared(d, e)
  BY <1>1, <1>3 DEF Cleared
<1>5. QED  BY <1>2, <1>3, <1>4

----------------------------------------------------------------------------
(* The walk.                                                               *)

\* What there is at an address with memory.
LEMMA ProgramAt ==
  ASSUME NEW w, KindAt(w) # "None"
  PROVE  /\ w \in Nat /\ HasMemory(w) /\ Program[w].target \in Nat
<1>1. w \in DOMAIN Program
  BY DEF KindAt, HasMemory
<1> DEFINE I == [kind : {"Other", "Br", "Ind", "Isb", "Bad"}, link : BOOLEAN,
                 eret : BOOLEAN, target : Nat]
<1>2. Program \in Seq(I)
  BY ProgramAssumption
<1> HIDE DEF I
<1>3. w \in 1..Len(Program) /\ Program[w] \in I
  BY <1>1, <1>2, LenProperties
<1>4. Program[w].target \in Nat
  BY <1>3 DEF I
<1>5. QED  BY <1>1, <1>3, <1>4 DEF HasMemory

\* The walk past an instruction: the place and the return stack change, and nothing
\* else that counts.
LEMMA GoPastQuiet ==
  ASSUME NEW d, NEW w, NEW taken, Data(d), KindAt(w) # "None"
  PROVE  Quiet(d, GoPast(d, w, taken))
<1> DEFINE ins == Program[w]
           x == IF taken /\ ins.link THEN push(d, w + 1) ELSE d
           pop == x.popPending \/ (config.retStack /\ taken /\ ins.kind = "Ind")
           a == IF taken /\ ins.kind = "Br" THEN ins.target ELSE w + 1
           need == taken /\ ins.kind = "Ind"
<1>1. w \in Nat /\ w + 1 \in Nat /\ ins.target \in Nat
  BY ProgramAt
<1>2. Quiet(d, x)
  BY <1>1, PushQuiet, QuietSelf
<1>3. a \in Nat
  BY <1>1
<1>4. need \in BOOLEAN
  BY Zenon
<1>5. GoPast(d, w, taken) = [x EXCEPT !.popPending = pop, !.iAddr = a, !.needAddr = need]
  BY DEF GoPast
<1> HIDE DEF x, a, need
<1>6. pop \in BOOLEAN
  BY Zenon
<1> HIDE DEF pop
<1>7. Data(x)
  BY <1>2, QuietData
<1>8. Quiet(x, [x EXCEPT !.popPending = pop, !.iAddr = a, !.needAddr = need])
  BY <1>3, <1>4, <1>6, <1>7, MovedQuiet
<1>9. QED  BY <1>2, <1>5, <1>8, QuietFollows

\* A decoder that has lost sync does not go on with its run of atoms.
Atomised(d, e) == Quiet(d, e) \/ (Cleared(d, e) /\ e.halt = TRUE)

\* One atom leaves stack and depths alone, or loses sync and ends the run.
LEMMA followAtomRuns ==
  ASSUME NEW d, NEW index, NEW taken, NEW more, Data(d)
  PROVE  Atomised(d, followAtom(d, index, taken, more))
<1> DEFINE w == Waypoint(d.iAddr)
           e == followAtom(d, index, taken, more)
           nacc == Nacc(d, index, w)
           x == ShowRange(d, index, w, taken)
           y == GoPast(x, w, taken)
           z == ReturnWithin(y, more)
<1>1. \/ KindAt(w) = "None" /\ e = [nacc EXCEPT !.halt = TRUE]
      \/ e = SequenceError(d, index)
      \/ KindAt(w) # "None" /\ e = StopIfLost(z)
  BY DEF followAtom
<1>2. Quiet(d, [nacc EXCEPT !.halt = TRUE])
  <2>1. Quiet(d, nacc)
    BY NaccQuiet
  <2> HIDE DEF nacc
  <2>2. Quiet(nacc, [nacc EXCEPT !.halt = TRUE])
    BY <2>1, HaltQuiet, QuietData
  <2>3. QED  BY <2>1, <2>2, QuietFollows
<1>3. Atomised(d, SequenceError(d, index))
  BY SequenceErrorClears DEF Atomised
<1>4. KindAt(w) # "None" => Quiet(d, StopIfLost(z))
  <2> HAVE KindAt(w) # "None"
  <2> HIDE DEF w
  <2>1. Quiet(d, x) /\ Data(x)
    BY ShowRangeQuiet, QuietData
  <2> HIDE DEF x
  <2>2. Quiet(x, y) /\ Data(y)
    BY <2>1, GoPastQuiet, QuietData
  <2> HIDE DEF y
  <2>3. Quiet(y, z) /\ Data(z)
    BY <2>2, ReturnWithinQuiet, QuietData
  <2> HIDE DEF z
  <2>4. Quiet(z, StopIfLost(z))
    BY <2>3, StopQuiet
  <2>5. QED  BY <2>1, <2>2, <2>3, <2>4, QuietFollows
<1> HIDE DEF e, nacc, z
<1>5. Atomised(d, e)
  BY <1>1, <1>2, <1>3, <1>4 DEF Atomised
<1>6. QED  BY <1>5 DEF e

LEMMA AtomisedRuns == ASSUME NEW d, NEW e, Atomised(d, e) PROVE Runs(d, e)
BY DEF Atomised, Runs

\* A run of atoms: the decoder behind every one of them.
FirstOf(d, atoms) ==
  LET acted == [k \in DOMAIN atoms |->
                  [kind |-> "Atom", index |-> atoms[k].index, atom |-> atoms[k].atom]]
  IN  StopIfLost([PopReturn(flushPendingElements(d)) EXCEPT !.walk = @ \o acted])

BehindAtoms(b, atoms, h) ==
  h = [k \in 0..Len(atoms) |-> IF k = 0 THEN b ELSE AfterAtom(h[k - 1], atoms, k)]

\* The decoder behind every atom of a run is defined.
LEMMA BehindAtomsDefined == ASSUME NEW b, NEW atoms, IsSeq(atoms) PROVE \E h : BehindAtoms(b, atoms, h)
<1> DEFINE N == Len(atoms)
           Upto(n, h) == h = [k \in 0..n |-> IF k = 0 THEN b ELSE AfterAtom(h[k - 1], atoms, k)]
           T == {n \in 0..N : \E h : Upto(n, h)}
<1>1. N \in Nat
  BY AnySeqLen
<1>2. 0 \in T
  <2> DEFINE h == [k \in 0..0 |-> b]
  <2>1. Upto(0, h)
    OBVIOUS
  <2> HIDE DEF Upto, h
  <2>2. QED  BY <1>1, <2>1
<1>3. ASSUME NEW n \in 1..N, n - 1 \in T PROVE n \in T
  <2>1. PICK h : Upto(n - 1, h)
    BY <1>3
  <2> DEFINE v == AfterAtom(h[n - 1], atoms, n)
             g == [k \in 0..n |-> IF k = n THEN v ELSE h[k]]
  <2>2. ASSUME NEW k \in 0..n
        PROVE  g[k] = IF k = 0 THEN b ELSE AfterAtom(g[k - 1], atoms, k)
    <3>1. CASE k = 0
      <4>1. g[k] = h[0] /\ 0 \in 0..(n - 1)
        BY <1>1, <3>1
      <4>2. h[0] = b
        BY <2>1, <4>1
      <4>3. QED  BY <3>1, <4>1, <4>2
    <3>2. CASE k # 0
      <4>1. k - 1 \in 0..n /\ k - 1 # n
        BY <1>1, <3>2
      <4>2. g[k - 1] = h[k - 1]
        BY <4>1
      <4>3. CASE k = n
        BY <3>2, <4>2, <4>3
      <4>4. CASE k # n
        <5>1. k \in 0..(n - 1) /\ g[k] = h[k]
          BY <1>1, <4>4
        <5> HIDE DEF g
        <5>2. h[k] = AfterAtom(h[k - 1], atoms, k)
          BY <2>1, <3>2, <5>1
        <5>3. QED  BY <3>2, <4>2, <5>1, <5>2
      <4>5. QED  BY <4>3, <4>4
    <3>3. QED  BY <3>1, <3>2
  <2>3. Upto(n, g)
    <3>1. g = [k \in 0..n |-> g[k]]
      OBVIOUS
    <3> HIDE DEF g
    <3>2. QED  BY <2>2, <3>1
  <2> HIDE DEF Upto
  <2>4. QED  BY <2>3
<1>4. 0..N \subseteq T
  <2> HIDE DEF T, N
  <2>1. \A n \in 1..N : n - 1 \in T => n \in T
    BY <1>3
  <2>2. QED  BY <1>1, <1>2, <2>1, IntervalInduction
<1>5. N \in T
  BY <1>1, <1>4
<1>6. PICK h : Upto(N, h)
  BY <1>5
<1>7. BehindAtoms(b, atoms, h)
  BY <1>6 DEF BehindAtoms
<1>8. QED  BY <1>7

\* Every atom leaves it as the first one does.
LEMMA AfterAtomAtomised ==
  ASSUME NEW d, NEW e, NEW atoms, NEW k, Atomised(d, e)
  PROVE  Atomised(d, AfterAtom(e, atoms, k))
<1> DEFINE f == AfterAtom(e, atoms, k)
           g == followAtom(e, atoms[k].index, atoms[k].atom = "E", k < Len(atoms))
<1>0. Data(e)
  BY AtomisedRuns, RunsData
<1>1. (e.halt /\ f = e) \/ (~e.halt /\ f = g)
  BY DEF AfterAtom
<1>2. Atomised(e, g)
  <2> DEFINE taken == atoms[k].atom = "E"
             more == k < Len(atoms)
  <2>1. g = followAtom(e, atoms[k].index, taken, more)
    OBVIOUS
  <2> HIDE DEF taken, more, g
  <2>2. QED  BY <1>0, <2>1, followAtomRuns
<1> HIDE DEF f, g
<1>3. CASE Quiet(d, e)
  <2>1. Atomised(d, g)
    BY <1>2, <1>3 DEF Atomised, Quiet, Kept, Cleared
  <2>2. QED  BY <1>1, <1>3, <2>1 DEF f, Atomised
<1>4. CASE Cleared(d, e) /\ e.halt = TRUE
  <2>1. f = e
    BY <1>1, <1>4
  <2>2. QED  BY <1>4, <2>1 DEF f, Atomised
<1>5. QED  BY <1>3, <1>4 DEF Atomised

\* A run of atoms leaves stack and depths alone, or loses sync.
LEMMA AtomEntriesRuns ==
  ASSUME NEW d, NEW atoms, IsSeq(atoms), Data(d)
  PROVE  Runs(d, processatomEntries(d, atoms))
<1> DEFINE N == Len(atoms)
           b == FirstOf(d, atoms)
           g == CHOOSE h : BehindAtoms(b, atoms, h)
           T == {k \in 0..N : Atomised(d, g[k])}
<1>1. N \in Nat
  BY AnySeqLen
<1>2. BehindAtoms(b, atoms, g)
  <2> HIDE DEF b
  <2>1. QED  BY BehindAtomsDefined
<1>3. processatomEntries(d, atoms) = g[N]
  BY DEF processatomEntries, BehindAtoms, FirstOf
<1>0. Quiet(d, b)
  <2> DEFINE x == flushPendingElements(d)
             y == PopReturn(x)
             z == [y EXCEPT !.walk = @ \o [k \in DOMAIN atoms |->
                  [kind |-> "Atom", index |-> atoms[k].index, atom |-> atoms[k].atom]]]
  <2>1. b = StopIfLost(z)
    BY DEF FirstOf
  <2>2. Quiet(d, x) /\ Data(x)
    BY FlushQuiet, QuietData
  <2> HIDE DEF x, b
  <2>3. Quiet(x, y) /\ Data(y)
    BY <2>2, PopReturnQuiet, QuietData
  <2> HIDE DEF y
  <2>4. Quiet(y, z) /\ Data(z)
    BY <2>3, WalkQuiet, QuietData
  <2> HIDE DEF z
  <2>5. Quiet(z, b)
    BY <2>1, <2>4, StopQuiet
  <2>6. QED  BY <2>2, <2>3, <2>4, <2>5, QuietFollows
<1> HIDE DEF g, b
<1>4. \A k \in 0..N : g[k] = IF k = 0 THEN b ELSE AfterAtom(g[k - 1], atoms, k)
  BY <1>2 DEF BehindAtoms
<1>5. 0 \in T
  <2>1. Atomised(d, b)
    BY <1>0 DEF Atomised
  <2>2. 0 \in 0..N /\ g[0] = b
    BY <1>1, <1>4
  <2>3. QED  BY <2>1, <2>2
<1>6. ASSUME NEW k \in 1..N, k - 1 \in T PROVE k \in T
  <2>1. k \in 0..N /\ k # 0 /\ Atomised(d, g[k - 1])
    BY <1>6
  <2>2. g[k] = AfterAtom(g[k - 1], atoms, k)
    BY <1>4, <2>1
  <2>3. Atomised(d, g[k])
    BY <2>1, <2>2, AfterAtomAtomised
  <2>6. QED  BY <2>1, <2>3
<1>7. 0..N \subseteq T
  <2> HIDE DEF T, N
  <2>1. \A k \in 1..N : k - 1 \in T => k \in T
    BY <1>6
  <2>2. QED  BY <1>1, <1>5, <2>1, IntervalInduction
<1>8. Atomised(d, g[N])
  BY <1>1, <1>7
<1>9. QED  BY <1>3, <1>8, AtomisedRuns

----------------------------------------------------------------------------
(* Exceptions, Q elements and source addresses.                            *)

LEMMA ErrQuiet == ASSUME NEW d, NEW h, Data(d) PROVE Quiet(d, [d EXCEPT !.err = h])
BY DEF Data, OneAtMost, Quiet, Kept, DecoderFields

LEMMA ShowExceptionQuiet == ASSUME NEW d, NEW e, Data(d) PROVE Quiet(d, ShowException(d, e))
<1> DEFINE upto == Min({x \in d.iAddr..e.ret : (x = e.ret) \/ KindAt(x) \in {"None", "Bad"}})
           runs == e.exc.interp # 2 /\ d.iAddr < e.ret
           d1   == IF runs /\ upto < e.ret THEN Nacc(d, e.index, upto) ELSE d
           d2   == IF runs /\ d.iAddr < upto
                   THEN Emit(d1, RangeElem(e.index, d.iAddr, upto, TRUE)) ELSE d1
<1>1. \/ ShowException(d, e) = [d EXCEPT !.err = TRUE]
      \/ ShowException(d, e) = Emit(d2, Elem("Exception", e.index, e.exc.num))
  BY DEF ShowException
<1> HIDE DEF upto, runs
<1>2. Quiet(d, d1) /\ Data(d1)
  BY NaccQuiet, QuietSelf, QuietData
<1> HIDE DEF d1
<1>3. Quiet(d1, d2) /\ Data(d2)
  BY <1>2, EmitQuiet, QuietSelf, QuietData
<1> HIDE DEF d2
<1>4. Quiet(d2, Emit(d2, Elem("Exception", e.index, e.exc.num)))
  BY <1>3, EmitQuiet
<1>5. Quiet(d, Emit(d2, Elem("Exception", e.index, e.exc.num)))
  BY <1>2, <1>3, <1>4, QuietFollows
<1>6. QED  BY <1>1, <1>5, ErrQuiet

\* An exception, shown at once, leaves stack and depths alone.
LEMMA ExceptionQuiet ==
  ASSUME NEW d, NEW e, Data(d)
  PROVE  Quiet(d, processExceptionPacket(d, e))
<1>1. Quiet(d, PopReturn(d)) /\ Data(PopReturn(d))
  BY PopReturnQuiet, QuietData
<1>2. Quiet(PopReturn(d), ShowException(PopReturn(d), e))
  BY <1>1, ShowExceptionQuiet
<1>3. Quiet(d, ShowException(PopReturn(d), e))
  BY <1>1, <1>2, QuietFollows
<1>4. QED  BY <1>3 DEF processExceptionPacket

LEMMA PlaceQuiet ==
  ASSUME NEW d, NEW a \in Nat, NEW need \in BOOLEAN, Data(d)
  PROVE  Quiet(d, [d EXCEPT !.iAddr = a, !.needAddr = need])
BY DEF Data, OneAtMost, Quiet, Kept, DecoderFields

\* And one from the stack.
LEMMA QueuedExceptionQuiet ==
  ASSUME NEW d, NEW e, Data(d), e.start \in Nat, e.need \in BOOLEAN
  PROVE  Quiet(d, ShowQueuedException(d, e))
<1> DEFINE x == [d EXCEPT !.iAddr = e.start, !.needAddr = e.need]
           y == processExceptionPacket(x, e)
           z == [y EXCEPT !.iAddr = d.iAddr, !.needAddr = d.needAddr]
<1>1. \/ ShowQueuedException(d, e) = processExceptionPacket(d, e)
      \/ ShowQueuedException(d, e) = y
      \/ ShowQueuedException(d, e) = z
  BY DEF ShowQueuedException, BackTo
<1>2. Quiet(d, x) /\ Data(x)
  BY PlaceQuiet, QuietData
<1> HIDE DEF x
<1>3. Quiet(x, y) /\ Data(y)
  BY <1>2, ExceptionQuiet, QuietData
<1> HIDE DEF y
<1>4. Quiet(y, z)
  <2>1. d.iAddr \in Nat /\ d.needAddr \in BOOLEAN
    BY DEF Data
  <2>2. QED  BY <1>3, <2>1, PlaceQuiet
<1>5. Quiet(d, y) /\ Quiet(d, z)
  BY <1>2, <1>3, <1>4, QuietFollows
<1>6. QED  BY <1>1, <1>5, ExceptionQuiet

\* A Q element leaves stack and depths alone.
LEMMA QQuiet ==
  ASSUME NEW d, NEW p, NEW index, Data(d), p.addr \in Nat
  PROVE  Quiet(d, processQElement(d, p, index))
<1> DEFINE x == flushPendingElements(d)
<1>1. Quiet(d, x) /\ Data(x)
  BY FlushQuiet, QuietData
<1> HIDE DEF x
<1>2. \E v : ShowQ(x, p, index) = Walked([Emit(x, v) EXCEPT !.iAddr = p.addr, !.needAddr = FALSE],
                                         [kind |-> "Q", addr |-> p.addr])
  BY DEF ShowQ
<1>3. PICK v : ShowQ(x, p, index) = Walked([Emit(x, v) EXCEPT !.iAddr = p.addr, !.needAddr = FALSE],
                                           [kind |-> "Q", addr |-> p.addr])
  BY <1>2
<1> DEFINE y == Emit(x, v)
           z == [y EXCEPT !.iAddr = p.addr, !.needAddr = FALSE]
<1>4. Quiet(x, y) /\ Data(y)
  BY <1>1, EmitQuiet, QuietData
<1>0. ShowQ(x, p, index) = Walked(z, [kind |-> "Q", addr |-> p.addr])
  BY <1>3
<1> HIDE DEF y
<1>5. Quiet(y, z) /\ Data(z)
  BY <1>4, PlaceQuiet, QuietData
<1> HIDE DEF z
<1>6. Quiet(z, Walked(z, [kind |-> "Q", addr |-> p.addr]))
  BY <1>5, WalkedQuiet
<1>7. Quiet(d, ShowQ(x, p, index))
  BY <1>0, <1>1, <1>4, <1>5, <1>6, QuietFollows
<1>8. QED  BY <1>7 DEF processQElement, x

LEMMA ArrivedQuiet ==
  ASSUME NEW d, NEW a \in Nat, NEW need \in BOOLEAN, NEW pop \in BOOLEAN, Data(d)
  PROVE  Quiet(d, [d EXCEPT !.iAddr = a, !.needAddr = need, !.popPending = pop])
BY DEF Data, OneAtMost, Quiet, Kept, DecoderFields

LEMMA ErrCleared ==
  ASSUME NEW d, NEW e, Cleared(d, e)
  PROVE  Cleared(d, [e EXCEPT !.err = TRUE])
BY DEF Data, OneAtMost, NothingLeft, Cleared, DecoderFields

\* A source address leaves stack and depths alone, or loses sync.
LEMMA SourceRuns ==
  ASSUME NEW d, NEW p, NEW index, Data(d)
  PROVE  Runs(d, ShowSource(d, p, index))
<1> DEFINE ins == Program[p.addr]
           a   == IF d.needAddr \/ d.iAddr > p.addr THEN p.addr ELSE d.iAddr
           r   == SourceRanges(index, a, p)
           cut == IF r.gap = {} THEN "Other" ELSE KindAt(Min(r.gap))
           seen == IF ~config.srcNAtoms THEN <<RangeElem(index, a, p.addr + 1, TRUE)>>
               ELSE r.out \o (IF cut = "None" THEN <<Elem("AddrNacc", index, Min(r.gap))>> ELSE <<>>)
           o   == d.out \o seen \o (IF ins.eret THEN <<Elem("ExceptionRet", index, 0)>> ELSE <<>>)
           e1  == [d EXCEPT !.out = o]
           e2  == IF ins.kind \in {"Br", "Ind"} /\ ins.link THEN push(e1, p.addr + 1) ELSE e1
           b   == IF ins.kind = "Br" THEN ins.target ELSE p.addr + 1
           need == ins.kind = "Ind"
           pop == e2.popPending \/ (ins.kind = "Ind" /\ config.retStack)
           e3  == [e2 EXCEPT !.iAddr = b, !.needAddr = need, !.popPending = pop]
           step == [kind |-> "Source", addr |-> p.addr]
           f   == [d EXCEPT !.out = d.out \o r.out]
           res == ShowSource(d, p, index)
<1>1. \/ res = Walked(Nacc(d, index, p.addr), step)
      \/ res = SequenceError(d, index)
      \/ res = [SequenceError(f, index) EXCEPT !.err = TRUE]
      \/ KindAt(p.addr) # "None" /\ res = Walked(e3, step)
  <2> DEFINE mid == config.srcNAtoms /\ HasMemory(p.addr) /\ KindAt(p.addr) # "Bad" /\ cut = "Bad"
             err == [SequenceError(f, index) EXCEPT !.err = TRUE]
  <2>1. res = CASE KindAt(p.addr) = "None" -> Walked(Nacc(d, index, p.addr), step)
                [] KindAt(p.addr) = "Bad" -> SequenceError(d, index)
                [] mid -> err
                [] OTHER -> Walked(e3, step)
    BY DEF ShowSource
  <2> HIDE DEF res, mid, err, e3, step
  <2>2. \/ res = Walked(Nacc(d, index, p.addr), step)
        \/ res = SequenceError(d, index)
        \/ res = err
        \/ KindAt(p.addr) # "None" /\ res = Walked(e3, step)
    BY <2>1
  <2>3. QED  BY <2>2 DEF err
<1>2. Quiet(d, Walked(Nacc(d, index, p.addr), step))
  BY NaccQuiet, WalkedQuiet, QuietData, QuietFollows
<1>3. Cleared(d, SequenceError(d, index))
  BY SequenceErrorClears
<1>4. Cleared(d, [SequenceError(f, index) EXCEPT !.err = TRUE])
  <2>1. Quiet(d, f) /\ Data(f)
    BY OutQuiet, QuietData
  <2> HIDE DEF f
  <2>2. Cleared(f, SequenceError(f, index))
    BY <2>1, SequenceErrorClears
  <2> DEFINE g == SequenceError(f, index)
  <2>3. Cleared(d, g)
    BY <2>1, <2>2 DEF Quiet, Kept, Cleared
  <2> HIDE DEF g
  <2>4. Cleared(d, [g EXCEPT !.err = TRUE])
    BY <2>3, ErrCleared
  <2>5. QED  BY <2>4 DEF g
<1>5. KindAt(p.addr) # "None" => Quiet(d, Walked(e3, step))
  <2> HAVE KindAt(p.addr) # "None"
  <2>1. p.addr \in Nat /\ ins.target \in Nat /\ p.addr + 1 \in Nat
    BY ProgramAt
  <2> HIDE DEF o
  <2>2. Quiet(d, e1) /\ Data(e1)
    BY OutQuiet, QuietData
  <2> HIDE DEF e1
  <2>3. Quiet(e1, e2) /\ Data(e2)
    BY <2>1, <2>2, PushQuiet, QuietSelf, QuietData
  <2> HIDE DEF e2
  <2>4. b \in Nat
    BY <2>1
  <2>5. need \in BOOLEAN /\ pop \in BOOLEAN
    BY Zenon
  <2> HIDE DEF b, need, pop
  <2>6. Quiet(e2, e3) /\ Data(e3)
    BY <2>3, <2>4, <2>5, ArrivedQuiet, QuietData
  <2> HIDE DEF e3
  <2>7. Quiet(e3, Walked(e3, step))
    BY <2>6, WalkedQuiet
  <2>8. QED  BY <2>2, <2>3, <2>6, <2>7, QuietFollows
<1> HIDE DEF e3, res, f, step
<1>6. Runs(d, res)
  BY <1>1, <1>2, <1>3, <1>4, <1>5 DEF Runs
<1>7. QED  BY <1>6 DEF res

LEMMA SourceAddressRuns ==
  ASSUME NEW d, NEW p, NEW index, Data(d)
  PROVE  Runs(d, processSourceAddress(d, p, index))
<1> DEFINE x == flushPendingElements(d)
<1>1. Quiet(d, x) /\ Data(x)
  BY FlushQuiet, QuietData
<1> HIDE DEF x
<1>2. Runs(x, ShowSource(x, p, index))
  BY <1>1, SourceRuns
<1>3. Runs(d, ShowSource(x, p, index))
  BY <1>1, <1>2, RunsFollow
<1>4. QED  BY <1>3 DEF processSourceAddress, x

----------------------------------------------------------------------------
(* The entries of the stack, worked off.                                   *)

EntryKinds == {"Atom", "Exception", "Address", "CycleCount", "Context", "TraceOn", "Q", "MemTrans"}

EntryOK(e) ==
  /\ e.kind \in EntryKinds
  /\ e.kind = "Atom" => DOMAIN e = {"kind", "index", "id", "atom"}
  /\ e.kind \in {"Address", "Q"} => e.pkt.addr \in Nat
  /\ e.kind = "Exception" => e.start \in Nat /\ e.need \in BOOLEAN

Entries(s) == \E E : s \in Seq(E) /\ \A e \in E : EntryOK(e)

LEMMA EntriesSeq == ASSUME NEW s, Entries(s) PROVE IsSeq(s)
BY DEF Entries, IsSeq

LEMMA EntriesAt == ASSUME NEW s, Entries(s), NEW k \in 1..Len(s) PROVE EntryOK(s[k])
<1>1. PICK E : s \in Seq(E) /\ \A e \in E : EntryOK(e)
  BY DEF Entries
<1>2. s[k] \in E
  BY <1>1, LenProperties
<1>3. QED  BY <1>1, <1>2

\* One entry of the stack, or one run of atoms.
LEMMA ProcessRunRuns ==
  ASSUME NEW d, NEW s, NEW k \in 1..Len(s), Entries(s), Data(d), d.lost = FALSE
  PROVE  Runs(d, ProcessRun(d, s, k))
<1> DEFINE e == s[k]
           end == Min({x \in k..Len(s) : (x = Len(s)) \/ s[x + 1].kind # "Atom"})
           atoms == SubSeq(s, k, end)
           f == flushPendingElements(d)
           w == Walked(f, e)
           g == updateAddress(d, e.pkt)
           res == ProcessRun(d, s, k)
<1>1. EntryOK(e)
  BY EntriesAt
<1>2. \/ res = d
      \/ e.kind = "Atom" /\ res = processatomEntries(d, atoms)
      \/ e.kind = "Exception" /\ res = ShowQueuedException(w, e)
      \/ e.kind = "Address" /\ res = updateContext(g, e.pkt, e.index)
      \/ e.kind = "Context" /\ res = updateContext(d, e.pkt, e.index)
      \/ e.kind = "Q" /\ res = processQElement(d, e.pkt, e.index)
      \/ e.kind \in {"CycleCount", "TraceOn", "MemTrans"} /\ res = Emit(f, e.elem)
  <2>1. e.kind \in EntryKinds
    BY <1>1 DEF EntryOK
  <2>2. QED  BY <2>1 DEF ProcessRun, EntryKinds
<1>3. IsSeq(atoms)
  <2>1. PICK S : s \in Seq(S)
    BY DEF Entries
  <2>2. Len(s) \in Nat /\ \A i \in 1..Len(s) : s[i] \in S
    BY <2>1, LenProperties
  <2> DEFINE J == {x \in k..Len(s) : (x = Len(s)) \/ s[x + 1].kind # "Atom"}
  <2>3. J \in SUBSET Nat /\ J # {} /\ J \subseteq k..Len(s)
    <3>1. Len(s) \in J
      BY <2>2
    <3>2. QED  BY <3>1, <2>2
  <2>4. end \in J
    <3> HIDE DEF J
    <3>1. Min(J) \in J
      BY <2>3, MinMember
    <3>2. QED  BY <3>1 DEF J
  <2>5. end \in k..Len(s)
    BY <2>3, <2>4
  <2> HIDE DEF end
  <2>6. k \in Int /\ end \in Int /\ (\A i \in k..end : s[i] \in S)
    BY <2>2, <2>5
  <2>7. SubSeq(s, k, end) \in Seq(S)
    BY ONLY <2>6, SubSeqProperties
  <2>8. QED  BY <2>7 DEF IsSeq
<1>4. Quiet(d, f) /\ Data(f)
  BY FlushQuiet, QuietData
<1>5. e.kind = "Atom" => Runs(d, processatomEntries(d, atoms))
  <2> HIDE DEF atoms
  <2>1. QED  BY <1>3, AtomEntriesRuns
<1>6. e.kind = "Exception" => Runs(d, ShowQueuedException(w, e))
  <2> HAVE e.kind = "Exception"
  <2>1. e.start \in Nat /\ e.need \in BOOLEAN
    BY <1>1 DEF EntryOK
  <2> HIDE DEF e, f
  <2>2. Quiet(f, w) /\ Data(w)
    BY <1>4, WalkedQuiet, QuietData
  <2> HIDE DEF w
  <2>3. Quiet(w, ShowQueuedException(w, e))
    BY <2>1, <2>2, QueuedExceptionQuiet
  <2>4. QED  BY <1>4, <2>2, <2>3, QuietFollows DEF Runs
<1>7. e.kind = "Address" => Runs(d, updateContext(g, e.pkt, e.index))
  <2> HAVE e.kind = "Address"
  <2> DEFINE p == e.pkt
  <2>1. p.addr \in Nat
    BY <1>1 DEF EntryOK
  <2>0. g = updateAddress(d, p)
    OBVIOUS
  <2> HIDE DEF p, g
  <2>2. Quiet(d, g) /\ Data(g)
    BY <2>0, <2>1, AddressQuiet, QuietData
  <2>3. Quiet(g, updateContext(g, p, e.index))
    BY <2>2, ContextQuiet
  <2>4. Runs(d, updateContext(g, p, e.index))
    BY <2>2, <2>3, QuietFollows DEF Runs
  <2>5. QED  BY <2>4 DEF p
<1>8. Runs(d, updateContext(d, e.pkt, e.index))
  BY ContextQuiet DEF Runs
<1>9. e.kind = "Q" => Runs(d, processQElement(d, e.pkt, e.index))
  <2> HAVE e.kind = "Q"
  <2> DEFINE p == e.pkt
  <2>1. p.addr \in Nat
    BY <1>1 DEF EntryOK
  <2> HIDE DEF p
  <2>2. Quiet(d, processQElement(d, p, e.index))
    BY <2>1, QQuiet
  <2>3. QED  BY <2>2 DEF Runs, p
<1>10. Runs(d, Emit(f, e.elem))
  <2> HIDE DEF f
  <2>1. Quiet(f, Emit(f, e.elem))
    BY <1>4, EmitQuiet
  <2>2. QED  BY <1>4, <2>1, QuietFollows DEF Runs
<1>11. Runs(d, d)
  BY QuietSelf DEF Runs
<1> HIDE DEF res, e, f, w, g, atoms
<1>12. Runs(d, res)
  BY <1>2, <1>5, <1>6, <1>7, <1>8, <1>9, <1>10, <1>11
<1>13. QED  BY <1>12 DEF res

\* A number below the modulus is its own residue.
LEMMA ModSmall == ASSUME NEW m \in Nat \ {0}, NEW x \in 0..(m - 1) PROVE x % m = x
OBVIOUS

LEMMA ModRange == ASSUME NEW m \in Nat \ {0}, NEW x \in Int PROVE x % m \in 0..(m - 1)
OBVIOUS

\* The decoder behind every one of the entries.
BehindEntries(b, s, h) ==
  h = [k \in 0..Len(s) |-> IF k = 0 THEN b ELSE AfterEntry(h[k - 1], s, k)]

\* The decoder behind every entry is defined.
LEMMA BehindEntriesDefined == ASSUME NEW b, NEW s, IsSeq(s) PROVE \E h : BehindEntries(b, s, h)
<1> DEFINE N == Len(s)
           Upto(n, h) == h = [k \in 0..n |-> IF k = 0 THEN b ELSE AfterEntry(h[k - 1], s, k)]
           T == {n \in 0..N : \E h : Upto(n, h)}
<1>1. N \in Nat
  BY AnySeqLen
<1>2. 0 \in T
  <2> DEFINE h == [k \in 0..0 |-> b]
  <2>1. Upto(0, h)
    OBVIOUS
  <2> HIDE DEF Upto, h
  <2>2. QED  BY <1>1, <2>1
<1>3. ASSUME NEW n \in 1..N, n - 1 \in T PROVE n \in T
  <2>1. PICK h : Upto(n - 1, h)
    BY <1>3
  <2> DEFINE v == AfterEntry(h[n - 1], s, n)
             g == [k \in 0..n |-> IF k = n THEN v ELSE h[k]]
  <2>2. ASSUME NEW k \in 0..n
        PROVE  g[k] = IF k = 0 THEN b ELSE AfterEntry(g[k - 1], s, k)
    <3>1. CASE k = 0
      <4>1. g[k] = h[0] /\ 0 \in 0..(n - 1)
        BY <1>1, <3>1
      <4>2. h[0] = b
        BY <2>1, <4>1
      <4>3. QED  BY <3>1, <4>1, <4>2
    <3>2. CASE k # 0
      <4>1. k - 1 \in 0..n /\ k - 1 # n
        BY <1>1, <3>2
      <4>2. g[k - 1] = h[k - 1]
        BY <4>1
      <4>3. CASE k = n
        BY <3>2, <4>2, <4>3
      <4>4. CASE k # n
        <5>1. k \in 0..(n - 1) /\ g[k] = h[k]
          BY <1>1, <4>4
        <5> HIDE DEF g
        <5>2. h[k] = AfterEntry(h[k - 1], s, k)
          BY <2>1, <3>2, <5>1
        <5>3. QED  BY <3>2, <4>2, <5>1, <5>2
      <4>5. QED  BY <4>3, <4>4
    <3>3. QED  BY <3>1, <3>2
  <2>3. Upto(n, g)
    <3>1. g = [k \in 0..n |-> g[k]]
      OBVIOUS
    <3> HIDE DEF g
    <3>2. QED  BY <2>2, <3>1
  <2> HIDE DEF Upto
  <2>4. QED  BY <2>3
<1>4. 0..N \subseteq T
  <2> HIDE DEF T, N
  <2>1. \A n \in 1..N : n - 1 \in T => n \in T
    BY <1>3
  <2>2. QED  BY <1>1, <1>2, <2>1, IntervalInduction
<1>5. N \in T
  BY <1>1, <1>4
<1>6. PICK h : Upto(N, h)
  BY <1>5
<1>7. BehindEntries(b, s, h)
  BY <1>6 DEF BehindEntries
<1>8. QED  BY <1>7

LEMMA AfterEntryRuns ==
  ASSUME NEW d, NEW e, NEW s, NEW k \in 1..Len(s), Entries(s), Runs(d, e), d.lost = FALSE
  PROVE  Runs(d, AfterEntry(e, s, k))
<1> DEFINE f == AfterEntry(e, s, k)
           g == ProcessRun(e, s, k)
<1>1. f = e \/ f = g
  BY DEF AfterEntry
<1>2. CASE Quiet(d, e)
  <2>1. e.lost = FALSE /\ Data(e)
    BY <1>2 DEF Quiet, Kept
  <2>2. Runs(e, g)
    BY <2>1, ProcessRunRuns
  <2> HIDE DEF f, g
  <2>3. Runs(d, g)
    BY <1>2, <2>2, RunsFollow
  <2>4. Runs(d, f)
    BY <1>1, <2>3
  <2>5. QED  BY <2>4 DEF f
<1>3. CASE Cleared(d, e)
  <2>1. e.lost
    BY <1>3 DEF Cleared
  <2>2. g = e
    BY <2>1 DEF ProcessRun
  <2> HIDE DEF f, g
  <2>3. f = e
    BY <1>1, <2>2
  <2>4. QED  BY <2>3 DEF f
<1>4. QED  BY <1>2, <1>3 DEF Runs

\* Committed entries leave stack and depths alone, or lose sync.
LEMMA PendingRuns ==
  ASSUME NEW d, NEW s, Entries(s), Data(d), d.lost = FALSE
  PROVE  Runs(d, processPendingP0Entries(d, s))
<1> DEFINE N == Len(s)
           g == CHOOSE h : BehindEntries(d, s, h)
           T == {k \in 0..N : Runs(d, g[k])}
<1>1. N \in Nat /\ IsSeq(s)
  BY EntriesSeq, AnySeqLen
<1>2. BehindEntries(d, s, g)
  BY <1>1, BehindEntriesDefined
<1>3. processPendingP0Entries(d, s) = g[N]
  BY DEF processPendingP0Entries, BehindEntries
<1> HIDE DEF g
<1>4. \A k \in 0..N : g[k] = IF k = 0 THEN d ELSE AfterEntry(g[k - 1], s, k)
  BY <1>2 DEF BehindEntries
<1>5. 0 \in T
  <2>1. Runs(d, d)
    BY QuietSelf DEF Runs
  <2>2. 0 \in 0..N /\ g[0] = d
    BY <1>1, <1>4
  <2>3. QED  BY <2>1, <2>2
<1>6. ASSUME NEW k \in 1..N, k - 1 \in T PROVE k \in T
  <2>1. k \in 0..N /\ k # 0 /\ Runs(d, g[k - 1])
    BY <1>6
  <2>2. g[k] = AfterEntry(g[k - 1], s, k)
    BY <1>4, <2>1
  <2>3. Runs(d, g[k])
    BY <2>1, <2>2, AfterEntryRuns
  <2>6. QED  BY <2>1, <2>3
<1>7. 0..N \subseteq T
  <2> HIDE DEF T, N
  <2>1. \A k \in 1..N : k - 1 \in T => k \in T
    BY <1>6
  <2>2. QED  BY <1>1, <1>5, <2>1, IntervalInduction
<1>8. Runs(d, g[N])
  BY <1>1, <1>7
<1>9. QED  BY <1>3, <1>8

----------------------------------------------------------------------------
(* Commits.                                                                *)

\* From d to e the first m entries of the stack are worked off, and skip elements
\* from before the trace are committed.
CommitsTo(d, e, skip, m) ==
  /\ Data(e) /\ e.respec = d.respec
  /\ e.resolved = d.resolved \o IDs(Prefix(d.p0, m))
  /\ \/ e.lost = TRUE /\ e.state = "WaitSync" /\ NothingLeft(e)
     \/ /\ e.lost = FALSE /\ e.state = d.state /\ e.exception = d.exception
        /\ e.p0 = Suffix(d.p0, m) /\ e.unseenSpec = d.unseenSpec - skip
        /\ e.specDepth =
             (((d.specDepth - skip) % DepthMod) - Depth(Prefix(d.p0, m))) % DepthMod

\* A commit of the first m entries does to stack and depths what CommitsTo says, also
\* if sync is lost under way.
LEMMA CommitUpToCommits ==
  ASSUME NEW d, NEW skip, NEW end \in 0..Len(d.p0), Data(d), Entries(d.p0), d.lost = FALSE
  PROVE  CommitsTo(d, CommitUpTo(LessDepth([d EXCEPT !.unseenSpec = @ - skip], skip), end), skip, end)
<1> DEFINE c == LessDepth([d EXCEPT !.unseenSpec = @ - skip], skip)
           old == Prefix(d.p0, end)
           ids == IDs(old)
           dep == Depth(old)
           a == [c EXCEPT !.resolved = @ \o ids]
           x == LessDepth(a, dep)
           y == processPendingP0Entries(x, old)
           z == DropEntries(y, end)
<1>0. DOMAIN c = DecoderFields
      /\ c.unseenSpec = d.unseenSpec - skip /\ c.specDepth = (d.specDepth - skip) % DepthMod
      /\ c.state = d.state /\ c.lost = d.lost /\ c.p0 = d.p0 /\ c.exception = d.exception
      /\ c.respec = d.respec /\ c.resolved = d.resolved /\ Data(c)
  BY DEF Data, OneAtMost, LessDepth, DecoderFields
<1>1. CommitUpTo(c, end) = z
  <2>1. SubSeq(c.p0, 1, end) = old
    BY <1>0 DEF Prefix
  <2> HIDE DEF old, c
  <2>2. QED  BY <2>1 DEF CommitUpTo, Depth
<1> HIDE DEF c
<1>2. Entries(old) /\ IsSeq(old) /\ IsSeq(d.p0)
  <2>1. PICK E : d.p0 \in Seq(E) /\ \A e \in E : EntryOK(e)
    BY DEF Entries
  <2>2. IsSeq(d.p0)
    BY <2>1 DEF IsSeq
  <2>3. old \in Seq(E)
    BY <2>1, <2>2, PrefixFacts
  <2> HIDE DEF old
  <2>4. QED  BY <2>1, <2>2, <2>3 DEF Entries, IsSeq
<1> HIDE DEF ids, dep
<1>3. /\ Data(x) /\ x.lost = FALSE /\ x.state = d.state /\ x.p0 = d.p0
      /\ x.specDepth = (c.specDepth - dep) % DepthMod /\ x.unseenSpec = c.unseenSpec
      /\ x.exception = d.exception /\ x.respec = d.respec /\ x.resolved = d.resolved \o ids
  BY <1>0 DEF Data, OneAtMost, LessDepth, DecoderFields
<1> HIDE DEF x, old
<1>4. Runs(x, y)
  BY <1>2, <1>3, PendingRuns
<1> HIDE DEF y
<1>5. CASE Cleared(x, y)
  <2>1. y.lost
    BY <1>5 DEF Cleared
  <2>2. z = y
    BY <2>1 DEF DropEntries
  <2>3. CommitsTo(d, z, skip, end)
    BY <1>3, <1>5, <2>2 DEF CommitsTo, Cleared, ids, old
  <2>4. QED  BY <2>3, <1>1 DEF c
<1>6. CASE Quiet(x, y)
  <2>1. ~y.lost /\ y.lost = FALSE
    BY <1>3, <1>6 DEF Quiet, Kept
  <2>2. z = [y EXCEPT !.p0 = SubSeq(@, end + 1, Len(@))]
    BY <2>1 DEF DropEntries
  <2>3. y.p0 = d.p0
    BY <1>3, <1>6 DEF Quiet, Kept
  <2>4. SubSeq(y.p0, end + 1, Len(y.p0)) = Suffix(d.p0, end)
    BY <2>3 DEF Suffix
  <2>5. z = [y EXCEPT !.p0 = Suffix(d.p0, end)]
    BY <2>2, <2>4
  <2>6. /\ Data(z) /\ z.p0 = Suffix(d.p0, end) /\ z.lost = y.lost /\ z.state = y.state
        /\ z.specDepth = y.specDepth /\ z.unseenSpec = y.unseenSpec
        /\ z.exception = y.exception /\ z.respec = y.respec /\ z.resolved = y.resolved
    <3> HIDE DEF z
    <3>1. Data(y)
      BY <1>6 DEF Quiet
    <3>2. QED  BY <2>5, <3>1 DEF Data, OneAtMost, DecoderFields
  <2> HIDE DEF z
  <2>7. CommitsTo(d, z, skip, end)
    BY <1>0, <1>3, <1>6, <2>1, <2>6 DEF CommitsTo, Quiet, Kept, ids, dep, old
  <2>8. QED  BY <2>7, <1>1 DEF c
<1>7. QED  BY <1>4, <1>5, <1>6 DEF Runs

LEMMA MinPair == ASSUME NEW a \in Int, NEW b \in Int PROVE Min({a, b}) = IF a <= b THEN a ELSE b
<1> DEFINE m == IF a <= b THEN a ELSE b
<1>1. m \in {a, b} /\ \A y \in {a, b} : m <= y
  OBVIOUS
<1>2. \A x \in {a, b} : (\A y \in {a, b} : x <= y) => x = m
  OBVIOUS
<1>3. QED  BY <1>1, <1>2 DEF Min

LEMMA MaxPair == ASSUME NEW a \in Int, NEW b \in Int PROVE Max({a, b}) = IF a <= b THEN b ELSE a
<1> DEFINE m == IF a <= b THEN b ELSE a
<1>1. m \in {a, b} /\ \A y \in {a, b} : m >= y
  OBVIOUS
<1>2. \A x \in {a, b} : (\A y \in {a, b} : x >= y) => x = m
  OBVIOUS
<1>3. QED  BY <1>1, <1>2 DEF Max

----------------------------------------------------------------------------
(* The decoder between two packets.                                        *)

Steady(d) ==
  /\ Data(d) /\ Entries(d.p0) /\ IsSeq(d.resolved)
  /\ d.specDepth \in 0..(DepthMod - 1) /\ d.unseenSpec \in Depths

Accounted(d) == d.specDepth = d.unseenSpec + Depth(d.p0)
Bounded(d)   == d.specDepth <= config.maxSpec \/ Depth(d.p0) = 0

\* Out of sync nothing is in doubt; at most one entry is queued.
OutOfSync(d) ==
  /\ d.state \in {"NoSync", "WaitSync", "WaitTInfo"} /\ Len(d.p0) <= 1
  /\ P0At(d.p0) = {} /\ d.specDepth = 0 /\ d.unseenSpec = 0
  /\ d.stack = <<>> /\ d.exception = <<>> /\ d.popPending = FALSE

\* From d to e the oldest k of the elements ids are committed, and the rest is in doubt.
Committed(d, e, ids, k) ==
  LET skip == IF config.opt1 THEN Min({k, d.unseenSpec}) ELSE 0
  IN  /\ e.unseenSpec = d.unseenSpec - skip
      /\ e.resolved = d.resolved \o Doubt!Oldest(ids, k - skip)
      /\ IDs(e.p0) = Doubt!Newer(ids, k - skip)

\* Sync was lost, with the oldest of ids committed.
Dropped(d, e, ids) ==
  \E k \in 0..Len(ids) : e.resolved = d.resolved \o Doubt!Oldest(ids, k)

\* The skipped part of a commit of num.
SkipOf(d, num) == IF config.opt1 THEN Min({num, d.unseenSpec}) ELSE 0

\* The skipped part is what the unseen elements can take of a commit, with CommitOpt1.
LEMMA SkipFacts ==
  ASSUME NEW d, Steady(d), NEW num \in Nat
  PROVE  /\ SkipOf(d, num) \in Nat /\ SkipOf(d, num) <= num /\ SkipOf(d, num) <= d.unseenSpec
         /\ config.opt1 => SkipOf(d, num) = IF num <= d.unseenSpec THEN num ELSE d.unseenSpec
         /\ ~config.opt1 => SkipOf(d, num) = 0
         /\ num - SkipOf(d, num) \in Nat /\ d.unseenSpec - SkipOf(d, num) \in Nat
         /\ d.unseenSpec - SkipOf(d, num) \in Depths
<1>1. d.unseenSpec \in Nat /\ d.unseenSpec + MaxAtoms < DepthMod /\ DepthMod \in Nat
  BY DepthAssumption DEF Steady, Depths
<1>2. Min({num, d.unseenSpec}) = IF num <= d.unseenSpec THEN num ELSE d.unseenSpec
  BY <1>1, MinPair
<1>3. SkipOf(d, num) \in Nat /\ SkipOf(d, num) <= num /\ SkipOf(d, num) <= d.unseenSpec
      /\ (config.opt1 => SkipOf(d, num) = IF num <= d.unseenSpec THEN num ELSE d.unseenSpec)
      /\ (~config.opt1 => SkipOf(d, num) = 0)
  BY <1>1, <1>2 DEF SkipOf
<1>4. num - SkipOf(d, num) \in Nat /\ d.unseenSpec - SkipOf(d, num) \in Nat
  BY <1>1, <1>3
<1>5. d.unseenSpec - SkipOf(d, num) + MaxAtoms < DepthMod
  BY <1>1, <1>3 DEF MaxAtoms
<1>6. QED  BY <1>3, <1>4, <1>5 DEF Depths

\* The IDs of the oldest entries are the oldest of the IDs.
LEMMA IDsCut ==
  ASSUME NEW s, IsSeq(s), NEW m \in 0..Len(s)
  PROVE  LET k == Depth(Prefix(s, m))
         IN  /\ k \in 0..Depth(s)
             /\ IDs(Prefix(s, m)) = SubSeq(IDs(s), 1, k)
             /\ IDs(Suffix(s, m)) = SubSeq(IDs(s), k + 1, Len(IDs(s)))
<1> DEFINE a == IDs(Prefix(s, m))
           b == IDs(Suffix(s, m))
           t == IDs(s)
           k == Depth(Prefix(s, m))
<1>1. IsSeq(Prefix(s, m)) /\ IsSeq(Suffix(s, m))
  BY PrefixFacts, SuffixFacts
<1>2. IsSeq(a) /\ IsSeq(b) /\ IsSeq(t) /\ Len(a) = k /\ Len(b) = Depth(Suffix(s, m)) /\ Len(t) = Depth(s)
  BY <1>1, IDsFacts
<1>3. t = a \o b /\ Depth(s) = k + Len(b) /\ k \in Nat /\ Len(b) \in Nat
  BY <1>2, DepthSplit
<1> HIDE DEF a, b, t, k
<1>4. k \in 0..Len(t)
  BY <1>2, <1>3
<1>5. Len(t) = k + Len(b) /\ (\A i \in 1..k : t[i] = a[i]) /\ \A i \in 1..Len(b) : t[k + i] = b[i]
  BY <1>2, <1>3, AnyConcat
<1>6. a = Prefix(t, k)
  <2> DEFINE p == Prefix(t, k)
  <2>1. IsSeq(p) /\ Len(p) = k /\ \A i \in 1..k : p[i] = t[i]
    BY <1>2, <1>4, PrefixFacts
  <2> HIDE DEF p
  <2>2. Len(a) = Len(p) /\ \A i \in 1..Len(a) : a[i] = p[i]
    BY <1>2, <1>5, <2>1
  <2>3. a = p
    BY <1>2, <2>1, <2>2, AnyEqual
  <2>4. QED  BY <2>3 DEF p
<1>7. b = Suffix(t, k)
  <2> DEFINE p == Suffix(t, k)
  <2>1. IsSeq(p) /\ Len(p) = Len(t) - k /\ \A i \in 1..(Len(t) - k) : p[i] = t[k + i]
    BY <1>2, <1>4, SuffixFacts
  <2> HIDE DEF p
  <2>2. Len(b) = Len(p) /\ Len(t) - k = Len(b)
    BY <1>3, <1>5, <2>1
  <2>3. \A i \in 1..Len(b) : b[i] = p[i]
    BY <1>5, <2>1, <2>2
  <2>4. b = p
    BY <1>2, <2>1, <2>2, <2>3, AnyEqual
  <2>5. QED  BY <2>4 DEF p
<1>8. k \in 0..Depth(s)
  BY <1>2, <1>4
<1>9. QED  BY <1>6, <1>7, <1>8 DEF Prefix, Suffix, a, b, t, k

\* A commit of num works off the oldest num - skip entries.
LEMMA PendingCommits ==
  ASSUME NEW d, NEW num \in Nat, Steady(d), d.lost = FALSE
  PROVE  \E m \in 0..Len(d.p0) :
           /\ CommitsTo(d, commitPendingAtoms(d, num), SkipOf(d, num), m)
           /\ Depth(Prefix(d.p0, m)) =
                IF num - SkipOf(d, num) <= Depth(d.p0) THEN num - SkipOf(d, num) ELSE Depth(d.p0)
<1> DEFINE skip == SkipOf(d, num)
           m == EndOf(d.p0, num - skip)
<1>1. num - skip \in Nat
  BY SkipFacts
<1>2. IsSeq(d.p0)
  BY EntriesSeq DEF Steady
<1>3. commitPendingAtoms(d, num) =
        CommitUpTo(LessDepth([d EXCEPT !.unseenSpec = @ - skip], skip), EndOf(d.p0, num - skip))
  BY DEF commitPendingAtoms, SkipOf
<1> HIDE DEF skip
<1>4. m \in 0..Len(d.p0)
      /\ Depth(Prefix(d.p0, m)) = IF num - skip <= Depth(d.p0) THEN num - skip ELSE Depth(d.p0)
  BY <1>1, <1>2, EndOfFacts
<1> HIDE DEF m
<1>5. CommitsTo(d, CommitUpTo(LessDepth([d EXCEPT !.unseenSpec = @ - skip], skip), m), skip, m)
  BY <1>4, CommitUpToCommits DEF Steady
<1>6. QED  BY <1>3, <1>4, <1>5 DEF skip, m

\* What is left of the entries.
LEMMA EntriesAfter ==
  ASSUME NEW s, Entries(s), NEW k \in 0..Len(s)
  PROVE  Entries(Suffix(s, k))
<1>1. PICK E : s \in Seq(E) /\ \A e \in E : EntryOK(e)
  BY DEF Entries
<1>2. IsSeq(s)
  BY EntriesSeq
<1>3. Suffix(s, k) \in Seq(E)
  BY <1>1, <1>2, SuffixFacts
<1>4. QED  BY <1>1, <1>3 DEF Entries

LEMMA EntriesOf ==
  ASSUME NEW s, NEW E, s \in Seq(E), \A e \in E : EntryOK(e)
  PROVE  Entries(s)
BY DEF Entries

LEMMA EntriesEmpty == Entries(<<>>)
<1> DEFINE E == {}
<1>1. <<>> \in Seq(E) /\ \A e \in E : EntryOK(e)
  OBVIOUS
<1> HIDE DEF E
<1>2. QED  BY <1>1, EntriesOf

\* Speculation has its own names for the extrema.
LEMMA DoubtMin == ASSUME NEW S PROVE Doubt!Min(S) = Min(S)
BY DEF Doubt!Min, Min

LEMMA DoubtMax == ASSUME NEW S PROVE Doubt!Max(S) = Max(S)
BY DEF Doubt!Max, Max

LEMMA ZeroDepth == ASSUME Depths # {} PROVE 0 \in Depths /\ 0 \in 0..(DepthMod - 1)
<1>1. PICK k \in Nat : k + MaxAtoms < DepthMod
  BY DEF Depths
<1>2. 0 + MaxAtoms < DepthMod /\ 0 < DepthMod
  BY <1>1, DepthAssumption DEF MaxAtoms
<1>3. QED  BY <1>2, DepthAssumption DEF Depths

\* With nothing left the decoder is out of sync.
LEMMA ClearedSteady ==
  ASSUME NEW d, Data(d), NothingLeft(d), d.state \in {"NoSync", "WaitSync"}, IsSeq(d.resolved),
         Depths # {}
  PROVE  Steady(d) /\ OutOfSync(d)
<1>1. d.p0 = <<>> /\ d.specDepth = 0 /\ d.unseenSpec = 0
      /\ d.stack = <<>> /\ d.exception = <<>> /\ d.popPending = FALSE
  BY DEF NothingLeft
<1>2. Entries(d.p0) /\ P0At(d.p0) = {} /\ Len(d.p0) <= 1
  BY <1>1, EntriesEmpty, P0Empty
<1>3. QED  BY <1>1, <1>2, ZeroDepth DEF Steady, OutOfSync

\* How many elements a commit of num takes from the stack.
TakenBy(d, num) ==
  IF num - SkipOf(d, num) <= Depth(d.p0) THEN num - SkipOf(d, num) ELSE Depth(d.p0)

\* A commit takes TakenBy elements off the stack and off the depth, or loses sync.
LEMMA PendingSteady ==
  ASSUME NEW d, NEW num \in Nat, Steady(d), d.lost = FALSE, d.state = "Pkts"
  PROVE  LET e == commitPendingAtoms(d, num)
         IN  /\ Steady(e) /\ e.respec = d.respec
             /\ \/ e.state = "WaitSync" /\ OutOfSync(e) /\ e.p0 = <<>> /\ Dropped(d, e, IDs(d.p0))
                \/ /\ e.state = "Pkts" /\ e.exception = d.exception
                   /\ Committed(d, e, IDs(d.p0), num)
                   /\ e.unseenSpec = d.unseenSpec - SkipOf(d, num)
                   /\ Depth(e.p0) = Depth(d.p0) - TakenBy(d, num)
                   /\ Accounted(d) => Accounted(e)
<1> DEFINE e == commitPendingAtoms(d, num)
           s == d.p0
           skip == SkipOf(d, num)
           c == num - skip
<1>1. IsSeq(s) /\ Depth(s) \in Nat /\ Data(d) /\ IsSeq(d.resolved) /\ Entries(s)
  BY EntriesSeq, P0Finite DEF Steady
<1>2. /\ skip \in Nat /\ skip <= d.unseenSpec /\ c \in Nat /\ d.unseenSpec - skip \in Depths
      /\ d.unseenSpec \in Nat
  BY SkipFacts DEF Steady, Depths
<1>3. PICK m \in 0..Len(s) :
        CommitsTo(d, e, skip, m) /\ Depth(Prefix(s, m)) = IF c <= Depth(s) THEN c ELSE Depth(s)
  BY PendingCommits
<1>a. TakenBy(d, num) = IF c <= Depth(s) THEN c ELSE Depth(s)
  BY DEF TakenBy
<1> DEFINE k == Depth(Prefix(s, m))
           ids == IDs(s)
<1> HIDE DEF e, skip, c
<1>4. /\ k \in 0..Depth(s) /\ IDs(Prefix(s, m)) = SubSeq(ids, 1, k)
      /\ IDs(Suffix(s, m)) = SubSeq(ids, k + 1, Len(ids))
  BY <1>1, IDsCut
<1>5. Len(ids) = Depth(s) /\ IsSeq(ids)
  BY <1>1, IDsFacts
<1>6. Depth(s) = k + Depth(Suffix(s, m)) /\ Depth(Suffix(s, m)) \in Nat
  BY <1>1, DepthSplit
<1>7. IsSeq(IDs(Prefix(s, m)))
  BY <1>1, PrefixFacts, IDsFacts
<1> DEFINE old == IDs(Prefix(s, m))
           new == IDs(Suffix(s, m))
<1>8. /\ Data(e) /\ e.respec = d.respec /\ e.resolved = d.resolved \o old
  BY <1>3 DEF CommitsTo
<1>9. IsSeq(e.resolved)
  BY <1>1, <1>7, <1>8, AnyConcat
<1>b. k = IF c <= Depth(s) THEN c ELSE Depth(s)
  BY <1>3
<1> HIDE DEF k, ids, old, new
<1>10. Doubt!Oldest(ids, c) = SubSeq(ids, 1, k) /\ Doubt!Newer(ids, c) = SubSeq(ids, k + 1, Len(ids))
  <2>1. Min({c, Len(ids)}) = k
    BY <1>1, <1>2, <1>5, <1>b, MinPair
  <2>2. QED  BY <2>1, DoubtMin DEF Doubt!Oldest, Doubt!Newer
<1>11. CASE e.lost = TRUE /\ e.state = "WaitSync" /\ NothingLeft(e)
  <2>1. Depths # {}
    BY <1>2
  <2>2. Steady(e) /\ OutOfSync(e) /\ e.p0 = <<>>
    BY <1>8, <1>9, <1>11, <2>1, ClearedSteady DEF NothingLeft
  <2>3. Min({k, Len(ids)}) = k
    BY <1>1, <1>4, <1>5, MinPair DEF k
  <2>4. Doubt!Oldest(ids, k) = SubSeq(ids, 1, k)
    BY <2>3, DoubtMin DEF Doubt!Oldest
  <2>5. k \in 0..Len(ids) /\ e.resolved = d.resolved \o Doubt!Oldest(ids, k)
    BY <1>4, <1>5, <1>8, <2>4 DEF k, ids, old
  <2>6. Dropped(d, e, ids)
    BY <2>5 DEF Dropped
  <2>7. QED  BY <1>8, <1>11, <2>2, <2>6 DEF e, ids
<1>12. CASE /\ e.lost = FALSE /\ e.state = d.state /\ e.exception = d.exception
            /\ e.p0 = Suffix(s, m) /\ e.unseenSpec = d.unseenSpec - skip
            /\ e.specDepth = (((d.specDepth - skip) % DepthMod) - k) % DepthMod
  <2>1. DepthMod \in Nat \ {0} /\ d.specDepth \in 0..(DepthMod - 1) /\ k \in Nat
    BY <1>1, <1>4, DepthAssumption DEF Steady, k
  <2>2. e.specDepth \in 0..(DepthMod - 1)
    <3>1. d.specDepth - skip \in Int
      BY <1>2, <2>1
    <3>2. (d.specDepth - skip) % DepthMod \in 0..(DepthMod - 1)
      BY <2>1, <3>1, ModRange
    <3>3. ((d.specDepth - skip) % DepthMod) - k \in Int
      BY <2>1, <3>2
    <3>4. QED  BY <1>12, <2>1, <3>3, ModRange
  <2>3. Entries(e.p0)
    BY <1>1, <1>12, EntriesAfter
  <2>4. Steady(e)
    BY <1>2, <1>8, <1>9, <1>12, <2>2, <2>3 DEF Steady
  <2>5. Depth(e.p0) = Depth(s) - TakenBy(d, num)
    <3>1. k = TakenBy(d, num)
      BY <1>a, <1>b
    <3>2. Depth(e.p0) = Depth(Suffix(s, m)) /\ k \in Nat /\ Depth(Suffix(s, m)) \in Nat
      BY <1>6, <1>12, <2>1
    <3>3. QED  BY <1>1, <1>6, <3>1, <3>2 DEF k
  <2>6. Accounted(d) => Accounted(e)
    <3> HAVE Accounted(d)
    <3>1. d.specDepth = d.unseenSpec + Depth(s)
      BY DEF Accounted
    <3>2. d.specDepth - skip \in 0..(DepthMod - 1)
      BY <1>1, <1>2, <2>1, <3>1
    <3>3. (d.specDepth - skip) % DepthMod = d.specDepth - skip
      BY <2>1, <3>2, ModSmall
    <3>4. k <= Depth(s)
      BY <1>1, <1>4 DEF k
    <3>5. (d.specDepth - skip) - k \in 0..(DepthMod - 1)
      BY <1>1, <1>2, <2>1, <3>1, <3>2, <3>4
    <3>6. ((d.specDepth - skip) - k) % DepthMod = (d.specDepth - skip) - k
      BY <2>1, <3>5, ModSmall
    <3>7. e.specDepth = (d.specDepth - skip) - k
      BY <1>12, <3>3, <3>6
    <3>8. Depth(e.p0) = Depth(s) - k
      BY <1>a, <1>b, <2>5
    <3>9. e.unseenSpec = d.unseenSpec - skip /\ d.specDepth \in Int
      BY <1>12, <2>1
    <3>10. (d.specDepth - skip) - k = (d.unseenSpec - skip) + (Depth(s) - k)
      BY <1>1, <1>2, <2>1, <3>1
    <3>11. QED  BY <3>7, <3>8, <3>9, <3>10 DEF Accounted
  <2>7. Committed(d, e, ids, num)
    <3>1. skip = IF config.opt1 THEN Min({num, d.unseenSpec}) ELSE 0
      BY DEF skip, SkipOf
    <3>2. e.resolved = d.resolved \o Doubt!Oldest(ids, num - skip)
      BY <1>4, <1>8, <1>10 DEF c, k, ids, old
    <3>3. IDs(e.p0) = Doubt!Newer(ids, num - skip)
      BY <1>4, <1>10, <1>12 DEF c, k, ids
    <3>4. e.unseenSpec = d.unseenSpec - skip
      BY <1>12
    <3> HIDE DEF skip
    <3>5. QED  BY <3>1, <3>2, <3>3, <3>4 DEF Committed
  <2>8. QED  BY <1>8, <1>12, <2>4, <2>5, <2>6, <2>7 DEF e, skip, ids
<1>13. QED  BY <1>3, <1>11, <1>12 DEF CommitsTo, k

\* What a packet does to the elements in doubt: the oldest k of ids are committed;
\* or sync is lost on the way.
Outcome(d, e, ids, k) ==
  /\ Steady(e) /\ e.respec = d.respec
  /\ \/ /\ e.state = "Pkts"
        /\ d.respec = FALSE => Accounted(e) /\ Bounded(e) /\ Committed(d, e, ids, k)
     \/ OutOfSync(e) /\ Dropped(d, e, ids)

\* How many of ids are over the limit.
Over(d, ids) == Max({0, d.unseenSpec + Len(ids) - config.maxSpec})

\* In sync, at the start of a packet.
Ready(d) ==
  /\ Steady(d) /\ d.state = "Pkts" /\ d.lost = FALSE
  /\ d.respec = FALSE => Accounted(d) /\ Bounded(d)

\* A packet that resolves nothing commits zero elements.
LEMMA CommittedNone ==
  ASSUME NEW d, NEW e, NEW ids, IsSeq(ids), IsSeq(d.resolved), d.unseenSpec \in Nat,
         e.unseenSpec = d.unseenSpec, e.resolved = d.resolved, IDs(e.p0) = ids
  PROVE  Committed(d, e, ids, 0)
<1>1. Len(ids) \in Nat
  BY AnySeqLen
<1>2. Min({0, d.unseenSpec}) = 0 /\ Min({0, Len(ids)}) = 0
  BY <1>1, MinPair
<1>3. SubSeq(ids, 1, 0) = <<>> /\ SubSeq(ids, 1, Len(ids)) = ids
  BY PrefixEnds DEF Prefix
<1>4. Doubt!Oldest(ids, 0) = <<>> /\ Doubt!Newer(ids, 0) = ids
  <2>1. Doubt!Min({0, Len(ids)}) = 0 /\ 0 + 1 = 1
    BY <1>2, DoubtMin
  <2>2. Doubt!Oldest(ids, 0) = SubSeq(ids, 1, 0)
    BY <2>1 DEF Doubt!Oldest
  <2>3. Doubt!Newer(ids, 0) = SubSeq(ids, 1, Len(ids))
    BY <2>1 DEF Doubt!Newer
  <2>4. QED  BY <1>3, <2>2, <2>3
<1>5. d.resolved \o <<>> = d.resolved
  BY AnyNoMore
<1>6. (IF config.opt1 THEN Min({0, d.unseenSpec}) ELSE 0) = 0
  BY <1>2
<1>7. d.unseenSpec - 0 = d.unseenSpec /\ 0 - 0 = 0
  OBVIOUS
<1>8. QED  BY <1>4, <1>5, <1>6, <1>7 DEF Committed

\* A loss of sync that commits nothing drops all.
LEMMA DroppedNone ==
  ASSUME NEW d, NEW e, NEW ids, IsSeq(ids), IsSeq(d.resolved), e.resolved = d.resolved
  PROVE  Dropped(d, e, ids)
<1>1. Len(ids) \in Nat
  BY AnySeqLen
<1>2. Min({0, Len(ids)}) = 0
  BY <1>1, MinPair
<1>3. SubSeq(ids, 1, 0) = <<>>
  BY PrefixEnds DEF Prefix
<1>4. Doubt!Oldest(ids, 0) = <<>>
  BY <1>2, <1>3, DoubtMin DEF Doubt!Oldest
<1>5. d.resolved \o <<>> = d.resolved
  BY AnyNoMore
<1>6. e.resolved = d.resolved \o Doubt!Oldest(ids, 0)
  BY <1>4, <1>5, Zenon
<1>7. 0 \in 0..Len(ids)
  BY <1>1
<1>8. QED  BY <1>6, <1>7 DEF Dropped

\* The depths are numbers, and the stack is a sequence.
LEMMA SteadyNumbers ==
  ASSUME NEW d, Steady(d)
  PROVE  /\ d.unseenSpec \in Nat /\ d.specDepth \in Nat /\ Depth(d.p0) \in Nat
         /\ Len(IDs(d.p0)) = Depth(d.p0) /\ IsSeq(IDs(d.p0)) /\ IsSeq(d.p0)
         /\ d.unseenSpec + MaxAtoms < DepthMod /\ DepthMod \in Nat
         /\ 0 \in Depths /\ IsSeq(d.resolved)
<1>1. IsSeq(d.p0)
  BY EntriesSeq DEF Steady
<1>2. d.unseenSpec \in Nat /\ d.specDepth \in Nat /\ DepthMod \in Nat
      /\ d.unseenSpec + MaxAtoms < DepthMod
  BY DepthAssumption DEF Steady, Depths
<1>3. 0 \in Depths
  BY ZeroDepth DEF Steady
<1>4. QED  BY <1>1, <1>2, <1>3, P0Finite, IDsFacts DEF Steady

\* More than the processor can have outstanding: the oldest go.
LEMMA OverSpecOutcome ==
  ASSUME NEW d, Steady(d), d.lost = FALSE, d.state = "Pkts", config.maxSpec \in Nat,
         d.respec = FALSE => Accounted(d)
  PROVE  LET e == commitOverSpecDepth(d)
         IN  /\ Outcome(d, e, IDs(d.p0), Over(d, IDs(d.p0)))
             /\ e.state = "Pkts" \/ e.p0 = <<>>
<1> DEFINE e == commitOverSpecDepth(d)
           ids == IDs(d.p0)
           num == d.specDepth - config.maxSpec
           f == commitPendingAtoms(d, num)
<1>1. /\ d.unseenSpec \in Nat /\ d.specDepth \in Nat /\ Depth(d.p0) \in Nat
      /\ Len(ids) = Depth(d.p0) /\ IsSeq(ids) /\ IsSeq(d.resolved)
  BY SteadyNumbers
<1>2. (d.specDepth <= config.maxSpec /\ e = d) \/ (~(d.specDepth <= config.maxSpec) /\ e = f)
  BY DEF commitOverSpecDepth
<1>3. d.respec = FALSE => Over(d, ids) = IF d.specDepth <= config.maxSpec THEN 0 ELSE num
  <2> HAVE d.respec = FALSE
  <2>1. d.specDepth = d.unseenSpec + Depth(d.p0)
    BY DEF Accounted
  <2>2. d.unseenSpec + Len(ids) - config.maxSpec = num /\ num \in Int
    BY <1>1, <2>1
  <2>3. Max({0, num}) = IF d.specDepth <= config.maxSpec THEN 0 ELSE num
    BY <1>1, <2>2, MaxPair
  <2> HIDE DEF num, ids
  <2>4. QED  BY <2>2, <2>3 DEF Over
<1> HIDE DEF e, f, ids
<1>4. CASE d.specDepth <= config.maxSpec /\ e = d
  <2>1. Committed(d, d, ids, 0)
    BY <1>1, CommittedNone DEF ids
  <2>2. d.respec = FALSE => Accounted(e) /\ Bounded(e) /\ Committed(d, e, ids, Over(d, ids))
    BY <1>3, <1>4, <2>1 DEF Bounded
  <2>3. QED  BY <1>4, <2>2 DEF Outcome, e, ids
<1>5. CASE ~(d.specDepth <= config.maxSpec) /\ e = f
  <2>1. num \in Nat
    BY <1>1, <1>5
  <2> HIDE DEF num
  <2>2. /\ Steady(f) /\ f.respec = d.respec
        /\ \/ f.state = "WaitSync" /\ OutOfSync(f) /\ f.p0 = <<>> /\ Dropped(d, f, ids)
           \/ /\ f.state = "Pkts" /\ f.exception = d.exception
              /\ Committed(d, f, ids, num)
              /\ f.unseenSpec = d.unseenSpec - SkipOf(d, num)
              /\ Depth(f.p0) = Depth(d.p0) - TakenBy(d, num)
              /\ Accounted(d) => Accounted(f)
    BY <2>1, PendingSteady DEF f, ids
  <2>3. CASE f.state = "WaitSync" /\ OutOfSync(f) /\ f.p0 = <<>> /\ Dropped(d, f, ids)
    BY <1>5, <2>2, <2>3 DEF Outcome, e, ids
  <2>4. CASE /\ f.state = "Pkts" /\ Committed(d, f, ids, num)
             /\ f.unseenSpec = d.unseenSpec - SkipOf(d, num)
             /\ Depth(f.p0) = Depth(d.p0) - TakenBy(d, num)
             /\ Accounted(d) => Accounted(f)
    <3>1. ASSUME d.respec = FALSE PROVE Accounted(f) /\ Bounded(f) /\ Committed(d, f, ids, Over(d, ids))
      <4>1. Accounted(d) /\ Accounted(f) /\ Over(d, ids) = num
        BY <1>3, <1>5, <2>4, <3>1
      <4>2. SkipOf(d, num) \in Nat /\ num - SkipOf(d, num) \in Nat
        BY <2>1, SkipFacts
      <4>3. d.specDepth = d.unseenSpec + Depth(d.p0) /\ f.specDepth = f.unseenSpec + Depth(f.p0)
        BY <4>1 DEF Accounted
      <4>4. CASE num - SkipOf(d, num) <= Depth(d.p0)
        <5>1. TakenBy(d, num) = num - SkipOf(d, num)
          BY <4>4 DEF TakenBy
        <5>2. f.specDepth = (d.unseenSpec - SkipOf(d, num)) + (Depth(d.p0) - (num - SkipOf(d, num)))
          BY <2>4, <4>3, <5>1
        <5>3. f.specDepth = d.specDepth - num
          BY <1>1, <2>1, <4>2, <4>3, <5>2
        <5>4. f.specDepth = config.maxSpec
          BY <1>1, <5>3 DEF num
        <5>5. QED  BY <2>4, <4>1, <5>4 DEF Bounded
      <4>5. CASE ~(num - SkipOf(d, num) <= Depth(d.p0))
        <5>1. Depth(f.p0) = 0
          BY <1>1, <2>4, <4>5 DEF TakenBy
        <5>2. QED  BY <2>4, <4>1, <5>1 DEF Bounded
      <4>6. QED  BY <4>4, <4>5
    <3>2. QED  BY <1>5, <2>2, <2>4, <3>1 DEF Outcome, e, ids
  <2>5. QED  BY <2>2, <2>3, <2>4
<1>6. QED  BY <1>2, <1>4, <1>5

\* Where a packet with its entries on the stack leads.
LEMMA EnteredOutcome ==
  ASSUME NEW d, NEW x, NEW ids, Steady(x), x.state = "Pkts", x.lost = FALSE,
         config.maxSpec \in Nat,
         x.unseenSpec = d.unseenSpec, x.resolved = d.resolved, x.respec = d.respec,
         IDs(x.p0) = ids, d.respec = FALSE => Accounted(x)
  PROVE  LET e == commitOverSpecDepth(x)
         IN  /\ Outcome(d, e, ids, Over(d, ids))
             /\ e.state = "Pkts" \/ e.p0 = <<>>
<1> DEFINE e == commitOverSpecDepth(x)
<1>1. /\ Outcome(x, e, ids, Over(x, ids))
      /\ e.state = "Pkts" \/ e.p0 = <<>>
  BY OverSpecOutcome
<1> HIDE DEF e
<1>2. Over(x, ids) = Over(d, ids)
  BY DEF Over
<1>3. Outcome(d, e, ids, Over(d, ids))
  BY <1>1, <1>2 DEF Outcome, Committed, Dropped
<1>4. QED  BY <1>1, <1>3 DEF e

\* There is room for the elements of one more packet.
LEMMA DepthRoom ==
  ASSUME NEW d, Ready(d), d.respec = FALSE, config.maxSpec \in Depths
  PROVE  d.specDepth + MaxAtoms < DepthMod
<1>1. d.unseenSpec + MaxAtoms < DepthMod /\ config.maxSpec + MaxAtoms < DepthMod
      /\ config.maxSpec \in Nat /\ d.specDepth \in Nat /\ DepthMod \in Nat /\ d.unseenSpec \in Nat
  BY SteadyNumbers DEF Ready, Depths
<1>2. d.specDepth = d.unseenSpec + Depth(d.p0) /\ (d.specDepth <= config.maxSpec \/ Depth(d.p0) = 0)
  BY DEF Ready, Accounted, Bounded
<1>3. CASE d.specDepth <= config.maxSpec
  BY <1>1, <1>3 DEF MaxAtoms
<1>4. CASE Depth(d.p0) = 0
  BY <1>1, <1>2, <1>4 DEF MaxAtoms
<1>5. QED  BY <1>2, <1>3, <1>4

LEMMA EntriesBy ==
  ASSUME NEW s, IsSeq(s), \A k \in 1..Len(s) : EntryOK(s[k])
  PROVE  Entries(s)
<1> DEFINE E == {s[k] : k \in 1..Len(s)}
<1>1. PICK S : s \in Seq(S)
  BY DEF IsSeq
<1>2. Len(s) \in Nat /\ DOMAIN s = 1..Len(s) /\ s \in [1..Len(s) -> S]
  BY <1>1, LenProperties
<1>3. s \in [1..Len(s) -> E]
  BY <1>2
<1>4. s \in Seq(E)
  BY <1>2, <1>3, SeqDef
<1>5. \A e \in E : EntryOK(e)
  OBVIOUS
<1>6. QED  BY <1>4, <1>5 DEF Entries

LEMMA EntriesPick ==
  ASSUME NEW s, Entries(s), NEW ks
  PROVE  Entries(Pick(s, ks))
<1>1. PICK E : s \in Seq(E) /\ \A e \in E : EntryOK(e)
  BY DEF Entries
<1>2. Pick(s, ks) \in Seq(E)
  BY <1>1, PickIn
<1>3. QED  BY <1>1, <1>2, EntriesOf

LEMMA EntriesConcat ==
  ASSUME NEW s, NEW t, Entries(s), Entries(t)
  PROVE  Entries(s \o t)
<1>1. PICK S : s \in Seq(S) /\ \A e \in S : EntryOK(e)
  BY DEF Entries
<1>2. PICK T : t \in Seq(T) /\ \A e \in T : EntryOK(e)
  BY DEF Entries
<1> DEFINE E == S \cup T
<1>3. S \subseteq E /\ T \subseteq E /\ \A e \in E : EntryOK(e)
  BY <1>1, <1>2
<1> HIDE DEF E
<1>4. s \in Seq(E) /\ t \in Seq(E)
  BY <1>1, <1>2, <1>3, SeqMonotonic
<1>5. s \o t \in Seq(E)
  BY <1>4, ConcatProperties
<1>6. QED  BY <1>3, <1>5, EntriesOf

\* The session, and what is resolved, are left alone.
Aside(d, x) ==
  /\ x.state = d.state /\ x.lost = d.lost /\ x.unseenSpec = d.unseenSpec
  /\ x.resolved = d.resolved /\ x.respec = d.respec /\ x.exception = d.exception

\* An update of the stack or the depths alone.
LEMMA StackAside ==
  ASSUME NEW d, NEW s, Steady(d), Entries(s)
  PROVE  LET x == [d EXCEPT !.p0 = s]
         IN  Steady(x) /\ Aside(d, x) /\ x.specDepth = d.specDepth /\ x.p0 = s
BY DEF Steady, Data, OneAtMost, Aside, DecoderFields

\* An entry that is no P0 element enters the stack: the depth stays.
LEMMA QueueFacts ==
  ASSUME NEW d, NEW e, Steady(d), EntryOK(e)
  PROVE  LET x == Queue(d, e)
         IN  /\ Steady(x) /\ Aside(d, x) /\ x.specDepth = d.specDepth
             /\ Depth(x.p0) = IF isP0(e) THEN Depth(d.p0) + 1 ELSE Depth(d.p0)
             /\ IDs(x.p0) = IF isP0(e) THEN Append(IDs(d.p0), e.id) ELSE IDs(d.p0)
<1> DEFINE s == Append(d.p0, e)
           x == [d EXCEPT !.p0 = s]
<1>1. Queue(d, e) = x
  BY DEF Queue
<1>2. Entries(d.p0) /\ IsSeq(d.p0)
  BY EntriesSeq DEF Steady
<1>3. Entries(s)
  <2>1. PICK S : d.p0 \in Seq(S) /\ \A f \in S : EntryOK(f)
    BY <1>2 DEF Entries
  <2> DEFINE E == S \cup {e}
  <2>2. S \subseteq E /\ e \in E /\ \A f \in E : EntryOK(f)
    BY <2>1
  <2> HIDE DEF E
  <2>3. d.p0 \in Seq(E)
    BY <2>1, <2>2, SeqMonotonic
  <2>4. s \in Seq(E)
    BY <2>2, <2>3, AppendProperties
  <2> HIDE DEF s
  <2>5. QED  BY <2>2, <2>4, EntriesOf
<1>4. Depth(s) = (IF isP0(e) THEN Depth(d.p0) + 1 ELSE Depth(d.p0))
      /\ IDs(s) = IF isP0(e) THEN Append(IDs(d.p0), e.id) ELSE IDs(d.p0)
  BY <1>2, P0Append, IDsAppend
<1> HIDE DEF s
<1>5. Steady(x) /\ Aside(d, x) /\ x.specDepth = d.specDepth /\ x.p0 = s
  BY <1>3, StackAside
<1> HIDE DEF x
<1>6. QED  BY <1>1, <1>4, <1>5

\* The depth grows without wrapping around while there is room.
LEMMA AddDepthFacts ==
  ASSUME NEW d, NEW k \in Nat, Steady(d)
  PROVE  LET x == AddDepth(d, k)
         IN  /\ Steady(x) /\ Aside(d, x) /\ x.p0 = d.p0
             /\ d.specDepth + k < DepthMod => x.specDepth = d.specDepth + k
<1> DEFINE v == (d.specDepth + k) % DepthMod
           x == [d EXCEPT !.specDepth = v]
<1>1. AddDepth(d, k) = x
  BY DEF AddDepth
<1>2. d.specDepth \in Nat /\ DepthMod \in Nat \ {0} /\ d.specDepth + k \in Int
  BY SteadyNumbers, DepthAssumption
<1>3. v \in 0..(DepthMod - 1)
  BY <1>2, ModRange
<1>4. d.specDepth + k < DepthMod => v = d.specDepth + k
  <2> HAVE d.specDepth + k < DepthMod
  <2>1. d.specDepth + k \in 0..(DepthMod - 1)
    BY <1>2
  <2>2. QED  BY <1>2, <2>1, ModSmall
<1> HIDE DEF v
<1>5. Steady(x) /\ Aside(d, x) /\ x.p0 = d.p0 /\ x.specDepth = v
  BY <1>3 DEF Steady, Data, OneAtMost, Aside, DecoderFields
<1> HIDE DEF x
<1>6. QED  BY <1>1, <1>4, <1>5

\* A stack of P0 elements alone.
LEMMA AllIDs ==
  ASSUME NEW s, IsSeq(s), \A k \in 1..Len(s) : isP0(s[k])
  PROVE  Depth(s) = Len(s) /\ IDs(s) = [k \in 1..Len(s) |-> s[k].id]
<1> DEFINE N == Len(s)
           t == [k \in 1..N |-> s[k].id]
           T == {k \in 0..N : IDs(Prefix(s, k)) = Prefix(t, k)}
<1>1. N \in Nat /\ DOMAIN s = 1..N
  BY AnyDomain
<1>2. IsSeq(t) /\ Len(t) = N /\ \A k \in 1..N : t[k] = s[k].id
  <2> DEFINE I == {s[k].id : k \in 1..N}
  <2>1. t \in [1..N -> I]
    OBVIOUS
  <2>2. t \in Seq(I) /\ Len(t) = N
    <3> HIDE DEF t, I
    <3>1. QED  BY <1>1, <2>1, SeqDef, LenProperties
  <2>3. QED  BY <2>2 DEF IsSeq
<1>3. Depth(s) = N
  <2>1. P0At(s) = 1..N
    BY <1>1 DEF P0At
  <2> HIDE DEF N
  <2>2. Cardinality(1..N) = N
    BY <1>1, FS_Interval
  <2>3. QED  BY <2>1, <2>2 DEF Depth
<1> HIDE DEF t
<1>4. 0 \in T
  <2>1. Prefix(s, 0) = <<>> /\ Prefix(t, 0) = <<>>
    BY <1>2, PrefixEnds
  <2>2. QED  BY <1>1, <2>1, P0Empty
<1>5. ASSUME NEW k \in 1..N, k - 1 \in T PROVE k \in T
  <2>1. k \in 0..N /\ k - 1 \in 0..N /\ k \in 1..Len(t)
    BY <1>1, <1>2
  <2>2. Prefix(s, k) = Append(Prefix(s, k - 1), s[k]) /\ IsSeq(Prefix(s, k - 1))
    BY <2>1, PrefixStep, PrefixFacts
  <2>3. Prefix(t, k) = Append(Prefix(t, k - 1), t[k])
    BY <1>2, <2>1, PrefixStep
  <2>4. IDs(Prefix(s, k)) = Append(IDs(Prefix(s, k - 1)), s[k].id)
    BY <2>2, IDsAppend
  <2>5. IDs(Prefix(s, k - 1)) = Prefix(t, k - 1)
    BY <1>5
  <2>6. IDs(Prefix(s, k)) = Prefix(t, k)
    BY <1>2, <2>3, <2>4, <2>5
  <2>7. QED  BY <2>1, <2>6
<1>6. 0..N \subseteq T
  <2> HIDE DEF T, N
  <2>1. \A k \in 1..N : k - 1 \in T => k \in T
    BY <1>5
  <2>2. QED  BY <1>1, <1>4, <2>1, IntervalInduction
<1>7. N \in T
  BY <1>1, <1>6
<1>8. Prefix(s, N) = s /\ Prefix(t, N) = t
  BY <1>2, PrefixEnds
<1>9. IDs(s) = t
  BY <1>7, <1>8
<1>10. QED  BY <1>3, <1>9 DEF t

\* The IDs of the atoms that packet index brings.
AtomIDs(atoms, index) == [k \in DOMAIN atoms |-> <<index, k>>]

\* Atoms enter the stack, one P0 element each.
LEMMA QueueAtomsFacts ==
  ASSUME NEW d, NEW atoms \in AtomRuns, NEW index, Steady(d)
  PROVE  LET x == queueAtoms(d, atoms, index)
         IN  /\ Steady(x) /\ Aside(d, x)
             /\ IDs(x.p0) = IDs(d.p0) \o AtomIDs(atoms, index)
             /\ Depth(x.p0) = Depth(d.p0) + Len(atoms) /\ Len(atoms) \in 0..MaxAtoms
             /\ d.specDepth + MaxAtoms < DepthMod => x.specDepth = d.specDepth + Len(atoms)
<1> DEFINE n == Len(atoms)
           new == [k \in DOMAIN atoms |->
                     [kind |-> "Atom", index |-> index, id |-> <<index, k>>, atom |-> atoms[k]]]
           s == d.p0 \o new
           y == [d EXCEPT !.p0 = s]
           x == AddDepth(y, n)
<1>1. queueAtoms(d, atoms, index) = x
  BY DEF queueAtoms
<1>2. n \in Nat /\ n <= MaxAtoms /\ DOMAIN atoms = 1..n
  BY LenProperties DEF AtomRuns
<1> HIDE DEF n
<1>3. /\ IsSeq(new) /\ Len(new) = n
      /\ \A k \in 1..n : new[k] = [kind |-> "Atom", index |-> index, id |-> <<index, k>>,
                                   atom |-> atoms[k]]
  <2> DEFINE I == {new[k] : k \in 1..n}
  <2>1. new \in [1..n -> I]
    BY <1>2
  <2>2. \A k \in 1..n : new[k] = [kind |-> "Atom", index |-> index, id |-> <<index, k>>,
                                   atom |-> atoms[k]]
    BY <1>2
  <2>3. new \in Seq(I) /\ Len(new) = n
    <3> HIDE DEF new, I
    <3>1. QED  BY <1>2, <2>1, SeqDef, LenProperties
  <2>4. QED  BY <2>2, <2>3 DEF IsSeq
<1> HIDE DEF new
<1>4. \A k \in 1..Len(new) : isP0(new[k]) /\ EntryOK(new[k]) /\ new[k].id = <<index, k>>
  BY <1>3 DEF isP0, EntryOK, EntryKinds
<1>5. Depth(new) = n /\ IDs(new) = [k \in 1..n |-> new[k].id]
  BY <1>3, <1>4, AllIDs
<1>6. IDs(new) = AtomIDs(atoms, index)
  <2>1. [k \in 1..n |-> new[k].id] = [k \in 1..n |-> <<index, k>>]
    BY <1>3, <1>4
  <2>2. QED  BY <1>2, <1>5, <2>1 DEF AtomIDs
<1>7. Entries(new)
  BY <1>3, <1>4, EntriesBy
<1>8. Entries(d.p0) /\ IsSeq(d.p0)
  BY EntriesSeq DEF Steady
<1>9. Entries(s) /\ IDs(s) = IDs(d.p0) \o IDs(new) /\ Depth(s) = Depth(d.p0) + Depth(new)
  BY <1>3, <1>7, <1>8, EntriesConcat, IDsConcat
<1> HIDE DEF s
<1>10. Steady(y) /\ Aside(d, y) /\ y.specDepth = d.specDepth /\ y.p0 = s
  BY <1>9, StackAside
<1> HIDE DEF y
<1>11. /\ Steady(x) /\ Aside(y, x) /\ x.p0 = y.p0
       /\ y.specDepth + n < DepthMod => x.specDepth = y.specDepth + n
  BY <1>2, <1>10, AddDepthFacts
<1> HIDE DEF x
<1>12. Aside(d, x)
  BY <1>10, <1>11 DEF Aside
<1>13. d.specDepth + MaxAtoms < DepthMod => x.specDepth = d.specDepth + n
  <2>1. d.specDepth \in Nat /\ DepthMod \in Nat
    BY SteadyNumbers
  <2>2. d.specDepth + MaxAtoms < DepthMod => d.specDepth + n < DepthMod
    BY <1>2, <2>1 DEF MaxAtoms
  <2>3. QED  BY <1>10, <1>11, <2>2
<1>14. n \in 0..MaxAtoms
  BY <1>2 DEF MaxAtoms
<1>15. QED  BY <1>1, <1>5, <1>6, <1>9, <1>10, <1>11, <1>12, <1>13, <1>14 DEF n

\* A cancel takes the newest elements off the stack and off the depth.
LEMMA CancelFacts ==
  ASSUME NEW d, NEW num \in Nat, Steady(d)
  PROVE  LET x == Cancel(d, num)
         IN  /\ Steady(x) /\ Aside(d, x)
             /\ IDs(x.p0) = Doubt!Keep(IDs(d.p0), num)
             /\ Accounted(d) => Accounted(x)
<1> DEFINE s == d.p0
           gone == Cancelled(s, num)
           g == Cardinality(gone)
           y == LessDepth(d, g)
           t == Pick(s, DOMAIN s \ gone)
           x == [y EXCEPT !.p0 = t]
<1>1. /\ d.unseenSpec \in Nat /\ d.specDepth \in Nat /\ Depth(s) \in Nat
      /\ Len(IDs(s)) = Depth(s) /\ IsSeq(IDs(s)) /\ IsSeq(s) /\ DepthMod \in Nat \ {0}
  BY SteadyNumbers, DepthAssumption
<1>2. PICK cut \in 0..Len(s) :
           /\ Depth(Prefix(s, cut)) = IF num <= Depth(s) THEN Depth(s) - num ELSE 0
           /\ g = Depth(s) - Depth(Prefix(s, cut))
           /\ IDs(t) = IDs(Prefix(s, cut))
  BY <1>1, CancelledFacts
<1> HIDE DEF g, t
<1>3. Cancel(d, num) = x
  <2>1. y.p0 = s
    BY DEF LessDepth, Steady, Data, DecoderFields
  <2>2. [y EXCEPT !.p0 = Pick(@, DOMAIN @ \ gone)] = x
    BY <2>1 DEF t
  <2>3. Cancel(d, num) = [y EXCEPT !.p0 = Pick(@, DOMAIN @ \ gone)]
    BY DEF Cancel, Cancelled, g
  <2>4. QED  BY <2>2, <2>3
<1>4. Entries(t)
  <2>1. Entries(s)
    BY DEF Steady
  <2>2. QED  BY <2>1, EntriesPick DEF t
<1> DEFINE k == Depth(Prefix(s, cut))
<1>5. /\ k \in 0..Depth(s) /\ IDs(t) = SubSeq(IDs(s), 1, k)
  BY <1>1, <1>2, IDsCut
<1>6. g \in Nat /\ g <= Depth(s)
  BY <1>1, <1>2, <1>5
<1>7. y = [d EXCEPT !.specDepth = (d.specDepth - g) % DepthMod]
      /\ (d.specDepth - g) % DepthMod \in 0..(DepthMod - 1)
  <2>1. d.specDepth - g \in Int
    BY <1>1, <1>6
  <2>2. (d.specDepth - g) % DepthMod \in 0..(DepthMod - 1)
    BY <1>1, <2>1, ModRange
  <2>3. QED  BY <2>2 DEF LessDepth
<1> HIDE DEF y
<1>8. Steady(y) /\ Aside(d, y) /\ y.specDepth = (d.specDepth - g) % DepthMod
  <2> DEFINE v == (d.specDepth - g) % DepthMod
  <2>1. v \in 0..(DepthMod - 1) /\ y = [d EXCEPT !.specDepth = v]
    BY <1>7
  <2> HIDE DEF v
  <2>2. Steady(y) /\ Aside(d, y) /\ y.specDepth = v
    BY <2>1 DEF Steady, Data, OneAtMost, Aside, DecoderFields
  <2>3. QED  BY <2>2 DEF v
<1>9. Steady(x) /\ Aside(y, x) /\ x.specDepth = y.specDepth /\ x.p0 = t
  BY <1>4, <1>8, StackAside
<1> HIDE DEF x
<1>10. Aside(d, x)
  BY <1>8, <1>9 DEF Aside
<1>11. IDs(x.p0) = Doubt!Keep(IDs(s), num)
  <2>1. Max({0, Len(IDs(s)) - num}) = k
    <3>1. Len(IDs(s)) - num \in Int
      BY <1>1
    <3>2. QED  BY <1>1, <1>2, <3>1, MaxPair
  <2> HIDE DEF k
  <2>2. Doubt!Keep(IDs(s), num) = SubSeq(IDs(s), 1, k)
    BY <2>1, DoubtMax DEF Doubt!Keep
  <2>3. QED  BY <1>5, <1>9, <2>2 DEF k
<1>12. Accounted(d) => Accounted(x)
  <2> HAVE Accounted(d)
  <2>1. d.specDepth = d.unseenSpec + Depth(s)
    BY DEF Accounted
  <2>2. d.specDepth - g \in 0..(DepthMod - 1)
    BY <1>1, <1>6, <2>1 DEF Steady
  <2>3. x.specDepth = d.specDepth - g
    BY <1>1, <1>8, <1>9, <2>2, ModSmall
  <2>4. Depth(t) = k
    <3>1. IsSeq(t) /\ IsSeq(Prefix(s, cut))
      BY <1>1, <1>4, EntriesSeq, PrefixFacts
    <3>2. Len(IDs(t)) = Depth(t) /\ Len(IDs(Prefix(s, cut))) = Depth(Prefix(s, cut))
      BY <3>1, IDsFacts
    <3>3. QED  BY <1>2, <3>2
  <2>5. x.unseenSpec = d.unseenSpec
    BY <1>10 DEF Aside
  <2>6. d.specDepth - g = d.unseenSpec + k
    <3>1. g = Depth(s) - k /\ k \in Nat
      BY <1>1, <1>2, <1>5
    <3> HIDE DEF k, s
    <3>2. QED  BY <1>1, <2>1, <3>1
  <2>7. QED  BY <1>9, <2>3, <2>4, <2>5, <2>6 DEF Accounted
<1>13. QED  BY <1>3, <1>9, <1>10, <1>11, <1>12

\* A mispredict turns the newest atom and changes no ID.
LEMMA MispredictFacts ==
  ASSUME NEW d, Steady(d)
  PROVE  LET x == Mispredict(d)
         IN  /\ Steady(x) /\ Aside(d, x) /\ IDs(x.p0) = IDs(d.p0)
             /\ x.specDepth = d.specDepth
<1> DEFINE s == d.p0
           N == Len(s)
           m    == Max({0} \cup {k \in DOMAIN s : s[k].kind = "Atom"})
           void == {k \in DOMAIN s : k > m /\ s[k].kind = "Address"}
           flip == [k \in DOMAIN s |->
                     IF k = m THEN [s[k] EXCEPT !.atom = IF @ = "E" THEN "N" ELSE "E"]
                     ELSE s[k]]
           ks == DOMAIN flip \ void
           x == [d EXCEPT !.p0 = Pick(flip, ks)]
<1>1. Mispredict(d) = x
  BY DEF Mispredict
<1>2. IsSeq(s) /\ N \in Nat /\ DOMAIN s = 1..N /\ Entries(s)
  BY EntriesSeq, AnyDomain DEF Steady
<1> HIDE DEF N
<1>3. m \in {0} \cup {k \in DOMAIN s : s[k].kind = "Atom"}
  <2> DEFINE K == {0} \cup {k \in DOMAIN s : s[k].kind = "Atom"}
  <2>1. K \in SUBSET (0..N) /\ K # {}
    BY <1>2
  <2> HIDE DEF K
  <2>2. Max(K) \in K
    BY <1>2, <2>1, MaxMember
  <2>3. QED  BY <2>2 DEF K
<1> HIDE DEF m
<1>4. \A k \in 1..N : EntryOK(s[k])
  BY <1>2, EntriesAt DEF N
<1>5. DOMAIN flip = 1..N /\ \A k \in 1..N : k # m => flip[k] = s[k]
  BY <1>2
<1>6. ASSUME NEW k \in 1..N
      PROVE  /\ flip[k].kind = s[k].kind /\ EntryOK(flip[k])
             /\ isP0(flip[k]) <=> isP0(s[k])
             /\ isP0(s[k]) => flip[k].id = s[k].id
  <2>1. CASE k # m
    BY <1>4, <1>5, <2>1
  <2>2. CASE k = m
    <3>1. s[k].kind = "Atom" /\ DOMAIN s[k] = {"kind", "index", "id", "atom"}
      BY <1>2, <1>3, <1>4, <2>2 DEF EntryOK
    <3> DEFINE a == IF s[k].atom = "E" THEN "N" ELSE "E"
               f == [s[k] EXCEPT !.atom = a]
    <3>2. flip[k] = f
      BY <1>2, <2>2
    <3> HIDE DEF a
    <3>3. f.kind = "Atom" /\ f.id = s[k].id /\ DOMAIN f = {"kind", "index", "id", "atom"}
      BY <3>1
    <3> HIDE DEF f, flip
    <3>4. flip[k].kind = "Atom" /\ flip[k].id = s[k].id
          /\ DOMAIN flip[k] = {"kind", "index", "id", "atom"}
      BY <3>2, <3>3
    <3>5. isP0(s[k]) /\ isP0(flip[k])
      BY <3>1, <3>4 DEF isP0
    <3>6. EntryOK(flip[k])
      BY <3>4 DEF EntryOK, EntryKinds
    <3>7. QED  BY <3>1, <3>4, <3>5, <3>6
  <2>3. QED  BY <2>1, <2>2
<1>7. IsSeq(flip) /\ Len(flip) = N
  <2> DEFINE I == {flip[k] : k \in 1..N}
  <2> HIDE DEF void
  <2>1. flip \in [1..N -> I]
    BY <1>2
  <2>2. flip \in Seq(I) /\ Len(flip) = N
    <3> HIDE DEF flip, I
    <3>1. QED  BY <1>2, <2>1, SeqDef, LenProperties
  <2>3. QED  BY <2>2 DEF IsSeq
<1>8. ASSUME NEW k \in 1..N PROVE ((k \in ks) /\ isP0(flip[k])) <=> ((k <= N) /\ isP0(s[k]))
  <2>1. isP0(s[k]) => s[k].kind # "Address"
    BY DEF isP0
  <2>2. k \in void => s[k].kind = "Address"
    OBVIOUS
  <2>3. k \in ks <=> k \notin void
    BY <1>5
  <2>4. (isP0(flip[k]) <=> isP0(s[k])) /\ k <= N
    BY <1>2, <1>6
  <2> HIDE DEF ks, flip, void
  <2>5. QED  BY <2>1, <2>2, <2>3, <2>4, Zenon
<1> HIDE DEF flip, ks
<1>9. Entries(Pick(flip, ks))
  <2>1. Entries(flip)
    BY <1>6, <1>7, EntriesBy
  <2>2. QED  BY <2>1, EntriesPick
<1>10. IDs(Pick(flip, ks)) = IDs(Prefix(s, N))
  <2>1. N \in 0..Len(s) /\ Len(s) = Len(flip)
    BY <1>2, <1>7 DEF N
  <2>2. \A k \in 1..Len(s) : ((k \in ks) /\ isP0(flip[k])) <=> ((k <= N) /\ isP0(s[k]))
    BY <1>8 DEF N
  <2>3. \A k \in 1..Len(s) : isP0(s[k]) => flip[k].id = s[k].id
    BY <1>6 DEF N
  <2>4. QED  BY <1>2, <1>7, <2>1, <2>2, <2>3, IDsPick
<1>11. Prefix(s, N) = s
  BY <1>2, PrefixEnds DEF N
<1>12. Steady(x) /\ Aside(d, x) /\ x.specDepth = d.specDepth /\ x.p0 = Pick(flip, ks)
  BY <1>9, StackAside
<1> HIDE DEF x
<1>13. IDs(x.p0) = IDs(s)
  BY <1>10, <1>11, <1>12
<1>14. QED  BY <1>1, <1>12, <1>13

LEMMA StillOutcome ==
  ASSUME NEW d, NEW e, Ready(d), Steady(e), e.state = "Pkts", e.unseenSpec = d.unseenSpec,
         e.resolved = d.resolved, e.respec = d.respec, IDs(e.p0) = IDs(d.p0),
         e.specDepth = d.specDepth
  PROVE  Outcome(d, e, IDs(d.p0), 0)
<1>1. /\ Len(IDs(d.p0)) = Depth(d.p0) /\ Len(IDs(e.p0)) = Depth(e.p0)
      /\ IsSeq(IDs(d.p0)) /\ IsSeq(d.resolved) /\ d.unseenSpec \in Nat
  BY SteadyNumbers DEF Ready
<1>2. Committed(d, e, IDs(d.p0), 0)
  BY <1>1, CommittedNone
<1>3. Depth(e.p0) = Depth(d.p0)
  BY <1>1
<1>4. d.respec = FALSE => Accounted(e) /\ Bounded(e)
  BY <1>3 DEF Ready, Accounted, Bounded
<1>5. QED  BY <1>2, <1>4 DEF Outcome

LEMMA QuietSteady ==
  ASSUME NEW d, NEW e, Steady(d), Quiet(d, e)
  PROVE  Steady(e) /\ Aside(d, e) /\ e.p0 = d.p0 /\ e.specDepth = d.specDepth
BY DEF Steady, Quiet, Kept, Aside

\* A packet that leaves stack and depths alone.
LEMMA QuietOutcome ==
  ASSUME NEW d, NEW e, Ready(d), Quiet(d, e)
  PROVE  Outcome(d, e, IDs(d.p0), 0)
<1>1. Steady(e) /\ Aside(d, e) /\ e.p0 = d.p0 /\ e.specDepth = d.specDepth /\ d.state = "Pkts"
  BY QuietSteady DEF Ready
<1>2. QED  BY <1>1, StillOutcome DEF Aside

\* Sync is lost before anything is committed.
LEMMA LostOutcome ==
  ASSUME NEW d, NEW e, NEW ids, NEW k, Steady(d), IsSeq(ids), Data(e), NothingLeft(e),
         e.state \in {"NoSync", "WaitSync"},
         e.resolved = d.resolved, e.respec = d.respec
  PROVE  Outcome(d, e, ids, k)
<1>1. IsSeq(d.resolved) /\ 0 \in Depths
  BY SteadyNumbers
<1>2. Steady(e) /\ OutOfSync(e)
  BY <1>1, ClearedSteady
<1>3. Dropped(d, e, ids)
  BY <1>1, DroppedNone
<1>4. QED  BY <1>2, <1>3 DEF Outcome

\* A packet that does so, or loses sync.
LEMMA RunsOutcome ==
  ASSUME NEW d, NEW e, Ready(d), Runs(d, e)
  PROVE  Outcome(d, e, IDs(d.p0), 0)
<1>1. CASE Quiet(d, e)
  BY <1>1, QuietOutcome
<1>2. CASE Cleared(d, e)
  <2>1. Steady(d) /\ IsSeq(IDs(d.p0))
    BY SteadyNumbers DEF Ready
  <2>2. QED  BY <1>2, <2>1, LostOutcome DEF Cleared
<1>3. QED  BY <1>1, <1>2 DEF Runs

\* A commit packet.
LEMMA PendingOutcome ==
  ASSUME NEW d, NEW num \in Nat, Ready(d), config.maxSpec \in Nat
  PROVE  LET e == commitPendingAtoms(d, num)
         IN  Outcome(d, e, IDs(d.p0), num) /\ (e.state = "Pkts" \/ e.p0 = <<>>)
<1> DEFINE e == commitPendingAtoms(d, num)
           ids == IDs(d.p0)
<1>0. /\ d.unseenSpec \in Nat /\ d.specDepth \in Nat /\ Depth(d.p0) \in Nat
  BY SteadyNumbers DEF Ready
<1>1. /\ Steady(e) /\ e.respec = d.respec
      /\ \/ e.state = "WaitSync" /\ OutOfSync(e) /\ e.p0 = <<>> /\ Dropped(d, e, ids)
         \/ /\ e.state = "Pkts" /\ e.exception = d.exception
            /\ Committed(d, e, ids, num)
            /\ e.unseenSpec = d.unseenSpec - SkipOf(d, num)
            /\ Depth(e.p0) = Depth(d.p0) - TakenBy(d, num)
            /\ Accounted(d) => Accounted(e)
  BY PendingSteady DEF Ready
<1>2. SkipOf(d, num) \in Nat /\ num - SkipOf(d, num) \in Nat
  BY SkipFacts DEF Ready
<1>3. TakenBy(d, num) \in Nat /\ TakenBy(d, num) <= Depth(d.p0)
  BY <1>0, <1>2 DEF TakenBy
<1> HIDE DEF e, ids
<1>4. CASE e.state = "WaitSync" /\ OutOfSync(e) /\ e.p0 = <<>> /\ Dropped(d, e, ids)
  BY <1>1, <1>4 DEF Outcome, e, ids
<1>5. CASE /\ e.state = "Pkts" /\ Committed(d, e, ids, num)
           /\ e.unseenSpec = d.unseenSpec - SkipOf(d, num)
           /\ Depth(e.p0) = Depth(d.p0) - TakenBy(d, num)
           /\ Accounted(d) => Accounted(e)
  <2>1. ASSUME d.respec = FALSE PROVE Accounted(e) /\ Bounded(e)
    <3>1. Accounted(d) /\ Accounted(e) /\ Bounded(d)
      BY <1>5, <2>1 DEF Ready
    <3>2. d.specDepth = d.unseenSpec + Depth(d.p0) /\ e.specDepth = e.unseenSpec + Depth(e.p0)
      BY <3>1 DEF Accounted
    <3>3. e.specDepth = (d.unseenSpec - SkipOf(d, num)) + (Depth(d.p0) - TakenBy(d, num))
      BY <1>5, <3>2
    <3>4. e.specDepth <= d.specDepth /\ e.specDepth \in Int
      BY <1>0, <1>2, <1>3, <3>2, <3>3
    <3>5. CASE d.specDepth <= config.maxSpec
      <4>1. e.specDepth <= config.maxSpec
        BY <1>0, <3>4, <3>5
      <4>2. QED  BY <3>1, <4>1 DEF Bounded
    <3>6. CASE Depth(d.p0) = 0
      <4>1. Depth(e.p0) = 0
        BY <1>3, <1>5, <3>6
      <4>2. QED  BY <3>1, <4>1 DEF Bounded
    <3>7. QED  BY <3>1, <3>5, <3>6 DEF Bounded
  <2>2. QED  BY <1>1, <1>5, <2>1 DEF Outcome, e, ids
<1>6. QED  BY <1>1, <1>4, <1>5

\* An atom packet.
LEMMA AtomOutcome ==
  ASSUME NEW d, NEW atoms \in AtomRuns, NEW index, Ready(d), config.maxSpec \in Depths
  PROVE  LET ids == IDs(d.p0) \o AtomIDs(atoms, index)
         IN  Outcome(d, commitOverSpecDepth(queueAtoms(d, atoms, index)), ids, Over(d, ids))
<1> DEFINE ids == IDs(d.p0) \o AtomIDs(atoms, index)
           x == queueAtoms(d, atoms, index)
<1>1. /\ Steady(x) /\ Aside(d, x) /\ IDs(x.p0) = ids
      /\ Depth(x.p0) = Depth(d.p0) + Len(atoms) /\ Len(atoms) \in 0..MaxAtoms
      /\ d.specDepth + MaxAtoms < DepthMod => x.specDepth = d.specDepth + Len(atoms)
  BY QueueAtomsFacts DEF Ready
<1> HIDE DEF x, ids
<1>2. d.respec = FALSE => Accounted(x)
  <2> HAVE d.respec = FALSE
  <2>1. x.specDepth = d.specDepth + Len(atoms)
    BY <1>1, DepthRoom
  <2>2. d.specDepth = d.unseenSpec + Depth(d.p0)
    BY DEF Ready, Accounted
  <2>3. d.unseenSpec \in Nat /\ Depth(d.p0) \in Nat /\ Len(atoms) \in Int
    BY <1>1, SteadyNumbers DEF Ready, MaxAtoms
  <2>4. x.unseenSpec = d.unseenSpec
    BY <1>1 DEF Aside
  <2>5. x.specDepth = x.unseenSpec + Depth(x.p0)
    BY <1>1, <2>1, <2>2, <2>3, <2>4
  <2>6. QED  BY <2>5 DEF Accounted
<1>3. config.maxSpec \in Nat
  BY DEF Depths
<1>4. x.state = "Pkts" /\ x.lost = FALSE
  BY <1>1 DEF Aside, Ready
<1>5. Outcome(d, commitOverSpecDepth(x), ids, Over(d, ids))
  BY <1>1, <1>2, <1>3, <1>4, EnteredOutcome DEF Aside
<1>6. QED  BY <1>5 DEF x, ids

\* Atoms enter, the newest num elements go, and the newest atom may be turned.
LEMMA CancelOutcome ==
  ASSUME NEW d, NEW p, p.atoms \in AtomRuns, p.num \in Nat, NEW index, Ready(d),
         config.maxSpec \in Depths
  PROVE  LET ids == Doubt!Keep(IDs(d.p0) \o AtomIDs(p.atoms, index), p.num)
         IN  Outcome(d, resolveSpeculation(d, p, index), ids, Over(d, ids))
<1> DEFINE all == IDs(d.p0) \o AtomIDs(p.atoms, index)
           ids == Doubt!Keep(all, p.num)
           x == queueAtoms(d, p.atoms, index)
           y == Cancel(x, p.num)
           z == IF p.mispredict THEN Mispredict(y) ELSE y
<1>0. resolveSpeculation(d, p, index) = commitOverSpecDepth(z)
  BY DEF resolveSpeculation
<1> DEFINE n == Len(p.atoms)
<1>1. /\ Steady(x) /\ Aside(d, x) /\ IDs(x.p0) = all
      /\ Depth(x.p0) = Depth(d.p0) + n /\ n \in 0..MaxAtoms
      /\ d.specDepth + MaxAtoms < DepthMod => x.specDepth = d.specDepth + n
  BY QueueAtomsFacts DEF Ready
<1> HIDE DEF x, all, n
<1>2. d.respec = FALSE => Accounted(x)
  <2> HAVE d.respec = FALSE
  <2>1. x.specDepth = d.specDepth + n
    BY <1>1, DepthRoom
  <2>2. d.specDepth = d.unseenSpec + Depth(d.p0)
    BY DEF Ready, Accounted
  <2>3. d.unseenSpec \in Nat /\ Depth(d.p0) \in Nat /\ n \in Int
    BY <1>1, SteadyNumbers DEF Ready, MaxAtoms
  <2>4. x.unseenSpec = d.unseenSpec
    BY <1>1 DEF Aside
  <2>5. x.specDepth = x.unseenSpec + Depth(x.p0)
    BY <1>1, <2>1, <2>2, <2>3, <2>4
  <2>6. QED  BY <2>5 DEF Accounted
<1>3. Steady(y) /\ Aside(x, y) /\ IDs(y.p0) = ids /\ (Accounted(x) => Accounted(y))
  BY <1>1, CancelFacts
<1> HIDE DEF y, ids
<1>4. Steady(z) /\ Aside(y, z) /\ IDs(z.p0) = ids /\ (Accounted(y) => Accounted(z))
  <2>1. CASE p.mispredict
    <3> DEFINE m == Mispredict(y)
    <3>1. Steady(m) /\ Aside(y, m) /\ IDs(m.p0) = IDs(y.p0) /\ m.specDepth = y.specDepth
      BY <1>3, MispredictFacts
    <3> HIDE DEF m
    <3>2. Len(IDs(m.p0)) = Depth(m.p0) /\ Len(IDs(y.p0)) = Depth(y.p0)
      BY <1>3, <3>1, SteadyNumbers
    <3>3. Accounted(y) => Accounted(m)
      BY <3>1, <3>2 DEF Accounted, Aside
    <3>4. z = m
      BY <2>1 DEF m
    <3>5. QED  BY <1>3, <3>1, <3>3, <3>4
  <2>2. CASE ~p.mispredict
    <3>1. z = y /\ Aside(y, y)
      BY <2>2 DEF Aside
    <3>2. QED  BY <1>3, <3>1
  <2>3. QED  BY <2>1, <2>2
<1> HIDE DEF z
<1>5. config.maxSpec \in Nat
  BY DEF Depths
<1>6. Aside(d, z) /\ z.state = "Pkts" /\ z.lost = FALSE
  BY <1>1, <1>3, <1>4 DEF Aside, Ready
<1>7. d.respec = FALSE => Accounted(z)
  BY <1>2, <1>3, <1>4
<1>8. Outcome(d, commitOverSpecDepth(z), ids, Over(d, ids))
  BY <1>4, <1>5, <1>6, <1>7, EnteredOutcome DEF Aside
<1>9. QED  BY <1>0, <1>8 DEF ids, all

\* One more element in doubt.
LEMMA OneOutcome ==
  ASSUME NEW d, NEW e, Ready(d), EntryOK(e), isP0(e), config.maxSpec \in Depths
  PROVE  LET ids == Append(IDs(d.p0), e.id)
             f == commitOverSpecDepth(AddDepth(Queue(d, e), 1))
         IN  Outcome(d, f, ids, Over(d, ids)) /\ (f.state = "Pkts" \/ f.p0 = <<>>)
<1> DEFINE ids == Append(IDs(d.p0), e.id)
           x == Queue(d, e)
           y == AddDepth(x, 1)
           f == commitOverSpecDepth(y)
<1>1. /\ Steady(x) /\ Aside(d, x) /\ x.specDepth = d.specDepth
      /\ Depth(x.p0) = Depth(d.p0) + 1 /\ IDs(x.p0) = ids
  BY QueueFacts DEF Ready
<1> HIDE DEF x, ids
<1>2. /\ Steady(y) /\ Aside(x, y) /\ y.p0 = x.p0
      /\ x.specDepth + 1 < DepthMod => y.specDepth = x.specDepth + 1
  BY <1>1, AddDepthFacts
<1> HIDE DEF y
<1>3. d.respec = FALSE => Accounted(y)
  <2> HAVE d.respec = FALSE
  <2>1. d.specDepth \in Nat /\ DepthMod \in Nat /\ d.unseenSpec \in Nat /\ Depth(d.p0) \in Nat
    BY SteadyNumbers DEF Ready
  <2>2. d.specDepth + 1 < DepthMod
    <3>1. d.specDepth + MaxAtoms < DepthMod
      BY DepthRoom
    <3>2. QED  BY <2>1, <3>1 DEF MaxAtoms
  <2>3. d.specDepth = d.unseenSpec + Depth(d.p0)
    BY DEF Ready, Accounted
  <2>4. y.unseenSpec = d.unseenSpec
    BY <1>1, <1>2 DEF Aside
  <2>5. y.specDepth = d.specDepth + 1 /\ Depth(y.p0) = Depth(d.p0) + 1
    BY <1>1, <1>2, <2>2
  <2>6. y.specDepth = y.unseenSpec + Depth(y.p0)
    BY <2>1, <2>3, <2>4, <2>5
  <2>7. QED  BY <2>6 DEF Accounted
<1>4. config.maxSpec \in Nat
  BY DEF Depths
<1>5. Aside(d, y) /\ y.state = "Pkts" /\ y.lost = FALSE /\ IDs(y.p0) = ids
  BY <1>1, <1>2 DEF Aside, Ready
<1>6. Outcome(d, f, ids, Over(d, ids)) /\ (f.state = "Pkts" \/ f.p0 = <<>>)
  BY <1>2, <1>3, <1>4, <1>5, EnteredOutcome DEF Aside
<1>7. QED  BY <1>6 DEF x, y, ids

\* An entry that nothing can cancel, and a look at the depth.
LEMMA OtherOutcome ==
  ASSUME NEW d, NEW e, Ready(d), EntryOK(e), ~isP0(e), config.maxSpec \in Depths
  PROVE  Outcome(d, commitOverSpecDepth(Queue(d, e)), IDs(d.p0), Over(d, IDs(d.p0)))
<1> DEFINE x == Queue(d, e)
<1>1. /\ Steady(x) /\ Aside(d, x) /\ x.specDepth = d.specDepth
      /\ Depth(x.p0) = Depth(d.p0) /\ IDs(x.p0) = IDs(d.p0)
  BY QueueFacts DEF Ready
<1> HIDE DEF x
<1>2. d.respec = FALSE => Accounted(x)
  BY <1>1 DEF Ready, Accounted, Aside
<1>3. config.maxSpec \in Nat
  BY DEF Depths
<1>4. x.state = "Pkts" /\ x.lost = FALSE
  BY <1>1 DEF Aside, Ready
<1>5. Outcome(d, commitOverSpecDepth(x), IDs(d.p0), Over(d, IDs(d.p0)))
  BY <1>1, <1>2, <1>3, <1>4, EnteredOutcome DEF Aside
<1>6. QED  BY <1>5 DEF x

\* An element queued behind the stack, or shown at once if there is none.
LEMMA QueuedOutcome ==
  ASSUME NEW d, NEW e, Ready(d), EntryOK(e), ~isP0(e)
  PROVE  Outcome(d, Queue(d, e), IDs(d.p0), 0)
<1> DEFINE x == Queue(d, e)
<1>1. /\ Steady(x) /\ Aside(d, x) /\ x.specDepth = d.specDepth /\ IDs(x.p0) = IDs(d.p0)
  BY QueueFacts DEF Ready
<1> HIDE DEF x
<1>2. Outcome(d, x, IDs(d.p0), 0)
  BY <1>1, StillOutcome DEF Aside, Ready
<1>3. QED  BY <1>2 DEF x

\* What is changed besides the stack and the depths.
LEMMA ElsewhereOutcome ==
  ASSUME NEW d, NEW e, NEW ids, NEW k, Outcome(d, e, ids, k), Steady(e), NEW f, Steady(f),
         f.state = e.state, f.unseenSpec = e.unseenSpec, f.resolved = e.resolved,
         f.respec = e.respec, IDs(f.p0) = IDs(e.p0), f.specDepth = e.specDepth,
         OutOfSync(e) => OutOfSync(f)
  PROVE  Outcome(d, f, ids, k)
<1>1. Len(IDs(e.p0)) = Depth(e.p0) /\ Len(IDs(f.p0)) = Depth(f.p0)
  BY SteadyNumbers
<1>2. Depth(e.p0) = Depth(f.p0)
  BY <1>1
<1>3. Committed(d, e, ids, k) => Committed(d, f, ids, k)
  BY DEF Committed
<1>4. Dropped(d, e, ids) => Dropped(d, f, ids)
  BY DEF Dropped
<1>5. (Accounted(e) => Accounted(f)) /\ (Bounded(e) => Bounded(f))
  BY <1>2 DEF Accounted, Bounded
<1>6. QED  BY <1>3, <1>4, <1>5 DEF Outcome

LEMMA ElementFacts ==
  ASSUME NEW kind \in {"MemTrans", "CycleCount", "TraceOn"}, NEW x, NEW i
  PROVE  LET e == [kind |-> kind, index |-> i, id |-> <<i, 1>>, elem |-> x]
         IN  /\ EntryOK(e) /\ e.id = <<i, 1>>
             /\ isP0(e) <=> ((kind = "MemTrans") /\ (x.val = "Start") /\ config.transP0)
<1> DEFINE e == [kind |-> kind, index |-> i, id |-> <<i, 1>>, elem |-> x]
<1>1. e.kind = kind /\ e.id = <<i, 1>> /\ e.elem = x
  OBVIOUS
<1> HIDE DEF e
<1>2. EntryOK(e)
  BY <1>1 DEF EntryOK, EntryKinds
<1>3. isP0(e) <=> ((kind = "MemTrans") /\ (x.val = "Start") /\ config.transP0)
  BY <1>1 DEF isP0
<1>4. QED  BY <1>1, <1>2, <1>3 DEF e

\* A transaction packet; its start may be an element in doubt.
LEMMA TransOutcome ==
  ASSUME NEW d, NEW p, NEW index, Ready(d), config.maxSpec \in Depths
  PROVE  LET ids == IF p.val = "Start" /\ config.transP0
                    THEN Append(IDs(d.p0), <<index, 1>>) ELSE IDs(d.p0)
         IN  Outcome(d, DecodeTrans(d, p, index), ids, Over(d, ids))
<1> DEFINE x == Elem("MemTrans", index, p.val)
           e == [kind |-> "MemTrans", index |-> index, id |-> <<index, 1>>, elem |-> x]
           start == p.val = "Start" /\ config.transP0
           q == Queue(d, e)
<1>1. x.index = index /\ x.val = p.val
  BY DEF Elem
<1>2. DecodeTrans(d, p, index) = commitOverSpecDepth(IF start THEN AddDepth(q, 1) ELSE q)
  BY <1>1 DEF DecodeTrans, QueueElem
<1> HIDE DEF x
<1>3. EntryOK(e) /\ e.id = <<index, 1>> /\ (isP0(e) <=> start)
  BY <1>1, ElementFacts
<1> HIDE DEF e
<1>4. CASE start
  BY <1>2, <1>3, <1>4, OneOutcome
<1>5. CASE ~start
  BY <1>2, <1>3, <1>5, OtherOutcome
<1>6. QED  BY <1>4, <1>5

\* A Q packet.
LEMMA QOutcome ==
  ASSUME NEW d, NEW p, NEW index, Ready(d), config.maxSpec \in Depths, p.addr \in Nat
  PROVE  LET ids == IF p.present THEN Append(IDs(d.p0), <<index, 1>>) ELSE IDs(d.p0)
         IN  Outcome(d, DecodeQ(d, p, index), ids, Over(d, ids))
<1> DEFINE e == [kind |-> "Q", index |-> index, id |-> <<index, 1>>, pkt |-> p]
           q == Queue(d, e)
<1>1. DecodeQ(d, p, index) = commitOverSpecDepth(IF p.present THEN AddDepth(q, 1) ELSE q)
  BY DEF DecodeQ
<1>2. e.kind = "Q" /\ e.id = <<index, 1>> /\ e.pkt = p
  OBVIOUS
<1> HIDE DEF e
<1>3. EntryOK(e) /\ (isP0(e) <=> p.present)
  BY <1>2 DEF EntryOK, EntryKinds, isP0
<1>4. CASE p.present
  BY <1>1, <1>2, <1>3, <1>4, OneOutcome
<1>5. CASE ~p.present
  BY <1>1, <1>3, <1>5, OtherOutcome
<1>6. QED  BY <1>4, <1>5

\* A reset of the processor.
LEMMA PEResetOutcome ==
  ASSUME NEW d, NEW index, Ready(d), config.maxSpec \in Depths
  PROVE  Outcome(d, DecodePEReset(d, index), IDs(d.p0),
                 IF ShouldQueue(d) THEN Over(d, IDs(d.p0)) ELSE 0)
<1> DEFINE x == Elem("Exception", index, "PEReset")
           e == [kind |-> "MemTrans", index |-> index, id |-> <<index, 1>>, elem |-> x]
<1>1. x.index = index /\ x.val = "PEReset"
  BY DEF Elem
<1>2. DecodePEReset(d, index) = IF ShouldQueue(d) THEN commitOverSpecDepth(Queue(d, e)) ELSE Emit(d, x)
  BY <1>1 DEF DecodePEReset, QueueElem
<1> HIDE DEF x
<1>3. EntryOK(e) /\ ~isP0(e)
  BY <1>1, ElementFacts
<1> HIDE DEF e
<1>4. Outcome(d, Emit(d, x), IDs(d.p0), 0)
  <2>1. Quiet(d, Emit(d, x))
    BY EmitQuiet DEF Ready, Steady
  <2>2. QED  BY <2>1, QuietOutcome
<1>5. Outcome(d, commitOverSpecDepth(Queue(d, e)), IDs(d.p0), Over(d, IDs(d.p0)))
  BY <1>3, OtherOutcome
<1>6. QED  BY <1>2, <1>4, <1>5

LEMMA TraceOnOutcome ==
  ASSUME NEW d, NEW index, Ready(d)
  PROVE  Outcome(d, DecodeTraceOn(d, index), IDs(d.p0), 0)
<1> DEFINE x == Elem("TraceOn", index, IF d.prevOverflow THEN "Overflow" ELSE "Normal")
           y == [d EXCEPT !.prevOverflow = FALSE]
           e == [kind |-> "TraceOn", index |-> index, id |-> <<index, 1>>, elem |-> x]
           z == [y EXCEPT !.traceOn = <<x>>]
<1>1. x.index = index
  BY DEF Elem
<1>2. DecodeTraceOn(d, index) = IF ShouldQueue(d) THEN Queue(y, e) ELSE z
  BY <1>1 DEF DecodeTraceOn, QueueElem
<1> HIDE DEF x
<1>3. EntryOK(e) /\ ~isP0(e)
  BY ElementFacts
<1> HIDE DEF e
<1>4. Quiet(d, y)
  BY DEF Ready, Steady, Data, OneAtMost, Quiet, Kept, DecoderFields
<1>5. Quiet(d, z)
  <2>1. Len(<<x>>) <= 1
    OBVIOUS
  <2>2. QED  BY <1>4, <2>1 DEF Data, OneAtMost, Quiet, Kept, DecoderFields
<1>6. Outcome(d, z, IDs(d.p0), 0)
  BY <1>5, QuietOutcome
<1> HIDE DEF y
<1>7. Outcome(d, Queue(y, e), IDs(d.p0), 0)
  <2>1. Steady(y) /\ Aside(d, y) /\ y.p0 = d.p0 /\ y.specDepth = d.specDepth
    BY <1>4, QuietSteady DEF Ready
  <2> DEFINE w == Queue(y, e)
  <2>2. Steady(w) /\ Aside(y, w) /\ w.specDepth = y.specDepth /\ IDs(w.p0) = IDs(y.p0)
    BY <1>3, <2>1, QueueFacts
  <2> HIDE DEF w
  <2>3. Outcome(d, w, IDs(d.p0), 0)
    BY <2>1, <2>2, StillOutcome DEF Aside, Ready
  <2>4. QED  BY <2>3 DEF w
<1>8. QED  BY <1>2, <1>6, <1>7

LEMMA ContextOutcome ==
  ASSUME NEW d, NEW p, NEW index, Ready(d)
  PROVE  Outcome(d, DecodeContext(d, p, index), IDs(d.p0), 0)
<1> DEFINE e == [kind |-> "Context", index |-> index, pkt |-> p]
<1>1. DecodeContext(d, p, index) = IF ShouldQueue(d) THEN Queue(d, e) ELSE updateContext(d, p, index)
  BY DEF DecodeContext
<1>2. e.kind = "Context"
  OBVIOUS
<1> HIDE DEF e
<1>3. EntryOK(e) /\ ~isP0(e)
  BY <1>2 DEF EntryOK, EntryKinds, isP0
<1>4. Outcome(d, Queue(d, e), IDs(d.p0), 0)
  BY <1>3, QueuedOutcome
<1>5. Quiet(d, updateContext(d, p, index))
  BY ContextQuiet DEF Ready, Steady
<1>6. QED  BY <1>1, <1>4, <1>5, QuietOutcome

\* An exception gets its address.
LEMMA ExceptionOutcome ==
  ASSUME NEW d, NEW addr, Ready(d), config.maxSpec \in Depths
  PROVE  LET e   == ResolveException(d, addr)
             in  == d.exception # <<>> /\ config.maxSpec > 0
             ids == IF in THEN Append(IDs(d.p0), <<d.exception[1].index, 1>>) ELSE IDs(d.p0)
         IN  /\ Outcome(d, e, ids, IF in THEN Over(d, ids) ELSE 0)
             /\ e.state = "Pkts" \/ e.p0 = <<>>
<1> DEFINE x  == d.exception[1]
           e  == [kind |-> "Exception", index |-> x.index, id |-> <<x.index, 1>>, exc |-> x.pkt,
                  ret |-> addr, start |-> d.iAddr, need |-> d.needAddr]
           y  == [d EXCEPT !.exception = <<>>]
           a  == commitOverSpecDepth(AddDepth(Queue(y, e), 1))
           b  == processExceptionPacket(Walked(flushPendingElements(y), e), e)
           in == d.exception # <<>> /\ config.maxSpec > 0
           one == Append(IDs(d.p0), <<x.index, 1>>)
<1>1. ResolveException(d, addr) = IF d.exception = <<>> THEN d ELSE IF config.maxSpec > 0 THEN a ELSE b
  BY DEF ResolveException
<1>2. e.kind = "Exception" /\ e.id = <<x.index, 1>> /\ e.start = d.iAddr /\ e.need = d.needAddr
  OBVIOUS
<1> HIDE DEF e
<1>3. EntryOK(e) /\ isP0(e)
  <2>1. d.iAddr \in Nat /\ d.needAddr \in BOOLEAN
    BY DEF Ready, Steady, Data
  <2>2. QED  BY <1>2, <2>1 DEF EntryOK, EntryKinds, isP0
<1>4. /\ Steady(y) /\ y.state = d.state /\ y.lost = d.lost /\ y.unseenSpec = d.unseenSpec
      /\ y.specDepth = d.specDepth /\ y.p0 = d.p0 /\ y.resolved = d.resolved /\ y.respec = d.respec
  <2>1. Len(<<>>) <= 1
    OBVIOUS
  <2>2. QED  BY <2>1 DEF Ready, Steady, Data, OneAtMost, DecoderFields
<1> HIDE DEF y
<1>5. Ready(y)
  BY <1>4 DEF Ready, Accounted, Bounded
<1>6. Outcome(d, d, IDs(d.p0), 0) /\ d.state = "Pkts"
  BY StillOutcome DEF Ready
<1>7. Outcome(d, a, one, Over(d, one)) /\ (a.state = "Pkts" \/ a.p0 = <<>>)
  <2>1. Outcome(y, a, Append(IDs(y.p0), e.id), Over(y, Append(IDs(y.p0), e.id)))
        /\ (a.state = "Pkts" \/ a.p0 = <<>>)
    BY <1>3, <1>5, OneOutcome
  <2>2. Append(IDs(y.p0), e.id) = one
    BY <1>2, <1>4
  <2> HIDE DEF a, one
  <2>3. Over(y, one) = Over(d, one)
    BY <1>4 DEF Over
  <2>4. Outcome(y, a, one, Over(d, one))
    BY <2>1, <2>2, <2>3
  <2>5. Outcome(d, a, one, Over(d, one))
    BY <1>4, <2>4 DEF Outcome, Committed, Dropped
  <2>6. QED  BY <2>1, <2>5
<1>8. Outcome(d, b, IDs(d.p0), 0) /\ b.state = "Pkts"
  <2> DEFINE f == flushPendingElements(y)
             w == Walked(f, e)
  <2>1. Quiet(y, f) /\ Data(f)
    BY <1>4, FlushQuiet, QuietData DEF Steady
  <2> HIDE DEF f
  <2>2. Quiet(f, w) /\ Data(w)
    BY <2>1, WalkedQuiet, QuietData
  <2> HIDE DEF w
  <2>3. Quiet(w, b)
    BY <2>2, ExceptionQuiet DEF w, f
  <2> HIDE DEF b
  <2>4. Quiet(y, b)
    BY <2>1, <2>2, <2>3, QuietFollows
  <2>5. Steady(b) /\ Aside(y, b) /\ b.p0 = y.p0 /\ b.specDepth = y.specDepth
    BY <1>4, <2>4, QuietSteady
  <2>6. b.state = "Pkts"
    BY <1>4, <2>5 DEF Aside, Ready
  <2>7. Outcome(d, b, IDs(d.p0), 0)
    BY <1>4, <2>5, <2>6, StillOutcome DEF Aside
  <2>8. QED  BY <2>6, <2>7
<1>9. config.maxSpec \in Nat
  BY DEF Depths
<1> HIDE DEF a, b, one
<1>10. CASE in
  BY <1>1, <1>7, <1>10 DEF one
<1>11. CASE ~in
  BY <1>1, <1>6, <1>8, <1>11
<1>12. QED  BY <1>10, <1>11

\* An address, taken at once or queued.
LEMMA TakeAddressOutcome ==
  ASSUME NEW d, NEW e, NEW ids, NEW k, Outcome(d, e, ids, k), e.state = "Pkts" \/ e.p0 = <<>>,
         NEW p, p.addr \in Nat, NEW index
  PROVE  Outcome(d, TakeAddress(e, p, index), ids, k)
<1> DEFINE x == [kind |-> "Address", index |-> index, pkt |-> p]
           q == Queue(e, x)
           u == updateAddress(e, p)
           v == updateContext(u, p, index)
<1>1. TakeAddress(e, p, index) = IF e.err THEN e ELSE IF ShouldQueue(e) THEN q ELSE v
  BY DEF TakeAddress
<1>2. x.kind = "Address" /\ x.pkt = p
  OBVIOUS
<1> HIDE DEF x
<1>3. EntryOK(x) /\ ~isP0(x)
  BY <1>2 DEF EntryOK, EntryKinds, isP0
<1>4. Steady(e)
  BY DEF Outcome
<1>5. ShouldQueue(e) => Outcome(d, q, ids, k)
  <2> HAVE ShouldQueue(e)
  <2>1. e.state = "Pkts"
    BY DEF ShouldQueue
  <2>2. Steady(q) /\ Aside(e, q) /\ q.specDepth = e.specDepth /\ IDs(q.p0) = IDs(e.p0)
    BY <1>3, <1>4, QueueFacts
  <2> HIDE DEF q
  <2>3. OutOfSync(e) => OutOfSync(q)
    BY <2>1 DEF OutOfSync
  <2>4. QED  BY <1>4, <2>2, <2>3, ElsewhereOutcome DEF Aside
<1>6. Outcome(d, v, ids, k)
  <2>1. Quiet(e, u) /\ Data(u) /\ u.popPending = FALSE /\ u.stack = e.stack
    <3>1. Quiet(e, u)
      BY <1>4, AddressQuiet DEF Steady
    <3>2. u.popPending = FALSE /\ u.stack = e.stack
      BY <1>4 DEF updateAddress, Walked, Steady, Data, DecoderFields
    <3>3. QED  BY <3>1, <3>2, QuietData
  <2> HIDE DEF u
  <2>2. Quiet(u, v) /\ v.popPending = FALSE /\ v.stack = e.stack
    <3>1. Quiet(u, v)
      BY <2>1, ContextQuiet
    <3>2. v.popPending = u.popPending /\ v.stack = u.stack
      BY <2>1 DEF updateContext, Data, DecoderFields
    <3>3. QED  BY <2>1, <3>1, <3>2
  <2> HIDE DEF v
  <2>3. Steady(v) /\ Aside(e, v) /\ v.p0 = e.p0 /\ v.specDepth = e.specDepth
    BY <1>4, <2>1, <2>2, QuietFollows, QuietSteady
  <2>4. OutOfSync(e) => OutOfSync(v)
    BY <2>2, <2>3 DEF OutOfSync, Aside
  <2>5. QED  BY <1>4, <2>3, <2>4, ElsewhereOutcome DEF Aside
<1>7. QED  BY <1>1, <1>5, <1>6

\* A cycle count, which may commit.
LEMMA CycleCountOutcome ==
  ASSUME NEW d, NEW p, NEW index, Ready(d), config.maxSpec \in Depths, p.num \in {-1} \cup Nat
  PROVE  Outcome(d, DecodeCycleCount(d, p, index), IDs(d.p0),
                 IF ~config.opt1 /\ p.num >= 0 THEN p.num ELSE 0)
<1> DEFINE x == Elem("CycleCount", index, 0)
           e == [kind |-> "CycleCount", index |-> index, id |-> <<index, 1>>, elem |-> x]
           z == [d EXCEPT !.cycleCount = <<x>>]
           c == IF p.num < 0 THEN d ELSE commitPendingAtoms(d, p.num)
           q == Queue(c, e)
           k == IF p.num < 0 THEN 0 ELSE p.num
<1>1. x.index = index
  BY DEF Elem
<1>2. DecodeCycleCount(d, p, index) = IF config.opt1 THEN z ELSE IF c.err THEN c ELSE q
  BY <1>1 DEF DecodeCycleCount, QueueElem
<1> HIDE DEF x
<1>3. EntryOK(e) /\ ~isP0(e)
  BY ElementFacts
<1> HIDE DEF e
<1>4. Outcome(d, z, IDs(d.p0), 0)
  <2>1. Len(<<x>>) <= 1
    OBVIOUS
  <2>2. Quiet(d, z)
    BY <2>1 DEF Ready, Steady, Data, OneAtMost, Quiet, Kept, DecoderFields
  <2>3. QED  BY <2>2, QuietOutcome
<1>5. Outcome(d, c, IDs(d.p0), k) /\ (c.state = "Pkts" \/ c.p0 = <<>>)
  <2>1. CASE p.num < 0
    BY <2>1, StillOutcome DEF Ready
  <2>2. CASE ~(p.num < 0)
    <3>1. p.num \in Nat /\ config.maxSpec \in Nat
      BY <2>2 DEF Depths
    <3>2. c = commitPendingAtoms(d, p.num) /\ k = p.num
      BY <2>2
    <3>3. QED  BY <3>1, <3>2, PendingOutcome
  <2>3. QED  BY <2>1, <2>2
<1> HIDE DEF c
<1>6. Steady(c)
  BY <1>5 DEF Outcome
<1>7. Outcome(d, q, IDs(d.p0), k)
  <2>1. Steady(q) /\ Aside(c, q) /\ q.specDepth = c.specDepth /\ IDs(q.p0) = IDs(c.p0)
        /\ Depth(q.p0) = Depth(c.p0)
    BY <1>3, <1>6, QueueFacts
  <2>2. OutOfSync(c) => OutOfSync(q)
    <3> HAVE OutOfSync(c)
    <3>1. c.p0 = <<>>
      BY <1>5 DEF OutOfSync
    <3>2. q.p0 = Append(<<>>, e) /\ q.stack = c.stack /\ q.popPending = c.popPending
      BY <1>6, <3>1 DEF Queue, Steady, Data, DecoderFields
    <3>3. Len(q.p0) = 1
      BY <3>2, AppendFacts, AnyEmpty
    <3>4. P0At(q.p0) = P0At(c.p0)
      <4>1. P0At(Append(<<>>, e)) = P0At(<<>>)
        BY <1>3, AnyEmpty, P0Append
      <4>2. QED  BY <3>1, <3>2, <4>1
    <3> HIDE DEF q
    <3>5. QED  BY <2>1, <3>2, <3>3, <3>4 DEF OutOfSync, Aside
  <2> HIDE DEF q
  <2>3. QED  BY <1>5, <1>6, <2>1, <2>2, ElsewhereOutcome DEF Aside
<1> HIDE DEF q, z
<1>8. (IF ~config.opt1 /\ p.num >= 0 THEN p.num ELSE 0) = IF config.opt1 THEN 0 ELSE k
  BY DEF k
<1>9. QED  BY <1>2, <1>4, <1>5, <1>7, <1>8

\* An exception waits for its address.
LEMMA DecodeExceptionOutcome ==
  ASSUME NEW d, NEW p, NEW index, Ready(d)
  PROVE  Outcome(d, DecodeException(d, p, index), IDs(d.p0), 0)
<1> DEFINE x == [index |-> index, pkt |-> p]
           y == [d EXCEPT !.exception = <<x>>]
           z == Emit(d, Elem("Exception", index, p.num))
<1>1. DecodeException(d, p, index) = IF p.interp \in {1, 2} THEN y ELSE z
  BY DEF DecodeException
<1> HIDE DEF x
<1>2. /\ Steady(y) /\ y.state = d.state /\ y.unseenSpec = d.unseenSpec
      /\ y.specDepth = d.specDepth /\ y.p0 = d.p0 /\ y.resolved = d.resolved /\ y.respec = d.respec
  <2>1. Len(<<x>>) <= 1
    OBVIOUS
  <2>2. QED  BY <2>1 DEF Ready, Steady, Data, OneAtMost, DecoderFields
<1> HIDE DEF y
<1>3. Outcome(d, y, IDs(d.p0), 0)
  BY <1>2, StillOutcome DEF Ready
<1>4. Outcome(d, z, IDs(d.p0), 0)
  <2>1. Quiet(d, z)
    BY EmitQuiet DEF Ready, Steady
  <2>2. QED  BY <2>1, QuietOutcome
<1>5. QED  BY <1>1, <1>3, <1>4

\* A TraceInfo says how many elements from before the trace are in doubt.
LEMMA InfoOutcome ==
  ASSUME NEW d, NEW p, NEW index, Ready(d), d.respec \in BOOLEAN, p.depth \in {-1} \cup Depths
  PROVE  LET e == DecodeTraceInfo(d, p, index)
         IN  /\ Steady(e) /\ e.state = "Pkts" /\ e.respec \in BOOLEAN
             /\ e.respec = FALSE => Accounted(e) /\ Bounded(e)
             /\ e.resolved = d.resolved /\ IDs(e.p0) = IDs(d.p0)
             /\ e.unseenSpec = IF p.depth < 0 THEN d.unseenSpec ELSE p.depth
<1> DEFINE x == Elem("MemTrans", index, "Init")
           e == [kind |-> "MemTrans", index |-> index, id |-> <<index, 1>>, elem |-> x]
           r == d.respec \/ P0At(d.p0) # {}
           s == [d EXCEPT !.specDepth = p.depth, !.unseenSpec = p.depth, !.respec = r]
           c == IF p.depth < 0 THEN d ELSE s
           q == Queue(c, e)
           y == Emit(c, x)
           Good(f) == /\ Steady(f) /\ f.state = "Pkts" /\ f.respec \in BOOLEAN
                      /\ f.respec = FALSE => Accounted(f) /\ Bounded(f)
                      /\ f.resolved = d.resolved /\ IDs(f.p0) = IDs(d.p0)
                      /\ f.unseenSpec = IF p.depth < 0 THEN d.unseenSpec ELSE p.depth
<1>1. x.index = index /\ x.val = "Init"
  BY DEF Elem
<1>2. DecodeTraceInfo(d, p, index) =
        IF ~(config.ete /\ p.trans) THEN c ELSE IF ShouldQueue(c) THEN q ELSE y
  BY <1>1 DEF DecodeTraceInfo, QueueElem
<1> HIDE DEF x
<1>3. EntryOK(e) /\ ~isP0(e)
  BY <1>1, ElementFacts
<1> HIDE DEF e
<1>4. Good(c)
  <2>1. CASE p.depth < 0
    BY <2>1 DEF Ready
  <2>2. CASE ~(p.depth < 0)
    <3>1. p.depth \in Depths /\ p.depth \in Nat /\ p.depth \in 0..(DepthMod - 1)
      <4>1. p.depth \in Depths
        BY <2>2
      <4>2. p.depth \in Nat /\ p.depth + MaxAtoms < DepthMod
        BY <4>1 DEF Depths
      <4>3. p.depth \in 0..(DepthMod - 1)
        BY <4>2, DepthAssumption DEF MaxAtoms
      <4>4. QED  BY <4>1, <4>2, <4>3
    <3> DEFINE n == p.depth
    <3>2. r \in BOOLEAN /\ (r = FALSE => d.respec = FALSE /\ P0At(d.p0) = {})
      OBVIOUS
    <3> HIDE DEF r, n
    <3>3. /\ Steady(s) /\ s.state = "Pkts" /\ s.respec = r /\ s.resolved = d.resolved
          /\ s.p0 = d.p0 /\ s.unseenSpec = p.depth /\ s.specDepth = p.depth
      BY <3>1 DEF Ready, Steady, Data, OneAtMost, DecoderFields
    <3> HIDE DEF s
    <3>4. r = FALSE => Depth(s.p0) = 0
      BY <3>2, <3>3, FS_EmptySet DEF Depth
    <3>5. r = FALSE => Accounted(s) /\ Bounded(s)
      BY <3>1, <3>3, <3>4 DEF Accounted, Bounded
    <3>6. QED  BY <2>2, <3>2, <3>3, <3>5
  <2>3. QED  BY <2>1, <2>2
<1> HIDE DEF c
<1>5. Good(q)
  <2>1. /\ Steady(q) /\ Aside(c, q) /\ q.specDepth = c.specDepth /\ IDs(q.p0) = IDs(c.p0)
        /\ Depth(q.p0) = Depth(c.p0)
    BY <1>3, <1>4, QueueFacts
  <2> HIDE DEF q
  <2>2. QED  BY <1>4, <2>1 DEF Aside, Accounted, Bounded
<1>6. Good(y)
  <2>1. Quiet(c, y)
    BY <1>4, EmitQuiet DEF Steady
  <2> HIDE DEF y
  <2>2. Steady(y) /\ Aside(c, y) /\ y.p0 = c.p0 /\ y.specDepth = c.specDepth
    BY <1>4, <2>1, QuietSteady
  <2>3. QED  BY <1>4, <2>2 DEF Aside, Accounted, Bounded
<1> HIDE DEF q, y
<1>7. QED  BY <1>2, <1>4, <1>5, <1>6

\* A bad packet loses sync.
LEMMA BadOutcome ==
  ASSUME NEW d, Ready(d)
  PROVE  Outcome(d, resetDecoder([d EXCEPT !.unsync = "BadPacket"]), IDs(d.p0), 0)
<1> DEFINE x == [d EXCEPT !.unsync = "BadPacket"]
           e == resetDecoder(x)
<1>1. Steady(d) /\ IsSeq(IDs(d.p0))
  BY SteadyNumbers DEF Ready
<1>2. Data(x) /\ x.lost = d.lost /\ x.respec = d.respec /\ x.resolved = d.resolved
  BY <1>1 DEF Steady, Data, OneAtMost, DecoderFields
<1> HIDE DEF x
<1>3. /\ Data(e) /\ NothingLeft(e) /\ e.state = "NoSync"
      /\ e.respec = d.respec /\ e.resolved = d.resolved
  BY <1>2, ResetClears
<1> HIDE DEF e
<1>4. Outcome(d, e, IDs(d.p0), 0)
  BY <1>1, <1>3, LostOutcome
<1>5. QED  BY <1>4 DEF e, x

\* An overflow or a discard loses sync.
LEMMA LoseOutcome ==
  ASSUME NEW d, NEW reason, NEW index, Ready(d)
  PROVE  /\ Outcome(d, [LoseSync(d, reason, index) EXCEPT !.prevOverflow = TRUE], IDs(d.p0), 0)
         /\ Outcome(d, [LoseSync(d, reason, index) EXCEPT !.eotPending = TRUE], IDs(d.p0), 0)
<1> DEFINE x == LoseSync(d, reason, index)
           a == [x EXCEPT !.prevOverflow = TRUE]
           b == [x EXCEPT !.eotPending = TRUE]
<1>1. Steady(d) /\ IsSeq(IDs(d.p0))
  BY SteadyNumbers DEF Ready
<1>2. /\ Data(x) /\ NothingLeft(x) /\ x.state = "WaitSync"
      /\ x.respec = d.respec /\ x.resolved = d.resolved
  BY <1>1, LoseSyncClears DEF Steady
<1> HIDE DEF x
<1>3. /\ Data(a) /\ NothingLeft(a) /\ a.state = "WaitSync"
      /\ a.respec = d.respec /\ a.resolved = d.resolved
  BY <1>2 DEF Data, OneAtMost, NothingLeft, DecoderFields
<1>4. /\ Data(b) /\ NothingLeft(b) /\ b.state = "WaitSync"
      /\ b.respec = d.respec /\ b.resolved = d.resolved
  BY <1>2 DEF Data, OneAtMost, NothingLeft, DecoderFields
<1> HIDE DEF a, b
<1>5. Outcome(d, a, IDs(d.p0), 0) /\ Outcome(d, b, IDs(d.p0), 0)
  BY <1>1, <1>3, <1>4, LostOutcome
<1>6. QED  BY <1>5 DEF a, b, x

\* Elements that are held back, or shown at once.
LEMMA HeldOutcome ==
  ASSUME NEW d, NEW x, Ready(d)
  PROVE  /\ Outcome(d, [d EXCEPT !.exceptRet = <<x>>], IDs(d.p0), 0)
         /\ Outcome(d, [d EXCEPT !.ite = <<x>>], IDs(d.p0), 0)
         /\ Outcome(d, [d EXCEPT !.elements = Append(@, x)], IDs(d.p0), 0)
         /\ Outcome(d, [Emit(d, x) EXCEPT !.eotPending = TRUE], IDs(d.p0), 0)
<1>1. Data(d) /\ Len(<<x>>) <= 1
  BY DEF Ready, Steady
<1>2. Quiet(d, [d EXCEPT !.exceptRet = <<x>>])
  BY <1>1 DEF Data, OneAtMost, Quiet, Kept, DecoderFields
<1>3. Quiet(d, [d EXCEPT !.ite = <<x>>])
  BY <1>1 DEF Data, OneAtMost, Quiet, Kept, DecoderFields
<1>4. Quiet(d, [d EXCEPT !.elements = Append(@, x)])
  BY <1>1 DEF Data, OneAtMost, Quiet, Kept, DecoderFields
<1>5. Quiet(d, [Emit(d, x) EXCEPT !.eotPending = TRUE])
  BY <1>1 DEF Data, OneAtMost, Quiet, Kept, Emit, DecoderFields
<1>6. QED  BY <1>2, <1>3, <1>4, <1>5, QuietOutcome

----------------------------------------------------------------------------
(* Every packet.                                                           *)

\* The elements in doubt with those of packet p, without those that it takes back.
Brings(d, p, index) ==
  CASE p.type \in {"Atom", "Cancel"} -> AtomIDs(p.atoms, index)
    [] p.type = "Q" /\ p.present     -> << <<index, 1>> >>
    [] p.type = "Trans" /\ p.val = "Start" /\ config.transP0 -> << <<index, 1>> >>
    [] p.type = "Address" /\ d.exception # <<>> /\ config.maxSpec > 0 ->
         << <<d.exception[1].index, 1>> >>
    [] OTHER -> <<>>
LeftOf(d, p, index) == Doubt!Keep(IDs(d.p0) \o Brings(d, p, index), Gone(p))

Enters(d, p, index) ==
  \/ Brings(d, p, index) # <<>> \/ p.type \in {"Atom", "Cancel", "Q", "Trans"}
  \/ p.type = "PEReset" /\ ShouldQueue(d)

\* How many of them are resolved.
CountOf(d, p, index) ==
  CASE p.type = "Commit" -> p.num
    [] p.type = "CycleCount" /\ ~config.opt1 /\ p.num >= 0 -> p.num
    [] Enters(d, p, index) -> Over(d, LeftOf(d, p, index))
    [] OTHER -> 0

\* With nothing taken back all elements are left.
LEMMA KeepAll == ASSUME NEW s, IsSeq(s) PROVE Doubt!Keep(s, 0) = s
<1>1. Len(s) \in Nat /\ Len(s) - 0 = Len(s)
  BY AnySeqLen
<1>2. Max({0, Len(s)}) = Len(s)
  BY <1>1, MaxPair
<1>3. Doubt!Max({0, Len(s) - 0}) = Len(s)
  BY <1>1, <1>2, DoubtMax
<1>4. Doubt!Keep(s, 0) = SubSeq(s, 1, Len(s))
  BY <1>3 DEF Doubt!Keep
<1>5. QED  BY <1>4, PrefixEnds DEF Prefix

\* What a packet that is no cancel leaves in doubt, before the oldest are resolved.
LEMMA PlainLeft ==
  ASSUME NEW d, NEW p, NEW index, Steady(d), p.type # "Cancel"
  PROVE  /\ Brings(d, p, index) = <<>> => LeftOf(d, p, index) = IDs(d.p0)
         /\ \A x : Brings(d, p, index) = <<x>> => LeftOf(d, p, index) = Append(IDs(d.p0), x)
<1>1. IsSeq(IDs(d.p0))
  BY SteadyNumbers
<1>2. Gone(p) = 0
  BY DEF Gone
<1>3. IDs(d.p0) \o <<>> = IDs(d.p0) /\ Doubt!Keep(IDs(d.p0), 0) = IDs(d.p0)
  BY <1>1, AnyNoMore, KeepAll
<1>4. ASSUME NEW x
      PROVE  Doubt!Keep(IDs(d.p0) \o <<x>>, 0) = Append(IDs(d.p0), x)
  <2>1. Append(IDs(d.p0), x) = IDs(d.p0) \o <<x>> /\ IsSeq(Append(IDs(d.p0), x))
    BY <1>1, AnyAppend, AppendFacts
  <2>2. QED  BY <2>1, KeepAll
<1>5. QED  BY <1>2, <1>3, <1>4 DEF LeftOf

DecoderTypes ==
  {"ASync", "NotSync", "Ignore", "Bad", "PEReset", "TraceOn", "ExceptionReturn", "ITE",
   "Timestamp", "TSMarker", "Event", "Overflow", "Discard", "TraceInfo", "Trans", "Context",
   "Address", "SrcAddr", "Atom", "Commit", "Cancel", "Exception", "CycleCount", "Q"}

\* The fields of a packet.
LEMMA PacketFields ==
  ASSUME NEW p \in DecoderPackets
  PROVE  /\ p.type \in DecoderTypes
         /\ p.type = "TraceInfo" => p.depth \in {-1} \cup Depths
         /\ p.type = "Address" => p.addr \in Nat
         /\ p.type = "Atom" => p.atoms \in AtomRuns
         /\ p.type = "Commit" => p.num \in Nat
         /\ p.type = "Cancel" => p.atoms \in AtomRuns /\ p.num \in Nat
         /\ p.type = "CycleCount" => p.num \in {-1} \cup Nat
         /\ p.type = "Q" => p.addr \in Nat
BY DEF DecoderPackets, DecoderTypes

\* A packet that brings nothing, and resolves nothing.
LEMMA PlainPacket ==
  ASSUME NEW d, NEW p, NEW index, Steady(d),
         p.type \in {"ASync", "NotSync", "Ignore", "Bad", "TraceOn", "ExceptionReturn", "ITE",
                     "Timestamp", "TSMarker", "Event", "Overflow", "Discard", "Context",
                     "SrcAddr", "Exception"}
  PROVE  LeftOf(d, p, index) = IDs(d.p0) /\ CountOf(d, p, index) = 0
<1>1. Brings(d, p, index) = <<>>
  BY DEF Brings
<1>2. LeftOf(d, p, index) = IDs(d.p0)
  BY <1>1, PlainLeft
<1>3. ~Enters(d, p, index)
  BY <1>1 DEF Enters
<1>4. CountOf(d, p, index) = 0
  BY <1>3 DEF CountOf
<1>5. QED  BY <1>2, <1>4

\* Every packet in sync, but a TraceInfo.
LEMMA DecodeOutcome ==
  ASSUME NEW d, NEW p \in DecoderPackets, NEW index, Ready(d), config.maxSpec \in Depths,
         p.type # "TraceInfo"
  PROVE  Outcome(d, decodePacket(d, p, index), LeftOf(d, p, index), CountOf(d, p, index))
<1> DEFINE Goal == Outcome(d, decodePacket(d, p, index), LeftOf(d, p, index), CountOf(d, p, index))
<1>0. Steady(d) /\ Data(d) /\ p.type \in DecoderTypes
  BY PacketFields DEF Ready, Steady
<1>1. CASE p.type \in {"ASync", "NotSync", "Ignore"}
  <2>1. decodePacket(d, p, index) = d
    BY <1>1 DEF decodePacket
  <2>2. Outcome(d, d, IDs(d.p0), 0)
    BY StillOutcome DEF Ready
  <2>3. LeftOf(d, p, index) = IDs(d.p0) /\ CountOf(d, p, index) = 0
    BY <1>0, <1>1, PlainPacket
  <2>4. QED  BY <2>1, <2>2, <2>3
<1>2. CASE p.type = "Bad"
  <2>1. decodePacket(d, p, index) = resetDecoder([d EXCEPT !.unsync = "BadPacket"])
    BY <1>2 DEF decodePacket
  <2>2. LeftOf(d, p, index) = IDs(d.p0) /\ CountOf(d, p, index) = 0
    BY <1>0, <1>2, PlainPacket
  <2>3. QED  BY <2>1, <2>2, BadOutcome
<1>3. CASE p.type = "Trans"
  <2>1. decodePacket(d, p, index) = DecodeTrans(d, p, index)
    BY <1>3 DEF decodePacket
  <2> DEFINE start == p.val = "Start" /\ config.transP0
  <2>2. Brings(d, p, index) = IF start THEN << <<index, 1>> >> ELSE <<>>
    BY <1>3 DEF Brings
  <2>3. LeftOf(d, p, index) = IF start THEN Append(IDs(d.p0), <<index, 1>>) ELSE IDs(d.p0)
    BY <1>0, <1>3, <2>2, PlainLeft
  <2>4. CountOf(d, p, index) = Over(d, LeftOf(d, p, index))
    BY <1>3 DEF CountOf, Enters
  <2>5. QED  BY <2>1, <2>3, <2>4, TransOutcome
<1>4. CASE p.type = "PEReset"
  <2>1. decodePacket(d, p, index) = DecodePEReset(d, index)
    BY <1>4 DEF decodePacket
  <2>2. Brings(d, p, index) = <<>>
    BY <1>4 DEF Brings
  <2>3. LeftOf(d, p, index) = IDs(d.p0)
    BY <1>0, <1>4, <2>2, PlainLeft
  <2>4. CountOf(d, p, index) = IF ShouldQueue(d) THEN Over(d, IDs(d.p0)) ELSE 0
    BY <1>4, <2>2, <2>3 DEF CountOf, Enters
  <2>5. QED  BY <2>1, <2>3, <2>4, PEResetOutcome
<1>5. CASE p.type = "TraceOn"
  <2>1. decodePacket(d, p, index) = DecodeTraceOn(d, index)
    BY <1>5 DEF decodePacket
  <2>2. LeftOf(d, p, index) = IDs(d.p0) /\ CountOf(d, p, index) = 0
    BY <1>0, <1>5, PlainPacket
  <2>3. QED  BY <2>1, <2>2, TraceOnOutcome
<1>6. CASE p.type = "Context"
  <2>1. decodePacket(d, p, index) = DecodeContext(d, p, index)
    BY <1>6 DEF decodePacket
  <2>2. LeftOf(d, p, index) = IDs(d.p0) /\ CountOf(d, p, index) = 0
    BY <1>0, <1>6, PlainPacket
  <2>3. QED  BY <2>1, <2>2, ContextOutcome
<1>7. CASE p.type = "Address"
  <2> DEFINE in == d.exception # <<>> /\ config.maxSpec > 0
             id == <<d.exception[1].index, 1>>
             ids == IF in THEN Append(IDs(d.p0), id) ELSE IDs(d.p0)
             e == ResolveException(d, p.addr)
             k == IF in THEN Over(d, ids) ELSE 0
  <2>1. decodePacket(d, p, index) = TakeAddress(e, p, index)
    BY <1>7 DEF decodePacket, DecodeAddress
  <2>2. Brings(d, p, index) = IF in THEN <<id>> ELSE <<>>
    BY <1>7 DEF Brings
  <2>3. LeftOf(d, p, index) = ids
    BY <1>0, <1>7, <2>2, PlainLeft
  <2>4. CountOf(d, p, index) = k
    <3>1. Enters(d, p, index) <=> in
      <4>1. <<id>> # <<>>
        OBVIOUS
      <4> HIDE DEF id, in
      <4>2. QED  BY <1>7, <2>2, <4>1 DEF Enters
    <3> HIDE DEF in, ids
    <3>2. CountOf(d, p, index) = IF Enters(d, p, index) THEN Over(d, LeftOf(d, p, index)) ELSE 0
      BY <1>7 DEF CountOf
    <3>3. QED  BY <2>3, <3>1, <3>2
  <2>5. Outcome(d, e, ids, k) /\ (e.state = "Pkts" \/ e.p0 = <<>>)
    BY ExceptionOutcome
  <2>6. p.addr \in Nat
    BY <1>7, PacketFields
  <2> HIDE DEF e, ids, k
  <2>7. Outcome(d, TakeAddress(e, p, index), ids, k)
    BY <2>5, <2>6, TakeAddressOutcome
  <2>8. QED  BY <2>1, <2>3, <2>4, <2>7
<1>8. CASE p.type = "SrcAddr"
  <2>1. decodePacket(d, p, index) = processSourceAddress(d, p, index)
    BY <1>8 DEF decodePacket
  <2>2. LeftOf(d, p, index) = IDs(d.p0) /\ CountOf(d, p, index) = 0
    BY <1>0, <1>8, PlainPacket
  <2>3. Runs(d, processSourceAddress(d, p, index))
    BY <1>0, SourceAddressRuns
  <2>4. QED  BY <2>1, <2>2, <2>3, RunsOutcome
<1>9. CASE p.type = "Atom"
  <2>1. decodePacket(d, p, index) = commitOverSpecDepth(queueAtoms(d, p.atoms, index))
    BY <1>9 DEF decodePacket
  <2>2. p.atoms \in AtomRuns
    BY <1>9, PacketFields
  <2> DEFINE ids == IDs(d.p0) \o AtomIDs(p.atoms, index)
  <2>3. LeftOf(d, p, index) = ids
    <3>1. Brings(d, p, index) = AtomIDs(p.atoms, index) /\ Gone(p) = 0
      BY <1>9 DEF Brings, Gone
    <3>2. IsSeq(ids)
      <4> DEFINE x == queueAtoms(d, p.atoms, index)
      <4>1. Steady(x) /\ IDs(x.p0) = ids
        BY <1>0, <2>2, QueueAtomsFacts
      <4> HIDE DEF x, ids
      <4>2. QED  BY <4>1, SteadyNumbers
    <3>3. Doubt!Keep(ids, 0) = ids
      <4> HIDE DEF ids
      <4>1. QED  BY <3>2, KeepAll
    <3>4. QED  BY <3>1, <3>3 DEF LeftOf
  <2>4. CountOf(d, p, index) = Over(d, LeftOf(d, p, index))
    BY <1>9 DEF CountOf, Enters
  <2>5. Outcome(d, commitOverSpecDepth(queueAtoms(d, p.atoms, index)), ids, Over(d, ids))
    BY <2>2, AtomOutcome
  <2> HIDE DEF ids
  <2>6. QED  BY <2>1, <2>3, <2>4, <2>5
<1>10. CASE p.type = "Commit"
  <2>1. decodePacket(d, p, index) = commitPendingAtoms(d, p.num)
    BY <1>10 DEF decodePacket
  <2>2. p.num \in Nat /\ config.maxSpec \in Nat
    BY <1>10, PacketFields DEF Depths
  <2>3. LeftOf(d, p, index) = IDs(d.p0)
    <3>1. Brings(d, p, index) = <<>>
      BY <1>10 DEF Brings
    <3>2. QED  BY <1>0, <1>10, <3>1, PlainLeft
  <2>4. CountOf(d, p, index) = p.num
    <3>1. ~Enters(d, p, index)
      <4>1. Brings(d, p, index) = <<>>
        BY <1>10 DEF Brings
      <4>2. QED  BY <1>10, <4>1 DEF Enters
    <3>2. QED  BY <1>10, <3>1 DEF CountOf
  <2>5. QED  BY <2>1, <2>2, <2>3, <2>4, PendingOutcome
<1>11. CASE p.type = "Cancel"
  <2>1. decodePacket(d, p, index) = resolveSpeculation(d, p, index)
    BY <1>11 DEF decodePacket
  <2>2. p.atoms \in AtomRuns /\ p.num \in Nat
    BY <1>11, PacketFields
  <2>3. LeftOf(d, p, index) = Doubt!Keep(IDs(d.p0) \o AtomIDs(p.atoms, index), p.num)
    BY <1>11 DEF LeftOf, Brings, Gone
  <2>4. CountOf(d, p, index) = Over(d, LeftOf(d, p, index))
    BY <1>11 DEF CountOf, Enters
  <2>5. QED  BY <2>1, <2>2, <2>3, <2>4, CancelOutcome
<1>12. CASE p.type = "Exception"
  <2>1. decodePacket(d, p, index) = DecodeException(d, p, index)
    BY <1>12 DEF decodePacket
  <2>2. LeftOf(d, p, index) = IDs(d.p0) /\ CountOf(d, p, index) = 0
    BY <1>0, <1>12, PlainPacket
  <2>3. QED  BY <2>1, <2>2, DecodeExceptionOutcome
<1>13. CASE p.type \in {"ExceptionReturn", "ITE", "Timestamp", "TSMarker", "Event"}
  <2>1. LeftOf(d, p, index) = IDs(d.p0) /\ CountOf(d, p, index) = 0
    BY <1>0, <1>13, PlainPacket
  <2>2. \E x : \/ decodePacket(d, p, index) = [d EXCEPT !.exceptRet = <<x>>]
               \/ decodePacket(d, p, index) = [d EXCEPT !.ite = <<x>>]
               \/ decodePacket(d, p, index) = [d EXCEPT !.elements = Append(@, x)]
               \/ decodePacket(d, p, index) = [Emit(d, x) EXCEPT !.eotPending = TRUE]
    BY <1>13 DEF decodePacket
  <2>3. QED  BY <2>1, <2>2, HeldOutcome
<1>14. CASE p.type = "CycleCount"
  <2>1. decodePacket(d, p, index) = DecodeCycleCount(d, p, index)
    BY <1>14 DEF decodePacket
  <2>2. p.num \in {-1} \cup Nat
    BY <1>14, PacketFields
  <2>3. Brings(d, p, index) = <<>>
    BY <1>14 DEF Brings
  <2>4. LeftOf(d, p, index) = IDs(d.p0)
    BY <1>0, <1>14, <2>3, PlainLeft
  <2>5. ~Enters(d, p, index)
    BY <1>14, <2>3 DEF Enters
  <2>6. CountOf(d, p, index) = IF ~config.opt1 /\ p.num >= 0 THEN p.num ELSE 0
    BY <1>14, <2>5 DEF CountOf
  <2>7. QED  BY <2>1, <2>2, <2>4, <2>6, CycleCountOutcome
<1>15. CASE p.type \in {"Overflow", "Discard"}
  <2>1. LeftOf(d, p, index) = IDs(d.p0) /\ CountOf(d, p, index) = 0
    BY <1>0, <1>15, PlainPacket
  <2> DEFINE a(r) == [LoseSync(d, r, index) EXCEPT !.prevOverflow = TRUE]
             b(r) == [LoseSync(d, r, index) EXCEPT !.eotPending = TRUE]
  <2>2. decodePacket(d, p, index) \in {a("Overflow"), b("Discard")}
    BY <1>15 DEF decodePacket
  <2>3. Outcome(d, a("Overflow"), IDs(d.p0), 0) /\ Outcome(d, b("Discard"), IDs(d.p0), 0)
    BY LoseOutcome
  <2> HIDE DEF a, b
  <2>4. QED  BY <2>1, <2>2, <2>3
<1>16. CASE p.type = "Q"
  <2>1. decodePacket(d, p, index) = DecodeQ(d, p, index)
    BY <1>16 DEF decodePacket
  <2>2. p.addr \in Nat
    BY <1>16, PacketFields
  <2>3. Brings(d, p, index) = IF p.present THEN << <<index, 1>> >> ELSE <<>>
    BY <1>16 DEF Brings
  <2>4. LeftOf(d, p, index) = IF p.present THEN Append(IDs(d.p0), <<index, 1>>) ELSE IDs(d.p0)
    BY <1>0, <1>16, <2>3, PlainLeft
  <2>5. CountOf(d, p, index) = Over(d, LeftOf(d, p, index))
    BY <1>16 DEF CountOf, Enters
  <2>6. QED  BY <2>1, <2>2, <2>4, <2>5, QOutcome
<1> HIDE DEF Goal
<1>17. QED
  BY <1>0, <1>1, <1>2, <1>3, <1>4, <1>5, <1>6, <1>7, <1>8, <1>9, <1>10, <1>11, <1>12, <1>13,
     <1>14, <1>15, <1>16 DEF DecoderTypes

\* What a TraceInfo does to the elements in doubt.
Informed(d, e, p) ==
  /\ Steady(e) /\ e.state = "Pkts" /\ e.respec \in BOOLEAN
  /\ e.respec = FALSE => Accounted(e) /\ Bounded(e)
  /\ e.resolved = d.resolved /\ IDs(e.p0) = IDs(d.p0)
  /\ e.unseenSpec = IF p.depth < 0 THEN d.unseenSpec ELSE p.depth

\* Between two packets, and at the end of the trace.
Between(d) ==
  /\ Steady(d) /\ d.respec \in BOOLEAN
  /\ \/ d.state = "Pkts" /\ (d.respec = FALSE => Accounted(d) /\ Bounded(d))
     \/ OutOfSync(d)

Spent(d) ==
  /\ Steady(d) /\ d.respec \in BOOLEAN /\ d.p0 = <<>>
  /\ d.state = "Pkts" \/ OutOfSync(d)

\* The decoder at the start of packet p.
AtStart(d0) == [d0 EXCEPT !.halt = FALSE, !.lost = FALSE, !.seenData = TRUE]
Seeking(d, p) == [d EXCEPT !.state = IF p.type = "ASync" THEN "WaitTInfo" ELSE "WaitSync"]
InSync(d, p) ==
  [d EXCEPT !.needAddr = @ \/ d.state = "WaitTInfo",
            !.state = IF p.type = "TraceInfo" THEN "Pkts" ELSE @]

\* All but the state of the search and the place.
Alike(d, e) ==
  /\ e.unseenSpec = d.unseenSpec /\ e.specDepth = d.specDepth /\ e.resolved = d.resolved
  /\ e.respec = d.respec /\ e.exception = d.exception /\ e.p0 = d.p0
  /\ e.stack = d.stack /\ e.popPending = d.popPending

\* Nothing that counts changes before the packet is looked at.
LEMMA StartFacts ==
  ASSUME NEW d0, NEW p, Steady(d0)
  PROVE  LET d == AtStart(d0)
         IN  /\ Steady(d) /\ Alike(d0, d) /\ d.state = d0.state /\ d.lost = FALSE
             /\ Steady(Seeking(d, p)) /\ Alike(d0, Seeking(d, p))
             /\ Seeking(d, p).state \in {"WaitTInfo", "WaitSync"}
             /\ Steady(InSync(d, p)) /\ Alike(d0, InSync(d, p)) /\ InSync(d, p).lost = FALSE
             /\ InSync(d, p).state = IF p.type = "TraceInfo" THEN "Pkts" ELSE d0.state
<1> DEFINE d == AtStart(d0)
           s == Seeking(d, p)
           i == InSync(d, p)
<1>1. Steady(d) /\ Alike(d0, d) /\ d.state = d0.state /\ d.lost = FALSE
  BY DEF AtStart, Alike, Steady, Data, OneAtMost, DecoderFields
<1> HIDE DEF d
<1>2. Steady(s) /\ Alike(d, s) /\ s.state \in {"WaitTInfo", "WaitSync"}
  BY <1>1 DEF Seeking, Alike, Steady, Data, OneAtMost, DecoderFields
<1>3. Steady(i) /\ Alike(d, i) /\ i.lost = d.lost
      /\ i.state = IF p.type = "TraceInfo" THEN "Pkts" ELSE d.state
  <2> DEFINE n == d.needAddr \/ d.state = "WaitTInfo"
             t == IF p.type = "TraceInfo" THEN "Pkts" ELSE d.state
  <2>1. i = [d EXCEPT !.needAddr = n, !.state = t]
    BY DEF InSync
  <2>2. n \in BOOLEAN
    OBVIOUS
  <2> HIDE DEF n, i
  <2>3. Steady(i) /\ Alike(d, i) /\ i.lost = d.lost /\ i.state = t
    BY <1>1, <2>1, <2>2 DEF Alike, Steady, Data, OneAtMost, DecoderFields
  <2>4. QED  BY <2>3
<1> HIDE DEF s, i
<1>4. Alike(d0, s) /\ Alike(d0, i)
  BY <1>1, <1>2, <1>3 DEF Alike
<1>5. QED  BY <1>1, <1>2, <1>3, <1>4 DEF d, s, i

\* What processPacket does in every state of the search.
LEMMA PacketCases ==
  ASSUME NEW d0, NEW p, NEW index, Steady(d0)
  PROVE  LET d == AtStart(d0)
             e == processPacket(d0, p, index)
         IN  \/ d0.state = "NoSync" /\ e = Emit(Seeking(d, p), Elem("NoSync", index, d.unsync))
             \/ d0.state = "WaitSync" /\ e = Seeking(d, p)
             \/ (d0.state = "Pkts" \/ (d0.state = "WaitTInfo" /\ p.type \in {"TraceInfo", "Event"}))
                /\ e = decodePacket(InSync(d, p), p, index)
             \/ d0.state # "Pkts" /\ p.type # "TraceInfo" /\ d0.state \notin {"NoSync", "WaitSync"}
                /\ e = InSync(d, p)
             \/ d0.state \notin {"NoSync", "WaitSync", "Pkts", "WaitTInfo"}
<1> DEFINE d == AtStart(d0)
           e == processPacket(d0, p, index)
           a == Emit(Seeking(d, p), Elem("NoSync", index, d.unsync))
           b == Seeking(d, p)
           i == InSync(d, p)
           c == decodePacket(i, p, index)
<1>1. d.state = d0.state
  BY StartFacts
<1>2. e = CASE d.state = "NoSync"   -> a
            [] d.state = "WaitSync" -> b
            [] d.state = "Pkts" \/ (d.state = "WaitTInfo" /\ p.type \in {"TraceInfo", "Event"}) -> c
            [] OTHER -> i
  BY DEF processPacket, AtStart, Seeking, InSync
<1> HIDE DEF e, a, b, c, i, d
<1>3. \/ d.state = "NoSync" /\ e = a
      \/ d.state = "WaitSync" /\ e = b
      \/ (d.state = "Pkts" \/ (d.state = "WaitTInfo" /\ p.type \in {"TraceInfo", "Event"})) /\ e = c
      \/ d.state # "Pkts" /\ ~(d.state = "WaitTInfo" /\ p.type \in {"TraceInfo", "Event"})
         /\ d.state \notin {"NoSync", "WaitSync"} /\ e = i
  BY <1>2
<1>4. QED  BY <1>1, <1>3 DEF e, a, b, c, i, d

\* Out of sync the decoder searches; nothing else changes.
LEMMA AlikeOutOfSync ==
  ASSUME NEW d, NEW e, OutOfSync(d), Alike(d, e), e.state \in {"NoSync", "WaitSync", "WaitTInfo"}
  PROVE  OutOfSync(e)
BY DEF OutOfSync, Alike

\* In sync, or with the TraceInfo that begins the trace, the decoder is ready for a
\* packet.
LEMMA InSyncReady ==
  ASSUME NEW d0, NEW p, Between(d0),
         d0.state = "Pkts" \/ p.type = "TraceInfo"
  PROVE  Ready(InSync(AtStart(d0), p))
<1> DEFINE i == InSync(AtStart(d0), p)
<1>1. Steady(i) /\ Alike(d0, i) /\ i.lost = FALSE /\ i.state = "Pkts"
  <2>1. Steady(d0)
    BY DEF Between
  <2>2. /\ Steady(i) /\ Alike(d0, i) /\ i.lost = FALSE
        /\ i.state = IF p.type = "TraceInfo" THEN "Pkts" ELSE d0.state
    BY <2>1, StartFacts
  <2>3. QED  BY <2>2
<1>2. d0.respec = FALSE => Accounted(d0) /\ Bounded(d0)
  <2>1. CASE OutOfSync(d0)
    <3>1. Depth(d0.p0) = 0 /\ d0.specDepth = 0 /\ d0.unseenSpec = 0
      BY <2>1, FS_EmptySet DEF OutOfSync, Depth
    <3>2. QED  BY <3>1 DEF Accounted, Bounded
  <2>2. QED  BY <2>1 DEF Between
<1> HIDE DEF i
<1>3. i.respec = FALSE => Accounted(i) /\ Bounded(i)
  BY <1>1, <1>2 DEF Alike, Accounted, Bounded
<1>4. Ready(i)
  BY <1>1, <1>3 DEF Ready
<1>5. QED  BY <1>4 DEF i

\* What a packet does in sync.
LEMMA PacketOutcome ==
  ASSUME NEW d0, NEW p \in DecoderPackets, NEW index, Between(d0), config.maxSpec \in Depths,
         d0.state = "Pkts" \/ (d0.state = "WaitTInfo" /\ p.type = "TraceInfo")
  PROVE  LET e == processPacket(d0, p, index)
         IN  /\ p.type # "TraceInfo" =>
                  Outcome(d0, e, LeftOf(d0, p, index), CountOf(d0, p, index))
             /\ p.type = "TraceInfo" => Informed(d0, e, p)
<1> DEFINE i == InSync(AtStart(d0), p)
           e == processPacket(d0, p, index)
           c == decodePacket(i, p, index)
<1>1. Steady(d0) /\ d0.respec \in BOOLEAN
  BY DEF Between
<1>2. e = c
  BY <1>1, PacketCases
<1>3. Ready(i) /\ Alike(d0, i)
  BY <1>1, InSyncReady, StartFacts
<1> HIDE DEF i, e, c
<1>4. ASSUME p.type # "TraceInfo"
      PROVE  Outcome(d0, c, LeftOf(d0, p, index), CountOf(d0, p, index))
  <2>1. Outcome(i, c, LeftOf(i, p, index), CountOf(i, p, index))
    BY <1>3, <1>4, DecodeOutcome DEF c
  <2>2. Brings(i, p, index) = Brings(d0, p, index)
    BY <1>3 DEF Brings, Alike
  <2>3. LeftOf(i, p, index) = LeftOf(d0, p, index)
    BY <1>3, <2>2 DEF LeftOf, Alike
  <2>4. Enters(i, p, index) <=> Enters(d0, p, index)
    BY <1>3, <2>2 DEF Enters, ShouldQueue, Alike
  <2>5. \A ids : Over(i, ids) = Over(d0, ids)
    BY <1>3 DEF Over, Alike
  <2>6. CountOf(i, p, index) = CountOf(d0, p, index)
    BY <2>3, <2>4, <2>5 DEF CountOf
  <2>7. Outcome(i, c, LeftOf(d0, p, index), CountOf(d0, p, index))
    BY <2>1, <2>3, <2>6
  <2>8. QED  BY <1>3, <2>7 DEF Outcome, Committed, Dropped, Alike
<1>5. ASSUME p.type = "TraceInfo"
      PROVE  Informed(d0, c, p)
  <2>1. p.depth \in {-1} \cup Depths /\ i.respec \in BOOLEAN
    BY <1>1, <1>3, <1>5, PacketFields DEF Alike
  <2>2. c = DecodeTraceInfo(i, p, index)
    BY <1>5 DEF c, decodePacket
  <2>3. Informed(i, DecodeTraceInfo(i, p, index), p)
    BY <1>3, <2>1, InfoOutcome DEF Informed
  <2>4. QED  BY <1>3, <2>2, <2>3 DEF Informed, Alike
<1>6. QED  BY <1>2, <1>4, <1>5 DEF e

\* Every packet leads from one state between packets to the next.
LEMMA PacketBetween ==
  ASSUME NEW d0, NEW p \in DecoderPackets, NEW index, Between(d0), config.maxSpec \in Depths
  PROVE  Between(processPacket(d0, p, index))
<1> DEFINE d == AtStart(d0)
           e == processPacket(d0, p, index)
           s == Seeking(d, p)
           i == InSync(d, p)
           x == Elem("NoSync", index, d.unsync)
           c == decodePacket(i, p, index)
<1>1. Steady(d0) /\ d0.respec \in BOOLEAN /\ d0.state \in {"NoSync", "WaitSync", "WaitTInfo", "Pkts"}
      /\ (d0.state # "Pkts" => OutOfSync(d0))
  BY DEF Between, OutOfSync
<1>2. /\ Steady(s) /\ Alike(d0, s) /\ s.state \in {"WaitTInfo", "WaitSync"}
      /\ Steady(i) /\ Alike(d0, i)
      /\ i.state = IF p.type = "TraceInfo" THEN "Pkts" ELSE d0.state
  BY <1>1, StartFacts
<1>3. \/ d0.state = "NoSync" /\ e = Emit(s, x)
      \/ d0.state = "WaitSync" /\ e = s
      \/ (d0.state = "Pkts" \/ (d0.state = "WaitTInfo" /\ p.type \in {"TraceInfo", "Event"})) /\ e = c
      \/ d0.state # "Pkts" /\ p.type # "TraceInfo" /\ d0.state \notin {"NoSync", "WaitSync"} /\ e = i
  BY <1>1, PacketCases
<1> HIDE DEF d, s, i, x
<1>4. d0.state # "Pkts" => OutOfSync(s) /\ Between(s)
  <2> HAVE d0.state # "Pkts"
  <2>1. OutOfSync(s)
    BY <1>1, <1>2, AlikeOutOfSync
  <2>2. QED  BY <1>1, <1>2, <2>1 DEF Between, Alike
<1>5. CASE d0.state = "NoSync" /\ e = Emit(s, x)
  <2> DEFINE f == Emit(s, x)
  <2>1. Quiet(s, f) /\ f.stack = s.stack /\ f.popPending = s.popPending
    <3>1. Quiet(s, f)
      BY <1>2, EmitQuiet DEF Steady
    <3>2. f.stack = s.stack /\ f.popPending = s.popPending
      BY <1>2 DEF Emit, Steady, Data, DecoderFields
    <3>3. QED  BY <3>1, <3>2
  <2> HIDE DEF f
  <2>2. Steady(f) /\ Aside(s, f) /\ f.p0 = s.p0 /\ f.specDepth = s.specDepth
    BY <1>2, <2>1, QuietSteady
  <2>3. OutOfSync(f)
    BY <1>4, <1>5, <2>1, <2>2 DEF OutOfSync, Aside
  <2>4. Between(f)
    BY <1>1, <1>2, <2>2, <2>3 DEF Between, Aside, Alike
  <2>5. QED  BY <1>5, <2>4 DEF f
<1>6. CASE d0.state = "WaitSync" /\ e = s
  BY <1>4, <1>6
<1>7. CASE d0.state = "Pkts" \/ (d0.state = "WaitTInfo" /\ p.type = "TraceInfo")
  <2>1. /\ p.type # "TraceInfo" => Outcome(d0, e, LeftOf(d0, p, index), CountOf(d0, p, index))
        /\ p.type = "TraceInfo" => Informed(d0, e, p)
    BY <1>7, PacketOutcome
  <2> HIDE DEF e
  <2>2. Between(e)
    BY <1>1, <2>1 DEF Between, Outcome, Informed
  <2>3. QED  BY <2>2 DEF e
<1>8. CASE d0.state = "WaitTInfo" /\ p.type = "Event" /\ e = c
  <2> DEFINE f == [Emit(i, Elem("Event", index, 0)) EXCEPT !.eotPending = TRUE]
  <2>1. c = f
    BY <1>8 DEF decodePacket
  <2>2. OutOfSync(i) /\ Data(i)
    BY <1>1, <1>2, <1>8, AlikeOutOfSync DEF Steady
  <2>3. Quiet(i, f) /\ f.stack = i.stack /\ f.popPending = i.popPending
    BY <2>2 DEF Data, OneAtMost, Quiet, Kept, Emit, DecoderFields
  <2> HIDE DEF f
  <2>4. Steady(f) /\ Aside(i, f) /\ f.p0 = i.p0 /\ f.specDepth = i.specDepth
    BY <1>2, <2>3, QuietSteady
  <2>5. OutOfSync(f)
    BY <2>2, <2>3, <2>4 DEF OutOfSync, Aside
  <2>6. Between(f)
    BY <1>1, <1>2, <2>4, <2>5 DEF Between, Aside, Alike
  <2>7. QED  BY <1>8, <2>1, <2>6
<1>9. CASE d0.state = "WaitTInfo" /\ p.type # "TraceInfo" /\ e = i
  <2>1. OutOfSync(i)
    BY <1>1, <1>2, <1>9, AlikeOutOfSync
  <2>2. Between(i)
    BY <1>1, <1>2, <2>1 DEF Between, Alike
  <2>3. QED  BY <1>9, <2>2
<1>10. QED  BY <1>1, <1>3, <1>5, <1>6, <1>7, <1>8, <1>9

\* A new decoder is such a state.
LEMMA NewBetween ==
  ASSUME NEW reason, Depths # {}
  PROVE  Between(NewDecoder(reason))
<1> DEFINE x ==
    [state |-> "NoSync", unsync |-> reason, iAddr |-> 0, needAddr |-> TRUE,
     specDepth |-> 0, unseenSpec |-> 0, traceOn |-> <<>>, contexts |-> <<>>,
     elements |-> <<>>, ite |-> <<>>, exceptRet |-> <<>>, cycleCount |-> <<>>,
     exception |-> <<>>, p0 |-> <<>>, stack |-> <<>>, popPending |-> FALSE,
     prevOverflow |-> FALSE, eotPending |-> FALSE, seenData |-> FALSE,
     halt |-> FALSE, lost |-> FALSE, err |-> FALSE, respec |-> FALSE,
     out |-> <<>>, walk |-> <<>>, resolved |-> <<>>]
           e == resetDecoder(x)
<1>1. DOMAIN x = DecoderFields
  BY DEF DecoderFields
<1>2. /\ x.iAddr = 0 /\ x.needAddr = TRUE /\ x.popPending = FALSE /\ x.stack = <<>>
      /\ x.traceOn = <<>> /\ x.ite = <<>> /\ x.exceptRet = <<>> /\ x.cycleCount = <<>>
      /\ x.exception = <<>> /\ x.respec = FALSE /\ x.resolved = <<>>
  OBVIOUS
<1>3. NewDecoder(reason) = e
  BY DEF NewDecoder
<1> HIDE DEF x
<1>4. Data(x)
  <2>1. Len(<<>>) <= 1 /\ <<>> \in Seq(Nat) /\ Len(<<>>) <= RetStackCap
    BY DepthAssumption
  <2>2. x.iAddr \in Nat
    BY <1>2
  <2>3. x.needAddr \in BOOLEAN /\ x.popPending \in BOOLEAN
    BY <1>2
  <2>4. QED  BY <1>1, <1>2, <2>1, <2>2, <2>3, Zenon DEF Data, OneAtMost
<1>5. /\ Data(e) /\ NothingLeft(e) /\ e.state = "NoSync" /\ e.respec = FALSE /\ e.resolved = <<>>
  BY <1>2, <1>4, ResetClears
<1> HIDE DEF e
<1>6. IsSeq(e.resolved)
  BY <1>5, AnyEmpty
<1>7. Steady(e) /\ OutOfSync(e)
  BY <1>5, <1>6, ClearedSteady
<1>8. Between(e)
  BY <1>5, <1>7 DEF Between
<1>9. QED  BY <1>3, <1>8

\* Reset, with the histories.
ResetOf(d) ==
  [resetDecoder([d EXCEPT !.unsync = "ResetDecoder"])
     EXCEPT !.seenData = FALSE, !.prevOverflow = FALSE, !.eotPending = FALSE,
            !.err = FALSE, !.respec = FALSE,
            !.out = <<>>, !.walk = <<>>, !.resolved = <<>>]

\* A decoder that was reset is, whatever it was before.
LEMMA ResetBetween == ASSUME NEW d, Steady(d) PROVE Between(ResetOf(d))
<1> DEFINE x == [d EXCEPT !.unsync = "ResetDecoder"]
           y == resetDecoder(x)
           e == [y EXCEPT !.seenData = FALSE, !.prevOverflow = FALSE, !.eotPending = FALSE,
                          !.err = FALSE, !.respec = FALSE,
                          !.out = <<>>, !.walk = <<>>, !.resolved = <<>>]
<1>1. Data(x)
  BY DEF Steady, Data, OneAtMost, DecoderFields
<1>2. ResetOf(d) = e
  BY DEF ResetOf
<1> HIDE DEF x
<1>3. Data(y) /\ NothingLeft(y) /\ y.state = "NoSync"
  BY <1>1, ResetClears
<1> HIDE DEF y
<1>4. /\ Data(e) /\ NothingLeft(e) /\ e.state = "NoSync" /\ e.respec = FALSE /\ e.resolved = <<>>
  BY <1>3 DEF Data, OneAtMost, NothingLeft, DecoderFields
<1> HIDE DEF e
<1>5. IsSeq(e.resolved) /\ 0 \in Depths
  BY <1>4, AnyEmpty, SteadyNumbers
<1>6. Steady(e) /\ OutOfSync(e)
  BY <1>4, <1>5, ClearedSteady
<1>7. Between(e)
  BY <1>4, <1>6 DEF Between
<1>8. QED  BY <1>2, <1>7

\* The end of the trace leaves nothing on the stack.
LEMMA EndSpent == ASSUME NEW d, NEW index, Between(d) PROVE Spent(EndOfTrace(d, index))
<1> DEFINE o == d.out \o CertainAtEnd(d.p0) \o d.elements \o d.cycleCount
                  \o (IF EndReported(d)
                      THEN <<Elem("EOTrace", index, IF d.prevOverflow THEN "Overflow" ELSE "EOT")>>
                      ELSE <<>>)
           e == [d EXCEPT !.p0 = <<>>, !.elements = <<>>, !.cycleCount = <<>>, !.out = o]
<1>1. EndOfTrace(d, index) = e
  BY DEF EndOfTrace
<1> HIDE DEF o
<1>2. Steady(d) /\ Entries(<<>>) /\ Len(<<>>) <= 1 /\ d.respec \in BOOLEAN
  BY EntriesEmpty DEF Between
<1>3. /\ Steady(e) /\ e.p0 = <<>> /\ e.state = d.state /\ e.respec = d.respec
      /\ e.specDepth = d.specDepth /\ e.unseenSpec = d.unseenSpec
      /\ e.stack = d.stack /\ e.exception = d.exception /\ e.popPending = d.popPending
  BY <1>2 DEF Steady, Data, OneAtMost, DecoderFields
<1> HIDE DEF e
<1>4. OutOfSync(d) => OutOfSync(e)
  BY <1>2, <1>3, P0Empty DEF OutOfSync
<1>5. Spent(e)
  BY <1>2, <1>3, <1>4 DEF Between, Spent
<1>6. QED  BY <1>1, <1>5

----------------------------------------------------------------------------
(* The inductive invariant: while the trace lasts, the decoder is between  *)
(* two packets; from its end on nothing is on the stack.                   *)

DecoderInv ==
  /\ config \in Configurations /\ menu \in Seq(SUBSET DecoderPackets)
  /\ packets \in 0..Len(menu) /\ parserSync \in BOOLEAN /\ ended \in BOOLEAN
  /\ restarts \in 0..MaxRestarts
  /\ ended = FALSE => Between(dec)
  /\ ended = TRUE  => Spent(dec)

LEMMA ConfigFacts == config \in Configurations => config.maxSpec \in Depths
BY DEF Configurations

\* Which elements can be committed depends on the configuration, and that is fixed.
LEMMA P0Fixed == config' = config => P0At(dec.p0)' = P0At(dec'.p0)
BY DEF P0At, isP0

LEMMA IDsFixed == config' = config => IDs(dec.p0)' = IDs(dec'.p0)
BY P0Fixed DEF IDs

\* Nor does anything else of the invariant depend on what a step changes outside of
\* dec.
LEMMA DecoderFixed ==
  ASSUME config' = config
  PROVE  (Between(dec') => Between(dec)') /\ (Spent(dec') => Spent(dec)')
<1>1. Depth(dec.p0)' = Depth(dec'.p0)
  BY P0Fixed DEF Depth
<1>2. Accounted(dec') => Accounted(dec)'
  BY <1>1 DEF Accounted
<1>3. Bounded(dec') => Bounded(dec)'
  BY <1>1 DEF Bounded
<1>4. OutOfSync(dec') => OutOfSync(dec)'
  BY P0Fixed DEF OutOfSync
<1>5. Steady(dec') => Steady(dec)'
  BY DEF Steady
<1>6. Between(dec') => Between(dec)'
  BY <1>2, <1>3, <1>4, <1>5 DEF Between
<1>7. Spent(dec') => Spent(dec)'
  BY <1>4, <1>5 DEF Spent
<1>8. QED  BY <1>6, <1>7

\* The invariant is inductive: it holds at the start, and every action keeps it.
LEMMA DecoderInitInv == DecoderInit => DecoderInv
<1> SUFFICES ASSUME DecoderInit PROVE DecoderInv
  OBVIOUS
<1>1. PICK s \in Scenarios : config = s.cfg /\ menu = s.menu
  BY DEF DecoderInit
<1>2. config \in Configurations /\ menu \in Seq(SUBSET DecoderPackets)
  BY <1>1, ScenariosAssumption
<1>3. packets = 0 /\ parserSync = FALSE /\ ended = FALSE /\ restarts = 0
      /\ dec = NewDecoder("InitDecoder")
  BY DEF DecoderInit
<1>4. packets \in 0..Len(menu) /\ restarts \in 0..MaxRestarts
  <2>1. Len(menu) \in Nat /\ MaxRestarts \in Nat
    BY <1>2, LenProperties, DepthAssumption
  <2>2. QED  BY <1>3, <2>1
<1>5. Between(dec)
  BY <1>2, <1>3, ConfigFacts, NewBetween
<1>6. QED  BY <1>2, <1>3, <1>4, <1>5 DEF DecoderInv

LEMMA NextPacketInv ==
  ASSUME DecoderInv, NEW p, packets < Len(menu), p \in menu[packets + 1], NextPacket(p)
  PROVE  DecoderInv' /\ p \in DecoderPackets
<1>1. /\ config \in Configurations /\ menu \in Seq(SUBSET DecoderPackets)
      /\ packets \in 0..Len(menu) /\ Len(menu) \in Nat
  BY LenProperties DEF DecoderInv
<1>2. p \in DecoderPackets
  <2>1. packets + 1 \in 1..Len(menu)
    BY <1>1
  <2>2. menu[packets + 1] \in SUBSET DecoderPackets
    BY <1>1, <2>1, LenProperties
  <2>3. QED  BY <2>2
<1>3. ended = FALSE /\ Between(dec)
  BY DEF NextPacket, DecoderInv
<1>4. dec' = processPacket(dec, p, packets + 1) /\ config' = config /\ menu' = menu
      /\ ended' = ended /\ restarts' = restarts /\ packets' = packets + 1
      /\ parserSync' = (parserSync \/ p.type = "ASync")
  BY DEF NextPacket
<1>5. Between(dec')
  BY <1>1, <1>2, <1>3, <1>4, ConfigFacts, PacketBetween
<1>6. Between(dec)'
  BY <1>4, <1>5, DecoderFixed
<1>7. packets' \in 0..Len(menu') /\ parserSync' \in BOOLEAN
  BY <1>1, <1>4
<1>8. config' \in Configurations /\ menu' \in Seq(SUBSET DecoderPackets)
      /\ ended' = FALSE /\ restarts' \in 0..MaxRestarts
  BY <1>1, <1>3, <1>4 DEF DecoderInv
<1>9. DecoderInv'
  BY <1>6, <1>7, <1>8 DEF DecoderInv
<1>10. QED  BY <1>2, <1>9

LEMMA DecoderCloseInv ==
  ASSUME DecoderInv, NEW partial \in BOOLEAN, DecoderClose(partial)
  PROVE  DecoderInv'
<1> DEFINE i == [type |-> "Ignore"]
<1>1. config \in Configurations /\ ended = FALSE /\ Between(dec)
  BY DEF DecoderInv, DecoderClose
<1>2. i \in DecoderPackets
  BY DEF DecoderPackets
<1> HIDE DEF i
<1>3. Between(processPacket(dec, i, packets + 1))
  BY <1>1, <1>2, ConfigFacts, PacketBetween
<1>4. Spent(EndOfTrace(processPacket(dec, i, packets + 1), packets + 1))
      /\ Spent(EndOfTrace(dec, packets))
  BY <1>1, <1>3, EndSpent
<1>5. Spent(dec')
  BY <1>4 DEF DecoderClose, i
<1>6. config' = config /\ menu' = menu /\ packets' = packets /\ parserSync' = parserSync
      /\ ended' = TRUE /\ restarts' = restarts
  BY DEF DecoderClose
<1>7. Spent(dec)'
  BY <1>5, <1>6, DecoderFixed
<1>8. QED  BY <1>6, <1>7 DEF DecoderInv

LEMMA DecoderResetInv == ASSUME DecoderInv, DecoderReset PROVE DecoderInv'
<1>1. Steady(dec)
  BY DEF DecoderInv, Between, Spent
<1>2. dec' = ResetOf(dec)
  BY DEF DecoderReset, ResetOf
<1>3. Between(dec')
  BY <1>1, <1>2, ResetBetween
<1>4. config' = config /\ menu' = menu /\ packets' = 0 /\ parserSync' = FALSE
      /\ ended' = FALSE /\ restarts' = restarts + 1 /\ restarts < MaxRestarts
  BY DEF DecoderReset
<1>5. Between(dec)'
  BY <1>3, <1>4, DecoderFixed
<1>6. packets' \in 0..Len(menu') /\ restarts' \in 0..MaxRestarts
  <2>1. Len(menu) \in Nat /\ MaxRestarts \in Nat /\ restarts \in 0..MaxRestarts
    BY LenProperties, DepthAssumption DEF DecoderInv
  <2>2. QED  BY <1>4, <2>1
<1>7. QED  BY <1>4, <1>5, <1>6 DEF DecoderInv

LEMMA DecoderNextInv == DecoderInv /\ [DecoderNext]_decoderVars => DecoderInv'
<1> SUFFICES ASSUME DecoderInv, [DecoderNext]_decoderVars PROVE DecoderInv'
  OBVIOUS
<1>1. CASE packets < Len(menu) /\ \E p \in menu[packets + 1] : NextPacket(p)
  BY <1>1, NextPacketInv
<1>2. CASE \E partial \in BOOLEAN : DecoderClose(partial)
  BY <1>2, DecoderCloseInv
<1>3. CASE DecoderReset
  BY <1>3, DecoderResetInv
<1>4. CASE UNCHANGED decoderVars
  <2>1. config' = config /\ dec' = dec /\ menu' = menu /\ packets' = packets
        /\ parserSync' = parserSync /\ ended' = ended /\ restarts' = restarts
    BY <1>4 DEF decoderVars
  <2>2. (Between(dec) => Between(dec')) /\ (Spent(dec) => Spent(dec'))
    BY <2>1
  <2>3. (Between(dec') => Between(dec)') /\ (Spent(dec') => Spent(dec)')
    BY <2>1, DecoderFixed
  <2>4. QED  BY <2>1, <2>2, <2>3 DEF DecoderInv
<1>5. QED  BY <1>1, <1>2, <1>3, <1>4 DEF DecoderNext

\* What is common to the states of the invariant.
LEMMA InvFacts ==
  ASSUME DecoderInv
  PROVE  /\ Steady(dec) /\ dec.respec \in BOOLEAN /\ config.maxSpec \in Depths
         /\ dec.state = "Pkts" \/ OutOfSync(dec)
         /\ ended = TRUE => dec.p0 = <<>>
<1>1. config.maxSpec \in Depths
  BY ConfigFacts DEF DecoderInv
<1>2. Between(dec) \/ (ended = TRUE /\ Spent(dec))
  BY DEF DecoderInv
<1>3. ended = TRUE => Spent(dec)
  BY DEF DecoderInv
<1>4. QED  BY <1>1, <1>2, <1>3 DEF Between, Spent

\* What the invariant implies.
LEMMA InvTypes == DecoderInv => DecoderTypeOK
<1> SUFFICES ASSUME DecoderInv PROVE DecoderTypeOK
  OBVIOUS
<1>1. /\ packets \in 0..Len(menu) /\ parserSync \in BOOLEAN /\ ended \in BOOLEAN
      /\ restarts \in 0..MaxRestarts
  BY DEF DecoderInv
<1>2. Steady(dec) /\ (dec.state = "Pkts" \/ OutOfSync(dec))
  BY InvFacts
<1>3. dec.state \in {"NoSync", "WaitSync", "WaitTInfo", "Pkts"}
  BY <1>2 DEF OutOfSync
<1>4. dec.iAddr \in Nat /\ dec.stack \in Seq(Nat) /\ Len(dec.stack) <= RetStackCap
  BY <1>2 DEF Steady, Data
<1>5. dec.needAddr \in BOOLEAN
  BY <1>2 DEF Steady, Data
<1>6. dec.popPending \in BOOLEAN
  BY <1>2 DEF Steady, Data
<1>7. dec.specDepth \in 0..(DepthMod - 1) /\ dec.unseenSpec \in 0..(DepthMod - 1)
  <2>1. dec.specDepth \in 0..(DepthMod - 1)
    BY <1>2 DEF Steady
  <2>2. dec.unseenSpec \in Nat /\ dec.unseenSpec + MaxAtoms < DepthMod /\ DepthMod \in Nat
    BY <1>2, SteadyNumbers
  <2>3. QED  BY <2>1, <2>2 DEF MaxAtoms
<1>8. \A s \in {dec.traceOn, dec.ite, dec.exceptRet, dec.cycleCount, dec.exception} : Len(s) <= 1
  BY <1>2 DEF Steady, Data, OneAtMost
<1>9. \A k \in DOMAIN dec.p0 : dec.p0[k].kind \in
       {"Atom", "Exception", "Address", "CycleCount", "Context", "TraceOn", "Q", "MemTrans"}
  <2>1. IsSeq(dec.p0) /\ Entries(dec.p0)
    BY <1>2, SteadyNumbers DEF Steady
  <2>2. DOMAIN dec.p0 = 1..Len(dec.p0)
    BY <2>1, AnyDomain
  <2>3. QED  BY <2>1, <2>2, EntriesAt DEF EntryOK, EntryKinds
<1>10. QED
  BY <1>1, <1>3, <1>4, <1>5, <1>6, <1>7, <1>8, <1>9 DEF DecoderTypeOK

LEMMA InvAccounted == DecoderInv => DepthAccounted
<1> SUFFICES ASSUME DecoderInv, ~dec.respec, ~ended
             PROVE  dec.specDepth = dec.unseenSpec + Cardinality(P0At(dec.p0))
  BY DEF DepthAccounted
<1>1. dec.respec = FALSE /\ Between(dec)
  BY InvFacts DEF DecoderInv
<1>2. CASE dec.state = "Pkts" /\ Accounted(dec)
  BY <1>2 DEF Accounted, Depth
<1>3. CASE OutOfSync(dec)
  BY <1>3, FS_EmptySet DEF OutOfSync
<1>4. QED  BY <1>1, <1>2, <1>3 DEF Between

LEMMA InvBounded == DecoderInv => StackBounded
<1> SUFFICES ASSUME DecoderInv, ~dec.respec PROVE Depth(dec.p0) <= config.maxSpec
  BY DEF StackBounded, Depth
<1>1. Steady(dec) /\ dec.respec = FALSE /\ config.maxSpec \in Nat
  BY InvFacts DEF Depths
<1>2. dec.unseenSpec \in Nat /\ dec.specDepth \in Nat /\ Depth(dec.p0) \in Nat
  BY <1>1, SteadyNumbers
<1>3. CASE Depth(dec.p0) = 0
  BY <1>1, <1>3
<1>4. CASE Accounted(dec) /\ Bounded(dec)
  BY <1>1, <1>2, <1>3, <1>4 DEF Accounted, Bounded
<1>5. OutOfSync(dec) => Depth(dec.p0) = 0
  BY FS_EmptySet DEF OutOfSync, Depth
<1>6. ended = TRUE => Depth(dec.p0) = 0
  BY InvFacts, P0Empty
<1>7. ended # TRUE => Between(dec)
  BY DEF DecoderInv
<1>8. QED  BY <1>1, <1>3, <1>4, <1>5, <1>6, <1>7 DEF Between

LEMMA InvDrops == DecoderInv => LossDropsDoubt
<1> SUFFICES ASSUME DecoderInv, dec.state # "Pkts" PROVE OutOfSync(dec)
  BY DEF LossDropsDoubt, OutOfSync
<1>1. QED  BY InvFacts

LEMMA AlwaysDecoderInv == DecoderSpec => []DecoderInv
<1>1. DecoderInit => DecoderInv
  BY DecoderInitInv
<1>2. DecoderInv /\ [DecoderNext]_decoderVars => DecoderInv'
  BY DecoderNextInv
<1>3. QED  BY <1>1, <1>2, PTL DEF DecoderSpec

\* The decoder keeps its types: no depth ever wraps around, the return stack never
\* outgrows its entries, and of what waits for the next flush there is one of each.
THEOREM DecoderTypeCorrect == DecoderSpec => []DecoderTypeOK
<1>1. DecoderInv => DecoderTypeOK
  BY InvTypes
<1>2. QED  BY <1>1, AlwaysDecoderInv, PTL

\* specDepth is the number of elements in doubt, on the stack and from before the
\* trace, after every packet, commit, cancel, mispredict and loss of sync.
THEOREM DepthAlwaysAccounted == DecoderSpec => []DepthAccounted
<1>1. DecoderInv => DepthAccounted
  BY InvAccounted
<1>2. QED  BY <1>1, AlwaysDecoderInv, PTL

\* Never are more elements in doubt than the processor can have outstanding: what is
\* over the limit is committed with the packet that brings it.
THEOREM StackAlwaysBounded == DecoderSpec => []StackBounded
<1>1. DecoderInv => StackBounded
  BY InvBounded
<1>2. QED  BY <1>1, AlwaysDecoderInv, PTL

\* A loss of sync, wherever in the work on a packet it comes, leaves nothing in doubt,
\* no return address and no exception that waits.
THEOREM AlwaysLossDropsDoubt == DecoderSpec => []LossDropsDoubt
<1>1. DecoderInv => LossDropsDoubt
  BY InvDrops
<1>2. QED  BY <1>1, AlwaysDecoderInv, PTL

----------------------------------------------------------------------------
(* The elements in doubt, step by step, as Speculation says it.            *)

\* What is committed of the elements in doubt, as Speculation says it.
LEMMA CommittedFrom ==
  ASSUME config' = config, NEW ids, NEW k, Committed(dec, dec', ids, k)
  PROVE  Doubt!CommitFrom(ids, k)
<1> DEFINE skip == IF config.opt1 THEN Min({k, dec.unseenSpec}) ELSE 0
<1>1. /\ dec'.unseenSpec = dec.unseenSpec - skip
      /\ dec'.resolved = dec.resolved \o Doubt!Oldest(ids, k - skip)
      /\ IDs(dec'.p0) = Doubt!Newer(ids, k - skip)
  BY DEF Committed
<1>2. Doubt!Min({k, dec.unseenSpec}) = Min({k, dec.unseenSpec})
  BY DoubtMin
<1>3. (IF config.opt1 THEN Doubt!Min({k, dec.unseenSpec}) ELSE 0) = skip
  BY <1>2
<1>4. IDs(dec.p0)' = Doubt!Newer(ids, k - skip)
  BY <1>1, IDsFixed
<1> HIDE DEF skip
<1>5. /\ (dec.unseenSpec)' = dec.unseenSpec - skip
      /\ (dec.resolved)' = dec.resolved \o Doubt!Oldest(ids, k - skip)
      /\ (config.maxSpec)' = config.maxSpec /\ (config.opt1)' = config.opt1
  BY <1>1
<1>6. QED  BY <1>3, <1>4, <1>5 DEF Doubt!CommitFrom

\* With nothing to commit the elements in doubt stay what they were.
LEMMA CommittedNothing ==
  ASSUME config' = config, Steady(dec), Committed(dec, dec', IDs(dec.p0), 0)
  PROVE  UNCHANGED Doubt!specVars
<1> DEFINE ids == IDs(dec.p0)
<1>1. dec.unseenSpec \in Nat /\ IsSeq(ids) /\ IsSeq(dec.resolved)
  BY SteadyNumbers
<1> HIDE DEF ids
<1>2. Len(ids) \in Nat
  BY <1>1, AnySeqLen
<1>3. Min({0, dec.unseenSpec}) = 0 /\ Min({0, Len(ids)}) = 0
  BY <1>1, <1>2, MinPair
<1>4. (IF config.opt1 THEN Min({0, dec.unseenSpec}) ELSE 0) = 0 /\ 0 - 0 = 0
  BY <1>3
<1>5. /\ dec'.unseenSpec = dec.unseenSpec - 0
      /\ dec'.resolved = dec.resolved \o Doubt!Oldest(ids, 0)
      /\ IDs(dec'.p0) = Doubt!Newer(ids, 0)
  BY <1>4 DEF Committed, ids
<1>6. Doubt!Min({0, Len(ids)}) = 0 /\ 0 + 1 = 1
  BY <1>3, DoubtMin
<1>7. Doubt!Oldest(ids, 0) = <<>>
  BY <1>1, <1>6, PrefixEnds DEF Doubt!Oldest, Prefix
<1>8. Doubt!Newer(ids, 0) = ids
  BY <1>1, <1>6, PrefixEnds DEF Doubt!Newer, Prefix
<1>9. dec.resolved \o <<>> = dec.resolved /\ dec.unseenSpec - 0 = dec.unseenSpec
  BY <1>1, AnyNoMore
<1>10. IDs(dec.p0)' = IDs(dec.p0)
  BY <1>5, <1>8, IDsFixed DEF ids
<1>11. dec'.unseenSpec = dec.unseenSpec /\ dec'.resolved = dec.resolved
  BY <1>5, <1>7, <1>9
<1>12. QED  BY <1>10, <1>11 DEF Doubt!specVars

\* A loss of sync drops what it does not commit, as Speculation says it.
LEMMA DroppedAll ==
  ASSUME config' = config, NEW new, NEW c, OutOfSync(dec'), Steady(dec'),
         Dropped(dec, dec', Doubt!Keep(IDs(dec.p0) \o new, c))
  PROVE  Doubt!Drop(new, c)
<1>1. IDs(dec'.p0) = <<>>
  <2> DEFINE t == IDs(dec'.p0)
  <2>1. IsSeq(t) /\ Len(t) = Depth(dec'.p0)
    BY SteadyNumbers
  <2>2. Depth(dec'.p0) = 0
    BY FS_EmptySet DEF OutOfSync, Depth
  <2> HIDE DEF t
  <2>3. IsSeq(<<>>) /\ Len(<<>>) = 0
    BY AnyEmpty
  <2>4. t = <<>>
    BY <2>1, <2>2, <2>3, AnyEqual
  <2>5. QED  BY <2>4 DEF t
<1>2. IDs(dec.p0)' = <<>>
  BY <1>1, IDsFixed
<1>3. Doubt!Left(new, c) = Doubt!Keep(IDs(dec.p0) \o new, c)
  BY DEF Doubt!Left
<1>4. \E k \in 0..Len(Doubt!Left(new, c)) :
        (dec.resolved)' = dec.resolved \o Doubt!Oldest(Doubt!Left(new, c), k)
  BY <1>3 DEF Dropped
<1>5. QED  BY <1>2, <1>4 DEF Doubt!Drop

\* A TraceInfo begins, as Speculation says it.
LEMMA InformedBegins ==
  ASSUME config' = config, NEW p, Informed(dec, dec', p)
  PROVE  IF p.depth < 0 THEN UNCHANGED Doubt!specVars ELSE Doubt!Begin(p.depth)
<1>1. /\ dec'.resolved = dec.resolved /\ IDs(dec'.p0) = IDs(dec.p0)
      /\ dec'.unseenSpec = IF p.depth < 0 THEN dec.unseenSpec ELSE p.depth
  BY DEF Informed
<1>2. IDs(dec.p0)' = IDs(dec.p0)
  BY <1>1, IDsFixed
<1>3. CASE p.depth < 0
  BY <1>1, <1>2, <1>3 DEF Doubt!specVars
<1>4. CASE ~(p.depth < 0)
  BY <1>1, <1>2, <1>4 DEF Doubt!Begin
<1>5. QED  BY <1>3, <1>4

\* The elements that a packet brings are those that its number says.
LEMMA NewBrings ==
  ASSUME NEW p, packets' = packets + 1
  PROVE  New(p) = Brings(dec, p, packets + 1)
BY DEF New, Brings, AtomIDs

\* Elements that enter push the oldest over the limit, as Speculation says it.
LEMMA EntersLimit ==
  ASSUME config' = config, NEW new, NEW c,
         Committed(dec, dec', Doubt!Keep(IDs(dec.p0) \o new, c),
                   Over(dec, Doubt!Keep(IDs(dec.p0) \o new, c)))
  PROVE  Doubt!Enter(new, c)
<1> DEFINE ids == Doubt!Keep(IDs(dec.p0) \o new, c)
<1>1. Doubt!Left(new, c) = ids
  BY DEF Doubt!Left
<1>2. Over(dec, ids) = Doubt!Max({0, dec.unseenSpec + Len(ids) - config.maxSpec})
  BY DoubtMax DEF Over
<1>3. Doubt!CommitFrom(ids, Over(dec, ids))
  BY CommittedFrom
<1> HIDE DEF ids
<1>4. QED  BY <1>1, <1>2, <1>3 DEF Doubt!Enter

\* Every packet but a TraceInfo that keeps sync.
LEMMA PacketResolves ==
  ASSUME config' = config, packets' = packets + 1, Steady(dec), NEW p \in DecoderPackets,
         p.type # "TraceInfo",
         Committed(dec, dec', LeftOf(dec, p, packets + 1), CountOf(dec, p, packets + 1))
  PROVE  Resolves(p)
<1> DEFINE index == packets + 1
           count == CountOf(dec, p, index)
           ids == LeftOf(dec, p, index)
           commits == \/ p.type = "Commit"
                      \/ p.type = "CycleCount" /\ ~config.opt1 /\ p.num >= 0
           enters == Enters(dec, p, index)
<1>1. New(p) = Brings(dec, p, index)
  BY NewBrings
<1>2. enters <=> \/ New(p) # <<>> \/ p.type \in {"Atom", "Cancel", "Q", "Trans"}
                 \/ p.type = "PEReset" /\ ShouldQueue(dec)
  BY <1>1 DEF Enters
<1>3. ids = Doubt!Keep(IDs(dec.p0) \o New(p), Gone(p))
  BY <1>1 DEF LeftOf
<1>4. commits \/ ~enters => Brings(dec, p, index) = <<>> /\ p.type # "Cancel"
  BY DEF Enters, Brings
<1>5. commits \/ ~enters => ids = IDs(dec.p0)
  BY <1>4, PlainLeft
<1>6. commits => ~enters
  BY <1>4 DEF Enters
<1>7. CASE commits
  <2>1. count = p.num
    <3>1. CASE p.type = "Commit"
      BY <1>6, <3>1 DEF CountOf
    <3>2. CASE p.type = "CycleCount" /\ ~config.opt1 /\ p.num >= 0
      BY <1>6, <3>2 DEF CountOf
    <3>3. QED  BY <1>7, <3>1, <3>2
  <2>2. Committed(dec, dec', IDs(dec.p0), p.num)
    BY <1>5, <1>7, <2>1
  <2>3. Doubt!CommitFrom(IDs(dec.p0), p.num)
    BY <2>2, CommittedFrom
  <2>4. Doubt!Commit(p.num)
    BY <2>3 DEF Doubt!Commit
  <2>5. QED  BY <1>2, <1>6, <1>7, <2>4 DEF Resolves
<1>8. CASE ~commits /\ enters
  <2>1. count = Over(dec, ids)
    BY <1>8 DEF CountOf
  <2>2. Committed(dec, dec', ids, Over(dec, ids))
    BY <2>1
  <2> HIDE DEF ids, count
  <2>3. Doubt!Enter(New(p), Gone(p))
    BY <1>3, <2>2, EntersLimit
  <2> HIDE DEF enters
  <2>4. QED  BY <1>2, <1>8, <2>3 DEF Resolves
<1>9. CASE ~commits /\ ~enters
  <2>1. count = 0
    BY <1>9 DEF CountOf
  <2>2. UNCHANGED Doubt!specVars
    BY <1>5, <1>9, <2>1, CommittedNothing
  <2> HIDE DEF enters
  <2>3. QED  BY <1>2, <1>9, <2>2 DEF Resolves
<1>10. QED  BY <1>7, <1>8, <1>9

\* A TraceInfo.
LEMMA InfoResolves ==
  ASSUME config' = config, packets' = packets + 1, NEW p \in DecoderPackets,
         p.type = "TraceInfo", Informed(dec, dec', p)
  PROVE  Resolves(p)
<1>1. New(p) = <<>>
  BY NewBrings DEF Brings
<1>2. IF p.depth < 0 THEN UNCHANGED Doubt!specVars ELSE Doubt!Begin(p.depth)
  BY InformedBegins
<1>3. p.depth \in {-1} \cup Nat
  BY PacketFields DEF Depths
<1>4. CASE p.depth >= 0
  <2>1. Doubt!Begin(p.depth)
    BY <1>2, <1>3, <1>4
  <2>2. QED  BY <1>1, <1>4, <2>1 DEF Resolves
<1>5. CASE p.depth < 0
  <2>1. UNCHANGED Doubt!specVars /\ ~(p.depth >= 0)
    BY <1>2, <1>3, <1>5
  <2>2. QED  BY <1>1, <2>1 DEF Resolves
<1>6. QED  BY <1>3, <1>4, <1>5

\* What ResolvesInOrder asks of a step.
InOrder ==
  last'.type # "None" /\ dec.state = "Pkts" /\ ~dec'.respec =>
    IF dec'.state = "Pkts" THEN Resolves(last') ELSE Doubt!Drop(New(last'), Gone(last'))

\* Every packet; then every step.
LEMMA PacketInOrder ==
  ASSUME DecoderInv, NEW p, packets < Len(menu), p \in menu[packets + 1], NextPacket(p)
  PROVE  InOrder
<1> DEFINE index == packets + 1
<1>1. p \in DecoderPackets /\ DecoderInv'
  BY NextPacketInv
<1>2. config' = config /\ packets' = packets + 1 /\ last' = p /\ ended = FALSE
      /\ dec' = processPacket(dec, p, index)
  BY DEF NextPacket, DecoderInv
<1>3. Between(dec) /\ Steady(dec) /\ config.maxSpec \in Depths
  BY <1>2, InvFacts DEF DecoderInv
<1> SUFFICES ASSUME dec.state = "Pkts", ~dec'.respec
             PROVE  IF dec'.state = "Pkts" THEN Resolves(p)
                    ELSE Doubt!Drop(New(p), Gone(p))
  BY <1>2 DEF InOrder
<1>4. /\ p.type # "TraceInfo" =>
           Outcome(dec, dec', LeftOf(dec, p, index), CountOf(dec, p, index))
      /\ p.type = "TraceInfo" => Informed(dec, dec', p)
  BY <1>1, <1>2, <1>3, PacketOutcome
<1>5. CASE p.type = "TraceInfo"
  <2>1. Informed(dec, dec', p) /\ dec'.state = "Pkts"
    BY <1>4, <1>5 DEF Informed
  <2>2. Resolves(p)
    BY <1>1, <1>2, <1>5, <2>1, InfoResolves
  <2>3. QED  BY <2>1, <2>2
<1>6. CASE p.type # "TraceInfo"
  <2>1. Outcome(dec, dec', LeftOf(dec, p, index), CountOf(dec, p, index))
    BY <1>4, <1>6
  <2>2. dec.respec = FALSE
    <3>1. dec'.respec = dec.respec /\ dec.respec \in BOOLEAN
      BY <1>3, <2>1 DEF Outcome, Between
    <3>2. QED  BY <3>1
  <2>3. CASE dec'.state = "Pkts" /\ Committed(dec, dec', LeftOf(dec, p, index), CountOf(dec, p, index))
    BY <1>1, <1>2, <1>3, <1>6, <2>3, PacketResolves
  <2>4. CASE OutOfSync(dec') /\ Dropped(dec, dec', LeftOf(dec, p, index))
    <3>1. LeftOf(dec, p, index) = Doubt!Keep(IDs(dec.p0) \o New(p), Gone(p))
      BY <1>2, NewBrings DEF LeftOf
    <3>2. Steady(dec')
      BY <2>1 DEF Outcome
    <3>3. Doubt!Drop(New(p), Gone(p))
      BY <1>2, <2>4, <3>1, <3>2, DroppedAll
    <3>4. dec'.state # "Pkts"
      BY <2>4 DEF OutOfSync
    <3>5. QED  BY <3>3, <3>4
  <2>5. QED  BY <2>1, <2>2, <2>3, <2>4 DEF Outcome
<1>7. QED  BY <1>5, <1>6

LEMMA StepInOrder ==
  DecoderInv /\ [DecoderNext]_decoderVars => [InOrder]_decoderVars
<1> SUFFICES ASSUME DecoderInv, DecoderNext PROVE InOrder
  OBVIOUS
<1>1. CASE packets < Len(menu) /\ \E p \in menu[packets + 1] : NextPacket(p)
  BY <1>1, PacketInOrder
<1>2. CASE \E partial \in BOOLEAN : DecoderClose(partial)
  <2>1. last'.type = "None"
    BY <1>2 DEF DecoderClose
  <2>2. QED  BY <2>1 DEF InOrder
<1>3. CASE DecoderReset
  <2>1. last'.type = "None"
    BY <1>3 DEF DecoderReset
  <2>2. QED  BY <2>1 DEF InOrder
<1>4. QED  BY <1>1, <1>2, <1>3 DEF DecoderNext

\* What every packet in sync does to the elements in doubt is what Speculation says:
\* the oldest are committed, the newest cancelled, an overfull stack resolves from its
\* old end, and a loss of sync commits the oldest and drops the rest.
THEOREM AlwaysResolvesInOrder == DecoderSpec => ResolvesInOrder
<1>1. DecoderInv /\ [DecoderNext]_decoderVars => [InOrder]_decoderVars
  BY StepInOrder
<1>2. [][InOrder]_decoderVars => ResolvesInOrder
  BY PTL DEF ResolvesInOrder, InOrder
<1>3. QED  BY <1>1, <1>2, AlwaysDecoderInv, PTL DEF DecoderSpec
=============================================================================
