------------------------------ MODULE StmProps ------------------------------
(***************************************************************************)
(* STPv2 read off a whole nibble stream, and the properties that compare   *)
(* Stm with it.                                                            *)
(***************************************************************************)
EXTENDS Stm

\* A sync ends at j: a zero behind a run of at least 21 Fs, of which the parser
\* keeps count in a byte.
RunBefore(s, j) == LET ks == {k \in 1..(j - 1) : s[k] # 15} IN j - 1 - Max(ks \cup {0})
SyncEndsAt(s)   == {j \in 22..Len(s) : s[j] = 0 /\ RunBefore(s, j) % 256 >= 21}

\* STPv2 in brief: opcodes are 1, 2 or 3 nibbles long; the last one says how much
\* data there is, and the place in its row whether a marker and a time go along.
OpLen(s, i) == IF s[i + 1] # 15 THEN 1 ELSE IF i + 2 > Len(s) \/ s[i + 2] # 0 THEN 2 ELSE 3
IsData(len, op) == len < 3 /\ op \in 4..13
DataLen(op)  == IF op >= 12 THEN 1 ELSE 2^((op % 4) + 1)
DataType(op) == IF op >= 12 THEN "D4" ELSE <<"D8", "D16", "D32", "D64">>[(op % 4) + 1]

Form(type, n, marker, timed) == {[type |-> type, n |-> n, marker |-> marker, time |-> timed]}

FormOf(len, op) ==
  CASE IsData(len, op) ->
         LET second == op \in (8..11) \cup {13}
         IN  Form(DataType(op), DataLen(op), second, second = (len = 1))
    [] len = 1 /\ op = 0   -> Form("Null", 0, FALSE, FALSE)
    [] len = 1 /\ op \in 1..3 -> Form(<<"M8", "Merr", "C8">>[op], 2, FALSE, FALSE)
    [] len = 1 /\ op = 14  -> Form("Flag", 0, FALSE, TRUE)
    [] len = 2 /\ op = 2   -> Form("Gerr", 2, FALSE, FALSE)
    [] len = 2 /\ op = 3   -> Form("C16", 4, FALSE, FALSE)
    [] len = 2 /\ op = 14  -> Form("Flag", 0, FALSE, FALSE)
    [] len = 3 /\ op = 0   -> Form("Version", 1, FALSE, FALSE)
    [] len = 3 /\ op = 1   -> Form("Null", 0, FALSE, TRUE)
    [] len = 3 /\ op \in 6..7 -> Form("Trig", 2, FALSE, op = 7)
    [] len = 3 /\ op = 8   -> Form("Freq", 8, FALSE, FALSE)
    [] OTHER -> {}

Packet(i, j, f, v, t) ==
  [start |-> i, end |-> j, type |-> f.type, marker |-> f.marker, time |-> f.time,
   val |-> v, ts |-> t]

\* A packet of form f that starts behind nibble i, with its value from nibble v:
\* one packet, or none when it is cut off or its time has no size.
Formed(s, i, v, f) ==
  LET e  == v + f.n - 1
      sz == TimeSize(s[e + 1])
  IN  IF e > Len(s) \/ (f.type = "Version" /\ s[e] \notin {3, 4}) THEN {}
      ELSE IF ~f.time THEN {Packet(i, e, f, SubSeq(s, v, e), <<>>)}
      ELSE IF e + 1 > Len(s) \/ s[e + 1] = 15 \/ e + 1 + sz > Len(s) THEN {}
      ELSE {Packet(i, e + 1 + sz, f, SubSeq(s, v, e), SubSeq(s, e + 2, e + 1 + sz))}

AsyncForm == CHOOSE f \in Form("Async", 0, FALSE, FALSE) : TRUE

PacketAt(s, i) ==
  LET len == OpLen(s, i)
      ends == {j \in (i + 3)..Len(s) : s[j] # 15}
  IN  IF i + len > Len(s) THEN {}
      ELSE IF len = 2 /\ s[i + 2] = 15
      THEN IF ends = {} \/ Min(ends) \notin SyncEndsAt(s) THEN {}
           ELSE {Packet(i, Min(ends), AsyncForm, <<>>, <<>>)}
      ELSE UNION {Formed(s, i, i + len + 1, f) : f \in FormOf(len, s[i + len])}

\* The packets of s from the end of its first sync to the first that is cut off,
\* malformed, or has a time before a Version has said how times are written.
PacketsOf(s) ==
  LET parse[i \in 0..Len(s), versioned \in BOOLEAN] ==
        LET ps0 == IF i = Len(s) THEN {} ELSE PacketAt(s, i)
            p   == CHOOSE q \in ps0 : TRUE
        IN  IF ps0 = {} \/ (p.time /\ ~versioned) THEN <<>>
            ELSE <<p>> \o parse[p.end, versioned \/ p.type = "Version"]
  IN  IF SyncEndsAt(s) = {} THEN <<>> ELSE parse[Min(SyncEndsAt(s)), FALSE]

----------------------------------------------------------------------------
(* What packet k of the packets p means.                                   *)

LastOf(p, k, types) == Max({m \in 1..k : p[m].type \in types} \cup {0})

IDTypes == {"M8", "Version", "Gerr"}

MasterNow(p, k) ==
  LET m == LastOf(p, k, IDTypes)
  IN  IF m = 0 THEN 0 ELSE IF p[m].type = "M8" THEN Number(p[m].val) ELSE 0

\* The high byte of the channel comes from a C16, the low one also from a C8; both
\* are gone with a new master, a version or an error.
ChannelNow(p, k) ==
  LET gone == LastOf(p, k, IDTypes \cup {"Merr"})
      hi == LastOf(p, k, {"C16"})
      lo == LastOf(p, k, {"C16", "C8"})
  IN  (IF hi > gone THEN 256 * Number(SubSeq(p[hi].val, 1, 2)) ELSE 0)
      + (IF lo > gone THEN Number(SubSeq(p[lo].val, Len(p[lo].val) - 1, Len(p[lo].val))) ELSE 0)

ValidNow(p, k) == LET m == LastOf(p, k, IDTypes) IN m > 0 /\ p[m].type # "Gerr"

\* The time behind packet k: b is the time whose Gray code ends in the bits sent.
TimeNow(p, k) ==
  LET at[m \in 0..k] ==
        LET low == p[m].ts
            old == at[m - 1]
            gray == SubSeq(GrayBits(Bits(old)), 1, 64 - 4 * Len(low)) \o Bits(low)
            bin[i \in 1..64] == IF i = 1 THEN gray[1] ELSE (bin[i - 1] + gray[i]) % 2
        IN  IF m = 0 THEN [i \in 1..16 |-> 0]
            ELSE IF ~p[m].time THEN old
            ELSE IF p[LastOf(p, m, {"Version"})].val = <<3>>
            THEN [i \in 1..16 |-> IF i <= 16 - Len(low) THEN old[i] ELSE low[i - 16 + Len(low)]]
            ELSE Pack([i \in 1..64 |-> bin[i]])
  IN  at[k]

Carries(q) == q.type \in {"D4", "D8", "D16", "D32", "D64", "Trig", "Freq", "Merr", "Gerr"}

ElementOf(p, k) ==
  LET q == p[k]
  IN  [kind |-> "SWT", index |-> (q.start + 1) \div 2, master |-> MasterNow(p, k),
       channel |-> ChannelNow(p, k), idValid |-> ValidNow(p, k),
       flags |-> {x \in {"Frequency", "TriggerEvent", "GlobalErr", "MasterErr",
                         "MarkerPacket", "HasTimestamp"} :
                   \/ x = "Frequency" /\ q.type = "Freq"
                   \/ x = "TriggerEvent" /\ q.type = "Trig"
                   \/ x = "GlobalErr" /\ q.type = "Gerr"
                   \/ x = "MasterErr" /\ q.type = "Merr"
                   \/ x = "MarkerPacket" /\ (q.marker \/ q.type = "Flag")
                   \/ x = "HasTimestamp" /\ q.time},
       bits |-> IF Carries(q) THEN 4 * Len(q.val) ELSE 0,
       data |-> IF Carries(q) THEN DataBytes(q.val) ELSE <<>>,
       ts |-> IF q.time THEN TimeNow(p, k) ELSE <<>>]

Reason == IF resets = 0 THEN "InitDecoder" ELSE "ResetDecoder"

\* The elements of s: NoSync with the first packet of all, then one for every
\* packet that carries data, an error, a marker or a time.
ElementsOf(s) ==
  LET p == PacketsOf(s)
  IN  (IF obs = <<>> THEN <<>>
       ELSE <<[kind |-> "NoSync", index |-> obs[1].index, reason |-> Reason]>>)
      \o FlattenSeq([k \in 1..Len(p) |->
           IF Carries(p[k]) \/ p[k].type = "Flag" \/ p[k].time THEN <<ElementOf(p, k)>> ELSE <<>>])

----------------------------------------------------------------------------
Prefix == SubSeq(src, 1, pos)

\* Between calls the elements are those of the nibbles so far,
\* however the blocks cut packets, bytes and the sync; a packet that makes Write
\* fail leaves nothing behind.  Sessions that begin with sync state of the one
\* before are left out.
ElementsOfStream ==
  pc = "idle" /\ ~closed /\ ~stale /\ (fault.n = 0 \/ (fault.n = 1 /\ pos = fault.pos)) =>
    elems = ElementsOf(Prefix)

\* "Reset resets the engine and internal decoders": also behind a Reset the
\* bytes in front of the sync are not taken for packets that make Write fail.
ResetIsFresh ==
  resets > 0 /\ SyncEndsAt(Prefix) = {} => fault.n = 0

\* What a caller gets who carries on behind a fatal error lies behind an Async:
\* the packet that was bad is not completed into an element, and neither are the
\* ones after it.
ResyncedBehindFault ==
  \A k \in (fault.elems + 1)..Len(elems) :
    elems[k].kind = "SWT" /\ fault.n > 0 =>
      \E n \in (fault.obs + 1)..Len(obs) :
        obs[n].type = "Async" /\ obs[n].index <= elems[k].index

\* Every packet is shown with the bytes it lies in; of a byte it shares with the
\* packet in front only the high nibble is left.
BytesOf(i, j) ==
  [k \in 1..((j + 1) \div 2 - i \div 2) |->
     LET b == 2 * (i \div 2) + 2 * k - 1
     IN  (IF k = 1 /\ i % 2 = 1 THEN 0 ELSE src[b]) + 16 * src[b + 1]]

ShownAsRead ==
  \A n \in 2..Len(obs) :
    obs[n].type \notin {"NotSync", "Async"} /\ obs[n - 1].type # "NotSync" =>
      obs[n].raw = BytesOf(obs[n - 1].end, obs[n].end)

TypeOK ==
  /\ src \in Streams \cup NextStreams /\ 2 * avail <= Len(src) /\ pos \in 0..(2 * avail)
  /\ resets \in 0..MaxResets /\ closed \in BOOLEAN
  /\ pc \in {"idle", "loop", "sync"} /\ ps \in {"WaitSync", "ProcHdr", "ProcData", "SendPkt"}
  /\ size \in 0..18 /\ numNibbles \in 0..255 /\ sync.nF \in 0..255
  /\ val \in Seq(Nibbles) /\ Len(val) <= 16 /\ Len(time.nibs) <= time.size
  /\ Len(pkt.ts) = 16 /\ pkt.master \in 0..255 /\ pkt.channel \in 0..(256 * 256 - 1)
  /\ dec.state \in {"NoSync", "WaitSync", "Pkts"}
============================================================================
