------------------------- MODULE Etmv4ParserProps -------------------------
(***************************************************************************)
(* The other end of the trace: a source that knows addresses, times and    *)
(* counts in full and writes them in the short forms of the protocol       *)
(* whenever those are enough, and the properties that compare what the     *)
(* parser hands to the decoder with what the source meant.                 *)
(***************************************************************************)
EXTENDS Etmv4Parser

\* What the decoder reads of a packet, by type.  The IDs of a context are the subject
\* of ContextOfProcessor.
Types(prefix) == {prefix \o form \o is : form \in {"S", "L32", "L64"}, is \in {"IS0", "IS1"}}
AddrTypes == Types("Addr") \cup Types("SrcAddr") \cup {"AddrMatch", "SrcAddrMatch"}
AddrCtxtTypes == {"AddrCtxtL32IS0", "AddrCtxtL32IS1", "AddrCtxtL64IS0", "AddrCtxtL64IS1"}

ContextRead(c) == <<c.updated, c.el, c.sf, c.ns, c.nse, c.updatedV, c.updatedC>>

Reads(p) ==
  [type |-> p.type, val |->
     CASE p.type \in AddrTypes           -> <<p.addr>>
       [] p.type \in AddrCtxtTypes       -> <<p.addr, ContextRead(p.ctx)>>
       [] p.type = "Context"             -> <<ContextRead(p.ctx)>>
       [] p.type = "Timestamp"           -> <<p.ts, p.cc>>
       [] p.type \in {"CycleCountF1", "CycleCountF2", "CycleCountF3"} -> <<p.commit, p.cc>>
       [] p.type = "TraceInfo"           -> <<p.info, p.specDepth>>
       [] p.type = "Commit"              -> <<p.commit>>
       [] p.type \in {"CancelF1", "CancelF1Mispred", "CancelF2", "CancelF3", "Mispredict"}
                                         -> <<p.cancel, p.atom>>
       [] p.type \in {"AtomF1", "AtomF2", "AtomF3", "AtomF4", "AtomF5", "AtomF6"} -> <<p.atom>>
       [] p.type = "Exception"           -> <<p.exc>>
       [] p.type = "Q"                   -> <<p.q, IF p.q.addr THEN p.addr ELSE ZeroAddr>>
       [] p.type = "ITE"                 -> <<p.ite>>
       [] p.type = "Event"               -> <<p.val>>
       [] OTHER                          -> <<>>]

----------------------------------------------------------------------------
(* The source                                                              *)

\* What it has sent: the last three addresses, the time, the threshold of cycle
\* counts, whether the PE is in a 64-bit state; and the bytes and meanings so far.
NewSource(c) ==
  [cfg |-> c, addrs |-> <<ZeroAddr, ZeroAddr, ZeroAddr>>, ts |-> [k \in 1..9 |-> 0], threshold |-> 0,
   sf |-> FALSE, infos |-> 0, bytes |-> <<>>, said |-> <<>>, fits |-> TRUE]

Sends(src0, type, bytes, val) ==
  [src0 EXCEPT !.bytes = @ \o bytes,
               !.said = Append(@, [end |-> Len(src0.bytes) + Len(bytes), ctxt |-> -1,
                                     reads |-> [type |-> type, val |-> val]])]
\* A packet that carries a context ID, of two bytes at most.
SaysCtxt(s, x) ==
  IF x.ctxt = <<>> THEN s ELSE [s EXCEPT !.said[Len(s.said)].ctxt = x.ctxt[1] + 256 * x.ctxt[2]]

Unit(is) == IF is = 0 THEN 4 ELSE 2
AddrForm(form, is, a) ==
  LET n == a.lo \div Unit(is)
      w == <<n % 128, (a.lo \div 256) % 256, (a.lo \div 2^16) % 256, a.lo \div 2^24>>
      v == IF is = 0 THEN [w EXCEPT ![2] = @ \div 2] ELSE w
  IN  CASE form = "S"   -> <<n % 128>>
        [] form = "S2"  -> <<128 + (n % 128), (n \div 128) % 256>>
        [] form = "L32" -> v
        [] form = "L64" -> v \o <<a.hi % 256, (a.hi \div 256) % 256, (a.hi \div 2^16) % 256, a.hi \div 2^24>>

\* Whether a form brings the address a to one who knows what the source sent before.
Above(a, n) == <<a.hi, a.lo \div (n * Unit(a.is))>>
Enough(s, form, a) ==
  /\ a.lo % Unit(a.is) = 0
  /\ LET last == [s.addrs[1] EXCEPT !.is = a.is]
     IN  CASE form = "S"   -> Above(a, 128) = Above(last, 128)
           [] form = "S2"  -> Above(a, 2^15) = Above(last, 2^15)
           [] form = "L32" -> a.hi = IF s.sf THEN last.hi ELSE 0
           [] form = "L64" -> TRUE

Knows(s, a) == [s EXCEPT !.addrs = <<a, @[1], @[2]>>]

FormHeader(kind, form) ==
  CASE kind = "Addr"     -> (CASE form \in {"S", "S2"} -> 149 [] form = "L32" -> 154 [] OTHER -> 157)
    [] kind = "SrcAddr"  -> (CASE form \in {"S", "S2"} -> 180 [] form = "L32" -> 182 [] OTHER -> 184)
    [] kind = "AddrCtxt" -> IF form = "L32" THEN 130 ELSE 133
FormType(kind, form, is) ==
  kind \o (IF form = "S2" THEN "S" ELSE form) \o IF is = 0 THEN "IS0" ELSE "IS1"

\* x: [kind, form, addr]
SendsAddr(s, x) ==
  LET sent == Sends(s, FormType(x.kind, x.form, x.addr.is),
                    <<FormHeader(x.kind, x.form) + x.addr.is>> \o AddrForm(x.form, x.addr.is, x.addr),
                    <<x.addr>>)
  IN  [Knows(sent, x.addr) EXCEPT !.fits = @ /\ Enough(s, x.form, x.addr)]

SendsMatch(s, x) ==
  Knows(Sends(s, x.kind, <<(IF x.kind = "AddrMatch" THEN 144 ELSE 176) + x.n>>, <<s.addrs[x.n + 1]>>),
        s.addrs[x.n + 1])

\* x: [el, sf, ns, vmid, ctxt]; the IDs are their bytes, or empty.
InfoByte(x) ==
  x.el + (IF x.sf THEN 16 ELSE 0) + (IF x.ns THEN 32 ELSE 0)
    + (IF x.vmid # <<>> THEN 64 ELSE 0) + (IF x.ctxt # <<>> THEN 128 ELSE 0)
Meant(x) == <<TRUE, x.el, x.sf, x.ns, FALSE, x.vmid # <<>>, x.ctxt # <<>>>>
HasIDs(s, x) ==
  (x.vmid # <<>> => Len(x.vmid) = s.cfg.vmid) /\ (x.ctxt # <<>> => Len(x.ctxt) = s.cfg.ctxt)

SendsContext(s, x) ==
  [SaysCtxt(Sends(s, "Context", <<129, InfoByte(x)>> \o x.vmid \o x.ctxt, <<Meant(x)>>), x) EXCEPT
     !.sf = x.sf, !.fits = @ /\ HasIDs(s, x)]

\* An address with a context; the 64-bit state does not change with a short form.
SendsAddrCtxt(s, x) ==
  LET sent == Sends(s, FormType("AddrCtxt", x.form, x.addr.is),
                    <<FormHeader("AddrCtxt", x.form) + x.addr.is>> \o AddrForm(x.form, x.addr.is, x.addr)
                      \o <<InfoByte(x)>> \o x.vmid \o x.ctxt,
                    <<x.addr, Meant(x)>>)
  IN  [Knows(sent, x.addr) EXCEPT
         !.sf = x.sf,
         !.fits = @ /\ HasIDs(s, x) /\ Enough(s, x.form, x.addr) /\ (x.form = "L32" => x.sf = s.sf)]

\* A field of n groups of seven bits.
Field(v, n) == [k \in 1..n |-> ((v \div 128^(k - 1)) % 128) + IF k < n THEN 128 ELSE 0]

\* x: [ts, n, count]: the time in n groups, and a cycle count in two (or -1).
SendsTime(s, x) ==
  [Sends(s, "Timestamp",
         <<IF x.count = -1 THEN 2 ELSE 3>>
           \o [k \in 1..x.n |-> x.ts[k] + IF k < x.n /\ k < 9 THEN 128 ELSE 0]
           \o (IF x.count = -1 THEN <<>> ELSE Field(x.count, 2)),
         <<x.ts, x.count>>) EXCEPT
     !.ts = x.ts, !.fits = @ /\ \A k \in (x.n + 1)..9 : x.ts[k] = s.ts[k]]

\* x: [form, commit, count]: counts are sent less the threshold; a configuration with
\* CommitOpt1 sends no commits.
SendsCycles(s, x) ==
  LET above  == x.count - s.threshold
      opt1   == s.cfg.commitOpt1
      commit == IF opt1 THEN -1 ELSE x.commit
  IN  CASE x.form = 3 ->
             [Sends(s, "CycleCountF3", <<16 + above + IF opt1 THEN 0 ELSE 4 * (x.commit - 1)>>, <<commit, x.count>>)
                EXCEPT !.fits = @ /\ above \in 0..3 /\ x.commit \in 1..4]
        [] x.form = 2 ->
             LET far == x.commit > 16
             IN  [Sends(s, "CycleCountF2",
                        <<IF far THEN 13 ELSE 12,
                          above + 16 * IF far THEN x.commit - (s.cfg.maxSpec - 15) ELSE x.commit - 1>>,
                        <<commit, x.count>>)
                    EXCEPT !.fits = @ /\ above \in 0..15
                                      /\ (far => x.commit \in (s.cfg.maxSpec - 15)..s.cfg.maxSpec)]
        [] x.form = 1 ->
             [Sends(s, "CycleCountF1",
                    <<IF x.count = 0 THEN 15 ELSE 14>> \o (IF opt1 THEN <<>> ELSE Field(x.commit, 2))
                      \o (IF x.count = 0 THEN <<>> ELSE Field(above, 2)),
                    <<commit, x.count>>)
                EXCEPT !.fits = @ /\ (x.count # 0 => above >= 0)]

\* x: [ctrl, info, key, spec, threshold, window]: -1 for a section that is not there.
SendsInfo(s, x) ==
  LET sect == <<x.info, x.key, x.spec, x.threshold, x.window>>
      plan == Total([k \in 1..5 |-> IF sect[k] = -1 THEN 0 ELSE 2^(k - 1)])
  IN  [Sends(s, "TraceInfo",
             <<1>> \o [k \in 1..x.ctrl |-> plan + IF k < x.ctrl THEN 128 ELSE 0]
               \o FlattenSeq([k \in 1..5 |-> IF sect[k] = -1 THEN <<>> ELSE Field(sect[k], IF sect[k] > 127 THEN 2 ELSE 1)]),
             <<[cc |-> x.info % 2 = 1 /\ x.info # -1, trans |-> x.info # -1 /\ Bit(x.info, 6) = 1,
                initial |-> s.infos = 0, spec |-> x.spec # -1],
               IF x.spec # -1 THEN x.spec ELSE -2>>) EXCEPT
         !.infos = @ + 1, !.threshold = IF x.threshold # -1 THEN x.threshold ELSE @]

\* x: [q, form, addr, n, count]: a Q with a count and, unless q is 12, an address.
SendsQ(s, x) ==
  LET a    == CASE x.q = 12 -> ZeroAddr [] x.q < 3 -> s.addrs[x.q + 1] [] OTHER -> x.addr
      sent == Sends(s, "Q",
                    <<160 + x.q>> \o (IF x.q \in {12, 0, 1, 2} THEN <<>> ELSE AddrForm(x.form, a.is, a))
                      \o Field(x.count, x.n),
                    <<[type |-> x.q, count |-> x.count, addr |-> x.q # 12, match |-> x.q < 3], a>>)
  IN  IF x.q = 12 THEN sent
      ELSE [Knows(sent, a) EXCEPT !.fits = @ /\ (x.q > 2 => Enough(s, x.form, a))]

SendsItem(s, x) ==
  CASE x.what = "addr"     -> SendsAddr(s, x)
    [] x.what = "match"    -> SendsMatch(s, x)
    [] x.what = "context"  -> SendsContext(s, x)
    [] x.what = "addrctxt" -> SendsAddrCtxt(s, x)
    [] x.what = "time"     -> SendsTime(s, x)
    [] x.what = "cycles"   -> SendsCycles(s, x)
    [] x.what = "info"     -> SendsInfo(s, x)
    [] x.what = "q"        -> SendsQ(s, x)
    [] x.what = "plain"    -> Sends(s, x.type, x.bytes, x.val)

Source(c, items) == FoldLeft(SendsItem, NewSource(c), items)

----------------------------------------------------------------------------
\* The place of the sync in the bytes: 0x80 behind eleven zeros or more.
SyncEndsAt(s) == {j \in 12..Len(s) : s[j] = 128 /\ \A k \in (j - 11)..(j - 1) : s[k] = 0}
Noise == Min(SyncEndsAt(src))

\* The packets handed over behind the Async that made the sync.
Synced == LET ps0 == SelectSeq(handed, LAMBDA x : x.synced)
          IN  [k \in 1..(Len(ps0) - 1) |-> ps0[k + 1].pkt]

\* The meanings of the packets that are in the first n bytes, where the spec depth of a
\* TraceInfo without one is the last that was sent.
SaidIn(n) == SelectSeq(session.said, LAMBDA x : x.end + Noise <= n)
Same(p, said) ==
  \/ Reads(p) = said.reads
  \/ /\ p.type = "TraceInfo" /\ said.reads.val[2] = -2
     /\ Reads(p).type = said.reads.type /\ Reads(p).val[1] = said.reads.val[1]

\* Between calls the decoder has taken exactly the packets of the bytes so far, each
\* once, in order and with the addresses, times and counts the source meant, however
\* the bytes were cut into blocks and whichever packets the decoder refused the first
\* time (processData stays in etmv4StateSendPkt, and the next Write sends the packet).
PacketsOfStream ==
  pc = "idle" /\ ~closed /\ pos >= Noise
    => LET said == SaidIn(pos - IF ps = "SendPkt" THEN 1 ELSE 0)
       IN  IF ps = "SendPkt" /\ pos = Noise THEN Synced = <<>>
           ELSE Len(Synced) = Len(said) /\ \A k \in DOMAIN said : Same(Synced[k], said[k])

\* The bytes of the first n packets of a sequence of observed ones, but for those the
\* decoder refused.
Counted(p) == IF p.ok THEN Len(p.raw) ELSE 0
Accepted(packets, n) ==
  LET bytes[m \in 0..Len(packets)] == IF m = 0 THEN 0 ELSE bytes[m - 1] + Counted(packets[m])
  IN  bytes[n]

\* Offset of the n-th observed packet.
BytesBefore(n) == Accepted(shown, n - 1)

\* Every byte is shown to the observer once, at its place, in the packet it was read
\* into, or is still in raw: in front of a sync, in bad packets, at Close, and when the
\* decoder refuses a packet, which is then shown again.  (The zeros of an Async that is
\* too long are all shown at the first of them.)
BytesAccounted ==
  /\ \A n \in 1..Len(shown) :
       /\ \A k \in 1..Len(shown[n].raw) : shown[n].raw[k] = src[BytesBefore(n) + k]
       /\ shown[n].index <= BytesBefore(n)
       /\ \A k \in (shown[n].index + 1)..BytesBefore(n) : src[k] = 0
  /\ LET before == BytesBefore(Len(shown) + 1)
     IN  IF closed THEN before = pos
         ELSE before + Len(raw) = pos /\ \A k \in 1..Len(raw) : raw[k] = src[before + k]

\* "PEContext represents the Execution Context of the target processor": the ID
\* that comes with a context is the one that was sent (extractAndSetContextInfo).
ContextOfProcessor ==
  \A k \in DOMAIN Synced :
    Synced[k].type = "Context" /\ Synced[k].ctx.updatedC => Synced[k].ctx.ctxt = session.said[k].ctxt

\* Type invariant; the bytes in front of a sync never pile up.
TypeOK ==
  /\ pos \in 0..avail /\ avail <= Len(src) /\ pc \in {"idle", "loop"}
  /\ ps \in {"ProcHdr", "ProcData", "SendPkt", "SendUnsynced"}
  /\ closed \in BOOLEAN /\ resets \in 0..MaxResets /\ errs \in 0..MaxErrors
  /\ isSync \in BOOLEAN /\ firstTraceInfo \in BOOLEAN /\ sentNotSync \in BOOLEAN
  /\ Len(raw) <= pos /\ (~isSync => Len(raw) <= 12)
  /\ dump \in 0..12 /\ upd \in 0..pos /\ packetIndex \in 0..pos
  /\ pkt.addr.is \in {0, 1} /\ Len(pkt.stack) = 3 /\ Len(pkt.ts) = 9
  /\ pkt.commit >= -1 /\ pkt.cancel >= -1 /\ pkt.atom.num \in 0..24
=============================================================================
