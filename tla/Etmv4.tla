------------------------------- MODULE Etmv4 -------------------------------
(***************************************************************************)
(* The ETMv4 and ETE decoder (etmv4_decoder.go): packets become elements.  *)
(*                                                                         *)
(* A processor traces speculatively: atoms, exceptions, Q elements and     *)
(* transaction starts (the P0 elements) wait on pendingP0 until a later    *)
(* packet commits the oldest or cancels the newest of them, or until there *)
(* are more of them than the hardware can have outstanding.  Addresses and *)
(* contexts behind a P0 element wait with it.                              *)
(*                                                                         *)
(* One step is one packet.  The decoder is the record dec; every function  *)
(* of the code that changes it is an operator from dec to dec.  Memory is  *)
(* Program: instructions of size one.  Instruction set, memory space and   *)
(* the fields of a context are left out, and so are diagnostics.           *)
(***************************************************************************)
EXTENDS Integers, Sequences, SequencesExt, FiniteSetsExt

CONSTANTS
  Program,      \* a sequence: the instructions at the addresses 1, 2, ...
  Scenarios,    \* [cfg, menu]: a configuration, and the packets that may come
                \* first, second, ...
  DepthMod,     \* modulus of specDepth and unseenSpec: 2^32 in the code
  RetStackCap,  \* 16 in the code
  MaxRestarts   \* bound on the calls of Reset

ASSUME ProgramAssumption ==
  Program \in Seq([kind : {"Other", "Br", "Ind", "Isb", "Bad"}, link : BOOLEAN,
                   eret : BOOLEAN, target : Nat])
ASSUME DepthAssumption ==
  DepthMod \in Nat \ {0} /\ RetStackCap \in Nat \ {0} /\ MaxRestarts \in Nat

\* The most atoms a packet has, and the depths that leave room for them.
MaxAtoms == 24
Depths == {k \in Nat : k + MaxAtoms < DepthMod}

Configurations ==
  [maxSpec : Depths, opt1 : BOOLEAN, transP0 : BOOLEAN, ete : BOOLEAN, retStack : BOOLEAN,
   srcNAtoms : BOOLEAN]

\* The packets, with the fields that the decoder reads; ctxt is 0 for none.
AtomRuns == {s \in Seq({"E", "N"}) : Len(s) <= MaxAtoms}
DecoderPackets ==
  [type : {"ASync", "NotSync", "Ignore", "Bad", "PEReset", "TraceOn", "ExceptionReturn", "ITE",
           "Timestamp", "TSMarker", "Event", "Overflow", "Discard"}]
  \cup [type : {"TraceInfo"}, depth : {-1} \cup Depths, trans : BOOLEAN]
  \cup [type : {"Trans"}, val : {"Start", "Commit", "Fail"}]
  \cup [type : {"Context"}, ctxt : Nat]
  \cup [type : {"Address"}, addr : Nat, ctxt : Nat]
  \cup [type : {"SrcAddr"}, addr : Nat]
  \cup [type : {"Atom"}, atoms : AtomRuns]
  \cup [type : {"Commit"}, num : Nat]
  \cup [type : {"Cancel"}, num : Nat, mispredict : BOOLEAN, atoms : AtomRuns]
  \cup [type : {"Exception"}, interp : 0..3, num : Nat]
  \cup [type : {"CycleCount"}, num : {-1} \cup Nat]
  \cup [type : {"Q"}, present : BOOLEAN, count : Nat, addr : Nat]

ASSUME ScenariosAssumption ==
  Scenarios \subseteq [cfg : Configurations, menu : Seq(SUBSET DecoderPackets)]

VARIABLES config, menu,       \* the scenario
          packets,            \* how many came so far; the number of a packet is its index
          parserSync,         \* the parser has found an Async
          ended, restarts,
          last,               \* history: the packet of the last step
          dec                 \* the decoder, with the histories out, walk and resolved
decoderVars == <<config, menu, packets, parserSync, ended, restarts, last, dec>>

Elem(kind, index, val) == [kind |-> kind, index |-> index, val |-> val]
Emit(d, e) == [d EXCEPT !.out = Append(@, e)]

\* What the decoder acted on, in order.
Walked(d, step) == [d EXCEPT !.walk = Append(@, step)]

----------------------------------------------------------------------------
(* State                                                                   *)

\* Mutant: the return stack outlives a loss of sync.
resetDecoderKeepsStack(d) ==
  Walked([d EXCEPT
    !.state = "NoSync", !.iAddr = 0, !.needAddr = TRUE,
    !.specDepth = 0, !.unseenSpec = 0,
    !.traceOn = <<>>, !.contexts = <<>>, !.elements = <<>>, !.ite = <<>>,
    !.exceptRet = <<>>, !.cycleCount = <<>>, !.exception = <<>>,
    !.p0 = <<>>, !.popPending = FALSE], [kind |-> "Lost"])

resetDecoder(d) ==
  Walked([d EXCEPT
    !.state = "NoSync", !.iAddr = 0, !.needAddr = TRUE,
    !.specDepth = 0, !.unseenSpec = 0,
    !.traceOn = <<>>, !.contexts = <<>>, !.elements = <<>>, !.ite = <<>>,
    !.exceptRet = <<>>, !.cycleCount = <<>>, !.exception = <<>>,
    !.p0 = <<>>, !.stack = <<>>, !.popPending = FALSE], [kind |-> "Lost"])

\* halt, lost and err say how far the packet at hand got: out of a run of atoms,
\* out of sync, or out of Write with an error.  respec: a TraceInfo has set the
\* depth while there were P0 elements on the stack.
NewDecoder(reason) ==
  resetDecoder(
    [state |-> "NoSync", unsync |-> reason, iAddr |-> 0, needAddr |-> TRUE,
     specDepth |-> 0, unseenSpec |-> 0, traceOn |-> <<>>, contexts |-> <<>>,
     elements |-> <<>>, ite |-> <<>>, exceptRet |-> <<>>, cycleCount |-> <<>>,
     exception |-> <<>>, p0 |-> <<>>, stack |-> <<>>, popPending |-> FALSE,
     prevOverflow |-> FALSE, eotPending |-> FALSE, seenData |-> FALSE,
     halt |-> FALSE, lost |-> FALSE, err |-> FALSE, respec |-> FALSE,
     out |-> <<>>, walk |-> <<>>, resolved |-> <<>>])

LoseSync(d, reason, index) ==
  [Emit(resetDecoder([d EXCEPT !.unsync = reason]), Elem("NoSync", index, reason))
     EXCEPT !.state = "WaitSync"]

\* handlePacketSequenceError: what is left of the entries at hand is cleared.
SequenceError(d, index) ==
  [LoseSync(d, "BadPacket", index) EXCEPT !.halt = TRUE, !.lost = TRUE]

\* flushPendingElements: everything held back goes out, in order of the packets.
Held(d) ==
  d.traceOn \o d.contexts \o d.elements \o d.ite \o d.exceptRet \o d.cycleCount

ByIndex(s) == SortSeq(s, LAMBDA a, b : a.index < b.index)

flushPendingElements(d) ==
  [d EXCEPT !.out = @ \o ByIndex(Held(d)),
            !.traceOn = <<>>, !.contexts = <<>>, !.elements = <<>>, !.ite = <<>>,
            !.exceptRet = <<>>, !.cycleCount = <<>>]

\* Mutant: an open return stays open when its address comes.
updateAddressKeepsPop(d, p) ==
  Walked([d EXCEPT !.iAddr = p.addr, !.needAddr = FALSE], [kind |-> "Address", addr |-> p.addr])

updateAddress(d, p) ==
  Walked([d EXCEPT !.popPending = FALSE, !.iAddr = p.addr, !.needAddr = FALSE],
         [kind |-> "Address", addr |-> p.addr])

updateContext(d, p, index) ==
  IF p.ctxt = 0 THEN d
  ELSE [d EXCEPT !.contexts = Append(@, Elem("PeContext", index, p.ctxt))]

----------------------------------------------------------------------------
(* Memory, the return stack and the code follower                          *)

HasMemory(a) == a \in DOMAIN Program
KindAt(a)    == IF HasMemory(a) THEN Program[a].kind ELSE "None"

\* The first address from a on, below b, that is not an ordinary instruction.
FirstStop(a, b) == Min({x \in a..b : x = b \/ KindAt(x) # "Other"})
Waypoint(a)     == FirstStop(a, Max({a, Len(Program) + 1}))

\* Mutant: the oldest return address is not dropped.
pushAlways(d, a) ==
  IF ~config.retStack THEN d ELSE [d EXCEPT !.stack = Append(@, a)]

push(d, a) ==
  IF ~config.retStack THEN d
  ELSE [d EXCEPT !.stack =
          Append(IF Len(@) = RetStackCap THEN Tail(@) ELSE @, a)]

\* A return whose address was left out goes to the top of the return stack.
TakeReturn(d) ==
  IF config.retStack /\ d.stack # <<>>
  THEN [d EXCEPT !.popPending = FALSE, !.needAddr = FALSE,
                 !.iAddr = Last(d.stack), !.stack = Front(d.stack)]
  ELSE [d EXCEPT !.popPending = FALSE]

PopReturn(d) == IF d.needAddr /\ d.popPending THEN TakeReturn(d) ELSE d

Nacc(d, index, a) == [Emit(d, Elem("AddrNacc", index, a)) EXCEPT !.needAddr = TRUE]

RangeElem(index, a, b, exec) ==
  Elem("InstrRange", index, [from |-> a, to |-> b, exec |-> exec])

\* The range that ends with the instruction at w.
ShowRange(d, index, w, taken) ==
  [d EXCEPT !.out = @ \o <<RangeElem(index, d.iAddr, w + 1, taken)>>
                      \o (IF config.ete /\ taken /\ Program[w].eret
                          THEN <<Elem("ExceptionRet", index, 0)>> ELSE <<>>)]

\* Past the instruction at w.
GoPast(d, w, taken) ==
  LET ins == Program[w]
  IN  [(IF taken /\ ins.link THEN push(d, w + 1) ELSE d) EXCEPT
         !.popPending = @ \/ (config.retStack /\ taken /\ ins.kind = "Ind"),
         !.iAddr = IF taken /\ ins.kind = "Br" THEN ins.target ELSE w + 1,
         !.needAddr = taken /\ ins.kind = "Ind"]

StopIfLost(d) == [d EXCEPT !.halt = d.needAddr]

\* more: another atom of the same run follows.
ReturnWithin(d, more) == IF more /\ d.popPending THEN TakeReturn(d) ELSE d

\* One atom: the instructions up to the next waypoint.
followAtom(d, index, taken, more) ==
  LET w == Waypoint(d.iAddr)
  IN  CASE KindAt(w) = "None" -> [Nacc(d, index, w) EXCEPT !.halt = TRUE]
        [] KindAt(w) = "Bad"  -> SequenceError(d, index)
        [] OTHER ->
             StopIfLost(ReturnWithin(GoPast(ShowRange(d, index, w, taken), w, taken), more))

AfterAtom(d, atoms, k) ==
  IF d.halt THEN d
  ELSE followAtom(d, atoms[k].index, atoms[k].atom = "E", k < Len(atoms))

\* processatomEntries on one run of atoms.
processatomEntries(d, atoms) ==
  LET acted == [k \in DOMAIN atoms |->
                  [kind |-> "Atom", index |-> atoms[k].index, atom |-> atoms[k].atom]]
      first == StopIfLost([PopReturn(flushPendingElements(d)) EXCEPT !.walk = @ \o acted])
      upto[k \in 0..Len(atoms)] == IF k = 0 THEN first ELSE AfterAtom(upto[k - 1], atoms, k)
  IN  upto[Len(atoms)]

\* The instructions up to the place of exception e were executed.
ShowException(d, e) ==
  LET upto == Min({x \in d.iAddr..e.ret : x = e.ret \/ KindAt(x) \in {"None", "Bad"}})
      runs == e.exc.interp # 2 /\ d.iAddr < e.ret
      d1   == IF runs /\ upto < e.ret THEN Nacc(d, e.index, upto) ELSE d
      d2   == IF runs /\ d.iAddr < upto
              THEN Emit(d1, RangeElem(e.index, d.iAddr, upto, TRUE)) ELSE d1
  IN  IF runs /\ upto < e.ret /\ KindAt(upto) = "Bad" THEN [d EXCEPT !.err = TRUE]
      ELSE Emit(d2, Elem("Exception", e.index, e.exc.num))

\* processExceptionPacket, behind its flush.
processExceptionPacket(d, e) == ShowException(PopReturn(d), e)

\* With CommitOpt1 a queued exception is shown from the address at which the
\* decoder was when it was queued.
BackTo(d, r) == IF r.err THEN r ELSE [r EXCEPT !.iAddr = d.iAddr, !.needAddr = d.needAddr]
ShowQueuedException(d, e) ==
  IF ~config.opt1 THEN processExceptionPacket(d, e)
  ELSE BackTo(d, processExceptionPacket([d EXCEPT !.iAddr = e.start, !.needAddr = e.need], e))

\* The p.count instructions of a Q element, or the way from one address to the
\* other if they are not known to lead there.
ShowQ(d, p, index) ==
  LET final == d.iAddr + p.count - 1
      stop == Min({x \in d.iAddr..(final + 1) :
                     x = final + 1 \/ KindAt(x) \notin {"Other", "Isb"}})
      branch == stop <= final /\ KindAt(stop) \in {"Br", "Ind"}
      whole  == p.count > 0 /\ (IF branch THEN stop = final
                                ELSE stop = final + 1 /\ stop = p.addr)
  IN  Walked([Emit(d, IF whole THEN RangeElem(index, d.iAddr, final + 1, TRUE)
                      ELSE Elem("IRangeNopath", index, [from |-> d.iAddr, to |-> p.addr]))
                EXCEPT !.iAddr = p.addr, !.needAddr = FALSE],
             [kind |-> "Q", addr |-> p.addr])

processQElement(d, p, index) == ShowQ(flushPendingElements(d), p, index)

\* The ranges that end at the source address p.addr, from a on: one, or one for
\* every instruction that could have branched.
SourceRanges(index, a, p) ==
  LET ends == {x \in a..p.addr : x = p.addr \/ KindAt(x) # "Other"}
      gaps == {x \in ends : KindAt(x) \in {"None", "Bad"}}
      cuts == SetToSortSeq({x \in ends : \A g \in gaps : x < g}, <)
  IN  [gap |-> gaps,
       out |-> [k \in DOMAIN cuts |->
                  RangeElem(index, IF k = 1 THEN a ELSE cuts[k - 1] + 1, cuts[k] + 1,
                        cuts[k] = p.addr)]]

ShowSource(d, p, index) ==
  LET ins == Program[p.addr]
      a   == IF d.needAddr \/ d.iAddr > p.addr THEN p.addr ELSE d.iAddr
      r   == SourceRanges(index, a, p)
      cut == IF r.gap = {} THEN "Other" ELSE KindAt(Min(r.gap))
      shown == IF ~config.srcNAtoms THEN <<RangeElem(index, a, p.addr + 1, TRUE)>>
               ELSE r.out \o (IF cut = "None" THEN <<Elem("AddrNacc", index, Min(r.gap))>> ELSE <<>>)
      e1  == [d EXCEPT !.out = @ \o shown
                               \o (IF ins.eret THEN <<Elem("ExceptionRet", index, 0)>> ELSE <<>>)]
      e2  == IF ins.kind \in {"Br", "Ind"} /\ ins.link THEN push(e1, p.addr + 1) ELSE e1
      e3  == [e2 EXCEPT !.iAddr = IF ins.kind = "Br" THEN ins.target ELSE p.addr + 1,
                        !.needAddr = ins.kind = "Ind",
                        !.popPending = @ \/ (ins.kind = "Ind" /\ config.retStack)]
  IN  CASE KindAt(p.addr) = "None" ->
             Walked(Nacc(d, index, p.addr), [kind |-> "Source", addr |-> p.addr])
        [] KindAt(p.addr) = "Bad"  -> SequenceError(d, index)
        [] config.srcNAtoms /\ HasMemory(p.addr) /\ KindAt(p.addr) # "Bad" /\ cut = "Bad" ->
             [SequenceError([d EXCEPT !.out = @ \o r.out], index) EXCEPT !.err = TRUE]
        [] OTHER -> Walked(e3, [kind |-> "Source", addr |-> p.addr])

processSourceAddress(d, p, index) == ShowSource(flushPendingElements(d), p, index)

----------------------------------------------------------------------------
(* The stack of what is not committed yet                                  *)

isP0(e) ==
  \/ e.kind \in {"Atom", "Exception"}
  \/ e.kind = "Q" /\ e.pkt.present
  \/ e.kind = "MemTrans" /\ e.elem.val = "Start" /\ config.transP0

P0At(s) == {k \in DOMAIN s : isP0(s[k])}

\* The elements of s at the places ks, in order.
Pick(s, ks) ==
  LET upto[k \in 0..Len(s)] ==
        IF k = 0 THEN <<>>
        ELSE IF k \in ks THEN Append(upto[k - 1], s[k]) ELSE upto[k - 1]
  IN  upto[Len(s)]

IDs(s) == LET p == Pick(s, P0At(s)) IN [k \in DOMAIN p |-> p[k].id]

Queue(d, e) == [d EXCEPT !.p0 = Append(@, e)]

\* queueElement
QueueElem(d, kind, e) ==
  Queue(d, [kind |-> kind, index |-> e.index, id |-> <<e.index, 1>>, elem |-> e])

AddDepth(d, k) == [d EXCEPT !.specDepth = (@ + k) % DepthMod]

queueAtoms(d, atoms, index) ==
  AddDepth([d EXCEPT !.p0 = @ \o [k \in DOMAIN atoms |->
              [kind |-> "Atom", index |-> index, id |-> <<index, k>>, atom |-> atoms[k]]]],
           Len(atoms))

\* shouldQueueControl, shouldQueueAddress
ShouldQueue(d) == config.maxSpec > 0 /\ d.p0 # <<>>

\* One entry that is no atom, or a run of atoms.
ProcessRun(d, entries, k) ==
  LET e   == entries[k]
      end == Min({x \in k..Len(entries) : x = Len(entries) \/ entries[x + 1].kind # "Atom"})
  IN  IF d.lost \/ d.err THEN d
      ELSE CASE e.kind = "Atom"      -> processatomEntries(d, SubSeq(entries, k, end))
             [] e.kind = "Exception" ->
                  ShowQueuedException(Walked(flushPendingElements(d), e), e)
             [] e.kind = "Address"   -> updateContext(updateAddress(d, e.pkt), e.pkt, e.index)
             [] e.kind = "Context"   -> updateContext(d, e.pkt, e.index)
             [] e.kind = "Q"         -> processQElement(d, e.pkt, e.index)
             [] e.kind \in {"CycleCount", "TraceOn", "MemTrans"} ->
                  Emit(flushPendingElements(d), e.elem)

\* An atom behind another one is part of its run.
AfterEntry(d, entries, k) ==
  IF k = 1 \/ entries[k].kind # "Atom" \/ entries[k - 1].kind # "Atom"
  THEN ProcessRun(d, entries, k) ELSE d

\* When sync is lost under way the entries are cleared, too.
processPendingP0Entries(d, entries) ==
  LET upto[k \in 0..Len(entries)] == IF k = 0 THEN d ELSE AfterEntry(upto[k - 1], entries, k)
  IN  upto[Len(entries)]

\* Mutant: every entry counts.
EndOfEntries(s, count) == Min({count, Len(s)})

\* Where the oldest count P0 elements end; everything, if there are fewer.
EndOf(s, count) ==
  Max({0} \cup {k \in DOMAIN s : Cardinality({x \in P0At(s) : x < k}) < count})

DropEntries(d, end) == IF d.lost THEN d ELSE [d EXCEPT !.p0 = SubSeq(@, end + 1, Len(@))]
LessDepth(d, k) == [d EXCEPT !.specDepth = (@ - k) % DepthMod]

\* Mutant: the depth is brought up to date behind the entries.
CommitUpToLate(d, end) ==
  LET old == SubSeq(d.p0, 1, end)
  IN  DropEntries(LessDepth(processPendingP0Entries([d EXCEPT !.resolved = @ \o IDs(old)], old),
                            Cardinality(P0At(old))), end)

\* The entries up to end are committed.
CommitUpTo(d, end) ==
  LET old == SubSeq(d.p0, 1, end)
  IN  DropEntries(processPendingP0Entries(
                    LessDepth([d EXCEPT !.resolved = @ \o IDs(old)], Cardinality(P0At(old))), old),
                  end)

commitPendingAtoms(d, num) ==
  LET skip == IF config.opt1 THEN Min({num, d.unseenSpec}) ELSE 0
  IN  CommitUpTo(LessDepth([d EXCEPT !.unseenSpec = @ - skip], skip), EndOf(d.p0, num - skip))

\* Mutant: one more may be outstanding.
commitOverSpecDepthLate(d) ==
  IF d.specDepth <= config.maxSpec + 1 THEN d
  ELSE commitPendingAtoms(d, d.specDepth - config.maxSpec - 1)

commitOverSpecDepth(d) ==
  IF d.specDepth <= config.maxSpec THEN d ELSE commitPendingAtoms(d, d.specDepth - config.maxSpec)

\* The newest num P0 elements go; what was queued between them stays.
Cancel(d, num) ==
  LET gone == {k \in P0At(d.p0) : Cardinality({x \in P0At(d.p0) : x > k}) < num}
  IN  [LessDepth(d, Cardinality(gone)) EXCEPT !.p0 = Pick(@, DOMAIN @ \ gone)]

\* The newest atom went the other way, and the addresses behind it are void.
Mispredict(d) ==
  LET m    == Max({0} \cup {k \in DOMAIN d.p0 : d.p0[k].kind = "Atom"})
      void == {k \in DOMAIN d.p0 : k > m /\ d.p0[k].kind = "Address"}
      flip == [k \in DOMAIN d.p0 |->
                 IF k = m THEN [d.p0[k] EXCEPT !.atom = IF @ = "E" THEN "N" ELSE "E"]
                 ELSE d.p0[k]]
  IN  [d EXCEPT !.p0 = Pick(flip, DOMAIN flip \ void)]

resolveSpeculation(d, p, index) ==
  LET Rest(x) == IF p.mispredict THEN Mispredict(x) ELSE x
  IN  commitOverSpecDepth(Rest(Cancel(queueAtoms(d, p.atoms, index), p.num)))

----------------------------------------------------------------------------
(* Packets                                                                 *)

DecodeTraceInfo(d, p, index) ==
  LET e  == Elem("MemTrans", index, "Init")
      d1 == IF p.depth < 0 THEN d
            ELSE [d EXCEPT !.specDepth = p.depth, !.unseenSpec = p.depth,
                           !.respec = @ \/ P0At(d.p0) # {}]
  IN  IF ~(config.ete /\ p.trans) THEN d1
      ELSE IF ShouldQueue(d1) THEN QueueElem(d1, "MemTrans", e) ELSE Emit(d1, e)

DecodeTrans(d, p, index) ==
  LET d1 == QueueElem(d, "MemTrans", Elem("MemTrans", index, p.val))
  IN  commitOverSpecDepth(IF p.val = "Start" /\ config.transP0 THEN AddDepth(d1, 1) ELSE d1)

DecodePEReset(d, index) ==
  LET e == Elem("Exception", index, "PEReset")
  IN  IF ShouldQueue(d) THEN commitOverSpecDepth(QueueElem(d, "MemTrans", e)) ELSE Emit(d, e)

DecodeTraceOn(d, index) ==
  LET e  == Elem("TraceOn", index, IF d.prevOverflow THEN "Overflow" ELSE "Normal")
      d1 == [d EXCEPT !.prevOverflow = FALSE]
  IN  IF ShouldQueue(d) THEN QueueElem(d1, "TraceOn", e) ELSE [d1 EXCEPT !.traceOn = <<e>>]

DecodeContext(d, p, index) ==
  IF ShouldQueue(d) THEN Queue(d, [kind |-> "Context", index |-> index, pkt |-> p])
  ELSE updateContext(d, p, index)

\* resolvePendingExceptionAddress: an exception waits for the address it returns to.
ResolveException(d, addr) ==
  LET x == d.exception[1]
      e == [kind |-> "Exception", index |-> x.index, id |-> <<x.index, 1>>, exc |-> x.pkt,
            ret |-> addr, start |-> d.iAddr, need |-> d.needAddr]
      d1 == [d EXCEPT !.exception = <<>>]
  IN  IF d.exception = <<>> THEN d
      ELSE IF config.maxSpec > 0 THEN commitOverSpecDepth(AddDepth(Queue(d1, e), 1))
      ELSE processExceptionPacket(Walked(flushPendingElements(d1), e), e)

\* What comes behind the exception whose address this is.
TakeAddress(d, p, index) ==
  IF d.err THEN d
  ELSE IF ShouldQueue(d) THEN Queue(d, [kind |-> "Address", index |-> index, pkt |-> p])
  ELSE updateContext(updateAddress(d, p), p, index)

DecodeAddress(d, p, index) == TakeAddress(ResolveException(d, p.addr), p, index)

DecodeException(d, p, index) ==
  IF p.interp \in {1, 2} THEN [d EXCEPT !.exception = <<[index |-> index, pkt |-> p]>>]
  ELSE Emit(d, Elem("Exception", index, p.num))

\* A cycle count with a commit count (num, or -1 for none).
DecodeCycleCount(d, p, index) ==
  LET e == Elem("CycleCount", index, 0)
      Counted(x) == IF x.err THEN x ELSE QueueElem(x, "CycleCount", e)
  IN  IF config.opt1 THEN [d EXCEPT !.cycleCount = <<e>>]
      ELSE Counted(IF p.num < 0 THEN d ELSE commitPendingAtoms(d, p.num))

DecodeQ(d, p, index) ==
  LET q == Queue(d, [kind |-> "Q", index |-> index, id |-> <<index, 1>>, pkt |-> p])
  IN  commitOverSpecDepth(IF p.present THEN AddDepth(q, 1) ELSE q)

decodePacket(d, p, index) ==
  CASE p.type \in {"ASync", "NotSync", "Ignore"} -> d
    [] p.type = "Bad"       -> resetDecoder([d EXCEPT !.unsync = "BadPacket"])
    [] p.type = "TraceInfo" -> DecodeTraceInfo(d, p, index)
    [] p.type = "Trans"     -> DecodeTrans(d, p, index)
    [] p.type = "PEReset"   -> DecodePEReset(d, index)
    [] p.type = "TraceOn"   -> DecodeTraceOn(d, index)
    [] p.type = "Context"   -> DecodeContext(d, p, index)
    [] p.type = "Address"   -> DecodeAddress(d, p, index)
    [] p.type = "SrcAddr"   -> processSourceAddress(d, p, index)
    [] p.type = "Atom"      -> commitOverSpecDepth(queueAtoms(d, p.atoms, index))
    [] p.type = "Commit"    -> commitPendingAtoms(d, p.num)
    [] p.type = "Cancel"    -> resolveSpeculation(d, p, index)
    [] p.type = "Exception" -> DecodeException(d, p, index)
    [] p.type = "ExceptionReturn" -> [d EXCEPT !.exceptRet = <<Elem("ExceptionRet", index, 0)>>]
    [] p.type = "ITE"       -> [d EXCEPT !.ite = <<Elem("ITE", index, 0)>>]
    [] p.type \in {"Timestamp", "TSMarker"} ->
         [d EXCEPT !.elements = Append(@, Elem(p.type, index, 0))]
    [] p.type = "CycleCount" -> DecodeCycleCount(d, p, index)
    [] p.type = "Event"     -> [Emit(d, Elem("Event", index, 0)) EXCEPT !.eotPending = TRUE]
    [] p.type = "Overflow"  -> [LoseSync(d, "Overflow", index) EXCEPT !.prevOverflow = TRUE]
    [] p.type = "Discard"   -> [LoseSync(d, "Discard", index) EXCEPT !.eotPending = TRUE]
    [] p.type = "Q"         -> DecodeQ(d, p, index)

\* In WaitTInfo only a TraceInfo, which ends the wait, and events are decoded.
processPacket(d0, p, index) ==
  LET d == [d0 EXCEPT !.halt = FALSE, !.lost = FALSE, !.seenData = TRUE]
      searching == [d EXCEPT !.state = IF p.type = "ASync" THEN "WaitTInfo" ELSE "WaitSync"]
      insync == [d EXCEPT !.needAddr = @ \/ d.state = "WaitTInfo",
                          !.state = IF p.type = "TraceInfo" THEN "Pkts" ELSE @]
  IN  CASE d.state = "NoSync"   -> Emit(searching, Elem("NoSync", index, d.unsync))
        [] d.state = "WaitSync" -> searching
        [] d.state = "Pkts" \/ (d.state = "WaitTInfo" /\ p.type \in {"TraceInfo", "Event"}) ->
             decodePacket(insync, p, index)
        [] OTHER -> insync

----------------------------------------------------------------------------
DecoderInit ==
  /\ \E s \in Scenarios : config = s.cfg /\ menu = s.menu
  /\ packets = 0 /\ parserSync = FALSE /\ ended = FALSE /\ restarts = 0
  /\ last = [type |-> "None"] /\ dec = NewDecoder("InitDecoder")

\* The parser hands over NotSync until it has found an Async; a caller stops
\* after an error.
NextPacket(p) ==
  /\ ~ended /\ ~dec.err
  /\ IF parserSync THEN p.type # "NotSync" ELSE p.type \in {"NotSync", "ASync"}
  /\ packets' = packets + 1 /\ parserSync' = (parserSync \/ p.type = "ASync")
  /\ last' = p /\ dec' = processPacket(dec, p, packets + 1)
  /\ UNCHANGED <<config, menu, ended, restarts>>

\* commitElemOnEOT: what stands before the first entry that is still in doubt.
InDoubt(e) ==
  \/ e.kind \in {"Atom", "Exception", "TraceOn", "Q"}
  \/ e.kind = "MemTrans" /\ e.elem.val = "Start"

CertainPrefix(s) ==
  SubSeq(s, 1, Min({k \in 0..Len(s) : k = Len(s) \/ InDoubt(s[k + 1])}))

CertainAtEnd(s) ==
  LET c == Pick(CertainPrefix(s), {k \in DOMAIN CertainPrefix(s) :
                                     s[k].kind \in {"MemTrans", "CycleCount"}})
  IN  [k \in DOMAIN c |-> c[k].elem]

EndReported(d) ==
  \/ parserSync /\ (d.state = "Pkts" \/ (config.ete /\ d.seenData))
  \/ d.prevOverflow \/ d.eotPending \/ ~d.seenData

EndOfTrace(d, index) ==
  LET e == Elem("EOTrace", index, IF d.prevOverflow THEN "Overflow" ELSE "EOT")
  IN  [d EXCEPT !.p0 = <<>>, !.elements = <<>>, !.cycleCount = <<>>,
                !.out = @ \o CertainAtEnd(d.p0) \o d.elements \o d.cycleCount
                          \o (IF EndReported(d) THEN <<e>> ELSE <<>>)]

\* An unfinished packet (partial) only makes a decoder without sync say so.
DecoderClose(partial) ==
  /\ ~ended /\ ended' = TRUE
  /\ dec' = IF partial THEN EndOfTrace(processPacket(dec, [type |-> "Ignore"], packets + 1), packets + 1)
            ELSE EndOfTrace(dec, packets)
  /\ last' = [type |-> "None"]
  /\ UNCHANGED <<config, menu, packets, parserSync, restarts>>

\* The histories start again with the session.
DecoderReset ==
  /\ restarts < MaxRestarts /\ restarts' = restarts + 1
  /\ packets' = 0 /\ parserSync' = FALSE /\ ended' = FALSE /\ last' = [type |-> "None"]
  /\ dec' = [resetDecoder([dec EXCEPT !.unsync = "ResetDecoder"])
               EXCEPT !.seenData = FALSE, !.prevOverflow = FALSE, !.eotPending = FALSE,
                      !.err = FALSE, !.respec = FALSE,
                      !.out = <<>>, !.walk = <<>>, !.resolved = <<>>]
  /\ UNCHANGED <<config, menu>>

DecoderNext ==
  \/ packets < Len(menu) /\ \E p \in menu[packets + 1] : NextPacket(p)
  \/ \E partial \in BOOLEAN : DecoderClose(partial)
  \/ DecoderReset

DecoderSpec == DecoderInit /\ [][DecoderNext]_decoderVars
============================================================================
