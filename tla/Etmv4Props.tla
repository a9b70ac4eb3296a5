----------------------------- MODULE Etmv4Props -----------------------------
(***************************************************************************)
(* What the ETMv4 decoder promises: its stack of uncommitted elements      *)
(* behaves as Speculation, and the instruction ranges are those of a walk  *)
(* through the program, one committed element at a time.                   *)
(***************************************************************************)
EXTENDS Etmv4

DecoderTypeOK ==
  /\ packets \in 0..Len(menu) /\ parserSync \in BOOLEAN /\ ended \in BOOLEAN /\ restarts \in 0..MaxRestarts
  /\ dec.state \in {"NoSync", "WaitSync", "WaitTInfo", "Pkts"}
  /\ dec.iAddr \in Nat /\ dec.needAddr \in BOOLEAN /\ dec.popPending \in BOOLEAN
  /\ dec.specDepth \in 0..(DepthMod - 1) /\ dec.unseenSpec \in 0..(DepthMod - 1)
  /\ dec.stack \in Seq(Nat) /\ Len(dec.stack) <= RetStackCap
  /\ \A s \in {dec.traceOn, dec.ite, dec.exceptRet, dec.cycleCount, dec.exception} : Len(s) <= 1
  /\ \A k \in DOMAIN dec.p0 : dec.p0[k].kind \in
       {"Atom", "Exception", "Address", "CycleCount", "Context", "TraceOn", "Q", "MemTrans"}

\* The depth is the number of elements in doubt, on the stack and from before
\* the trace: it never wraps around, so that nothing is committed too early or
\* too late.  A TraceInfo that sets the depth over a stack breaks the count.
DepthAccounted ==
  ~dec.respec /\ ~ended => dec.specDepth = dec.unseenSpec + Cardinality(P0At(dec.p0))

\* No more elements are in doubt than the processor can have outstanding.
StackBounded == ~dec.respec => Cardinality(P0At(dec.p0)) <= config.maxSpec

\* Out of sync nothing is in doubt and no return is open; one cycle count may
\* still be queued, that of the packet with which sync was lost.
LossDropsDoubt ==
  dec.state # "Pkts" =>
    /\ P0At(dec.p0) = {} /\ Len(dec.p0) <= 1 /\ dec.specDepth = 0 /\ dec.unseenSpec = 0
    /\ dec.stack = <<>> /\ dec.exception = <<>> /\ ~dec.popPending

----------------------------------------------------------------------------
Doubt == INSTANCE Speculation WITH limit <- config.maxSpec, skipUnseen <- config.opt1,
       unseen <- dec.unseenSpec, live <- IDs(dec.p0), resolved <- dec.resolved

\* The P0 elements that packet p brings.
New(p) ==
  LET atoms == [k \in DOMAIN p.atoms |-> <<packets', k>>]
      one   == << <<packets', 1>> >>
  IN  CASE p.type \in {"Atom", "Cancel"} -> atoms
        [] p.type = "Q" /\ p.present     -> one
        [] p.type = "Trans" /\ p.val = "Start" /\ config.transP0 -> one
        [] p.type = "Address" /\ dec.exception # <<>> /\ config.maxSpec > 0 ->
             << <<dec.exception[1].index, 1>> >>
        [] OTHER -> <<>>

Gone(p) == IF p.type = "Cancel" THEN p.num ELSE 0

Resolves(p) ==
  CASE p.type = "Commit"                         -> Doubt!Commit(p.num)
    [] p.type = "CycleCount" /\ ~config.opt1 /\ p.num >= 0 -> Doubt!Commit(p.num)
    [] p.type = "TraceInfo" /\ p.depth >= 0      -> Doubt!Begin(p.depth)
    [] \/ New(p) # <<>> \/ p.type \in {"Atom", "Cancel", "Q", "Trans"}
       \/ p.type = "PEReset" /\ ShouldQueue(dec) -> Doubt!Enter(New(p), Gone(p))
    [] OTHER                                     -> UNCHANGED Doubt!specVars

\* Every packet in sync does to the elements in doubt what Speculation says: a
\* commit takes the oldest, a cancel the newest, an overfull stack resolves from
\* its old end, and a loss of sync on the way commits the oldest and drops the
\* rest.
ResolvesInOrder ==
  [][last'.type # "None" /\ dec.state = "Pkts" /\ ~dec'.respec =>
       IF dec'.state = "Pkts" THEN Resolves(last') ELSE Doubt!Drop(New(last'), Gone(last'))]_decoderVars

----------------------------------------------------------------------------
(* The walk through the program, one step at a time.                       *)

Nowhere == [at |-> 0, known |-> FALSE, stack |-> <<>>, pop |-> FALSE, dead |-> FALSE,
            stale |-> FALSE, out |-> <<>>]

ReturnTo(m) ==
  IF m.known \/ ~m.pop THEN m
  ELSE IF m.stack = <<>> THEN [m EXCEPT !.pop = FALSE]
  ELSE [m EXCEPT !.pop = FALSE, !.known = TRUE, !.at = Last(m.stack), !.stack = Front(m.stack)]

\* The newest return addresses, as many as fit.
Call(m, a) ==
  LET s == Append(m.stack, a)
  IN  IF ~config.retStack THEN m
      ELSE [m EXCEPT !.stack = SubSeq(s, 1 + Max({0, Len(s) - RetStackCap}), Len(s))]

\* Past the instruction at w, taken or not.
Past(m0, w, taken) ==
  LET ins == Program[w]
      m   == IF taken /\ ins.link THEN Call(m0, w + 1) ELSE m0
  IN  [m EXCEPT !.at = IF taken /\ ins.kind = "Br" THEN ins.target ELSE w + 1,
                !.known = ~(taken /\ ins.kind = "Ind"),
                !.pop = @ \/ (config.retStack /\ taken /\ ins.kind = "Ind")]

StepAtom(m0, x) ==
  LET m == ReturnTo(m0)
      w == Waypoint(m.at)
  IN  IF ~m.known THEN m
      ELSE CASE KindAt(w) = "None" ->
                  [m EXCEPT !.known = FALSE, !.out = Append(@, Elem("AddrNacc", x.index, w))]
             [] KindAt(w) = "Bad"  -> [m EXCEPT !.dead = TRUE]
             [] OTHER ->
                  Past([m EXCEPT !.out = Append(@, RangeElem(x.index, m.at, w + 1, x.atom = "E"))],
                       w, x.atom = "E")

\* An exception uses up an open return; it is lost if memory is missing.
StepException(m0, x) ==
  LET m == IF config.opt1 THEN ReturnTo([m0 EXCEPT !.known = ~x.need, !.at = x.start])
           ELSE ReturnTo(m0)
      missing == x.exc.interp # 2 /\ \E a \in m.at..(x.ret - 1) : ~HasMemory(a)
  IN  IF config.opt1 THEN [m EXCEPT !.known = m0.known, !.at = m0.at]
      ELSE [m EXCEPT !.known = @ /\ ~missing]

StepOf(m, x) ==
  LET r == CASE x.kind = "Lost"      -> [Nowhere EXCEPT !.out = m.out, !.stale = m.stale]
             [] x.kind # "Lost" /\ m.dead -> m
             [] x.kind = "Address"   -> [m EXCEPT !.at = x.addr, !.known = TRUE, !.pop = FALSE]
             [] x.kind = "Q"         -> [m EXCEPT !.at = x.addr, !.known = TRUE]
             [] x.kind = "Source"    -> IF HasMemory(x.addr) THEN Past(m, x.addr, TRUE)
                                        ELSE [m EXCEPT !.known = FALSE]
             [] x.kind = "Exception" -> StepException(m, x)
             [] x.kind = "Atom"      -> StepAtom(m, x)
  IN  [r EXCEPT !.stale = @ \/ (r.pop /\ r.known)]

WalkOf(xs) == FoldLeft(StepOf, Nowhere, xs)

AtomIndexes == {dec.walk[k].index : k \in {j \in DOMAIN dec.walk : dec.walk[j].kind = "Atom"}}

\* The ranges of the atoms are those of the walk through what was committed:
\* however the commits group the atoms, and whether a return address is taken
\* from the stack within a run of atoms or at the start of the next.  Behind a Q
\* element or a source address that comes while a return is open the code still
\* takes the return address later on; the walk does not follow it there.
RangesOfCommitted ==
  LET w == WalkOf(dec.walk)
  IN  w.stale \/ w.out = SelectSeq(dec.out, LAMBDA e : e.index \in AtomIndexes
                                              /\ e.kind \in {"InstrRange", "AddrNacc"})
=============================================================================
