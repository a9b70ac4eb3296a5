--------------------------- MODULE MCEtmv4Parser ---------------------------
(***************************************************************************)
(* Streams for Etmv4Parser, written by the source of Etmv4ParserProps:     *)
(* syncs behind noise and zeros, packets of every form under three         *)
(* configurations, runs of addresses, times and counts in their short      *)
(* forms, and packets that cannot be read.                                 *)
(***************************************************************************)
EXTENDS Etmv4ParserProps

Zeros(n) == [k \in 1..n |-> 0]

Cfg4 == [version |-> 42, commitOpt1 |-> FALSE, maxSpec |-> 20, q |-> TRUE, dataTrace |-> FALSE,
         cond |-> FALSE, ctxt |-> 4, vmid |-> 2, ccSize |-> 12]
Cfg46 == [Cfg4 EXCEPT !.version = 46, !.commitOpt1 = TRUE, !.q = FALSE, !.dataTrace = TRUE,
                      !.cond = TRUE, !.ctxt = 0, !.vmid = 1]
CfgEte == [Cfg4 EXCEPT !.version = 50, !.vmid = 4]

\* A session: noise, z zeros and 0x80, and what the source sends.
\* The search for a sync is cut anywhere, the packets of short sessions too.
Session(c, noise, z, items) ==
  LET s == Source(c, items)
  IN  [cfg |-> c, bytes |-> noise \o Zeros(z) \o <<128>> \o s.bytes, said |-> s.said, blocks |-> {1, 5}]
Behind(c, items) ==
  [Session(c, <<>>, 11, items) EXCEPT !.blocks = IF Len(items) < 3 THEN {1, 100} ELSE {7, 100}]
Fitting(c, seqs) == {Behind(c, s) : s \in {x \in seqs : Source(c, x).fits}}

----------------------------------------------------------------------------
P(type, bytes, val) == [what |-> "plain", type |-> type, bytes |-> bytes, val |-> val]
At(hi, lo, is) == [hi |-> hi, lo |-> lo, is |-> is]
A(form, a) == [what |-> "addr", kind |-> "Addr", form |-> form, addr |-> a]
SA(form, a) == [what |-> "addr", kind |-> "SrcAddr", form |-> form, addr |-> a]
M(n) == [what |-> "match", kind |-> "AddrMatch", n |-> n]
SM(n) == [what |-> "match", kind |-> "SrcAddrMatch", n |-> n]
C(el, sf, v, i) == [what |-> "context", el |-> el, sf |-> sf, ns |-> ~sf, vmid |-> v, ctxt |-> i]
AC(form, a, el, sf, v, i) ==
  [what |-> "addrctxt", form |-> form, addr |-> a, el |-> el, sf |-> sf, ns |-> TRUE, vmid |-> v, ctxt |-> i]
T(ts, n, count) == [what |-> "time", ts |-> ts, n |-> n, count |-> count]
CC(form, commit, count) == [what |-> "cycles", form |-> form, commit |-> commit, count |-> count]
TI(ctrl, info, key, spec, threshold, window) ==
  [what |-> "info", ctrl |-> ctrl, info |-> info, key |-> key, spec |-> spec, threshold |-> threshold,
   window |-> window]
Q(q, form, a, n, count) == [what |-> "q", q |-> q, form |-> form, addr |-> a, n |-> n, count |-> count]

Atom(type, b, bits, num) == P(type, <<b>>, <<AtomsOf(bits, num)>>)
Cancels(type, bytes, n, bits, num) == P(type, bytes, <<n, AtomsOf(bits, num)>>)
Exc(bytes, type, interp, fault) ==
  P("Exception", bytes, <<[type |-> type, interp |-> interp, fault |-> fault]>>)

----------------------------------------------------------------------------
\* Zeros around the eleven of a sync, behind bytes around the eight that are shown at once.
Noises == {<<>>, <<7>>, [k \in 1..7 |-> 9], [k \in 1..8 |-> 128], [k \in 1..13 |-> k], <<0, 5>>, <<3, 0, 0, 5>>,
           Zeros(10) \o <<128>>, Zeros(11) \o <<3>>, Zeros(13) \o <<9>>, Zeros(5) \o <<1, 1, 1>>, <<6>> \o Zeros(12) \o <<6>>}
SyncSessions ==
  {Session(Cfg4, n, z, <<P("TraceOn", <<4>>, <<>>), Atom("AtomF1", 247, 1, 1)>>) : n \in Noises, z \in {11, 12, 14}}

\* Packets without a payload or with one that depends on nothing before them.
Common ==
  {Atom("AtomF1", 246, 0, 1), Atom("AtomF2", 218, 2, 2), Atom("AtomF3", 254, 6, 3), Atom("AtomF4", 220, 14, 4),
   Atom("AtomF4", 223, 5, 4), Atom("AtomF5", 213, 0, 5), Atom("AtomF5", 214, 10, 5), Atom("AtomF5", 215, 21, 5),
   Atom("AtomF5", 245, 30, 5), Atom("AtomF6", 192, 15, 4), Atom("AtomF6", 225, 15, 5), Atom("AtomF6", 212, 2^24 - 1, 24),
   Cancels("Mispredict", <<48>>, 0, 0, 0), Cancels("Mispredict", <<50>>, 0, 3, 2), Cancels("CancelF2", <<53>>, 1, 1, 1),
   Cancels("CancelF2", <<55>>, 1, 0, 1), Cancels("CancelF3", <<60>>, 4, 0, 0), Cancels("CancelF3", <<63>>, 5, 1, 1),
   Cancels("CancelF1", <<46, 5>>, 5, 0, 0), Cancels("CancelF1Mispred", <<47, 133, 1>>, 133, 0, 0),
   P("Commit", <<45, 3>>, <<3>>), P("Commit", <<45, 130, 2>>, <<258>>), P("FuncRet", <<5>>, <<>>),
   P("Event", <<121>>, <<9>>), P("Discard", <<0, 3>>, <<>>), P("Overflow", <<0, 5>>, <<>>),
   P("ASync", Zeros(11) \o <<128>>, <<>>), Exc(<<6, 66>>, 1, 2, FALSE), Exc(<<6, 199, 33>>, 35, 3, TRUE),
   P("Context", <<128>>, <<<<FALSE, 0, FALSE, FALSE, FALSE, FALSE, FALSE>>>>)}

Only4 == {P("ExceptionReturn", <<7>>, <<>>)}
Only46 == {P("NumDSMarker", <<35>>, <<>>), P("UnnumDSMarker", <<44>>, <<>>), P("Cond", <<67>>, <<>>),
           P("Ignore", <<112>>, <<>>), P("TSMarker", <<136>>, <<>>)}
OnlyEte == {P("ITE", <<9>> \o [k \in 1..9 |-> 127 + k], <<[k \in 1..9 |-> 127 + k]>>), P("TransStart", <<10>>, <<>>),
            P("TransCommit", <<11>>, <<>>), P("PEReset", <<6, 0, 1>>, <<>>), P("TransFail", <<6, 49, 9>>, <<>>),
            Exc(<<6, 129, 1>>, 32, 1, FALSE)}

\* Packets that cannot be read.
Bad ==
  {P("Reserved", <<132>>, <<>>), P("Reserved", <<8>>, <<>>), P("BadSequence", <<0, 4>>, <<>>),
   P("BadSequence", Zeros(12), <<>>), P("BadSequence", Zeros(4) \o <<128>>, <<>>), P("BadSequence", Zeros(11) \o <<129>>, <<>>)}
Bad4 == {P("ReservedCfg", <<39>>, <<>>), P("ReservedCfg", <<40>>, <<>>), P("BadTraceMode", <<108>>, <<>>),
         P("Reserved", <<112>>, <<>>), P("Reserved", <<9>>, <<>>), P("Reserved", <<180>>, <<>>)}
BadEte == {P("ReservedCfg", <<7>>, <<>>)}

FormSessions ==
  {Behind(Cfg4, <<x, y>>) : x \in Common \cup Only4 \cup Bad \cup Bad4, y \in {Atom("AtomF1", 247, 1, 1), Exc(<<6, 66>>, 1, 2, FALSE)}}
  \cup {Behind(Cfg46, <<x, Cancels("CancelF1", <<46, 5>>, 5, 0, 0)>>) : x \in Only46 \cup {P("Reserved", <<160>>, <<>>)}}
  \cup {Behind(CfgEte, <<x, y>>) : x \in OnlyEte \cup Bad \cup BadEte, y \in {Exc(<<6, 66>>, 1, 2, FALSE), SM(0)} }

----------------------------------------------------------------------------
\* Addresses that differ in the bits the forms leave out.
Near == At(5, 4096 + 8, 0)
Targets == {Near, At(5, 4096 + 500, 0), At(5, 4096 + 70, 1), At(5, 2^17 + 64, 0), At(0, 2^17 + 6, 1), At(9, 2^30 + 512, 0)}
Places == {A(f, a) : f \in {"S", "S2", "L32", "L64"}, a \in Targets} \cup {M(n) : n \in 0..2}
SrcPlaces == {SA(f, a) : f \in {"S", "S2", "L32", "L64"}, a \in {At(5, 4096 + 500, 0), At(5, 4096 + 70, 1)}} \cup {SM(1)}

AddrSessions ==
  Fitting(Cfg4, {<<C(0, sf, <<>>, <<>>), A("L64", Near), x, y, M(2)>> : sf \in BOOLEAN, x \in Places, y \in Places})
  \cup Fitting(CfgEte, {<<C(0, TRUE, <<>>, <<>>), A("L64", Near), x, y, SM(2)>> :
                          x \in SrcPlaces, y \in SrcPlaces \cup {A("S2", At(5, 4096 + 70, 1))}})

Moved == At(5, 8192 + 16, 1)
QSessions ==
  Fitting(Cfg4, {<<C(1, TRUE, <<>>, <<>>), A("L64", Near), q, y>> :
     q \in {Q(t, "S", Near, 2, 300) : t \in {0, 1, 2, 12}}
             \cup {Q(5, f, a, n, 7) : f \in {"S", "S2"}, a \in {Near, At(5, 4096 + 500, 0)}, n \in {1, 2}}
             \cup {Q(6, f, At(5, 4096 + 70, 1), 1, 0) : f \in {"S", "S2"}}
             \cup {Q(10, "L32", At(5, 2^20, 0), 1, 9), Q(11, "L32", Moved, 5, 9)},
     y \in {M(0), M(1), A("S", Near), A("S2", Moved)}})

\* Contexts with and without IDs, which change the size of addresses.
IDs == <<1, 2, 0, 0>>
ContextSessions ==
  Fitting(Cfg4, {<<A("L64", Near), x, y, A("L32", At(h, 4096 + 4, 0))>> :
     h \in {0, 5}, x \in {C(2, TRUE, <<>>, <<>>), C(1, FALSE, <<3, 0>>, <<>>), C(3, TRUE, <<3, 1>>, IDs), C(0, TRUE, <<>>, IDs)},
     y \in {AC("L64", Moved, 1, FALSE, <<3, 0>>, IDs), AC("L64", Near, 0, TRUE, <<>>, <<>>),
            AC("L32", At(5, 64, 0), 0, TRUE, <<>>, IDs), AC("L32", At(0, 64, 1), 3, FALSE, <<7, 0>>, <<>>), M(0)}})
  \cup Fitting(Cfg46, {<<A("L64", Near), C(2, TRUE, <<4>>, <<>>), AC("L32", Moved, 1, TRUE, <<5>>, <<>>)>>})
  \cup Fitting(CfgEte, {<<A("L64", Near), C(2, TRUE, <<4, 0, 0, 1>>, <<>>), M(0)>>})

\* Times that differ in the first, the second and the last group, and counts.
Time(a, b, c) == [k \in 1..9 |-> CASE k = 1 -> a [] k = 2 -> b [] k = 9 -> c [] OTHER -> 3]
Times == {T(Time(1, 2, 200), 9, -1), T(Time(5, 2, 200), 1, -1), T(Time(6, 9, 200), 2, 130), T(Time(5, 9, 200), 2, -1),
          T(Time(1, 2, 7), 9, 4000)}
FirstTime == T(Time(4, 2, 200), 9, -1)
EarlyTime == T([k \in 1..9 |-> IF k = 1 THEN 8 ELSE 0], 1, -1)

Infos == {TI(1, -1, -1, -1, -1, -1), TI(1, 1, -1, 3, 4, -1), TI(2, 65, 200, -1, 300, 9), TI(1, 0, 1, 2, -1, 130)}
Counts == {CC(3, 2, 4), CC(3, 4, 7), CC(2, 1, 10), CC(2, 16, 4), CC(2, 18, 19), CC(1, 3, 500), CC(1, 200, 0)}

CountSessions ==
  Fitting(Cfg4, {<<i, FirstTime, x, y>> : i \in Infos, x \in Times, y \in Times})
  \cup Fitting(Cfg4, {<<i, x, y, P("Commit", <<45, 3>>, <<3>>)>> : i \in Infos, x \in Counts \cup {FirstTime}, y \in Counts \cup Infos})
  \cup Fitting(Cfg46, {<<i, x, y>> : i \in Infos, x \in Counts \cup {EarlyTime}, y \in Counts})

----------------------------------------------------------------------------
AllSessions ==
  SyncSessions \cup FormSessions \cup AddrSessions \cup QSessions \cup ContextSessions \cup CountSessions

\* Two contexts with IDs.
TwoContexts == Fitting(Cfg4, {<<C(0, TRUE, <<>>, <<1, 0, 0, 0>>), C(0, TRUE, <<>>, i)>> :
                                i \in {<<1, 0, 0, 0>>, <<2, 0, 0, 0>>}})
=============================================================================
