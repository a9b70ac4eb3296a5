------------------------------ MODULE MCEtmv4 ------------------------------
(***************************************************************************)
(* A program with two calls, returns, a barrier, a bad opcode and an       *)
(* end, and packets around its branches.                                   *)
(***************************************************************************)
EXTENDS Etmv4Props

I(kind, link, eret, target) == [kind |-> kind, link |-> link, eret |-> eret, target |-> target]
Plain == I("Other", FALSE, FALSE, 0)
Code == <<Plain, I("Br", TRUE, FALSE, 5), I("Br", TRUE, FALSE, 6), I("Ind", FALSE, TRUE, 0),
          I("Isb", FALSE, FALSE, 0), I("Ind", FALSE, FALSE, 0), I("Bad", FALSE, FALSE, 0), Plain>>

P(type) == [type |-> type]
Async == P("ASync")
Info(depth, trans) == [type |-> "TraceInfo", depth |-> depth, trans |-> trans]
Addr(a, c) == [type |-> "Address", addr |-> a, ctxt |-> c]
Atoms(s) == [type |-> "Atom", atoms |-> s]
Commit(k) == [type |-> "Commit", num |-> k]
Cancelled(k, mis, s) == [type |-> "Cancel", num |-> k, mispredict |-> mis, atoms |-> s]
Exc(i) == [type |-> "Exception", interp |-> i, num |-> 7]
CC(k) == [type |-> "CycleCount", num |-> k]
Trans(v) == [type |-> "Trans", val |-> v]
Q(present, count, a) == [type |-> "Q", present |-> present, count |-> count, addr |-> a]
Src(a) == [type |-> "SrcAddr", addr |-> a]
Ctxt == [type |-> "Context", ctxt |-> 1]

E1 == Atoms(<<"E">>)
EE == Atoms(<<"E", "E">>)
EEN == Atoms(<<"E", "E", "N">>)
E4 == Atoms(<<"E", "E", "E", "E">>)

Cfg(max, opt1, ete, nAtoms) ==
  [maxSpec |-> max, opt1 |-> opt1, transP0 |-> TRUE, ete |-> ete, retStack |-> TRUE,
   srcNAtoms |-> nAtoms]

SpecMenu ==
  <<{Async}, {Info(-1, FALSE), Info(1, FALSE)}, {Addr(1, 1)},
    {E1, EEN, E4},
    {Addr(3, 0), Exc(1), P("TraceOn"), CC(1), Trans("Start"), E1, Info(1, FALSE)},
    {Addr(5, 1), EE, Cancelled(1, FALSE, <<>>), P("Timestamp"), Ctxt, Q(TRUE, 1, 3), Q(FALSE, 0, 2)},
    {Commit(1), Commit(2), CC(2), Cancelled(2, TRUE, <<"E">>), Cancelled(0, TRUE, <<"E", "E">>),
     P("Overflow"), P("Bad")},
    {Commit(2), EE, Cancelled(1, TRUE, <<>>), P("Event"), Addr(6, 0)},
    {E1, Commit(3)}>>

LossMenu ==
  <<{P("NotSync"), Async}, {Async}, {P("Event"), Info(2, FALSE)}, {Info(-1, FALSE)},
    {Addr(6, 1), Addr(7, 0), Exc(2)}, {E1, Addr(8, 1), Exc(1)}, {Commit(1), CC(1), Addr(7, 1), P("Discard")},
    {Async}, {Info(1, FALSE)}, {Addr(1, 0)}, {E1, CC(1)}, {Commit(1), P("TSMarker")}>>

\* More calls than the return stack holds, then returns.
CallMenu ==
  <<{Async}, {Info(-1, FALSE)}, {Addr(1, 0)}, {E1}, {Addr(3, 0)}, {E1}, {Addr(1, 0)}, {E1},
    {Addr(6, 0), Exc(1)}, {E1, E4, Addr(6, 1)}, {Commit(1), CC(2)}, {E1, Commit(3)}>>

EteMenu ==
  <<{Async}, {Info(-1, TRUE)}, {Addr(1, 0), Addr(3, 0)},
    {Src(2), Src(4), Src(6), Src(7), Src(9), E1},
    {Trans("Start"), Trans("Fail"), P("PEReset"), P("ITE"), P("ExceptionReturn"), Exc(0), Info(0, TRUE)},
    {Src(2), Src(8), E1, Addr(4, 0), Q(TRUE, 1, 2)},
    {E1, EE, P("Overflow")}, {P("TraceOn"), Async}>>

Runs == {[cfg |-> Cfg(max, opt1, FALSE, FALSE), menu |-> m] : max \in {0, 2}, opt1 \in BOOLEAN,
                                                              m \in {SpecMenu, LossMenu, CallMenu}}
        \cup {[cfg |-> Cfg(max, FALSE, TRUE, s), menu |-> EteMenu] : max \in {0, 1}, s \in BOOLEAN}
=============================================================================
