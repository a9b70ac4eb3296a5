------------------------------- MODULE MCPtm -------------------------------
(***************************************************************************)
(* A program of Arm and Thumb code with calls and returns, and streams for *)
(* Ptm: syncs behind noise and zeros, packets of every form under several  *)
(* configurations, walks through the program, and packets that cannot be   *)
(* read.                                                                   *)
(***************************************************************************)
EXTENDS PtmProps, TLC

I(kind, size, link, target, next) ==
  [kind |-> kind, size |-> size, link |-> link, target |-> target, next |-> next]

Code ==
  <<"Arm", 260>>    :> I("Br", 4, TRUE, 272, "Arm") @@
  <<"Arm", 268>>    :> I("Br", 4, FALSE, 256, "Arm") @@
  <<"Arm", 276>>    :> I("Ind", 4, FALSE, 0, "Arm") @@
  <<"Arm", 280>>    :> I("Br", 4, TRUE, 320, "Thumb2") @@
  <<"Arm", 284>>    :> I("Isb", 4, FALSE, 0, "Arm") @@
  <<"Thumb2", 320>> :> I("Br", 4, TRUE, 272, "Arm") @@
  <<"Thumb2", 326>> :> I("Ind", 2, TRUE, 0, "Thumb2") @@
  <<"Thumb2", 328>> :> I("Ind", 2, FALSE, 0, "Thumb2")

Mapped == {256 + 2 * k : k \in 0..15} \cup {320 + 2 * k : k \in 0..5}

----------------------------------------------------------------------------
Async(n) == Zeros(n) \o <<128>>
\* info: the reason (times 32), non-secure (8), alternative ISA (4)
ISyncAt(addr, info) == <<8, addr % 256, addr \div 256, 0, 0, info>>

\* The address in words (Arm), with the last byte's high bits.
Near(addr) == <<2 * ((addr \div 4) % 64) + 1>>
Far(addr, high) == <<129 + 2 * ((addr \div 4) % 64), high + ((addr \div 256) % 64)>>
Whole(addr, high) == <<129 + 2 * ((addr \div 4) % 64), 128 + ((addr \div 256) % 128), 128, 128, high>>
\* The same in halfwords.
WholeThumb(addr, high) == <<129 + 2 * ((addr \div 2) % 64), 128 + ((addr \div 128) % 128), 128, 128, high>>

E == <<132>>
N == <<134>>
EE == <<136>>
NEE == <<152>>

Cfg(cc, ctxt, ts64, ret, observer) ==
  [cc |-> cc, ctxt |-> ctxt, ts64 |-> ts64, retStack |-> ret, observer |-> observer]
Session(c, s) == [cfg |-> c, bytes |-> s]
Plain == Cfg(FALSE, 0, FALSE, TRUE, TRUE)

\* Zeros around the 16 at which the search starts again, and so many that the zeros
\* kept leave the array of the scratch.
SyncSessions ==
  {Session([Plain EXCEPT !.observer = o], n \o Async(z) \o ISyncAt(256, 32) \o E \o Async(5) \o E) :
     o \in BOOLEAN, z \in {4, 5, 15, 16, 17, 21, 53},
     n \in {<<>>, <<7>>, <<0, 0, 0, 0, 0, 9>>, Zeros(31) \o <<3>>, [k \in 1..17 |-> 2 * k]}}

\* Packets of every form, each behind a sync and in front of another.
Forms ==
  {Near(276), Far(276, 0), Far(276, 64) \o <<30>>, Far(256, 64) \o <<157, 3>>, Whole(256, 0),
   WholeThumb(320, 16), WholeThumb(320, 80) \o <<66>>, Whole(272, 32), Whole(272, 64) \o <<158, 33>>,
   <<129, 129, 130, 3>>, <<129, 129, 130, 67, 16>>,
   <<114>> \o Near(264), <<114>> \o Far(272, 0), <<114>> \o WholeThumb(324, 16),
   <<114>> \o Whole(284, 64) \o <<64>>,
   ISyncAt(256, 32), ISyncAt(321, 0), ISyncAt(321, 68), ISyncAt(280, 104),
   E, N, NEE, <<162>>, <<202>>, <<66, 5>>, <<70, 133, 6>>, <<66>> \o [k \in 1..9 |-> 200 + k],
   <<66, 255, 127>>, <<110, 1, 2>>, <<60, 5>>, <<12>>, <<118>>, <<102>>}

\* With cycle counts the bytes behind are taken for counts: 68, 196, 200 and 1.
Counts == {<<0>>, <<68, 1>>, <<124, 129, 2>>, <<64, 128, 128, 128, 129, 1>>}

FormSessions ==
  {Session(Cfg(FALSE, c, t, FALSE, TRUE), Async(5) \o ISyncAt(256, 8) \o SubSeq(<<7, 9>>, 1, c) \o p \o q) :
     c \in {0, 2}, t \in BOOLEAN, p \in Forms, q \in {Near(268), <<114>> \o Near(264), <<66, 7>>}}
  \cup {Session(Cfg(TRUE, c, FALSE, TRUE, TRUE),
                Async(5) \o ISyncAt(256, 40) \o <<4>> \o SubSeq(<<7, 9>>, 1, c) \o p \o x \o Near(260) \o <<8>>) :
     c \in {0, 1}, p \in Forms \cup {<<196, 130, 1>>}, x \in Counts}

\* Five packets that steer the walk.
Moves == {E, N, EE, Near(276), Far(276, 0) , <<114>> \o Near(264), ISyncAt(280, 0), Far(256, 64) \o <<30>>,
          WholeThumb(326, 16)}
WalkSessions ==
  {Session([Plain EXCEPT !.retStack = r],
           Async(5) \o ISyncAt(256, 32) \o p \o q \o x \o y \o E) :
     r \in {TRUE}, p \in {E, EE, ISyncAt(280, 0)}, q \in Moves, x \in Moves, y \in Moves}

\* Packets that cannot be read, and what may come behind them.
Bad == {<<2>>, <<0, 0, 1>>, Zeros(16) \o <<9>>, <<0, 0, 0, 128>>, <<0, 7>>}
BadSessions ==
  {Session(Plain, Async(5) \o ISyncAt(256, 40) \o E \o b \o x \o y \o ISyncAt(272, 0) \o EE \o <<110>>) :
     b \in Bad, x \in {<<>>, E, ISyncAt(256, 0), <<6>>}, y \in {<<>>, Async(6), Async(5) \o E, Near(256)}}

AllSessions == SyncSessions \cup FormSessions \cup WalkSessions \cup BadSessions

NextStream == {Async(5) \o ISyncAt(257, 0) \o E \o <<110>>}

\* Walks come in one block; the others are cut, the shorter ones anywhere.
WalkStreams == {s.bytes : s \in WalkSessions}
Chunks(s) ==
  IF s \in WalkStreams \cup NextStream THEN {100} ELSE IF Len(s) > 35 THEN {7, 31, 100} ELSE {1, 5}

ZeroSessions == {s \in SyncSessions : s.cfg.observer}
============================================================================
