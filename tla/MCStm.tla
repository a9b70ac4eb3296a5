------------------------------- MODULE MCStm -------------------------------
(***************************************************************************)
(* Streams for Stm: noise, a sync, packets of every form; a sync at either *)
(* nibble of a byte, with Fs to spare, and inside the stream; packets that *)
(* make Write fail.                                                        *)
(***************************************************************************)
EXTENDS StmProps

Even(s) == IF Len(s) % 2 = 0 THEN s ELSE Append(s, 0)

Fs(n)  == [k \in 1..n |-> 15]
Async  == Fs(21) \o <<0>>
Nat3   == <<15, 0, 0, 3>>
Grey4  == <<15, 0, 0, 4>>

Noise == {<<>>, <<1>>, <<15, 15, 0>>, <<0, 15, 2, 15>>, Fs(5), Fs(20) \o <<0>>, Fs(265),
          [k \in 1..256 |-> 1]}

\* Long streams come in few blocks, one of them long enough to bring a count of
\* nibbles round to 0.
Chunks(len) == IF len > 200 THEN {7, 128} ELSE {1, 6}

IDs   == {<<1, 2, 3>>, <<3, 7, 8>>, <<15, 3, 1, 2, 3, 4>>, <<2, 4, 5>>, <<15, 2, 6, 7>>}
Data  == {<<4, 1, 2>>, <<12, 9>>, <<15, 9, 1, 2, 3, 4>>, <<15, 13, 15>>, <<6>> \o Fs(8),
          <<15, 11>> \o [k \in 1..16 |-> k - 1], <<15, 14>>, <<15, 0, 8, 1, 2, 3, 4, 5, 6, 7, 8>>,
          <<15, 0, 6, 1, 2>>}
Timed == {<<8, 1, 2, 2, 5, 6>>, <<13, 3, 0>>, <<14, 3, 8, 0, 1>>, <<15, 12, 9, 1, 15>>,
          <<15, 0, 1, 2, 9, 3>>, <<15, 0, 7, 1, 2, 1, 12>>, <<15, 5, 1, 2, 3, 4, 13>> \o Fs(14),
          <<14, 14>> \o [k \in 1..16 |-> 16 - k]}
Bad   == {<<15, 1>>, <<15, 0, 9>>, <<15, 0, 0, 7>>, <<14, 15>>, <<15, 15, 15, 1>>}

\* Noise and sync at either nibble.
SyncStreams == {Even(n \o Async \o Nat3 \o d \o Async \o <<4, 1, 2>>) : n \in Noise, d \in {<<>>, <<12, 9>>}}

\* Two packets that share the identity or the time, and one that shows both.
Pairs == IDs \cup {<<8, 1, 2, 2, 5, 6>>, <<15, 0, 1, 2, 9, 3>>, <<14, 14>> \o [k \in 1..16 |-> 16 - k]}
StateStreams ==
  {Even(Async \o Nat3 \o p \o q \o <<15, 4, 1, 2, 1, 7>>) : p \in Pairs, q \in Pairs}
  \cup {Even(Async \o Grey4 \o p \o q \o <<15, 4, 1, 2, 1, 7>>) : p \in Pairs \ IDs, q \in Pairs \ IDs}

FormStreams ==
  {Even(Async \o Nat3 \o d \o Grey4 \o <<14, 1, 3>>) : d \in Data}
  \cup {Even(Async \o Grey4 \o <<12, 1>> \o t \o Nat3 \o t) : t \in Timed}

\* An error, and what a caller may go on with.
FaultStreams ==
  {Even(Async \o Nat3 \o <<12, 9>> \o b \o g \o Async \o Nat3 \o <<4, 1, 2>>) :
     b \in Bad, g \in {<<>>, <<3, 1, 2>>}}
  \cup {Even(Async \o <<8, 1, 2, 1, 5, 4, 1, 2>>)}

AllStreams == {<<1, 2>>} \cup SyncStreams \cup StateStreams \cup FormStreams \cup FaultStreams

\* For the session behind a Reset.
NextStream == {Even(<<7, 7, 15, 1>> \o Async \o Nat3 \o <<4, 1, 2>>)}
FirstStream == {Even(Async \o Nat3 \o <<4, 1, 2>>)}
============================================================================
