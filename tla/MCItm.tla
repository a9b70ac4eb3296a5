------------------------------- MODULE MCItm -------------------------------
(***************************************************************************)
(* Streams for Itm: noise in front, an Async, packets of every kind, and   *)
(* after a bad packet noise, an Async and packets again.                   *)
(***************************************************************************)
EXTENDS ItmProps

Async == <<0, 0, 0, 0, 0, 128>>

Noise == {<<>>, <<0, 0, 5>>, <<7, 0, 0, 0, 0, 128, 9, 9, 9, 9, 9, 9>>, <<0, 0>>}

Swit == {<<9, 85>>, <<26, 1, 2>>, <<19, 1, 2, 3, 0>>}
Dwt  == {<<21, 7>>}
TSL  == {<<32>>, <<192, 129, 2>>, <<240, 5>>}
Ovf  == {<<112>>}
Page == {<<40>>, <<44>>, <<152, 1>>}
GTS  == {<<148, 133, 1>>, <<148, 129, 128, 128, 97>>, <<148, 129, 130, 131, 1>>,
         <<180, 3>>, <<180, 131, 128, 128, 128, 128, 0>>}
Bad  == {<<4>>, <<0, 0, 5>>, <<192, 129, 129, 129, 129>>, <<0, 128>>}

Good == Swit \cup Dwt \cup TSL \cup Ovf \cup Page \cup GTS

\* Noise, one packet and the next Async; three packets of the kinds that share
\* state in the decoder; a loss of sync between two packets.
SyncStreams  == {n \o Async \o p \o Async : n \in Noise, p \in Good}
StateStreams ==
  {Async \o p \o q \o r : p \in Ovf \cup Page \cup GTS \cup TSL, q \in Ovf \cup TSL \cup GTS,
                          r \in {<<9, 85>>, <<32>>, <<148, 133, 1>>, <<180, 3>>}}
LossStreams  ==
  {Async \o p \o b \o n \o Async \o q : p \in {<<40>>, <<180, 3>>, <<112>>, <<32>>},
                                        b \in Bad, n \in {<<>>, <<0, 0, 5>>},
                                        q \in {<<9, 85>>, <<148, 133, 1>>}}

\* Broken runs of zeros around the size of the reader's array, the second one
\* behind stale memory, which an Async may outgrow as well.
Zeros(z) == [k \in 1..z |-> 0]
SpillStreams ==
  {Zeros(z) \o <<5>> \o w \o Zeros(a) \o Async \o <<9, 85>> :
     z \in {6, 7, 9}, w \in {<<>>, <<0, 6, 7>>, Zeros(9) \o <<5>>}, a \in {0, 3}}

AllStreams == SyncStreams \cup StateStreams \cup LossStreams \cup SpillStreams

\* Short streams to go on with after a Reset.
ShortStreams == {<<5, 0, 0, 0, 0, 0, 128, 40, 9, 85>>, Async \o <<32, 4>>, <<0, 0, 0, 0, 0, 0>>}
============================================================================
