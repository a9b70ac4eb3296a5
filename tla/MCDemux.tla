------------------------------ MODULE MCDemux ------------------------------
(***************************************************************************)
(* Instances of the frame demuxer for TLC.  Frames have 8 bytes: three     *)
(* pairs, the last slot and the flags; a reset run is then two FSYNCs.     *)
(* Trace IDs 1 and 2 have sinks, 3 has none.                               *)
(***************************************************************************)
EXTENDS DemuxProps

Off == [HasFsyncs |-> FALSE, HasHsyncs |-> FALSE, FrameMemAlign |-> FALSE,
        PackedRawOut |-> FALSE, UnpackedRawOut |-> FALSE, ResetOn4xFsync |-> FALSE]

AlignedOptions == {[Off EXCEPT !.FrameMemAlign = TRUE, !.UnpackedRawOut = r] : r \in BOOLEAN}
ResetOptions   == {[Off EXCEPT !.FrameMemAlign = TRUE, !.ResetOn4xFsync = TRUE,
                               !.PackedRawOut = r] : r \in BOOLEAN}
SyncOptions    == {[Off EXCEPT !.HasFsyncs = TRUE, !.HasHsyncs = TRUE, !.PackedRawOut = r]
                     : r \in BOOLEAN}

Item(f, h, frame) == [fsyncs |-> f, hsyncs |-> h, frame |-> frame]
Layout(noise, sections) == [noise |-> noise, sections |-> sections]

\* ID bytes 3, 5 and 7 stand for the IDs 1, 2 and 3; 64.. are data.
Frames(heads, flags) ==
  {<<e[1], 33, e[2], 255, e[3], 37, e[4], f>> : e \in heads, f \in flags}

\* In every slot an ID or a data byte, every pair of choices in some frame.
EveryHead == {<<3, 3, 5, 5>>, <<3, 66, 7, 70>>, <<3, 3, 68, 70>>,
              <<5, 66, 5, 70>>, <<5, 3, 7, 5>>, <<5, 66, 68, 5>>,
              <<64, 3, 5, 70>>, <<64, 66, 7, 5>>, <<64, 66, 68, 70>>}
SomeHeads == {<<3, 66, 5, 70>>, <<64, 5, 68, 3>>, <<3, 5, 7, 3>>}

\* Each frame shape, alone behind a frame that leaves ID 1 or 3 current.
UnpackLayouts ==
  {Layout(<<>>, << <<Item(0, {}, <<first, 33, 66, 35, 68, 37, 70, 8>>), Item(0, {}, f)>> >>)
     : first \in {3, 7}, f \in Frames(EveryHead, {0, 5, 10, 15})}

\* Aligned frames, up to three of them.
AlignedLayouts ==
  {Layout(<<>>, << <<Item(0, {}, f), Item(0, {}, g), Item(0, {}, f)>> >>)
     : f \in Frames(SomeHeads, {5}), g \in Frames(SomeHeads, {10})}

\* FSYNCs and HSYNCs between and inside frames, behind noise that may look
\* like the start of an FSYNC.
SyncLayouts ==
  {Layout(noise, << <<Item(1, h, f), Item(n, {}, <<64, 255, 126, 35, 68, 255, 70, 5>>)>> >>)
     : noise \in {<<>>, <<17, 255, 255>>}, h \in {{1, 3}, {4}}, n \in {0, 2},
       f \in Frames({<<3, 66, 5, 70>>, <<3, 5, 7, 3>>}, {10})}

\* Reset runs at the start, in the middle and at the end.
ResetLayouts ==
  LET f == Item(0, {}, <<3, 33, 66, 255, 5, 37, 70, 10>>)
      g == Item(0, {}, <<64, 33, 3, 35, 68, 37, 5, 2>>)
  IN  {Layout(<<>>, s) : s \in {<< <<>>, <<f, g>> >>, << <<f>>, <<g, f>> >>,
                                      << <<f, g>>, <<>> >>, << <<f>>, <<g>>, <<f>> >>}}

----------------------------------------------------------------------------
\* The traces, and how they are cut, that go with each configuration.  With
\* reset runs the caller hands over whole frames.
AllOptions == AlignedOptions \cup ResetOptions \cup SyncOptions

AllLayouts ==
  [o \in AllOptions |-> CASE o.HasFsyncs      -> SyncLayouts
                          [] o.ResetOn4xFsync -> ResetLayouts \cup UnpackLayouts
                          [] OTHER            -> AlignedLayouts]
AllChunks ==
  [o \in AllOptions |-> CASE o.HasFsyncs      -> {1, 3, 8, 13, 34}
                          [] o.ResetOn4xFsync -> {8, 16, 24, 32, 40}
                          [] OTHER            -> {1, 3, 7, 8, 11, 24}]

\* Reset runs in blocks that end inside a frame or inside the run.
CutLayouts == [o \in ResetOptions |-> ResetLayouts]
CutChunks  == [o \in ResetOptions |-> {3, 8, 13}]

BytesOf(layouts) == [o \in DOMAIN layouts |-> {LayoutBytes(l) : l \in layouts[o]}]
AllTraces  == BytesOf(AllLayouts)
CutTraces  == BytesOf(CutLayouts)
=============================================================================
