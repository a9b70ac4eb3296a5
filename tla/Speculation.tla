---------------------------- MODULE Speculation ----------------------------
(***************************************************************************)
(* What a decoder of speculative trace promises about the elements that    *)
(* can be committed or cancelled: they are resolved oldest first, they are *)
(* cancelled newest first, and no more than limit of them stay in doubt.   *)
(***************************************************************************)
EXTENDS Integers, Sequences, FiniteSetsExt

VARIABLES
  limit,      \* how many may be in doubt, fixed
  unseen,     \* older ones, from before the trace began
  skipUnseen, \* whether a commit counts them, fixed
  live,       \* the elements in doubt, oldest first
  resolved    \* the elements committed, in order

specVars == <<limit, unseen, skipUnseen, live, resolved>>

Keep(s, k) == SubSeq(s, 1, Max({0, Len(s) - k}))
Oldest(s, k) == SubSeq(s, 1, Min({k, Len(s)}))
Newer(s, k)  == SubSeq(s, Min({k, Len(s)}) + 1, Len(s))

\* The oldest k elements of s are committed, and the rest stays in doubt.
CommitFrom(s, k) ==
  LET skip == IF skipUnseen THEN Min({k, unseen}) ELSE 0
  IN  /\ unseen' = unseen - skip
      /\ resolved' = resolved \o Oldest(s, k - skip)
      /\ live' = Newer(s, k - skip)
      /\ UNCHANGED <<limit, skipUnseen>>

\* The elements new enter, the newest c of all go, and what is over the limit is
\* committed.
Left(new, c) == Keep(live \o new, c)
Enter(new, c) == CommitFrom(Left(new, c), Max({0, unseen + Len(Left(new, c)) - limit}))

Commit(k) == CommitFrom(live, k)

\* The trace says how many older elements there are.
Begin(k) == unseen' = k /\ UNCHANGED <<limit, skipUnseen, live, resolved>>

\* Sync is lost, or the trace ends, with nothing or the oldest committed.
Drop(new, c) ==
  /\ live' = <<>>
  /\ \E k \in 0..Len(Left(new, c)) : resolved' = resolved \o Oldest(Left(new, c), k)
  /\ UNCHANGED <<limit, skipUnseen>>
============================================================================
