---------------------------- MODULE QuorumLedger -----------------------------
(***************************************************************************)
(* What the block consensus promises, with no message, lock, log or        *)
(* packager in it: blocks are announced one at a time, a replica votes for *)
(* a block only when 2f backups hold it, and decides it only when itself   *)
(* and 2f others voted.  The next block is announced when the primary has  *)
(* decided every block before it.                                          *)
(***************************************************************************)
EXTENDS Integers, FiniteSets

CONSTANTS Replicas, Primary, MaxBlocks, TwoF

VARIABLES
  announced,   \* how many blocks were announced: they are 1..announced
  accepted,    \* [Replicas -> SUBSET blocks]: the blocks a replica holds
  voted,       \* the blocks a replica voted to commit
  decided      \* the blocks a replica committed

vars == <<announced, accepted, voted, decided>>

Nothing == [r \in Replicas |-> {}]

Add(f, r, d) == [f EXCEPT ![r] = @ \cup {d}]

Init ==
  /\ announced = 0
  /\ accepted = Nothing
  /\ voted = Nothing
  /\ decided = Nothing

Announce ==
  /\ announced < MaxBlocks
  /\ 1..announced \subseteq decided[Primary]
  /\ announced' = announced + 1
  /\ accepted' = Add(accepted, Primary, announced + 1)
  /\ UNCHANGED <<voted, decided>>

Accept(r, d) ==
  /\ d \in 1..announced
  /\ accepted' = Add(accepted, r, d)
  /\ UNCHANGED <<announced, voted, decided>>

Vote(r, d) ==
  /\ d \in accepted[r]
  /\ Cardinality({q \in Replicas \ {Primary} : d \in accepted[q]}) >= TwoF
  /\ voted' = Add(voted, r, d)
  /\ UNCHANGED <<announced, accepted, decided>>

Decide(r, d) ==
  /\ d \in voted[r]
  /\ Cardinality({q \in Replicas \ {r} : d \in voted[q]}) >= TwoF
  /\ decided' = Add(decided, r, d)
  /\ UNCHANGED <<announced, accepted, voted>>

Next ==
  \/ Announce
  \/ \E r \in Replicas, d \in 1..MaxBlocks : Accept(r, d) \/ Vote(r, d) \/ Decide(r, d)

Spec == Init /\ [][Next]_vars

=============================================================================
