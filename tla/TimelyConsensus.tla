--------------------------- MODULE TimelyConsensus ---------------------------
(***************************************************************************)
(* Consensus under the timing its authors rely on.  Every handler starts   *)
(* with time.Sleep(3 * time.Second) (PBFT.go:286, 366, 462 and 587), so    *)
(* when delivery and handling take well under three seconds, a message is  *)
(* handled only after everything an earlier phase sent.  The assumption is *)
(* made for the nodes in Punctual; the others may be arbitrarily late.     *)
(***************************************************************************)
EXTENDS Consensus

CONSTANT Punctual   \* the replicas the timing holds for

ASSUME TimelyAssumption == Punctual \subseteq NodeTable \ {Client}

Phase(m) == CASE m.type = "PrePrepare" -> 1
              [] m.type = "Prepare"    -> 2
              [] m.type = "Commit"     -> 3

\* Mutant: the handlers of one round do not sleep.
Before_NoPhases(m1, m2) == m1.digest < m2.digest

\* Mutant: the rounds are not kept apart by the sleep of handlePrePrepare.
Before_NoRounds(m1, m2) == m1.digest = m2.digest /\ Phase(m1) < Phase(m2)

Before(m1, m2) ==
  \/ m1.digest < m2.digest
  \/ m1.digest = m2.digest /\ Phase(m1) < Phase(m2)

\* Messages a punctual replica can still handle.
Prompt == {m \in net : m.to \in Punctual \ (crashed \cup leaked)}

\* The sleep of m's handler ends after the sleeps of every phase before it.
InTime(m) == m.to \in Punctual => \A e \in Prompt : ~Before(e, m)

TimelyHandleRequest(n) ==
  /\ Alive(n)
  /\ \E m \in net : m.to = n /\ InTime(m) /\ Handle(m)

TimelyWork ==
  \/ AwaitTurn
  \/ HandleClientRequest
  \/ \E n \in Replicas : TimelyHandleRequest(n)

TimelyNext ==
  \/ \E c \in Chains : PackBlock(c)
  \/ TimelyWork
  \/ \E n \in MayCrash : Crash(n)

TimelySpec == Init /\ [][TimelyNext]_vars

TimelyFairness == WF_vars(TimelyWork)

FairTimelySpec == TimelySpec /\ TimelyFairness

----------------------------------------------------------------------------
(* Properties.                                                             *)

\* A round that was opened ends: the primary commits its block and releases the
\* WaitGroup, with as many crashed backups as the quorum leaves over.
RoundCompletes == (waitCommit = 1) ~> (waitCommit = 0)

\* Every block that was packed is committed by every punctual replica that
\* stays up.
EveryLiveReplicaCommits ==
  \A d \in Digests : \A n \in Punctual :
    (d <= Len(built)) ~> (d \in isReply[n] \/ n \in crashed)

\* The guards of TimelyWork: some goroutine has something to do, and is not
\* waiting for a lock, for a round to end or for the sleep of an earlier phase.
CanHandle(m) == m.type = "PrePrepare" \/ CanLock(m.to)

CanWork ==
  \/ Alive(Primary) /\ stage = "wait" /\ NoRoundOpen
  \/ Alive(Primary) /\ stage = "propose" /\ CanLock(Primary)
  \/ \E m \in net : Alive(m.to) /\ InTime(m) /\ CanHandle(m)

\* Where nothing is left to run, nothing was left undone while the primary is up:
\* the packager is free to pack and the punctual replicas that are up committed
\* every block.  So the lock, the WaitGroup and the quorums never leave everyone
\* waiting.
RestIsDone ==
  Alive(Primary) /\ ~CanWork =>
    /\ stage = "pack"
    /\ \A n \in Punctual \ crashed : isReply[n] = 1..Len(built)

\* What the primary committed is not lost with it: when nothing is left to run,
\* every punctual replica that is up and not locked out has committed it too,
\* although no replica takes over and none asks another for a block (PBFT.go:632).
DecidedIsNotLost ==
  ~CanWork => \A n \in Punctual \ (crashed \cup leaked) : isReply[Primary] \subseteq isReply[n]

\* No Prepare overtakes the PrePrepare it answers and none outlives the pool
\* entry of its block, so no punctual replica ends up holding its own lock as long
\* as the primary is up: one that stops in the middle of a broadcast may leave a
\* backup to hear of a block from the others only.
NoLockLeaked == Alive(Primary) => leaked \cap Punctual = {}

\* Two replicas commit the same blocks in the same order: one log is always a
\* prefix of the other, also after the primary stopped anywhere in a round.
LogsAgree ==
  \A n, r \in Punctual :
    \A i \in 1..Len(localMessagePool[n]) :
      i <= Len(localMessagePool[r]) => localMessagePool[n][i] = localMessagePool[r][i]

\* A punctual replica answers a PrePrepare only when it had the sequence number
\* before it: the gap that handlePrePrepare reports as refused (PBFT.go:399) and
\* answers all the same does not come up where the sleeps keep rounds apart.
PunctualInSequence ==
  [][\A m \in net' \ net : m.type = "Prepare" /\ m.from \in Punctual =>
       m.seq = sequenceID[m.from][built[m.digest].chain] + 1]_vars

\* The tip of a punctual replica is the newest block it committed on the chain
\* (Blockchain.go:16), although UpdateMainBlock sets it to whatever commits last.
PunctualTipIsNewest ==
  \A n \in Punctual : \A d \in isReply[n] : tip[n][built[d].chain] >= d

\* Every replica stores a tree on the genesis block, as the primary does.
ReplicaParentStored == \A n \in Punctual : ParentStored(n)

=============================================================================
