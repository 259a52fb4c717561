------------------------------ MODULE Consensus ------------------------------
(***************************************************************************)
(* The block consensus of the identity-management ledger, as PBFT.go runs  *)
(* it: a packager goroutine at the primary that builds blocks one after    *)
(* the other, a WaitGroup that admits one round at a time, the three       *)
(* message handlers every replica runs, each in a goroutine of its own,    *)
(* and the pruning of the primary's message pool.  There is no view        *)
(* change: its handlers are commented out in handleRequest.                *)
(*                                                                         *)
(* A handler that holds p.lock is one action.  handlePrePrepare never      *)
(* takes the lock, so it also runs at a replica whose lock was leaked.     *)
(* Blocks are numbered in the order the packager builds them; the number   *)
(* of a block stands for the digest of its request, and 0 for the genesis  *)
(* block of either chain.                                                  *)
(***************************************************************************)
EXTENDS Integers, Sequences, FiniteSets

CONSTANTS
  NodeTable,    \* the ids that get a broadcast: SPNum + UENum of them
  Client,       \* "1007": makes the genesis blocks, then only reads its keyboard
  Primary,      \* "1008": the only node that packs blocks
  Chains,       \* the main (ID) chain and the side (dynamic key) chain
  MaxBlocks,    \* bound: how many blocks the packager builds
  Period,       \* heights between two prunings of the pool: 10 in the code
  MayCrash,     \* bound: the replicas that may stop
  MaxCrashes    \* bound: how many of them do

ASSUME ConsensusAssumption ==
  /\ IsFiniteSet(NodeTable)
  /\ Client \in NodeTable
  /\ Primary \in NodeTable \ {Client}
  /\ MaxBlocks \in Nat
  /\ Period \in Nat \ {0}
  /\ MayCrash \subseteq NodeTable \ {Client}
  /\ MaxCrashes \in Nat

\* The nodes that run NewIdM and TcpListen; the client listens to nothing.
Replicas == NodeTable \ {Client}
Backups  == Replicas \ {Primary}

Digests == 1..MaxBlocks
Genesis == 0
Heights == 0..(MaxBlocks + 1)

VARIABLES
  built,              \* the blocks the packager made, a sequence
  stage,              \* where the packager is in its loop
  waitCommit,         \* the counter of the WaitGroup Constant.WaitCommit
  sequenceID,         \* [Replicas -> [Chains -> Nat]]
  messagePool,        \* [Replicas -> SUBSET Digests]
  digestPool,         \* the primary's digest of each chain's height, 0 for none
  prePareConfirmCount,\* [Replicas -> [Digests -> SUBSET Replicas]]
  commitConfirmCount, \* [Replicas -> [Digests -> SUBSET Replicas]]
  isCommitBroadcast,  \* [Replicas -> SUBSET Digests]
  isReply,            \* [Replicas -> SUBSET Digests]
  localMessagePool,   \* the log of each replica: the digests it committed
  tip,                \* [Replicas -> [Chains -> digest]], key "1" of the database
  height,             \* [Replicas -> [Chains -> Nat]], Cur{Main,Side}Height
  leaked,             \* the replicas whose p.lock was never released
  crashed,            \* the replicas that stopped
  net                 \* messages sent and not yet handled

packager == <<built, stage, waitCommit>>
ledger   == <<isReply, localMessagePool, tip, height>>
votes    == <<prePareConfirmCount, commitConfirmCount, isCommitBroadcast>>
pools    == <<sequenceID, messagePool, digestPool>>
vars     == <<packager, ledger, votes, pools, leaked, crashed, net>>

Message == [type   : {"PrePrepare", "Prepare", "Commit"},
            digest : Digests,
            seq    : 1..MaxBlocks,
            from   : Replicas,
            to     : Replicas]

Block == [chain : Chains, height : Nat, prev : Digests \cup {Genesis}]

Init ==
  /\ built = << >>
  /\ stage = "pack"
  /\ waitCommit = 0
  /\ sequenceID = [n \in Replicas |-> [c \in Chains |-> 0]]
  /\ messagePool = [n \in Replicas |-> {}]
  /\ digestPool = [c \in Chains |-> [h \in Heights |-> Genesis]]
  /\ prePareConfirmCount = [n \in Replicas |-> [d \in Digests |-> {}]]
  /\ commitConfirmCount = [n \in Replicas |-> [d \in Digests |-> {}]]
  /\ isCommitBroadcast = [n \in Replicas |-> {}]
  /\ isReply = [n \in Replicas |-> {}]
  /\ localMessagePool = [n \in Replicas |-> << >>]
  /\ tip = [n \in Replicas |-> [c \in Chains |-> Genesis]]
  /\ height = [n \in Replicas |-> [c \in Chains |-> 1]]
  /\ leaked = {}
  /\ crashed = {}
  /\ net = {}

----------------------------------------------------------------------------
(* Quorums.  N counts the client, which never votes.                       *)

TwoF == (Cardinality(NodeTable) \div 3) * 2

\* Mutant: a backup forgets that it need not hear its own Prepare.
PrepareQuorum_OwnToo(n) == TwoF

\* The primary sends no Prepare, and a backup does not count its own.
PrepareQuorum(n) == IF n = Primary THEN TwoF ELSE TwoF - 1

Alive(n) == n \notin crashed

\* p.lock.Lock() returns.
CanLock(n) == n \notin leaked

\* Mutant: the loop over NodeTable does not skip the sender.
Broadcast_ToSelf(type, d, s, n) ==
  {[type |-> type, digest |-> d, seq |-> s, from |-> n, to |-> m] :
      m \in Replicas \ crashed}

\* One goroutine and one TCP connection per destination other than the sender.
Broadcast(type, d, s, n) ==
  {[type |-> type, digest |-> d, seq |-> s, from |-> n, to |-> m] :
      m \in (Replicas \ {n}) \ crashed}

----------------------------------------------------------------------------
(* The packager: sendTxTrans, one goroutine at the primary.                *)

\* Mutant: the height is taken from the sequence number of the request.
NewBlock_BySequence(c) == [chain  |-> c,
                           height |-> sequenceID[Primary][c] + 2,
                           prev   |-> tip[Primary][c]]

\* The block is made from the tip and the height read now, under p.lock.
NewBlock(c) == [chain  |-> c,
                height |-> height[Primary][c] + 1,
                prev   |-> tip[Primary][c]]

\* More than 500 transactions of a chain are pooled: build a block of them.
PackBlock(c) ==
  /\ Alive(Primary)
  /\ stage = "pack"
  /\ CanLock(Primary)
  /\ Len(built) < MaxBlocks
  /\ built' = Append(built, NewBlock(c))
  /\ stage' = "wait"
  /\ UNCHANGED <<waitCommit, ledger, votes, pools, leaked, crashed, net>>

\* Mutant: the packager lets one more round in while one is open.
NoRoundOpen_Pipelined == waitCommit <= 1

\* Constant.WaitCommit.Wait() returns when no round is open.
NoRoundOpen == waitCommit = 0

\* Mutant: WaitCommit.Add(1) is missing.
AwaitTurn_NoAdd ==
  /\ Alive(Primary)
  /\ stage = "wait"
  /\ NoRoundOpen
  /\ stage' = "propose"
  /\ UNCHANGED <<built, waitCommit, ledger, votes, pools, leaked, crashed, net>>

AwaitTurn ==
  /\ Alive(Primary)
  /\ stage = "wait"
  /\ NoRoundOpen
  /\ waitCommit' = waitCommit + 1
  /\ stage' = "propose"
  /\ UNCHANGED <<built, ledger, votes, pools, leaked, crashed, net>>

HandleClientRequest ==
  LET d == Len(built)
      c == built[d].chain
      s == sequenceID[Primary][c] + 1
  IN
  /\ Alive(Primary)
  /\ stage = "propose"
  /\ CanLock(Primary)
  /\ stage' = "pack"
  /\ sequenceID' = [sequenceID EXCEPT ![Primary][c] = s]
  /\ digestPool' = [digestPool EXCEPT ![c][height[Primary][c]] = d]
  /\ messagePool' = [messagePool EXCEPT ![Primary] = @ \cup {d}]
  /\ net' = net \cup Broadcast("PrePrepare", d, s, Primary)
  /\ UNCHANGED <<built, waitCommit, ledger, votes, leaked, crashed>>

----------------------------------------------------------------------------
(* The message handlers, each for a message m on its way to m.to.          *)

\* Mutant: the backup does not remember the sequence number it accepted.
HandlePrePrepare_Forgets(m) ==
  /\ m.type = "PrePrepare"
  /\ messagePool' = [messagePool EXCEPT ![m.to] = @ \cup {m.digest}]
  /\ net' = (net \ {m}) \cup Broadcast("Prepare", m.digest, m.seq, m.to)
  /\ UNCHANGED <<packager, sequenceID, digestPool, ledger, votes, leaked, crashed>>

\* A sequence number that does not follow the last one is only logged.
HandlePrePrepare(m) ==
  LET n == m.to
      c == built[m.digest].chain
  IN
  /\ m.type = "PrePrepare"
  /\ sequenceID' = [sequenceID EXCEPT ![n][c] = m.seq]
  /\ messagePool' = [messagePool EXCEPT ![n] = @ \cup {m.digest}]
  /\ net' = (net \ {m}) \cup Broadcast("Prepare", m.digest, m.seq, n)
  /\ UNCHANGED <<packager, ledger, votes, digestPool, leaked, crashed>>

\* Mutant: a Prepare is counted whether or not its block is known.
KnowsDigest_Unchecked(m) == TRUE

KnowsDigest(m) == m.digest \in messagePool[m.to]

\* The digest is not in the pool: the handler returns and keeps p.lock.
RefusePrepare(m) ==
  /\ m.type = "Prepare"
  /\ CanLock(m.to)
  /\ ~KnowsDigest(m)
  /\ leaked' = leaked \cup {m.to}
  /\ net' = net \ {m}
  /\ UNCHANGED <<packager, ledger, votes, pools, crashed>>

ReadyToBroadcastCommit(n, d, preparers) ==
  /\ Cardinality(preparers) >= PrepareQuorum(n)
  /\ d \notin isCommitBroadcast[n]

\* Mutant: isCommitBroadcast is not set after the broadcast.
HandlePrepare_Unmarked(m) ==
  LET n == m.to
      d == m.digest
      preparers == prePareConfirmCount[n][d] \cup {m.from}
  IN
  /\ m.type = "Prepare"
  /\ CanLock(n)
  /\ KnowsDigest(m)
  /\ prePareConfirmCount' = [prePareConfirmCount EXCEPT ![n][d] = preparers]
  /\ net' = IF ReadyToBroadcastCommit(n, d, preparers)
               THEN (net \ {m}) \cup Broadcast("Commit", d, m.seq, n)
               ELSE net \ {m}
  /\ UNCHANGED <<packager, ledger, commitConfirmCount, isCommitBroadcast,
                 pools, leaked, crashed>>

HandlePrepare(m) ==
  LET n == m.to
      d == m.digest
      preparers == prePareConfirmCount[n][d] \cup {m.from}
  IN
  /\ m.type = "Prepare"
  /\ CanLock(n)
  /\ KnowsDigest(m)
  /\ prePareConfirmCount' = [prePareConfirmCount EXCEPT ![n][d] = preparers]
  /\ IF ReadyToBroadcastCommit(n, d, preparers)
       THEN /\ isCommitBroadcast' = [isCommitBroadcast EXCEPT ![n] = @ \cup {d}]
            /\ net' = (net \ {m}) \cup Broadcast("Commit", d, m.seq, n)
       ELSE /\ net' = net \ {m}
            /\ UNCHANGED isCommitBroadcast
  /\ UNCHANGED <<packager, ledger, commitConfirmCount, pools, leaked, crashed>>

\* Mutant: the replica's own Commit is counted towards the 2f of others.
ReadyToCommit_CountsSelf(n, d, committers) ==
  /\ Cardinality(committers) + 1 >= TwoF
  /\ d \notin isReply[n]
  /\ d \in isCommitBroadcast[n]

\* Mutant: isReply is not consulted.
ReadyToCommit_Again(n, d, committers) ==
  /\ Cardinality(committers) >= TwoF
  /\ d \in isCommitBroadcast[n]

ReadyToCommit(n, d, committers) ==
  /\ Cardinality(committers) >= TwoF
  /\ d \notin isReply[n]
  /\ d \in isCommitBroadcast[n]

\* messagePool[digest].ABlock: the zero block when the digest was pruned.
PooledBlock(n, d) == IF d \in messagePool[n] THEN d ELSE Genesis
PooledHeight(n, d) == IF d \in messagePool[n] THEN built[d].height ELSE 0

\* Mutant: the window reaches up to the current height.
Pruned_TooFar(n, c, h) ==
  IF n = Primary /\ h % Period = 0 /\ h # Period
    THEN {digestPool[c][i] : i \in (h - 2 * Period)..h \cap Heights} \ {Genesis}
    ELSE {}

\* The digests a Commit handler prunes at height h of chain c.  Only the
\* primary fills its digest pool, so only the primary prunes anything.
Pruned(n, c, h) ==
  IF n = Primary /\ h % Period = 0 /\ h # Period
    THEN {digestPool[c][i] : i \in (h - 2 * Period)..(h - Period - 1) \cap Heights}
         \ {Genesis}
    ELSE {}

\* Mutant: the branch of the primary, and Done in it, is missing.
RoundDone_Forgotten(n) == UNCHANGED waitCommit

\* WaitCommit.Done(), at the primary.
RoundDone(n) == waitCommit' = IF n = Primary THEN waitCommit - 1 ELSE waitCommit

CommitBlock(n, c, d) ==
  /\ localMessagePool' = [localMessagePool EXCEPT ![n] = Append(@, PooledBlock(n, d))]
  /\ tip' = [tip EXCEPT ![n][c] = PooledBlock(n, d)]
  /\ height' = [height EXCEPT ![n][c] = PooledHeight(n, d)]
  /\ isReply' = [isReply EXCEPT ![n] = @ \cup {d}]
  /\ RoundDone(n)

\* delete() on the three maps, for every pruned digest.
Prune(n, gone, committers, d) ==
  /\ messagePool' = [messagePool EXCEPT ![n] = @ \ gone]
  /\ prePareConfirmCount' = [prePareConfirmCount EXCEPT ![n] =
        [e \in Digests |-> IF e \in gone THEN {} ELSE @[e]]]
  /\ commitConfirmCount' = [commitConfirmCount EXCEPT ![n] =
        [e \in Digests |-> IF e \in gone THEN {} ELSE IF e = d THEN committers ELSE @[e]]]

HandleCommit(m) ==
  LET n == m.to
      d == m.digest
      c == built[d].chain
      committers == commitConfirmCount[n][d] \cup {m.from}
  IN
  /\ m.type = "Commit"
  /\ CanLock(n)
  /\ net' = net \ {m}
  /\ IF ReadyToCommit(n, d, committers)
       THEN CommitBlock(n, c, d)
       ELSE UNCHANGED <<ledger, waitCommit>>
  /\ Prune(n, Pruned(n, c, height'[n][c]), committers, d)
  /\ UNCHANGED <<built, stage, sequenceID, digestPool, isCommitBroadcast, leaked, crashed>>

\* handleRequest: the goroutine TcpListen starts for each message.
Handle(m) ==
  \/ HandlePrePrepare(m)
  \/ RefusePrepare(m)
  \/ HandlePrepare(m)
  \/ HandleCommit(m)

HandleRequest(n) ==
  /\ Alive(n)
  /\ \E m \in net : m.to = n /\ Handle(m)

----------------------------------------------------------------------------
\* A replica stops (a panic, log.Fatal, or the process is killed).  What it had
\* not yet written is lost, and so is what was on its way to it: a refused
\* connection is logged and not retried.  It never returns under its id, since
\* GenRsaKeys gives a new process the next free one.
Crash(n) ==
  /\ n \in MayCrash \ crashed
  /\ Cardinality(crashed) < MaxCrashes
  /\ crashed' = crashed \cup {n}
  /\ \E lost \in SUBSET {m \in net : m.from = n} :
       net' = {m \in net \ lost : m.to # n}
  /\ UNCHANGED <<packager, ledger, votes, pools, leaked>>

Work ==
  \/ AwaitTurn
  \/ HandleClientRequest
  \/ \E n \in Replicas : HandleRequest(n)

Next ==
  \/ \E c \in Chains : PackBlock(c)
  \/ Work
  \/ \E n \in MayCrash : Crash(n)

Spec == Init /\ [][Next]_vars

\* While some goroutine can run, one of them runs: this much follows from any
\* scheduler that starves none of them, since there is only so much to do
\* (WorkRunsOut).  Packing waits for 500 transactions and crashing is no duty:
\* neither is fair.
Fairness == WF_vars(Work)

FairSpec == Spec /\ Fairness

----------------------------------------------------------------------------
(* Properties.                                                             *)

TypeOK ==
  /\ built \in Seq(Block) /\ Len(built) <= MaxBlocks
  /\ stage \in {"pack", "wait", "propose"}
  /\ waitCommit \in Int
  /\ sequenceID \in [Replicas -> [Chains -> 0..MaxBlocks]]
  /\ messagePool \in [Replicas -> SUBSET Digests]
  /\ digestPool \in [Chains -> [Heights -> Digests \cup {Genesis}]]
  /\ prePareConfirmCount \in [Replicas -> [Digests -> SUBSET Replicas]]
  /\ commitConfirmCount \in [Replicas -> [Digests -> SUBSET Replicas]]
  /\ isCommitBroadcast \in [Replicas -> SUBSET Digests]
  /\ isReply \in [Replicas -> SUBSET Digests]
  /\ localMessagePool \in [Replicas -> Seq(Digests \cup {Genesis})]
  /\ tip \in [Replicas -> [Chains -> Digests \cup {Genesis}]]
  /\ height \in [Replicas -> [Chains -> Nat]]
  /\ leaked \subseteq Replicas
  /\ crashed \subseteq MayCrash
  /\ net \subseteq Message
  /\ \A m \in net : m.from # m.to

\* How many rounds the packager opened with WaitCommit.Add, and how many of
\* them it proposed.
Opened    == IF stage = "wait" THEN Len(built) - 1 ELSE Len(built)
Announced == IF stage = "pack" THEN Len(built) ELSE Len(built) - 1

\* The WaitGroup counts exactly the rounds that were opened and that the
\* primary has not committed, and there is never more than one of them
\* (PBFT.go:221): no Done is missed, none comes twice and the counter, which
\* would panic below zero, never gets there.
WaitGroupCountsRounds ==
  /\ waitCommit \in {0, 1}
  /\ waitCommit = Cardinality((1..Opened) \ isReply[Primary])

\* One round at a time seen from everywhere: whatever a replica has taken into
\* its message pool, and whatever is on its way, every earlier round was already
\* committed at the primary.
EarlierRoundsDecided ==
  /\ \A n \in Replicas : \A d \in messagePool[n] : 1..(d - 1) \subseteq isReply[Primary]
  /\ \A m \in net : 1..(m.digest - 1) \subseteq isReply[Primary]

\* A replica commits a block once, although the Commits that reach it after the
\* quorum, and after its votes were pruned, run the same handler again.
CommitsOnce ==
  \A n \in Replicas : \A i, j \in 1..Len(localMessagePool[n]) :
    i # j => localMessagePool[n][i] # localMessagePool[n][j]

\* The replicas that voted to commit a block, from the votes they sent.
Voters(d) == {n \in Replicas : d \in isCommitBroadcast[n]}

\* A block is committed only on a certificate: the replica voted itself and so
\* did 2f others, and each backup among them had the block (PBFT.go:629).
CommitCertificate ==
  \A n \in Replicas : \A d \in isReply[n] :
    /\ n \in Voters(d)
    /\ Cardinality(Voters(d) \ {n}) >= TwoF
    /\ \A q \in Voters(d) \ {Primary} : d \in messagePool[q]

\* Pruning never drops the block of the round under way, although it runs on
\* any late Commit: the primary still has it when the quorum completes, and no
\* replica stores the zero block of a missing map entry.
OpenRoundIsPooled ==
  /\ (1..Announced) \ isReply[Primary] \subseteq messagePool[Primary]
  /\ \A n \in Replicas : \A i \in 1..Len(localMessagePool[n]) :
       localMessagePool[n][i] \in Digests

Parent(d) == built[d].prev

HeightOf(d) == IF d = Genesis THEN 1 ELSE built[d].height

\* What replica n stored is a tree on the genesis block of each chain: every
\* block it committed extends a block it had committed before, of the same
\* chain, one height lower.
ParentStored(n) ==
  \A i \in 1..Len(localMessagePool[n]) :
    LET d == localMessagePool[n][i]
    IN  /\ HeightOf(d) = HeightOf(Parent(d)) + 1
        /\ \/ Parent(d) = Genesis
           \/ \E j \in 1..(i - 1) :
                /\ localMessagePool[n][j] = Parent(d)
                /\ built[Parent(d)].chain = built[d].chain

\* The primary stores no orphan and no block of the wrong height, even when it
\* packed the block rounds before it committed it: GetBlockByHeight walks
\* these links down from the tip.
PrimaryParentStored == ParentStored(Primary)

\* What all of it amounts to: the votes and logs of the replicas follow
\* QuorumLedger.  A block leaves the pool of a replica that committed it, not the
\* set of blocks it accepted.
Ledger == INSTANCE QuorumLedger WITH
  announced <- Announced,
  accepted  <- [n \in Replicas |-> messagePool[n] \cup isReply[n]],
  voted     <- isCommitBroadcast,
  decided   <- isReply

\* Messages, locks, the packager and pruning together implement the promise of
\* QuorumLedger: one block at a time, voted for by a quorum of backups that
\* hold it, decided on the votes of a quorum.
LedgerSpec == Ledger!Spec

\* The work that a state can still lead to when no more blocks are packed: a
\* Prepare or a Commit is handled and starts nothing new, except for the one
\* broadcast of each replica's vote; a PrePrepare starts a broadcast; a block
\* about to be proposed starts a broadcast of PrePrepares.
PrePrepares == {m \in net : m.type = "PrePrepare"}
Unvoted     == {v \in Replicas \X Digests : v[2] \notin isCommitBroadcast[v[1]]}

WorkLeft ==
  LET R == Cardinality(Replicas)
      proposal == CASE stage = "pack" -> 0 [] stage = "propose" -> 1 [] stage = "wait" -> 2
  IN  Cardinality(net \ PrePrepares)
      + R * (Cardinality(PrePrepares) + Cardinality(Unvoted) + R * proposal)

\* The replicas do not keep each other busy for ever: every step but the packing
\* of a block leaves less to do, although a handler answers with broadcasts, and
\* Prepares and Commits keep arriving after their quorum (PBFT.go:515).  A crash
\* only takes work away.
WorkRunsOut ==
  [][\/ WorkLeft' < WorkLeft
     \/ built' # built
     \/ crashed' # crashed /\ WorkLeft' <= WorkLeft]_vars

----------------------------------------------------------------------------
(* What comments in the code say and the code does not do.                 *)

\* The packager "waits for one commit to finish before it enters the next
\* round" (Constant.go:84): a round proposes a block on top of what was committed.
RoundExtendsCommitted ==
  [][stage = "propose" /\ stage' = "pack" =>
       LET d == Len(built) IN built[d].prev = tip[Primary][built[d].chain]]_vars

\* A node with 2f Commits of others that broadcast its own and has not replied
\* commits the block (PBFT.go:629).
CommitConditionCommits ==
  \A n \in Replicas : \A d \in Digests :
    (/\ Cardinality(commitConfirmCount[n][d]) >= TwoF
     /\ d \in isCommitBroadcast[n]) ~> (d \in isReply[n])

\* "When a message is heard over TCP the node executes its command"
\* (TCP.go:106): no message waits for ever at a replica that is up.
EveryMessageHandled ==
  \A m \in Message : (m \in net) ~> (m \notin net)

=============================================================================
