--------------------------- MODULE ConsensusProofs ---------------------------
(***************************************************************************)
(* Proofs about Consensus for every set of nodes, every number of blocks,  *)
(* every pruning period and every pattern of crashes.                      *)
(***************************************************************************)
EXTENDS Consensus, FiniteSetTheorems, SequenceTheorems, TLAPS

(***************************************************************************)
(* What is in the pools and in flight was announced, only the primary      *)
(* announces, and the packager has a block wherever it uses one.           *)
(***************************************************************************)
Structure ==
  /\ stage # "pack" => Len(built) >= 1
  /\ \A c \in Chains : sequenceID[Primary][c] <= Announced
  /\ \A n \in Replicas : messagePool[n] \subseteq 1..Announced
  /\ \A m \in net : m.digest <= Announced
  /\ \A m \in net : m.type = "PrePrepare" => m.from = Primary

\* Assigning to one entry of a map of maps keeps its type, also when the inner
\* key is new to it (then nothing is assigned).
LEMMA UpdateNested ==
  ASSUME NEW A, NEW B, NEW C, NEW f \in [A -> [B -> C]],
         NEW a \in A, NEW b, NEW v \in C
  PROVE  [f EXCEPT ![a][b] = v] \in [A -> [B -> C]]
<1> DEFINE g == [f[a] EXCEPT ![b] = v]
<1>1. g \in [B -> C]
  OBVIOUS
<1>2. [f EXCEPT ![a] = g] \in [A -> [B -> C]]
  BY <1>1
<1> QED
  BY <1>2, Zenon

\* Adding an element to one entry of a map of sets keeps its type.
LEMMA UpdateUnion ==
  ASSUME NEW A, NEW S, NEW f \in [A -> SUBSET S], NEW a \in A, NEW x \in S
  PROVE  [f EXCEPT ![a] = @ \cup {x}] \in [A -> SUBSET S]
  OBVIOUS

LEMMA PrimaryIsReplica == Primary \in Replicas /\ Primary \notin Backups
  BY ConsensusAssumption DEF Replicas, Backups

LEMMA MaxBlocksNat == MaxBlocks \in Nat
  BY ConsensusAssumption

\* A broadcast sends well-formed messages, none of them to the sender.
LEMMA BroadcastType ==
  ASSUME NEW type \in {"PrePrepare", "Prepare", "Commit"}, NEW d \in Digests,
         NEW s \in 1..MaxBlocks, NEW n \in Replicas
  PROVE  /\ Broadcast(type, d, s, n) \subseteq Message
         /\ \A m \in Broadcast(type, d, s, n) :
              /\ m.type = type /\ m.digest = d /\ m.seq = s
              /\ m.from = n /\ m.to # n
  BY DEF Broadcast, Message

\* The initial state is well formed.
LEMMA InitStructure == Init => TypeOK /\ Structure
<1> SUFFICES ASSUME Init PROVE TypeOK /\ Structure
  OBVIOUS
<1> USE PrimaryIsReplica, MaxBlocksNat DEF Init
<1>1. built \in Seq(Block) /\ Len(built) = 0
  OBVIOUS
<1>2. \A n \in Replicas : localMessagePool[n] \in Seq(Digests \cup {Genesis})
  OBVIOUS
<1>3. TypeOK
  BY <1>1, <1>2 DEF TypeOK, Digests, Genesis, Heights
<1>4. Structure
  BY <1>1 DEF Structure, Announced
<1> QED
  BY <1>3, <1>4

LEMMA PackBlockStructure ==
  ASSUME TypeOK, Structure, NEW c \in Chains, PackBlock(c)
  PROVE  TypeOK' /\ Structure'
<1> USE PrimaryIsReplica, MaxBlocksNat
    DEF PackBlock, ledger, votes, pools
<1>1. NewBlock(c) \in Block
  BY DEF NewBlock, TypeOK, Block
<1>2. /\ built' \in Seq(Block) /\ Len(built') <= MaxBlocks
      /\ Len(built') = Len(built) + 1
  BY <1>1 DEF TypeOK
<1>3. TypeOK'
  BY <1>2 DEF TypeOK
<1>4. Announced' = Announced
  BY <1>2 DEF Announced, TypeOK
<1>5. Structure'
  BY <1>2, <1>4 DEF Structure, TypeOK
<1> QED
  BY <1>3, <1>5

LEMMA AwaitTurnStructure ==
  ASSUME TypeOK, Structure, AwaitTurn
  PROVE  TypeOK' /\ Structure'
<1> USE DEF AwaitTurn, ledger, votes, pools
<1>1. TypeOK'
  BY DEF TypeOK
<1>2. Announced' = Announced
  BY DEF Announced
<1>3. Structure'
  BY <1>2 DEF Structure
<1> QED
  BY <1>1, <1>3

LEMMA HandleClientRequestStructure ==
  ASSUME TypeOK, Structure, HandleClientRequest
  PROVE  TypeOK' /\ Structure'
<1> DEFINE d == Len(built)
           c == built[d].chain
           s == sequenceID[Primary][c] + 1
<1> USE PrimaryIsReplica, MaxBlocksNat
<1>1. d \in Digests /\ d \in 1..Len(built)
  BY DEF HandleClientRequest, Structure, TypeOK, Digests
<1>2. c \in Chains
  <2>1. built[d] \in Block
    BY <1>1, ElementOfSeq DEF TypeOK
  <2> QED
    BY <2>1 DEF Block
<1>3. Announced = d - 1 /\ Announced' = d
  BY DEF HandleClientRequest, Announced, TypeOK
<1>4. s \in 1..MaxBlocks /\ s <= d
  BY <1>1, <1>2, <1>3 DEF Structure, TypeOK, Digests
<1> DEFINE sent == Broadcast("PrePrepare", d, s, Primary)
<1>5. /\ sent \subseteq Message
      /\ \A m \in sent : /\ m.type = "PrePrepare" /\ m.digest = d
                         /\ m.from = Primary /\ m.to # Primary
  BY <1>1, <1>4, BroadcastType
<1>6. /\ sequenceID' = [sequenceID EXCEPT ![Primary][c] = s]
      /\ digestPool' = [digestPool EXCEPT ![c][height[Primary][c]] = d]
      /\ messagePool' = [messagePool EXCEPT ![Primary] = @ \cup {d}]
      /\ net' = net \cup sent
      /\ stage' = "pack"
      /\ UNCHANGED <<built, waitCommit, ledger, votes, leaked, crashed>>
  BY DEF HandleClientRequest
<1> HIDE DEF d, c, s, sent
<1>7. TypeOK'
  <2>1. sequenceID' \in [Replicas -> [Chains -> 0..MaxBlocks]]
    <3>1. sequenceID \in [Replicas -> [Chains -> 0..MaxBlocks]]
      BY DEF TypeOK
    <3>2. s \in 0..MaxBlocks
      BY <1>4
    <3>3. sequenceID' = [sequenceID EXCEPT ![Primary][c] = s]
      BY <1>6
    <3> QED
      BY <3>1, <3>2, <3>3, UpdateNested, Zenon
  <2>2. digestPool' \in [Chains -> [Heights -> Digests \cup {Genesis}]]
    <3>1. digestPool \in [Chains -> [Heights -> Digests \cup {Genesis}]]
      BY DEF TypeOK
    <3>2. digestPool' = [digestPool EXCEPT ![c][height[Primary][c]] = d]
      BY <1>6
    <3> QED
      BY <1>1, <1>2, <3>1, <3>2, UpdateNested, Zenon
  <2>3. messagePool' \in [Replicas -> SUBSET Digests]
    BY <1>1, <1>6 DEF TypeOK
  <2>4. net' \subseteq Message /\ \A m \in net' : m.from # m.to
    BY <1>5, <1>6 DEF TypeOK
  <2> QED
    BY <2>1, <2>2, <2>3, <2>4, <1>6 DEF TypeOK, ledger, votes
<1>8. Structure'
  <2>1. \A e \in Chains : sequenceID'[Primary][e] <= d
    BY <1>2, <1>3, <1>4, <1>6, <1>1 DEF Structure, TypeOK, Digests
  <2>2. \A n \in Replicas : messagePool'[n] \subseteq 1..d
    BY <1>1, <1>3, <1>6 DEF Structure, TypeOK, Digests
  <2>3. \A m \in net' : m.digest <= d
    BY <1>1, <1>3, <1>5, <1>6 DEF Structure, TypeOK, Digests, Message
  <2>4. \A m \in net' : m.type = "PrePrepare" => m.from = Primary
    BY <1>5, <1>6 DEF Structure
  <2> QED
    BY <2>1, <2>2, <2>3, <2>4, <1>3, <1>6 DEF Structure
<1> QED
  BY <1>7, <1>8

LEMMA HandlePrePrepareStructure ==
  ASSUME TypeOK, Structure, NEW m \in net, HandlePrePrepare(m)
  PROVE  TypeOK' /\ Structure'
<1> DEFINE n == m.to
           c == built[m.digest].chain
           sent == Broadcast("Prepare", m.digest, m.seq, n)
<1> USE PrimaryIsReplica, MaxBlocksNat
<1>1. /\ m \in Message /\ m.type = "PrePrepare" /\ n \in Replicas
      /\ m.digest \in Digests /\ m.seq \in 1..MaxBlocks
      /\ m.digest <= Announced /\ n # Primary
  BY DEF TypeOK, Structure, Message, HandlePrePrepare
<1>2. /\ sequenceID' = [sequenceID EXCEPT ![n][c] = m.seq]
      /\ messagePool' = [messagePool EXCEPT ![n] = @ \cup {m.digest}]
      /\ net' = (net \ {m}) \cup sent
      /\ UNCHANGED <<packager, ledger, votes, digestPool, leaked, crashed>>
  BY DEF HandlePrePrepare
<1>3. /\ sent \subseteq Message
      /\ \A e \in sent : /\ e.type = "Prepare" /\ e.digest = m.digest
                         /\ e.from # e.to
  BY <1>1, BroadcastType
<1>4. Announced' = Announced
  BY <1>2 DEF Announced, packager
<1> HIDE DEF n, c, sent
<1>5. TypeOK'
  <2>1. sequenceID' \in [Replicas -> [Chains -> 0..MaxBlocks]]
    <3>1. sequenceID \in [Replicas -> [Chains -> 0..MaxBlocks]]
      BY DEF TypeOK
    <3>2. m.seq \in 0..MaxBlocks
      BY <1>1
    <3>3. sequenceID' = [sequenceID EXCEPT ![n][c] = m.seq]
      BY <1>2
    <3> QED
      BY <1>1, <3>1, <3>2, <3>3, UpdateNested, Zenon
  <2>2. messagePool' \in [Replicas -> SUBSET Digests]
    BY <1>1, <1>2 DEF TypeOK
  <2>3. net' \subseteq Message /\ \A e \in net' : e.from # e.to
    BY <1>2, <1>3 DEF TypeOK
  <2> QED
    BY <2>1, <2>2, <2>3, <1>2 DEF TypeOK, packager, ledger, votes
<1>6. Structure'
  <2>1. \A e \in Chains : sequenceID'[Primary][e] = sequenceID[Primary][e]
    BY <1>1, <1>2 DEF TypeOK
  <2>2. \A r \in Replicas : messagePool'[r] \subseteq 1..Announced
    BY <1>1, <1>2 DEF Structure, TypeOK, Digests, Announced
  <2>3. \A e \in net' : e.digest <= Announced
    BY <1>1, <1>2, <1>3 DEF Structure
  <2>4. \A e \in net' : e.type = "PrePrepare" => e.from = Primary
    BY <1>2, <1>3 DEF Structure
  <2> QED
    BY <2>1, <2>2, <2>3, <2>4, <1>2, <1>4 DEF Structure, packager
<1> QED
  BY <1>5, <1>6

LEMMA RefusePrepareStructure ==
  ASSUME TypeOK, Structure, NEW m \in net, RefusePrepare(m)
  PROVE  TypeOK' /\ Structure'
<1> USE DEF RefusePrepare, packager, ledger, votes, pools
<1>1. m.to \in Replicas
  BY DEF TypeOK, Message
<1>2. TypeOK'
  BY <1>1 DEF TypeOK
<1>3. Announced' = Announced
  BY DEF Announced
<1>4. Structure'
  BY <1>3 DEF Structure
<1> QED
  BY <1>2, <1>4

LEMMA HandlePrepareStructure ==
  ASSUME TypeOK, Structure, NEW m \in net, HandlePrepare(m)
  PROVE  TypeOK' /\ Structure'
<1> DEFINE n == m.to
           d == m.digest
           preparers == prePareConfirmCount[n][d] \cup {m.from}
           sent == Broadcast("Commit", d, m.seq, n)
<1>1. /\ n \in Replicas /\ d \in Digests /\ m.seq \in 1..MaxBlocks
      /\ m.from \in Replicas /\ d <= Announced
  BY DEF TypeOK, Structure, Message
<1>2. /\ sent \subseteq Message
      /\ \A e \in sent : e.type = "Commit" /\ e.digest = d /\ e.from # e.to
  BY <1>1, BroadcastType
<1>3. /\ prePareConfirmCount' = [prePareConfirmCount EXCEPT ![n][d] = preparers]
      /\ \/ /\ isCommitBroadcast' = [isCommitBroadcast EXCEPT ![n] = @ \cup {d}]
            /\ net' = (net \ {m}) \cup sent
         \/ net' = net \ {m} /\ UNCHANGED isCommitBroadcast
      /\ UNCHANGED <<packager, ledger, commitConfirmCount, pools, leaked, crashed>>
  BY DEF HandlePrepare
<1>4. preparers \subseteq Replicas
  BY <1>1 DEF TypeOK
<1> HIDE DEF n, d, preparers, sent
<1>5. TypeOK'
  <2>1. prePareConfirmCount' \in [Replicas -> [Digests -> SUBSET Replicas]]
    BY <1>1, <1>3, <1>4 DEF TypeOK
  <2>2. isCommitBroadcast' \in [Replicas -> SUBSET Digests]
    <3>1. isCommitBroadcast \in [Replicas -> SUBSET Digests]
      BY DEF TypeOK
    <3>2. [isCommitBroadcast EXCEPT ![n] = @ \cup {d}] \in [Replicas -> SUBSET Digests]
      BY <1>1, <3>1
    <3> QED
      BY <1>3, <3>1, <3>2
  <2>3. net' \subseteq Message /\ \A e \in net' : e.from # e.to
    BY <1>2, <1>3 DEF TypeOK
  <2> QED
    BY <2>1, <2>2, <2>3, <1>3 DEF TypeOK, packager, ledger, pools
<1>6. Structure'
  <2>1. Announced' = Announced
    BY <1>3 DEF Announced, packager
  <2>2. \A e \in net' : /\ e.digest <= Announced
                        /\ e.type = "PrePrepare" => e.from = Primary
    BY <1>1, <1>2, <1>3 DEF Structure
  <2> QED
    BY <2>1, <2>2, <1>3 DEF Structure, packager, pools
<1> QED
  BY <1>5, <1>6

LEMMA CrashStructure ==
  ASSUME TypeOK, Structure, NEW n \in MayCrash, Crash(n)
  PROVE  TypeOK' /\ Structure'
<1> USE DEF Crash, packager, ledger, votes, pools
<1>1. net' \subseteq net /\ crashed' \subseteq MayCrash
  BY DEF TypeOK
<1>2. TypeOK'
  BY <1>1 DEF TypeOK
<1>3. Announced' = Announced
  BY DEF Announced
<1>4. Structure'
  BY <1>1, <1>3 DEF Structure
<1> QED
  BY <1>2, <1>4

LEMMA HandleCommitStructure ==
  ASSUME TypeOK, Structure, NEW m \in net, HandleCommit(m)
  PROVE  TypeOK' /\ Structure'
<1> DEFINE n == m.to
           d == m.digest
           c == built[d].chain
           committers == commitConfirmCount[n][d] \cup {m.from}
           gone == Pruned(n, c, height'[n][c])
<1> USE PrimaryIsReplica, MaxBlocksNat
<1>1. n \in Replicas /\ d \in Digests /\ m.from \in Replicas /\ d <= Announced
  BY DEF TypeOK, Structure, Message
<1>2. committers \subseteq Replicas
  BY <1>1 DEF TypeOK
<1>3. PooledBlock(n, d) \in Digests \cup {Genesis}
  BY <1>1 DEF PooledBlock
<1>4. PooledHeight(n, d) \in Nat
  <2>1. CASE d \in messagePool[n]
    <3>1. d \in 1..Len(built)
      BY <1>1, <2>1 DEF Structure, Announced, TypeOK, Digests
    <3>2. built[d] \in Block
      BY <3>1, ElementOfSeq DEF TypeOK
    <3> QED
      BY <2>1, <3>2 DEF PooledHeight, Block
  <2>2. CASE d \notin messagePool[n]
    BY <2>2 DEF PooledHeight
  <2> QED
    BY <2>1, <2>2
<1>5. /\ net' = net \ {m}
      /\ \/ CommitBlock(n, c, d)
         \/ UNCHANGED <<ledger, waitCommit>>
      /\ Prune(n, gone, committers, d)
      /\ UNCHANGED <<built, stage, sequenceID, digestPool, isCommitBroadcast,
                     leaked, crashed>>
  BY DEF HandleCommit
<1> HIDE DEF n, d, c, committers, gone
<1>6. /\ waitCommit' \in Int
      /\ isReply' \in [Replicas -> SUBSET Digests]
      /\ localMessagePool' \in [Replicas -> Seq(Digests \cup {Genesis})]
      /\ tip' \in [Replicas -> [Chains -> Digests \cup {Genesis}]]
      /\ height' \in [Replicas -> [Chains -> Nat]]
  <2>1. CASE CommitBlock(n, c, d)
    <3>1. waitCommit' \in Int
      BY <2>1 DEF CommitBlock, RoundDone, TypeOK
    <3>2. isReply' \in [Replicas -> SUBSET Digests]
      <4>1. isReply \in [Replicas -> SUBSET Digests]
        BY DEF TypeOK
      <4>2. isReply' = [isReply EXCEPT ![n] = @ \cup {d}]
        BY <2>1 DEF CommitBlock
      <4> QED
        BY <1>1, <4>1, <4>2, UpdateUnion
    <3>3. localMessagePool' \in [Replicas -> Seq(Digests \cup {Genesis})]
      BY <1>1, <1>3, <2>1 DEF CommitBlock, TypeOK
    <3>4. tip' \in [Replicas -> [Chains -> Digests \cup {Genesis}]]
      <4>1. tip \in [Replicas -> [Chains -> Digests \cup {Genesis}]]
        BY DEF TypeOK
      <4>2. tip' = [tip EXCEPT ![n][c] = PooledBlock(n, d)]
        BY <2>1 DEF CommitBlock
      <4> QED
        BY <1>1, <1>3, <4>1, <4>2, UpdateNested, Zenon
    <3>5. height' \in [Replicas -> [Chains -> Nat]]
      <4>1. height \in [Replicas -> [Chains -> Nat]]
        BY DEF TypeOK
      <4>2. height' = [height EXCEPT ![n][c] = PooledHeight(n, d)]
        BY <2>1 DEF CommitBlock
      <4> QED
        BY <1>1, <1>4, <4>1, <4>2, UpdateNested, Zenon
    <3> QED
      BY <3>1, <3>2, <3>3, <3>4, <3>5
  <2>2. CASE UNCHANGED <<ledger, waitCommit>>
    BY <2>2 DEF ledger, TypeOK
  <2> QED
    BY <1>5, <2>1, <2>2
<1>7. /\ messagePool' \in [Replicas -> SUBSET Digests]
      /\ \A r \in Replicas : messagePool'[r] \subseteq messagePool[r]
      /\ prePareConfirmCount' \in [Replicas -> [Digests -> SUBSET Replicas]]
      /\ commitConfirmCount' \in [Replicas -> [Digests -> SUBSET Replicas]]
  BY <1>1, <1>2, <1>5 DEF Prune, TypeOK
<1>8. TypeOK'
  BY <1>5, <1>6, <1>7 DEF TypeOK
<1>9. Announced' = Announced
  BY <1>5 DEF Announced
<1>10. Structure'
  BY <1>5, <1>7, <1>9 DEF Structure
<1> QED
  BY <1>8, <1>10

\* Every step of the system is one of the actions, for some message in flight.
LEMMA StepCases ==
  ASSUME [Next]_vars
  PROVE  \/ \E c \in Chains : PackBlock(c)
         \/ AwaitTurn
         \/ HandleClientRequest
         \/ \E m \in net : Alive(m.to) /\ HandlePrePrepare(m)
         \/ \E m \in net : Alive(m.to) /\ RefusePrepare(m)
         \/ \E m \in net : Alive(m.to) /\ HandlePrepare(m)
         \/ \E m \in net : Alive(m.to) /\ HandleCommit(m)
         \/ \E n \in MayCrash : Crash(n)
         \/ UNCHANGED vars
  BY DEF Next, Work, HandleRequest, Handle

LEMMA NextStructure ==
  ASSUME TypeOK, Structure, [Next]_vars
  PROVE  TypeOK' /\ Structure'
<1>1. CASE UNCHANGED vars
  <2> USE <1>1 DEF vars, packager, ledger, votes, pools
  <2>1. TypeOK'
    BY DEF TypeOK
  <2>2. Structure'
    BY DEF Structure, Announced
  <2> QED
    BY <2>1, <2>2
<1> QED
  BY <1>1, StepCases, PackBlockStructure, AwaitTurnStructure,
     HandleClientRequestStructure, HandlePrePrepareStructure,
     RefusePrepareStructure, HandlePrepareStructure, HandleCommitStructure,
     CrashStructure

\* The state variables keep their types, and messages are never addressed to
\* their sender, for every number of nodes and blocks (PBFT.go:755).
THEOREM TypeCorrect == Spec => []TypeOK
<1>1. Init => TypeOK /\ Structure
  BY InitStructure
<1>2. TypeOK /\ Structure /\ [Next]_vars => (TypeOK /\ Structure)'
  BY NextStructure
<1> QED
  BY <1>1, <1>2, PTL DEF Spec

\* Pools and messages only ever name blocks the primary announced.
THEOREM StructureCorrect == Spec => []Structure
<1>1. Init => TypeOK /\ Structure
  BY InitStructure
<1>2. TypeOK /\ Structure /\ [Next]_vars => (TypeOK /\ Structure)'
  BY NextStructure
<1> QED
  BY <1>1, <1>2, PTL DEF Spec

(***************************************************************************)
(* The rounds.  All but the last opened round are committed at the         *)
(* primary, and the WaitGroup tells whether the last one is too.  Neither  *)
(* WaitGroupCountsRounds nor EarlierRoundsDecided is inductive without it: *)
(* a Commit for an older round would be able to release the WaitGroup.     *)
(***************************************************************************)
Rounds ==
  /\ isReply[Primary] \subseteq 1..Announced
  /\ 1..(Opened - 1) \subseteq isReply[Primary]
  /\ waitCommit = IF 1..Opened \subseteq isReply[Primary] THEN 0 ELSE 1

LEMMA InitRounds == Init => Rounds
  BY PrimaryIsReplica DEF Init, Rounds, Announced, Opened

LEMMA PackBlockRounds ==
  ASSUME TypeOK, Structure, Rounds, NEW c \in Chains, PackBlock(c)
  PROVE  Rounds'
<1>1. Len(built') = Len(built) + 1 /\ Len(built) \in Nat
  <2>1. NewBlock(c) \in Block
    BY PrimaryIsReplica DEF NewBlock, TypeOK, Block
  <2> QED
    BY <2>1 DEF PackBlock, TypeOK
<1>2. Announced' = Announced /\ Opened' = Opened
  BY <1>1 DEF PackBlock, Announced, Opened
<1> QED
  BY <1>2 DEF PackBlock, Rounds, ledger

LEMMA AwaitTurnRounds ==
  ASSUME TypeOK, Structure, Rounds, AwaitTurn
  PROVE  Rounds'
<1>1. Len(built) \in Nat /\ Len(built) >= 1
  BY DEF TypeOK, Structure, AwaitTurn
<1>2. /\ Opened = Len(built) - 1 /\ Opened' = Len(built)
      /\ Announced = Len(built) - 1 /\ Announced' = Announced
  BY <1>1 DEF AwaitTurn, Announced, Opened
<1>3. 1..Opened \subseteq isReply[Primary] /\ waitCommit' = 1
  BY DEF AwaitTurn, NoRoundOpen, Rounds
<1>4. Opened' \in 1..Opened' /\ Opened' \notin isReply[Primary]
  BY <1>1, <1>2 DEF Rounds
<1> QED
  BY <1>1, <1>2, <1>3, <1>4 DEF Rounds, AwaitTurn, ledger

LEMMA HandleClientRequestRounds ==
  ASSUME TypeOK, Structure, Rounds, HandleClientRequest
  PROVE  Rounds'
<1>1. Len(built) \in Nat
  BY DEF TypeOK
<1>2. /\ UNCHANGED <<built, waitCommit, ledger>>
      /\ stage = "propose" /\ stage' = "pack"
  BY DEF HandleClientRequest
<1>3. Opened' = Opened /\ Announced' = Announced + 1 /\ Announced \in Int
  BY <1>1, <1>2 DEF Announced, Opened
<1> QED
  BY <1>2, <1>3 DEF Rounds, ledger

\* The Commit that completes a quorum at the primary is for the last round.
LEMMA HandleCommitRounds ==
  ASSUME TypeOK, Structure, Rounds, NEW m \in net, HandleCommit(m)
  PROVE  Rounds'
<1> DEFINE n == m.to
           d == m.digest
           c == built[d].chain
           committers == commitConfirmCount[n][d] \cup {m.from}
<1> USE PrimaryIsReplica
<1>1. n \in Replicas /\ d \in Nat /\ 1 <= d /\ d <= Announced
  BY MaxBlocksNat DEF TypeOK, Structure, Message, Digests
<1>2. /\ \/ ReadyToCommit(n, d, committers) /\ CommitBlock(n, c, d)
         \/ UNCHANGED <<ledger, waitCommit>>
      /\ UNCHANGED <<built, stage>>
  BY DEF HandleCommit
<1> HIDE DEF n, d, c, committers
<1>3. Len(built) \in Nat
  BY DEF TypeOK
<1>4. /\ Opened' = Opened /\ Announced' = Announced
      /\ Opened \in Int /\ Announced \in Int /\ Announced <= Opened
  BY <1>2, <1>3 DEF Announced, Opened, TypeOK
<1>5. CASE UNCHANGED <<ledger, waitCommit>>
  BY <1>4, <1>5 DEF Rounds, ledger
<1>6. CASE ReadyToCommit(n, d, committers) /\ CommitBlock(n, c, d)
  <2>1. isReply' = [isReply EXCEPT ![n] = @ \cup {d}]
    BY <1>6 DEF CommitBlock
  <2>2. waitCommit' = IF n = Primary THEN waitCommit - 1 ELSE waitCommit
    BY <1>6 DEF CommitBlock, RoundDone
  <2>3. CASE n # Primary
    <3>1. isReply'[Primary] = isReply[Primary]
      BY <2>1, <2>3 DEF TypeOK
    <3> QED
      BY <1>4, <2>2, <2>3, <3>1 DEF Rounds
  <2>4. CASE n = Primary
    <3>1. isReply'[Primary] = isReply[Primary] \cup {d}
      BY <2>1, <2>4 DEF TypeOK
    <3>2. d \notin isReply[Primary]
      BY <1>6, <2>4 DEF ReadyToCommit
    <3>3. d = Opened
      BY <1>1, <1>4, <3>2 DEF Rounds
    <3>4. waitCommit = 1
      BY <1>1, <3>2, <3>3 DEF Rounds
    <3>5. 1..Opened \subseteq isReply'[Primary]
      BY <1>1, <3>1, <3>3 DEF Rounds
    <3>6. isReply'[Primary] \subseteq 1..Announced
      BY <1>1, <1>4, <3>1 DEF Rounds
    <3> QED
      BY <1>4, <2>2, <2>4, <3>1, <3>4, <3>5, <3>6 DEF Rounds
  <2> QED
    BY <2>3, <2>4
<1> QED
  BY <1>2, <1>5, <1>6

\* The other actions touch neither the packager nor what is committed.
LEMMA OtherRounds ==
  ASSUME Rounds, UNCHANGED <<built, stage, waitCommit, isReply>>
  PROVE  Rounds'
  BY DEF Rounds, Announced, Opened

LEMMA NextRounds ==
  ASSUME TypeOK, Structure, Rounds, [Next]_vars
  PROVE  Rounds'
<1>1. ASSUME NEW m \in net,
             HandlePrePrepare(m) \/ RefusePrepare(m) \/ HandlePrepare(m)
      PROVE  UNCHANGED <<built, stage, waitCommit, isReply>>
  BY <1>1 DEF HandlePrePrepare, RefusePrepare, HandlePrepare, packager, ledger
<1>2. ASSUME NEW n \in MayCrash, Crash(n)
      PROVE  UNCHANGED <<built, stage, waitCommit, isReply>>
  BY <1>2 DEF Crash, packager, ledger
<1>3. ASSUME UNCHANGED vars
      PROVE  UNCHANGED <<built, stage, waitCommit, isReply>>
  BY <1>3 DEF vars, packager, ledger
<1> QED
  BY <1>1, <1>2, <1>3, StepCases, OtherRounds, PackBlockRounds,
     AwaitTurnRounds, HandleClientRequestRounds, HandleCommitRounds

\* The inductive invariant behind the theorems about rounds.
LEMMA RoundsCorrect == Spec => [](TypeOK /\ Structure /\ Rounds)
<1>1. Init => TypeOK /\ Structure /\ Rounds
  BY InitStructure, InitRounds
<1>2. TypeOK /\ Structure /\ Rounds /\ [Next]_vars
         => (TypeOK /\ Structure /\ Rounds)'
  BY NextStructure, NextRounds
<1> QED
  BY <1>1, <1>2, PTL DEF Spec

LEMMA RoundsImplyWaitGroup ==
  ASSUME TypeOK, Structure, Rounds
  PROVE  WaitGroupCountsRounds
<1> DEFINE open == (1..Opened) \ isReply[Primary]
<1>1. Opened \in Int
  BY DEF Opened, TypeOK
<1>2. CASE 1..Opened \subseteq isReply[Primary]
  <2>1. open = {}
    BY <1>2
  <2>2. Cardinality(open) = 0
    BY <2>1, FS_EmptySet
  <2> QED
    BY <1>2, <2>2 DEF Rounds, WaitGroupCountsRounds
<1>3. CASE ~(1..Opened \subseteq isReply[Primary])
  <2>1. open = {Opened}
    BY <1>1, <1>3 DEF Rounds
  <2>2. Cardinality(open) = 1
    BY <2>1, FS_Singleton
  <2> QED
    BY <1>3, <2>2 DEF Rounds, WaitGroupCountsRounds
<1> QED
  BY <1>2, <1>3

\* The WaitGroup counts the open rounds, and there is at most one
\* (PBFT.go:221), for any number of rounds, pruning period and crashes.
THEOREM WaitGroupCorrect == Spec => []WaitGroupCountsRounds
  BY RoundsCorrect, RoundsImplyWaitGroup, PTL

LEMMA RoundsImplyEarlierDecided ==
  ASSUME TypeOK, Structure, Rounds
  PROVE  EarlierRoundsDecided
<1>1. Announced <= Opened /\ Announced \in Int /\ Opened \in Int
  BY DEF Announced, Opened, TypeOK
<1>2. ASSUME NEW d \in Nat, d <= Announced
      PROVE  1..(d - 1) \subseteq isReply[Primary]
  BY <1>1, <1>2 DEF Rounds
<1>3. ASSUME NEW n \in Replicas, NEW d \in messagePool[n]
      PROVE  1..(d - 1) \subseteq isReply[Primary]
  <2>1. d \in Nat /\ d <= Announced
    BY <1>1 DEF Structure
  <2> QED
    BY <1>2, <2>1
<1>4. ASSUME NEW m \in net
      PROVE  1..(m.digest - 1) \subseteq isReply[Primary]
  <2>1. m.digest \in Nat /\ m.digest <= Announced
    BY MaxBlocksNat DEF Structure, TypeOK, Message, Digests
  <2> QED
    BY <1>2, <2>1
<1> QED
  BY <1>3, <1>4 DEF EarlierRoundsDecided

\* Whatever any replica holds or is about to receive, the primary committed
\* every earlier round, for any order of messages and any crashes.
THEOREM RoundsInOrder == Spec => []EarlierRoundsDecided
  BY RoundsCorrect, RoundsImplyEarlierDecided, PTL

(***************************************************************************)
(* The votes.  Every Prepare and Commit, in flight or counted, was sent by *)
(* a replica that stands by it, and a replica commits only what it voted   *)
(* for on the votes of 2f others.  CommitCertificate speaks of the votes   *)
(* alone: it is inductive only together with what the messages and the     *)
(* counters of the handlers mean.                                          *)
(***************************************************************************)
SentVotes ==
  /\ \A m \in net : m.type = "Prepare" =>
       m.from \in Backups /\ m.digest \in messagePool[m.from]
  /\ \A m \in net : m.type = "Commit" => m.digest \in isCommitBroadcast[m.from]

CountedVotes ==
  /\ \A n \in Replicas : \A d \in Digests : \A q \in prePareConfirmCount[n][d] :
       q \in Backups /\ q # n /\ d \in messagePool[q]
  /\ \A n \in Replicas : \A d \in Digests : \A q \in commitConfirmCount[n][d] :
       q # n /\ d \in isCommitBroadcast[q]

OwnVotes ==
  /\ \A n \in Backups : isCommitBroadcast[n] \subseteq messagePool[n]
  /\ \A n \in Replicas : isReply[n] \subseteq isCommitBroadcast[n]
  /\ \A n \in Replicas : \A d \in isReply[n] : Cardinality(Voters(d) \ {n}) >= TwoF

Votes == SentVotes /\ CountedVotes /\ OwnVotes

LEMMA ReplicasFinite == IsFiniteSet(Replicas)
<1>1. IsFiniteSet(NodeTable) /\ Replicas \in SUBSET NodeTable
  BY ConsensusAssumption DEF Replicas
<1> QED
  BY <1>1, FS_Subset

LEMMA TwoFInt == TwoF \in Int /\ TwoF >= 0
<1>1. Cardinality(NodeTable) \in Nat
  BY ConsensusAssumption, FS_CardinalityType
<1> QED
  BY <1>1 DEF TwoF

\* A quorum of votes stays one while votes are added.
LEMMA QuorumGrows ==
  ASSUME NEW d, NEW n,
         \A r \in Replicas : isCommitBroadcast[r] \subseteq isCommitBroadcast'[r],
         Cardinality(Voters(d) \ {n}) >= TwoF
  PROVE  Cardinality(Voters(d)' \ {n}) >= TwoF
<1>1. Voters(d)' \ {n} \in SUBSET Replicas
  BY DEF Voters
<1>2. IsFiniteSet(Voters(d)' \ {n})
  BY <1>1, ReplicasFinite, FS_Subset
<1>3. Voters(d) \ {n} \in SUBSET (Voters(d)' \ {n})
  BY DEF Voters
<1>4. /\ Cardinality(Voters(d) \ {n}) <= Cardinality(Voters(d)' \ {n})
      /\ Cardinality(Voters(d) \ {n}) \in Nat
      /\ Cardinality(Voters(d)' \ {n}) \in Nat
  BY <1>2, <1>3, FS_Subset, FS_CardinalityType
<1> QED
  BY <1>4, TwoFInt

LEMMA InitVotes == Init => Votes
  BY DEF Init, Votes, SentVotes, CountedVotes, OwnVotes, Backups

\* The messages of a round may be lost, and nothing else needs to change.
LEMMA OtherVotes ==
  ASSUME Votes, net' \subseteq net,
         UNCHANGED <<messagePool, votes, isReply>>
  PROVE  Votes'
<1> USE DEF votes
<1>1. SentVotes'
  BY DEF Votes, SentVotes
<1>2. CountedVotes'
  BY DEF Votes, CountedVotes
<1>3. OwnVotes'
  BY DEF Votes, OwnVotes, Voters
<1> QED
  BY <1>1, <1>2, <1>3 DEF Votes

LEMMA HandleClientRequestVotes ==
  ASSUME TypeOK, Structure, Votes, HandleClientRequest
  PROVE  Votes'
<1> DEFINE d == Len(built)
           s == sequenceID[Primary][built[d].chain] + 1
           sent == Broadcast("PrePrepare", d, s, Primary)
<1> USE PrimaryIsReplica
<1>1. /\ messagePool' = [messagePool EXCEPT ![Primary] = @ \cup {d}]
      /\ net' = net \cup sent
      /\ UNCHANGED <<votes, isReply>>
  BY DEF HandleClientRequest, ledger
<1>2. \A m \in sent : m.type = "PrePrepare"
  BY DEF Broadcast
<1> HIDE DEF d, s, sent
<1>3. \A r \in Replicas : /\ messagePool[r] \subseteq messagePool'[r]
                          /\ r \in Backups => messagePool'[r] = messagePool[r]
  BY <1>1 DEF TypeOK
<1>4. \A r \in Backups : r \in Replicas
  BY DEF Backups
<1>5. SentVotes'
  BY <1>1, <1>2, <1>3, <1>4 DEF Votes, SentVotes, votes
<1>6. CountedVotes'
  BY <1>1, <1>3, <1>4 DEF Votes, CountedVotes, votes
<1>7. OwnVotes'
  BY <1>1, <1>3, <1>4 DEF Votes, OwnVotes, Voters, votes
<1> QED
  BY <1>5, <1>6, <1>7 DEF Votes

LEMMA HandlePrePrepareVotes ==
  ASSUME TypeOK, Structure, Votes, NEW m \in net, HandlePrePrepare(m)
  PROVE  Votes'
<1> DEFINE n == m.to
           sent == Broadcast("Prepare", m.digest, m.seq, n)
<1>1. /\ messagePool' = [messagePool EXCEPT ![n] = @ \cup {m.digest}]
      /\ net' = (net \ {m}) \cup sent
      /\ UNCHANGED <<votes, isReply>>
  BY DEF HandlePrePrepare, ledger
<1>2. \A e \in sent : e.type = "Prepare" /\ e.digest = m.digest /\ e.from = n
  BY DEF Broadcast
<1>3. n \in Backups /\ n \in Replicas
  BY DEF TypeOK, Structure, Message, HandlePrePrepare, Backups
<1> HIDE DEF n, sent
<1>4. /\ \A r \in Replicas : messagePool[r] \subseteq messagePool'[r]
      /\ m.digest \in messagePool'[n]
  BY <1>1, <1>3 DEF TypeOK
<1>5. \A r \in Backups : r \in Replicas
  BY DEF Backups
<1>6. SentVotes'
  BY <1>1, <1>2, <1>3, <1>4, <1>5 DEF Votes, SentVotes, votes
<1>7. CountedVotes'
  BY <1>1, <1>4, <1>5 DEF Votes, CountedVotes, votes
<1>8. OwnVotes'
  BY <1>1, <1>4, <1>5 DEF Votes, OwnVotes, Voters, votes
<1> QED
  BY <1>6, <1>7, <1>8 DEF Votes

LEMMA HandlePrepareVotes ==
  ASSUME TypeOK, Structure, Votes, NEW m \in net, HandlePrepare(m)
  PROVE  Votes'
<1> DEFINE n == m.to
           d == m.digest
           preparers == prePareConfirmCount[n][d] \cup {m.from}
           sent == Broadcast("Commit", d, m.seq, n)
<1>1. /\ prePareConfirmCount' = [prePareConfirmCount EXCEPT ![n][d] = preparers]
      /\ \/ /\ isCommitBroadcast' = [isCommitBroadcast EXCEPT ![n] = @ \cup {d}]
            /\ net' = (net \ {m}) \cup sent
         \/ net' = net \ {m} /\ UNCHANGED isCommitBroadcast
      /\ UNCHANGED <<isReply, commitConfirmCount, messagePool>>
  BY DEF HandlePrepare, ledger, pools
<1>2. \A e \in sent : e.type = "Commit" /\ e.digest = d /\ e.from = n
  BY DEF Broadcast
<1>3. n \in Replicas /\ d \in Digests /\ m.from # n /\ d \in messagePool[n]
  BY DEF TypeOK, Message, HandlePrepare, KnowsDigest
<1>4. m.from \in Backups /\ d \in messagePool[m.from]
  BY DEF HandlePrepare, Votes, SentVotes
<1>5. \A q \in preparers : q \in Backups /\ q # n /\ d \in messagePool[q]
  BY <1>3, <1>4 DEF Votes, CountedVotes
<1> HIDE DEF n, d, preparers, sent
<1>6. \A r \in Replicas :
        /\ isCommitBroadcast[r] \subseteq isCommitBroadcast'[r]
        /\ \A e \in isCommitBroadcast'[r] : e \in isCommitBroadcast[r] \/ (r = n /\ e = d)
  BY <1>1, <1>3 DEF TypeOK
<1>7. \A r \in Backups : r \in Replicas
  BY DEF Backups
<1>8. SentVotes'
  <2>1. CASE net' = net \ {m} /\ UNCHANGED isCommitBroadcast
    BY <1>1, <2>1 DEF Votes, SentVotes
  <2>2. CASE /\ isCommitBroadcast' = [isCommitBroadcast EXCEPT ![n] = @ \cup {d}]
             /\ net' = (net \ {m}) \cup sent
    <3>1. d \in isCommitBroadcast'[n]
      BY <1>3, <2>2 DEF TypeOK
    <3>2. \A e \in net : e.from \in Replicas
      BY DEF TypeOK, Message
    <3> QED
      BY <1>1, <1>2, <1>6, <2>2, <3>1, <3>2 DEF Votes, SentVotes
  <2> QED
    BY <1>1, <2>1, <2>2
<1>9. CountedVotes'
  <2>1. \A r \in Replicas : \A e \in Digests :
          \/ prePareConfirmCount'[r][e] = prePareConfirmCount[r][e]
          \/ r = n /\ e = d /\ prePareConfirmCount'[r][e] = preparers
    BY <1>1, <1>3 DEF TypeOK
  <2>2. \A r \in Replicas : \A e \in Digests : \A q \in prePareConfirmCount'[r][e] :
          q \in Backups /\ q # r /\ e \in messagePool'[q]
    BY <1>1, <1>5, <2>1 DEF Votes, CountedVotes
  <2>3. \A r \in Replicas : \A e \in Digests : commitConfirmCount[r][e] \subseteq Replicas
    BY DEF TypeOK
  <2>4. \A r \in Replicas : \A e \in Digests : \A q \in commitConfirmCount'[r][e] :
          q # r /\ e \in isCommitBroadcast'[q]
    BY <1>1, <1>6, <2>3 DEF Votes, CountedVotes
  <2> QED
    BY <2>2, <2>4 DEF CountedVotes
<1>10. OwnVotes'
  <2>1. \A r \in Backups : isCommitBroadcast'[r] \subseteq messagePool'[r]
    BY <1>1, <1>3, <1>6, <1>7 DEF Votes, OwnVotes
  <2>2. \A r \in Replicas : isReply'[r] \subseteq isCommitBroadcast'[r]
    BY <1>1, <1>6 DEF Votes, OwnVotes
  <2>3. ASSUME NEW r \in Replicas, NEW e \in isReply'[r]
        PROVE  Cardinality(Voters(e)' \ {r}) >= TwoF
    <3>1. Cardinality(Voters(e) \ {r}) >= TwoF
      BY <1>1, <2>3 DEF Votes, OwnVotes
    <3> QED
      BY <1>6, <3>1, QuorumGrows
  <2> QED
    BY <2>1, <2>2, <2>3 DEF OwnVotes
<1> QED
  BY <1>8, <1>9, <1>10 DEF Votes

\* A Commit that completes a quorum rests on the votes counted so far.
LEMMA HandleCommitVotes ==
  ASSUME TypeOK, Structure, Votes, NEW m \in net, HandleCommit(m)
  PROVE  Votes'
<1> DEFINE n == m.to
           d == m.digest
           c == built[d].chain
           committers == commitConfirmCount[n][d] \cup {m.from}
           gone == Pruned(n, c, height'[n][c])
<1>1. /\ net' = net \ {m}
      /\ \/ ReadyToCommit(n, d, committers) /\ CommitBlock(n, c, d)
         \/ UNCHANGED <<ledger, waitCommit>>
      /\ Prune(n, gone, committers, d)
      /\ UNCHANGED isCommitBroadcast
  BY DEF HandleCommit
<1>2. n \in Replicas /\ d \in Digests /\ m.from \in Replicas /\ m.from # n
  BY DEF TypeOK, Message
<1>3. d \in isCommitBroadcast[m.from]
  BY DEF HandleCommit, Votes, SentVotes
<1>4. \A q \in committers : q \in Replicas /\ q # n /\ d \in isCommitBroadcast[q]
  BY <1>2, <1>3 DEF Votes, CountedVotes, TypeOK
<1>5. n # Primary => gone = {}
  BY DEF Pruned
<1> HIDE DEF n, d, c, committers, gone
<1>6. /\ \A r \in Replicas : r # n => messagePool'[r] = messagePool[r]
      /\ messagePool'[n] = messagePool[n] \ gone
      /\ \A r \in Replicas : \A e \in Digests :
           prePareConfirmCount'[r][e] \subseteq prePareConfirmCount[r][e]
      /\ \A r \in Replicas : \A e \in Digests : \A q \in commitConfirmCount'[r][e] :
           q \in commitConfirmCount[r][e] \/ (r = n /\ e = d /\ q \in committers)
  BY <1>1, <1>2 DEF Prune, TypeOK
<1>7. \A r \in Backups : r \in Replicas /\ messagePool'[r] = messagePool[r]
  BY <1>5, <1>6 DEF Backups
<1>8. SentVotes'
  BY <1>1, <1>7 DEF Votes, SentVotes
<1>9. CountedVotes'
  <2>1. \A r \in Replicas : \A e \in Digests : \A q \in prePareConfirmCount'[r][e] :
          q \in Backups /\ q # r /\ e \in messagePool'[q]
    BY <1>6, <1>7 DEF Votes, CountedVotes
  <2>2. \A r \in Replicas : \A e \in Digests : \A q \in commitConfirmCount'[r][e] :
          q # r /\ e \in isCommitBroadcast'[q]
    BY <1>1, <1>4, <1>6 DEF Votes, CountedVotes
  <2> QED
    BY <2>1, <2>2 DEF CountedVotes
<1>10. OwnVotes'
  <2>1. \A e : Voters(e)' = Voters(e)
    BY <1>1 DEF Voters
  <2>2. \A r \in Backups : isCommitBroadcast'[r] \subseteq messagePool'[r]
    BY <1>1, <1>7 DEF Votes, OwnVotes
  <2>3. CASE UNCHANGED <<ledger, waitCommit>>
    BY <1>1, <2>1, <2>2, <2>3 DEF Votes, OwnVotes, ledger
  <2>4. CASE ReadyToCommit(n, d, committers) /\ CommitBlock(n, c, d)
    <3>1. \A r \in Replicas : \A e \in isReply'[r] :
            e \in isReply[r] \/ (r = n /\ e = d)
      BY <1>2, <2>4 DEF CommitBlock, TypeOK
    <3>2. d \in isCommitBroadcast[n] /\ Cardinality(committers) >= TwoF
      BY <2>4 DEF ReadyToCommit
    <3>3. Cardinality(Voters(d) \ {n}) >= TwoF
      <4>1. committers \in SUBSET (Voters(d) \ {n}) /\ Voters(d) \ {n} \in SUBSET Replicas
        BY <1>4 DEF Voters
      <4>2. IsFiniteSet(Voters(d) \ {n}) /\ IsFiniteSet(committers)
        BY <4>1, ReplicasFinite, FS_Subset
      <4>3. /\ Cardinality(committers) <= Cardinality(Voters(d) \ {n})
            /\ Cardinality(committers) \in Nat /\ Cardinality(Voters(d) \ {n}) \in Nat
        BY <4>1, <4>2, FS_Subset, FS_CardinalityType
      <4> QED
        BY <3>2, <4>3, TwoFInt
    <3>4. \A r \in Replicas : isReply'[r] \subseteq isCommitBroadcast'[r]
      BY <1>1, <3>1, <3>2 DEF Votes, OwnVotes
    <3>5. \A r \in Replicas : \A e \in isReply'[r] : Cardinality(Voters(e)' \ {r}) >= TwoF
      BY <2>1, <3>1, <3>3 DEF Votes, OwnVotes
    <3> QED
      BY <2>2, <3>4, <3>5 DEF OwnVotes
  <2> QED
    BY <1>1, <2>3, <2>4
<1> QED
  BY <1>8, <1>9, <1>10 DEF Votes

LEMMA NextVotes ==
  ASSUME TypeOK, Structure, Votes, [Next]_vars
  PROVE  Votes'
<1>1. ASSUME NEW c \in Chains, PackBlock(c) PROVE Votes'
  BY <1>1, OtherVotes DEF PackBlock, pools, ledger
<1>2. ASSUME AwaitTurn PROVE Votes'
  BY <1>2, OtherVotes DEF AwaitTurn, pools, ledger
<1>3. ASSUME NEW m \in net, RefusePrepare(m) PROVE Votes'
  BY <1>3, OtherVotes DEF RefusePrepare, pools, ledger
<1>4. ASSUME NEW n \in MayCrash, Crash(n) PROVE Votes'
  BY <1>4, OtherVotes DEF Crash, pools, ledger
<1>5. ASSUME UNCHANGED vars PROVE Votes'
  BY <1>5, OtherVotes DEF vars, pools, ledger
<1> QED
  BY <1>1, <1>2, <1>3, <1>4, <1>5, StepCases, HandleClientRequestVotes,
     HandlePrePrepareVotes, HandlePrepareVotes, HandleCommitVotes

LEMMA VotesCorrect == Spec => [](TypeOK /\ Structure /\ Rounds /\ Votes)
<1>1. Init => TypeOK /\ Structure /\ Rounds /\ Votes
  BY InitStructure, InitRounds, InitVotes
<1>2. TypeOK /\ Structure /\ Rounds /\ Votes /\ [Next]_vars
         => (TypeOK /\ Structure /\ Rounds /\ Votes)'
  BY NextStructure, NextRounds, NextVotes
<1> QED
  BY <1>1, <1>2, PTL DEF Spec

LEMMA VotesImplyCertificate ==
  ASSUME Votes PROVE CommitCertificate
<1>1. ASSUME NEW n \in Replicas, NEW d \in isReply[n]
      PROVE  n \in Voters(d) /\ Cardinality(Voters(d) \ {n}) >= TwoF
  BY DEF Votes, OwnVotes, Voters
<1>2. \A d : \A q \in Voters(d) \ {Primary} : d \in messagePool[q]
  BY DEF Votes, OwnVotes, Voters, Backups
<1> QED
  BY <1>1, <1>2 DEF CommitCertificate

\* Whoever committed a block voted for it, 2f others did too, and the backups
\* among them hold it (PBFT.go:629), for every N and every order of messages.
THEOREM CertificateCorrect == Spec => []CommitCertificate
  BY VotesCorrect, VotesImplyCertificate, PTL

(***************************************************************************)
(* The pools.  Pruning is by height while the open round is known by its   *)
(* digest: what makes it safe is that an entry of the digest pool that is  *)
(* not yet committed stands at the current height of its chain.            *)
(***************************************************************************)
Pooling ==
  /\ (1..Announced) \ isReply[Primary] \subseteq messagePool[Primary]
  /\ isCommitBroadcast[Primary] \subseteq messagePool[Primary] \cup isReply[Primary]
  /\ \A c \in Chains : \A i \in Heights :
       /\ digestPool[c][i] <= Announced
       /\ digestPool[c][i] # Genesis /\ digestPool[c][i] \notin isReply[Primary]
            => i = height[Primary][c]

LogsOnce ==
  /\ \A n \in Replicas : \A i \in 1..Len(localMessagePool[n]) :
       localMessagePool[n][i] \in isReply[n]
  /\ CommitsOnce

LEMMA PeriodNat == Period \in Nat /\ Period >= 1
  BY ConsensusAssumption

LEMMA InitPooling == Init => Pooling /\ LogsOnce
  BY PrimaryIsReplica, MaxBlocksNat
     DEF Init, Pooling, LogsOnce, CommitsOnce, Announced, Genesis, Heights

\* A replica that commits a block has it in its pool.
LEMMA CommittedIsPooled ==
  ASSUME TypeOK, Structure, Votes, Pooling, NEW m \in net,
         NEW committers, ReadyToCommit(m.to, m.digest, committers)
  PROVE  m.digest \in messagePool[m.to]
<1>1. /\ m.digest \in Nat /\ 1 <= m.digest /\ m.digest <= Announced
      /\ m.to \in Replicas
  BY MaxBlocksNat DEF TypeOK, Structure, Message, Digests
<1>2. m.digest \notin isReply[m.to] /\ m.digest \in isCommitBroadcast[m.to]
  BY DEF ReadyToCommit
<1>3. CASE m.to = Primary
  BY <1>2, <1>3 DEF Pooling
<1>4. CASE m.to # Primary
  BY <1>1, <1>2, <1>4 DEF Votes, OwnVotes, Backups
<1> QED
  BY <1>3, <1>4

\* When the primary commits, nothing announced is left uncommitted.
LEMMA PrimaryCommitsLast ==
  ASSUME TypeOK, Structure, Rounds, NEW m \in net, HandleCommit(m),
         m.to = Primary, m.digest \notin isReply[Primary],
         m.digest \in isReply'[Primary]
  PROVE  1..Announced \subseteq isReply'[Primary]
<1>1. m.digest \in Nat /\ 1 <= m.digest /\ m.digest <= Announced
  BY MaxBlocksNat DEF TypeOK, Structure, Message, Digests
<1>2. Announced \in Int /\ Opened \in Int /\ Announced <= Opened
  BY DEF Announced, Opened, TypeOK
<1>3. m.digest = Opened
  BY <1>1, <1>2 DEF Rounds
<1>4. isReply[Primary] \subseteq isReply'[Primary]
  BY PrimaryIsReplica DEF HandleCommit, CommitBlock, ledger, TypeOK
<1> QED
  BY <1>1, <1>2, <1>3, <1>4 DEF Rounds

\* What a Commit handler prunes was committed by the primary.
LEMMA PrunedIsCommitted ==
  ASSUME TypeOK, Structure, Rounds, Pooling, NEW m \in net, HandleCommit(m)
  PROVE  Pruned(m.to, built[m.digest].chain, height'[m.to][built[m.digest].chain])
           \subseteq isReply'[Primary]
<1> DEFINE d == m.digest
           c == built[d].chain
           h == height'[Primary][c]
           window == {digestPool[c][i] : i \in (h - 2 * Period)..(h - Period - 1) \cap Heights}
<1> USE PrimaryIsReplica
<1>1. d \in 1..Announced
  BY MaxBlocksNat DEF TypeOK, Structure, Message, Digests, Announced
<1>2. c \in Chains
  <2>1. d \in 1..Len(built)
    BY <1>1 DEF Announced, TypeOK
  <2>2. built[d] \in Block
    BY <2>1, ElementOfSeq DEF TypeOK
  <2> QED
    BY <2>2 DEF Block
<1>3. CASE m.to # Primary
  BY <1>3 DEF Pruned
<1>4. CASE m.to = Primary
  <2> SUFFICES ASSUME NEW i \in Heights,
                      i \in (h - 2 * Period)..(h - Period - 1),
                      digestPool[c][i] # Genesis
               PROVE  digestPool[c][i] \in isReply'[Primary]
    BY <1>4 DEF Pruned
  <2>1. digestPool[c][i] \in Digests /\ digestPool[c][i] <= Announced
    BY <1>2 DEF TypeOK, Pooling
  <2>2. h \in Nat
    BY <1>2, HandleCommitStructure DEF TypeOK
  <2>3. CASE d \notin isReply[Primary] /\ d \in isReply'[Primary]
    <3>1. 1..Announced \subseteq isReply'[Primary]
      BY <1>4, <2>3, PrimaryCommitsLast
    <3> QED
      BY <2>1, <3>1, MaxBlocksNat DEF Announced, TypeOK, Digests
  <2>4. CASE ~(d \notin isReply[Primary] /\ d \in isReply'[Primary])
    <3>1. UNCHANGED ledger
      BY <1>4, <2>4 DEF HandleCommit, ReadyToCommit, CommitBlock, TypeOK
    <3>2. h = height[Primary][c] /\ isReply'[Primary] = isReply[Primary]
      BY <3>1 DEF ledger
    <3>3. i # h
      BY <2>2, PeriodNat
    <3> QED
      BY <1>2, <3>2, <3>3 DEF Pooling
  <2> QED
    BY <2>3, <2>4
<1> QED
  BY <1>3, <1>4

LEMMA HandleCommitPooling ==
  ASSUME TypeOK, Structure, Rounds, Votes, Pooling, NEW m \in net, HandleCommit(m)
  PROVE  Pooling'
<1> DEFINE n == m.to
           d == m.digest
           c == built[d].chain
           committers == commitConfirmCount[n][d] \cup {m.from}
           gone == Pruned(n, c, height'[n][c])
<1> USE PrimaryIsReplica
<1>1. /\ \/ ReadyToCommit(n, d, committers) /\ CommitBlock(n, c, d)
         \/ UNCHANGED <<ledger, waitCommit>>
      /\ messagePool' = [messagePool EXCEPT ![n] = @ \ gone]
      /\ UNCHANGED <<built, stage, digestPool, isCommitBroadcast>>
  BY DEF HandleCommit, Prune
<1>2. n \in Replicas /\ d \in Digests
  BY DEF TypeOK, Message
<1>3. gone \subseteq isReply'[Primary]
  BY PrunedIsCommitted
<1>4. ASSUME n = Primary, d \notin isReply[Primary], d \in isReply'[Primary]
      PROVE  1..Announced \subseteq isReply'[Primary]
  BY <1>4, PrimaryCommitsLast
<1> HIDE DEF n, d, c, committers, gone
<1>5. Announced' = Announced
  BY <1>1 DEF Announced
<1>6. isReply[Primary] \subseteq isReply'[Primary]
  <2>1. CASE UNCHANGED <<ledger, waitCommit>>
    BY <2>1 DEF ledger
  <2>2. CASE isReply' = [isReply EXCEPT ![n] = @ \cup {d}]
    BY <1>2, <2>2 DEF TypeOK
  <2> QED
    BY <1>1, <2>1, <2>2 DEF CommitBlock
<1>7. messagePool[Primary] \subseteq messagePool'[Primary] \cup isReply'[Primary]
  BY <1>1, <1>2, <1>3 DEF TypeOK
<1>8. ASSUME NEW e \in Chains, NEW i \in Heights, digestPool[e][i] # Genesis,
             digestPool[e][i] \notin isReply'[Primary]
      PROVE  i = height'[Primary][e]
  <2>1. digestPool[e][i] \in 1..Announced
    BY <1>8, MaxBlocksNat DEF TypeOK, Pooling, Digests, Announced
  <2>2. height'[Primary] = height[Primary]
    <3>1. CASE UNCHANGED <<ledger, waitCommit>>
      BY <3>1 DEF ledger
    <3>2. CASE ReadyToCommit(n, d, committers) /\ CommitBlock(n, c, d)
      <4>1. n # Primary
        BY <1>2, <1>4, <1>8, <2>1, <3>2 DEF ReadyToCommit, CommitBlock, TypeOK
      <4> QED
        BY <3>2, <4>1 DEF CommitBlock, TypeOK
    <3> QED
      BY <1>1, <3>1, <3>2
  <2> QED
    BY <1>6, <1>8, <2>2 DEF Pooling
<1> QED
  BY <1>1, <1>5, <1>6, <1>7, <1>8 DEF Pooling

LEMMA HandleClientRequestPooling ==
  ASSUME TypeOK, Structure, Pooling, HandleClientRequest
  PROVE  Pooling'
<1> DEFINE d == Len(built)
           c == built[d].chain
<1> USE PrimaryIsReplica
<1>1. /\ digestPool' = [digestPool EXCEPT ![c][height[Primary][c]] = d]
      /\ messagePool' = [messagePool EXCEPT ![Primary] = @ \cup {d}]
      /\ UNCHANGED <<isReply, height, isCommitBroadcast>>
  BY DEF HandleClientRequest, ledger, votes
<1>2. d \in Nat /\ Announced = d - 1 /\ Announced' = d
  BY DEF HandleClientRequest, Announced, TypeOK
<1> HIDE DEF d, c
<1>3. /\ messagePool[Primary] \cup {d} = messagePool'[Primary]
      /\ (1..d) \ isReply[Primary] \subseteq messagePool'[Primary]
  BY <1>1, <1>2 DEF Pooling, TypeOK
<1>4. ASSUME NEW e \in Chains, NEW i \in Heights
      PROVE  \/ digestPool'[e][i] = digestPool[e][i]
             \/ digestPool'[e][i] = d /\ i = height[Primary][e]
  <2>1. CASE e = c /\ i = height[Primary][e]
    BY <1>1, <2>1 DEF TypeOK
  <2>2. CASE ~(e = c /\ i = height[Primary][e])
    BY <1>1, <2>2 DEF TypeOK
  <2> QED
    BY <2>1, <2>2
<1>5. ASSUME NEW e \in Chains, NEW i \in Heights
      PROVE  /\ digestPool'[e][i] <= d
             /\ digestPool'[e][i] # Genesis /\ digestPool'[e][i] \notin isReply[Primary]
                  => i = height[Primary][e]
  <2>1. digestPool[e][i] \in Int /\ digestPool[e][i] <= Announced
    BY MaxBlocksNat DEF Pooling, TypeOK, Digests, Genesis
  <2> QED
    BY <1>2, <1>4, <2>1 DEF Pooling
<1> QED
  BY <1>1, <1>2, <1>3, <1>5 DEF Pooling

\* A vote of the primary is for a block in its pool.
LEMMA HandlePreparePooling ==
  ASSUME TypeOK, Structure, Pooling, NEW m \in net, HandlePrepare(m)
  PROVE  Pooling'
<1>1. /\ UNCHANGED <<built, stage, isReply, height, messagePool, digestPool>>
      /\ \/ isCommitBroadcast' = [isCommitBroadcast EXCEPT ![m.to] = @ \cup {m.digest}]
         \/ UNCHANGED isCommitBroadcast
      /\ m.digest \in messagePool[m.to]
  BY DEF HandlePrepare, KnowsDigest, packager, ledger, pools
<1>2. isCommitBroadcast \in [Replicas -> SUBSET Digests]
  BY DEF TypeOK
<1>3. \A d \in isCommitBroadcast'[Primary] :
        d \in isCommitBroadcast[Primary] \/ d \in messagePool[Primary]
  BY <1>1, <1>2, PrimaryIsReplica
<1>4. isCommitBroadcast'[Primary] \subseteq messagePool[Primary] \cup isReply[Primary]
  BY <1>3 DEF Pooling
<1> QED
  BY <1>1, <1>4 DEF Pooling, Announced

LEMMA OtherPooling ==
  ASSUME Pooling, Announced' = Announced,
         messagePool'[Primary] = messagePool[Primary],
         UNCHANGED <<isReply, height, isCommitBroadcast, digestPool>>
  PROVE  Pooling'
  BY DEF Pooling

LEMMA NextPooling ==
  ASSUME TypeOK, Structure, Rounds, Votes, Pooling, [Next]_vars
  PROVE  Pooling'
<1>1. ASSUME NEW c \in Chains, PackBlock(c) PROVE Pooling'
  <2>1. Announced' = Announced
    <3>1. NewBlock(c) \in Block
      BY PrimaryIsReplica DEF NewBlock, TypeOK, Block
    <3> QED
      BY <1>1, <3>1 DEF PackBlock, Announced, TypeOK
  <2> QED
    BY <1>1, <2>1, OtherPooling DEF PackBlock, pools, ledger, votes
<1>2. ASSUME AwaitTurn PROVE Pooling'
  BY <1>2, OtherPooling DEF AwaitTurn, pools, ledger, votes, Announced
<1>3. ASSUME NEW m \in net, RefusePrepare(m) PROVE Pooling'
  BY <1>3, OtherPooling DEF RefusePrepare, pools, ledger, votes, packager, Announced
<1>4. ASSUME NEW n \in MayCrash, Crash(n) PROVE Pooling'
  BY <1>4, OtherPooling DEF Crash, pools, ledger, votes, packager, Announced
<1>5. ASSUME UNCHANGED vars PROVE Pooling'
  BY <1>5, OtherPooling DEF vars, pools, ledger, votes, packager, Announced
<1>6. ASSUME NEW m \in net, HandlePrePrepare(m) PROVE Pooling'
  <2>1. m.to # Primary
    BY <1>6 DEF TypeOK, Structure, HandlePrePrepare
  <2>2. messagePool'[Primary] = messagePool[Primary]
    BY <1>6, <2>1, PrimaryIsReplica DEF HandlePrePrepare, TypeOK
  <2> QED
    BY <1>6, <2>2, OtherPooling DEF HandlePrePrepare, ledger, votes, packager, Announced
<1> QED
  BY <1>1, <1>2, <1>3, <1>4, <1>5, <1>6, StepCases, HandleClientRequestPooling,
     HandlePreparePooling, HandleCommitPooling

LEMMA NextLogs ==
  ASSUME TypeOK, Structure, Votes, Pooling, LogsOnce, [Next]_vars
  PROVE  LogsOnce'
<1>1. CASE UNCHANGED <<isReply, localMessagePool>>
  BY <1>1 DEF LogsOnce, CommitsOnce
<1>2. ASSUME NEW m \in net, HandleCommit(m) PROVE LogsOnce'
  <2> DEFINE n == m.to
             d == m.digest
             c == built[d].chain
             committers == commitConfirmCount[n][d] \cup {m.from}
  <2>1. \/ ReadyToCommit(n, d, committers) /\ CommitBlock(n, c, d)
        \/ UNCHANGED <<ledger, waitCommit>>
    BY <1>2 DEF HandleCommit
  <2>2. CASE UNCHANGED <<ledger, waitCommit>>
    BY <1>1, <2>2 DEF ledger
  <2>3. CASE ReadyToCommit(n, d, committers) /\ CommitBlock(n, c, d)
    <3>1. d \in messagePool[n] /\ n \in Replicas /\ d \in Digests
      BY <2>3, CommittedIsPooled DEF TypeOK, Message
    <3>2. d \notin isReply[n]
      BY <2>3 DEF ReadyToCommit
    <3> HIDE DEF n, d, c, committers
    <3>3. /\ localMessagePool' = [localMessagePool EXCEPT ![n] = Append(@, d)]
          /\ isReply' = [isReply EXCEPT ![n] = @ \cup {d}]
      BY <2>3, <3>1 DEF CommitBlock, PooledBlock
    <3>4. \A r \in Replicas : r # n => /\ localMessagePool'[r] = localMessagePool[r]
                                       /\ isReply'[r] = isReply[r]
      BY <3>1, <3>3 DEF TypeOK
    <3>5. /\ localMessagePool'[n] = Append(localMessagePool[n], d)
          /\ isReply'[n] = isReply[n] \cup {d}
          /\ localMessagePool[n] \in Seq(Digests \cup {Genesis})
      BY <3>1, <3>3 DEF TypeOK
    <3>6. /\ Len(localMessagePool'[n]) = Len(localMessagePool[n]) + 1
          /\ Len(localMessagePool[n]) \in Nat
          /\ localMessagePool'[n][Len(localMessagePool[n]) + 1] = d
          /\ \A i \in 1..Len(localMessagePool[n]) :
               localMessagePool'[n][i] = localMessagePool[n][i]
      BY <3>1, <3>5
    <3>7. \A i \in 1..Len(localMessagePool[n]) : localMessagePool[n][i] \in isReply[n]
      BY <3>1 DEF LogsOnce
    <3>8. \A i \in 1..Len(localMessagePool'[n]) : localMessagePool'[n][i] \in isReply'[n]
      BY <3>5, <3>6, <3>7
    <3>9. \A i, j \in 1..Len(localMessagePool'[n]) :
            i # j => localMessagePool'[n][i] # localMessagePool'[n][j]
      <4>1. \A i, j \in 1..Len(localMessagePool[n]) :
              i # j => localMessagePool[n][i] # localMessagePool[n][j]
        BY <3>1 DEF LogsOnce, CommitsOnce
      <4>2. \A i \in 1..Len(localMessagePool[n]) : localMessagePool'[n][i] # d
        BY <3>2, <3>6, <3>7
      <4>3. \A i \in 1..Len(localMessagePool'[n]) :
              i \in 1..Len(localMessagePool[n]) \/ i = Len(localMessagePool[n]) + 1
        BY <3>6
      <4> QED
        BY <3>6, <4>1, <4>2, <4>3
    <3> QED
      BY <3>4, <3>8, <3>9 DEF LogsOnce, CommitsOnce
  <2> QED
    BY <2>1, <2>2, <2>3
<1>3. ASSUME NEW c \in Chains, PackBlock(c) PROVE LogsOnce'
  BY <1>1, <1>3 DEF PackBlock, ledger
<1>4. ASSUME AwaitTurn \/ HandleClientRequest PROVE LogsOnce'
  BY <1>1, <1>4 DEF AwaitTurn, HandleClientRequest, ledger
<1>5. ASSUME NEW m \in net,
             HandlePrePrepare(m) \/ RefusePrepare(m) \/ HandlePrepare(m)
      PROVE  LogsOnce'
  BY <1>1, <1>5 DEF HandlePrePrepare, RefusePrepare, HandlePrepare, ledger
<1>6. ASSUME NEW n \in MayCrash, Crash(n) PROVE LogsOnce'
  BY <1>1, <1>6 DEF Crash, ledger
<1>7. ASSUME UNCHANGED vars PROVE LogsOnce'
  BY <1>1, <1>7 DEF vars, ledger
<1> QED
  BY <1>2, <1>3, <1>4, <1>5, <1>6, <1>7, StepCases

\* The inductive invariant of the whole consensus.
IndInv == TypeOK /\ Structure /\ Rounds /\ Votes /\ Pooling /\ LogsOnce

\* It holds throughout, with crashes at any step: the state of every replica that
\* the handlers of PBFT.go can reach lies within it.
THEOREM InductiveInvariant == Spec => []IndInv
<1>1. Init => IndInv
  BY InitStructure, InitRounds, InitVotes, InitPooling DEF IndInv
<1>2. IndInv /\ [Next]_vars => IndInv'
  BY NextStructure, NextRounds, NextVotes, NextPooling, NextLogs DEF IndInv
<1> QED
  BY <1>1, <1>2, PTL DEF Spec

\* The block of the open round is in the primary's pool until it is committed,
\* and no replica commits a missing entry, for every pruning period
\* (PBFT.go:659-670).
THEOREM OpenRoundStaysPooled == Spec => []OpenRoundIsPooled
<1>1. IndInv => OpenRoundIsPooled
  BY DEF IndInv, Pooling, LogsOnce, OpenRoundIsPooled, TypeOK
<1> QED
  BY <1>1, InductiveInvariant, PTL

\* No replica commits a block twice, whatever arrives after the quorum
\* (PBFT.go:632).
THEOREM CommittedOnce == Spec => []CommitsOnce
<1>1. IndInv => CommitsOnce
  BY DEF IndInv, LogsOnce
<1> QED
  BY <1>1, InductiveInvariant, PTL

----------------------------------------------------------------------------
(* The promise.  Consensus implements QuorumLedger: its initial state maps *)
(* to an initial state there, and each of its steps to a step of the       *)
(* promise or to none.                                                     *)

\* The blocks a replica accepted: those in its pool, and those it committed,
\* whether or not they were pruned since.
Accepted == [n \in Replicas |-> messagePool[n] \cup isReply[n]]

\* A step that leaves announcements, votes and decisions alone, and takes from
\* the pools at most what was committed, is no step of the ledger.
LEMMA Stutter ==
  ASSUME Announced' = Announced, UNCHANGED <<isCommitBroadcast, isReply>>,
         \A n \in Replicas : messagePool'[n] \cup isReply[n] = messagePool[n] \cup isReply[n]
  PROVE  UNCHANGED Ledger!vars
<1>1. Accepted' = Accepted
  BY DEF Accepted
<1> QED
  BY <1>1 DEF Ledger!vars, Accepted

\* The instance counts as FiniteSets does.
LEMMA LedgerCounts == \A S : Ledger!Cardinality(S) = Cardinality(S)
  BY DEF Ledger!Cardinality, Cardinality

LEMMA InitLedger == Init => Ledger!Init
  BY DEF Init, Ledger!Init, Ledger!Nothing, Announced

LEMMA HandleClientRequestLedger ==
  ASSUME IndInv, HandleClientRequest
  PROVE  Ledger!Announce
<1> DEFINE d == Len(built)
<1> USE PrimaryIsReplica DEF IndInv
<1>1. /\ stage = "propose" /\ stage' = "pack" /\ UNCHANGED built
      /\ messagePool' = [messagePool EXCEPT ![Primary] = @ \cup {d}]
      /\ UNCHANGED <<isReply, isCommitBroadcast>>
  BY DEF HandleClientRequest, ledger, votes
<1>2. d \in Nat /\ d >= 1 /\ d <= MaxBlocks
  BY <1>1 DEF Structure, TypeOK
<1>3. Announced = d - 1 /\ Announced' = d /\ Opened = d
  BY <1>1 DEF Announced, Opened
<1>4. 1..Announced \subseteq isReply[Primary]
  BY <1>3 DEF Rounds
<1>5. messagePool \in [Replicas -> SUBSET Digests]
  BY DEF TypeOK
<1>6. Accepted' = [Accepted EXCEPT ![Primary] = @ \cup {d}]
  BY <1>1, <1>5 DEF Accepted
<1>7. /\ Announced < MaxBlocks /\ d = Announced + 1
  BY <1>2, <1>3, MaxBlocksNat
<1> HIDE DEF d
<1> QED
  BY <1>1, <1>3, <1>4, <1>6, <1>7 DEF Ledger!Announce, Ledger!Add, Accepted

LEMMA HandlePrePrepareLedger ==
  ASSUME IndInv, NEW m \in net, HandlePrePrepare(m)
  PROVE  Ledger!Accept(m.to, m.digest)
<1> USE DEF IndInv
<1>1. m.to \in Replicas /\ m.digest \in Digests /\ m.digest <= Announced
  BY DEF TypeOK, Message, Structure
<1>2. /\ messagePool' = [messagePool EXCEPT ![m.to] = @ \cup {m.digest}]
      /\ UNCHANGED <<isReply, isCommitBroadcast, built, stage>>
  BY DEF HandlePrePrepare, ledger, votes, packager
<1>3. messagePool \in [Replicas -> SUBSET Digests]
  BY DEF TypeOK
<1>4. Accepted' = [Accepted EXCEPT ![m.to] = @ \cup {m.digest}]
  BY <1>1, <1>2, <1>3 DEF Accepted
<1>5. Announced' = Announced /\ Announced \in Int
  BY <1>2 DEF Announced, TypeOK
<1>6. m.digest \in 1..Announced
  BY <1>1, <1>5, MaxBlocksNat DEF Digests
<1> QED
  BY <1>2, <1>4, <1>5, <1>6 DEF Ledger!Accept, Ledger!Add, Accepted

\* 2f Prepares at the primary, or 2f - 1 and the block a backup has itself, come
\* from 2f backups that hold the block.
LEMMA PreparersHold ==
  ASSUME IndInv, NEW m \in net, HandlePrepare(m),
         ReadyToBroadcastCommit(m.to, m.digest,
                                prePareConfirmCount[m.to][m.digest] \cup {m.from})
  PROVE  Cardinality({q \in Replicas \ {Primary} : m.digest \in Accepted[q]}) >= TwoF
<1> DEFINE n == m.to
           d == m.digest
           preparers == prePareConfirmCount[n][d] \cup {m.from}
           holders == {q \in Replicas \ {Primary} : d \in Accepted[q]}
<1> USE DEF IndInv
<1>1. n \in Replicas /\ d \in Digests /\ m.from # n /\ d \in messagePool[n]
  BY DEF TypeOK, Message, HandlePrepare, KnowsDigest
<1>2. m.from \in Backups /\ d \in messagePool[m.from]
  BY DEF HandlePrepare, Votes, SentVotes
<1>3. \A q \in preparers : q \in Backups /\ q # n /\ d \in messagePool[q]
  BY <1>1, <1>2 DEF Votes, CountedVotes
<1>4. Cardinality(preparers) >= PrepareQuorum(n)
  BY DEF ReadyToBroadcastCommit
<1>5. \A q \in Backups : d \in messagePool[q] => q \in holders
  BY DEF Backups, Accepted
<1> HIDE DEF n, d, preparers
<1>6. holders \in SUBSET Replicas /\ preparers \in SUBSET holders
  BY <1>3, <1>5
<1>7. IsFiniteSet(holders) /\ IsFiniteSet(preparers)
  BY <1>6, ReplicasFinite, FS_Subset
<1>8. Cardinality(holders) \in Nat /\ Cardinality(preparers) \in Nat
  BY <1>7, FS_CardinalityType
<1> HIDE DEF holders
<1>9. CASE n = Primary
  <2>1. Cardinality(preparers) <= Cardinality(holders)
    BY <1>6, <1>7, FS_Subset
  <2> QED
    BY <1>4, <1>8, <1>9, <2>1, TwoFInt DEF PrepareQuorum, holders, d
<1>10. CASE n # Primary
  <2>1. n \notin preparers
    BY <1>3
  <2>2. /\ IsFiniteSet(preparers \cup {n})
        /\ Cardinality(preparers \cup {n}) = Cardinality(preparers) + 1
    BY <1>7, <2>1, FS_AddElement
  <2>3. preparers \cup {n} \in SUBSET holders
    BY <1>1, <1>5, <1>6, <1>10 DEF Backups
  <2>4. Cardinality(preparers \cup {n}) <= Cardinality(holders)
    BY <1>7, <2>3, FS_Subset
  <2> QED
    BY <1>4, <1>8, <1>10, <2>2, <2>4, TwoFInt DEF PrepareQuorum, holders, d
<1> QED
  BY <1>9, <1>10

LEMMA HandlePrepareLedger ==
  ASSUME IndInv, NEW m \in net, HandlePrepare(m)
  PROVE  Ledger!Vote(m.to, m.digest) \/ UNCHANGED Ledger!vars
<1> DEFINE n == m.to
           d == m.digest
           preparers == prePareConfirmCount[n][d] \cup {m.from}
<1> USE DEF IndInv
<1>1. /\ \/ /\ ReadyToBroadcastCommit(n, d, preparers)
            /\ isCommitBroadcast' = [isCommitBroadcast EXCEPT ![n] = @ \cup {d}]
         \/ UNCHANGED isCommitBroadcast
      /\ UNCHANGED <<isReply, messagePool, built, stage>>
      /\ d \in messagePool[n]
  BY DEF HandlePrepare, ledger, pools, packager, KnowsDigest
<1>2. n \in Replicas
  BY DEF TypeOK, Message
<1>3. Announced' = Announced /\ Accepted' = Accepted
  BY <1>1 DEF Announced, Accepted
<1>4. CASE UNCHANGED isCommitBroadcast
  BY <1>1, <1>3, <1>4, Stutter
<1>5. CASE /\ ReadyToBroadcastCommit(n, d, preparers)
           /\ isCommitBroadcast' = [isCommitBroadcast EXCEPT ![n] = @ \cup {d}]
  <2>1. Cardinality({q \in Replicas \ {Primary} : d \in Accepted[q]}) >= TwoF
    BY <1>5, PreparersHold
  <2>2. d \in Accepted[n]
    BY <1>1, <1>2 DEF Accepted
  <2> HIDE DEF n, d, preparers
  <2>3. Ledger!Vote(n, d)
    BY <1>1, <1>3, <1>5, <2>1, <2>2, LedgerCounts DEF Ledger!Vote, Ledger!Add, Accepted
  <2> QED
    BY <2>3 DEF n, d
<1> QED
  BY <1>1, <1>4, <1>5

\* Pruning takes from a pool what its replica committed, and nothing else.
LEMMA HandleCommitKeeps ==
  ASSUME IndInv, NEW m \in net, HandleCommit(m), NEW r \in Replicas
  PROVE  messagePool'[r] \cup isReply'[r] = messagePool[r] \cup isReply'[r]
<1> DEFINE gone == Pruned(m.to, built[m.digest].chain, height'[m.to][built[m.digest].chain])
<1> USE DEF IndInv
<1>1. messagePool' = [messagePool EXCEPT ![m.to] = @ \ gone]
  BY DEF HandleCommit, Prune
<1>2. m.to # Primary => gone = {}
  BY DEF Pruned
<1>3. gone \subseteq isReply'[Primary]
  BY PrunedIsCommitted
<1>4. messagePool \in [Replicas -> SUBSET Digests]
  BY DEF TypeOK
<1> HIDE DEF gone
<1> QED
  BY <1>1, <1>2, <1>3, <1>4

LEMMA HandleCommitLedger ==
  ASSUME IndInv, IndInv', NEW m \in net, HandleCommit(m)
  PROVE  Ledger!Decide(m.to, m.digest) \/ UNCHANGED Ledger!vars
<1> DEFINE n == m.to
           d == m.digest
           c == built[d].chain
           committers == commitConfirmCount[n][d] \cup {m.from}
<1> USE DEF IndInv
<1>1. /\ \/ ReadyToCommit(n, d, committers) /\ CommitBlock(n, c, d)
         \/ UNCHANGED <<ledger, waitCommit>>
      /\ UNCHANGED <<isCommitBroadcast, built, stage>>
  BY DEF HandleCommit
<1>2. n \in Replicas /\ d \in Digests
  BY DEF TypeOK, Message
<1>3. Announced' = Announced
  BY <1>1 DEF Announced
<1>4. \A r \in Replicas : messagePool'[r] \cup isReply'[r] = messagePool[r] \cup isReply'[r]
  BY HandleCommitKeeps
<1>5. CASE UNCHANGED <<ledger, waitCommit>>
  BY <1>1, <1>3, <1>4, <1>5, Stutter DEF ledger
<1>6. CASE ReadyToCommit(n, d, committers) /\ CommitBlock(n, c, d)
  <2>1. isReply' = [isReply EXCEPT ![n] = @ \cup {d}]
    BY <1>6 DEF CommitBlock
  <2>2. d \in messagePool[n]
    BY <1>6, CommittedIsPooled
  <2>3. d \in isCommitBroadcast[n]
    BY <1>6 DEF ReadyToCommit
  <2> HIDE DEF n, d, c, committers
  <2>4. isReply \in [Replicas -> SUBSET Digests]
    BY DEF TypeOK
  <2>5. d \in isReply'[n]
    BY <1>2, <2>1, <2>4
  <2>6. \A r \in Replicas :
          messagePool'[r] \cup isReply'[r] = messagePool[r] \cup isReply[r]
    BY <1>2, <1>4, <2>1, <2>2, <2>4
  <2>7. Accepted' = Accepted
    BY <2>6 DEF Accepted
  <2>8. Cardinality({q \in Replicas \ {n} : d \in isCommitBroadcast[q]}) >= TwoF
    <3>1. Cardinality(Voters(d)' \ {n}) >= TwoF
      BY <1>2, <2>5 DEF Votes, OwnVotes
    <3>2. Voters(d)' \ {n} = {q \in Replicas \ {n} : d \in isCommitBroadcast[q]}
      BY <1>1 DEF Voters
    <3> QED
      BY <3>1, <3>2
  <2>9. Ledger!Decide(n, d)
    BY <1>1, <1>3, <2>1, <2>3, <2>7, <2>8, LedgerCounts DEF Ledger!Decide, Ledger!Add, Accepted
  <2> QED
    BY <2>9 DEF n, d
<1> QED
  BY <1>1, <1>5, <1>6

LEMMA NextLedger ==
  ASSUME IndInv, IndInv', [Next]_vars
  PROVE  [Ledger!Next]_Ledger!vars
<1> USE DEF IndInv
<1>1. ASSUME NEW c \in Chains, PackBlock(c) PROVE UNCHANGED Ledger!vars
  <2>1. Announced' = Announced
    <3>1. NewBlock(c) \in Block
      BY PrimaryIsReplica DEF NewBlock, TypeOK, Block
    <3> QED
      BY <1>1, <3>1 DEF PackBlock, Announced, TypeOK
  <2> QED
    BY <1>1, <2>1, Stutter DEF PackBlock, pools, ledger, votes
<1>2. ASSUME AwaitTurn PROVE UNCHANGED Ledger!vars
  BY <1>2, Stutter DEF AwaitTurn, pools, ledger, votes, Announced
<1>3. ASSUME NEW m \in net, RefusePrepare(m) PROVE UNCHANGED Ledger!vars
  BY <1>3, Stutter DEF RefusePrepare, pools, ledger, votes, packager, Announced
<1>4. ASSUME NEW n \in MayCrash, Crash(n) PROVE UNCHANGED Ledger!vars
  BY <1>4, Stutter DEF Crash, pools, ledger, votes, packager, Announced
<1>5. ASSUME UNCHANGED vars PROVE UNCHANGED Ledger!vars
  BY <1>5, Stutter DEF vars, pools, ledger, votes, packager, Announced
<1>6. \A m \in net : m.to \in Replicas /\ m.digest \in 1..MaxBlocks
  BY DEF TypeOK, Message, Digests
<1>7. ASSUME NEW m \in net, HandlePrePrepare(m) PROVE Ledger!Next
  BY <1>6, <1>7, HandlePrePrepareLedger DEF Ledger!Next
<1>8. ASSUME NEW m \in net, HandlePrepare(m) PROVE Ledger!Next \/ UNCHANGED Ledger!vars
  BY <1>6, <1>8, HandlePrepareLedger DEF Ledger!Next
<1>9. ASSUME NEW m \in net, HandleCommit(m) PROVE Ledger!Next \/ UNCHANGED Ledger!vars
  BY <1>6, <1>9, HandleCommitLedger DEF Ledger!Next
<1>10. ASSUME HandleClientRequest PROVE Ledger!Next
  BY <1>10, HandleClientRequestLedger DEF Ledger!Next
<1> QED
  BY <1>1, <1>2, <1>3, <1>4, <1>5, <1>7, <1>8, <1>9, <1>10, StepCases

\* Messages, locks, the packager, pruning and crashes together keep the promise of
\* QuorumLedger: blocks are announced one at a time, voted for when 2f backups
\* hold them, and decided on 2f votes of others (PBFT.go:220, 515, 629).
THEOREM ImplementsLedger == Spec => LedgerSpec
<1>1. Init => Ledger!Init
  BY InitLedger
<1>2. IndInv /\ IndInv' /\ [Next]_vars => [Ledger!Next]_Ledger!vars
  BY NextLedger
<1> QED
  BY <1>1, <1>2, InductiveInvariant, PTL DEF Spec, LedgerSpec, Ledger!Spec

----------------------------------------------------------------------------
(* The chains of the primary: blocks are packed on a tip and a height that  *)
(* may be old when they are committed, and yet every block is stored on its *)
(* parent, one height above it, and no height falls.                        *)


\* The block p is the genesis block, or one of chain c the primary committed.
Stored(p, c) == p = Genesis \/ (p \in isReply[Primary] /\ built[p].chain = c)

\* Every block was built on a stored one, one height above it.
BuiltOnStored ==
  \A d \in 1..Len(built) :
    /\ Stored(built[d].prev, built[d].chain)
    /\ built[d].height = HeightOf(built[d].prev) + 1

\* The tips are stored and have the published heights.
TipsStored ==
  \A c \in Chains :
    /\ Stored(tip[Primary][c], c)
    /\ height[Primary][c] = HeightOf(tip[Primary][c])

\* What the primary committed is in its log.
Logged ==
  \A d \in isReply[Primary] :
    \E i \in 1..Len(localMessagePool[Primary]) : localMessagePool[Primary][i] = d

\* The block whose round is open, and the one that waits for it, do not lie below
\* their chain: the one that waits was packed while the other was not committed,
\* on the height the chain still has.
OpenBlocksFollow ==
  \A d \in (1..Len(built)) \ isReply[Primary] :
    LET h == height[Primary][built[d].chain]
    IN  /\ built[d].height \in {h, h + 1}
        /\ d = Len(built) /\ d - 1 \in (1..Len(built)) \ isReply[Primary]
             => built[d].height = h + 1

ParentInv ==
  BuiltOnStored /\ TipsStored /\ Logged /\ OpenBlocksFollow /\ PrimaryParentStored

\* The part of the state that the chains of the primary are made of.
Untouched ==
  /\ built' = built
  /\ isReply'[Primary] = isReply[Primary]
  /\ localMessagePool'[Primary] = localMessagePool[Primary]
  /\ tip'[Primary] = tip[Primary]
  /\ height'[Primary] = height[Primary]

\* The primary commits the block d of the open round.
Commits(d) ==
  /\ built' = built
  /\ isReply'[Primary] = isReply[Primary] \cup {d}
  /\ localMessagePool'[Primary] = Append(localMessagePool[Primary], d)
  /\ tip'[Primary] = [tip[Primary] EXCEPT ![built[d].chain] = d]
  /\ height'[Primary] = [height[Primary] EXCEPT ![built[d].chain] = built[d].height]

LEMMA BlocksTyped ==
  ASSUME TypeOK, Rounds
  PROVE  /\ Len(built) \in Nat /\ Opened \in Int /\ Announced \in Int
         /\ Opened \in {Len(built) - 1, Len(built)} /\ Announced <= Len(built)
         /\ isReply[Primary] \subseteq 1..Len(built)
         /\ \A d \in 1..Len(built) : /\ built[d] \in Block /\ built[d].chain \in Chains
                                     /\ built[d].height \in Nat
<1>1. Len(built) \in Nat /\ built \in Seq(Block)
  BY DEF TypeOK
<1>2. \A d \in 1..Len(built) : built[d] \in Block
  BY <1>1, ElementOfSeq
<1>3. \A b \in Block : b.chain \in Chains /\ b.height \in Nat
  BY DEF Block
<1>4. /\ Opened \in Int /\ Announced \in Int
      /\ Opened \in {Len(built) - 1, Len(built)} /\ Announced <= Len(built)
  BY <1>1 DEF Opened, Announced
<1>5. isReply[Primary] \subseteq 1..Len(built)
  BY <1>1, <1>4 DEF Rounds
<1> QED
  BY <1>1, <1>2, <1>3, <1>4, <1>5

\* What a Commit handler does to the primary's chains: nothing, or it commits the
\* block of the last round opened.
LEMMA CommitHandlerEffect ==
  ASSUME IndInv, NEW m \in net, HandleCommit(m)
  PROVE  \/ Untouched
         \/ /\ m.digest \in (1..Len(built)) \ isReply[Primary] /\ m.digest = Opened
            /\ Commits(m.digest)
<1> DEFINE n == m.to
           d == m.digest
           c == built[d].chain
           committers == commitConfirmCount[n][d] \cup {m.from}
<1> USE PrimaryIsReplica DEF IndInv
<1>1. /\ \/ ReadyToCommit(n, d, committers) /\ CommitBlock(n, c, d)
         \/ UNCHANGED <<ledger, waitCommit>>
      /\ built' = built
  BY DEF HandleCommit
<1>2. n \in Replicas /\ d \in Nat /\ 1 <= d /\ d <= Announced
  BY MaxBlocksNat DEF TypeOK, Structure, Message, Digests
<1>3. CASE UNCHANGED <<ledger, waitCommit>>
  BY <1>1, <1>3 DEF ledger, Untouched
<1>4. CASE ReadyToCommit(n, d, committers) /\ CommitBlock(n, c, d)
  <2>1. d \in messagePool[n]
    BY <1>4, CommittedIsPooled
  <2>2. d \notin isReply[n]
    BY <1>4 DEF ReadyToCommit
  <2> HIDE DEF n, d, c, committers
  <2>3. /\ localMessagePool' = [localMessagePool EXCEPT ![n] = Append(@, d)]
        /\ tip' = [tip EXCEPT ![n][c] = d]
        /\ height' = [height EXCEPT ![n][c] = built[d].height]
        /\ isReply' = [isReply EXCEPT ![n] = @ \cup {d}]
    BY <1>4, <2>1 DEF CommitBlock, PooledBlock, PooledHeight
  <2>4. CASE n # Primary
    BY <1>1, <1>2, <2>3, <2>4 DEF TypeOK, Untouched
  <2>5. CASE n = Primary
    <3>1. Commits(d)
      BY <1>1, <2>3, <2>5 DEF TypeOK, Commits, c
    <3>2. d \in 1..Len(built) /\ Announced <= Opened
      BY <1>2, BlocksTyped DEF Opened, Announced
    <3>3. d = Opened
      BY <1>2, <2>2, <2>5, <3>2, BlocksTyped DEF Rounds
    <3> QED
      BY <2>2, <2>5, <3>1, <3>2, <3>3 DEF d
  <2> QED
    BY <2>4, <2>5
<1> QED
  BY <1>1, <1>3, <1>4

LEMMA InitParents == Init => ParentInv
<1> SUFFICES ASSUME Init PROVE ParentInv
  OBVIOUS
<1>1. Len(built) = 0 /\ 1..Len(built) = {}
  BY DEF Init
<1>2. BuiltOnStored /\ OpenBlocksFollow
  BY <1>1 DEF BuiltOnStored, OpenBlocksFollow
<1>3. TipsStored
  BY PrimaryIsReplica DEF Init, TipsStored, Stored, HeightOf
<1>4. Logged
  BY PrimaryIsReplica DEF Init, Logged
<1>5. localMessagePool[Primary] = << >>
  BY PrimaryIsReplica DEF Init
<1>6. PrimaryParentStored
  BY <1>5 DEF PrimaryParentStored, ParentStored
<1> QED
  BY <1>2, <1>3, <1>4, <1>6 DEF ParentInv

LEMMA UntouchedParents ==
  ASSUME ParentInv, Untouched
  PROVE  ParentInv'
  BY DEF ParentInv, Untouched, BuiltOnStored, TipsStored, Logged, OpenBlocksFollow,
         PrimaryParentStored, ParentStored, Stored, HeightOf, Parent

\* A new block stands on the tip, whose height is the published one.
LEMMA PackParents ==
  ASSUME IndInv, ParentInv, NEW c \in Chains, PackBlock(c)
  PROVE  ParentInv'
<1> DEFINE L == Len(built)
           b == NewBlock(c)
<1> USE PrimaryIsReplica
<1>1. /\ b \in Block /\ b.chain = c /\ b.prev = tip[Primary][c]
      /\ b.height = height[Primary][c] + 1
  BY DEF NewBlock, IndInv, TypeOK, Block
<1>2. L \in Nat /\ built \in Seq(Block) /\ built' = Append(built, b)
  BY DEF PackBlock, IndInv, TypeOK
<1> HIDE DEF b
<1>3. /\ Len(built') = L + 1 /\ built'[L + 1] = b
      /\ \A d \in 1..L : built'[d] = built[d]
  BY <1>1, <1>2
<1>4. /\ isReply' = isReply /\ localMessagePool' = localMessagePool
      /\ tip' = tip /\ height' = height
  BY DEF PackBlock, ledger
<1>5. isReply[Primary] \subseteq 1..L
  BY BlocksTyped DEF IndInv
<1> HIDE DEF L
<1>6. \A p, e : Stored(p, e) =>
        /\ p = Genesis \/ (p \in isReply[Primary] /\ built'[p].chain = e)
        /\ HeightOf(p) = IF p = Genesis THEN 1 ELSE built'[p].height
  BY <1>3, <1>5 DEF Stored, HeightOf
<1>7. \A d \in 1..(L + 1) : d \in 1..L \/ d = L + 1
  BY <1>2
<1>8. TipsStored'
  BY <1>4, <1>6 DEF ParentInv, TipsStored, Stored, HeightOf
<1>9. BuiltOnStored'
  <2>1. ASSUME NEW d \in 1..(L + 1)
        PROVE  \E p, e : /\ built'[d].prev = p /\ built'[d].chain = e /\ Stored(p, e)
                         /\ built'[d].height = HeightOf(p) + 1
    <3>1. CASE d \in 1..L
      BY <1>3, <3>1 DEF ParentInv, BuiltOnStored, L
    <3>2. CASE d = L + 1
      BY <1>1, <1>3, <3>2 DEF ParentInv, TipsStored
    <3> QED
      BY <1>7, <2>1, <3>1, <3>2
  <2>2. \A d \in 1..(L + 1) :
          /\ \/ built'[d].prev = Genesis
             \/ /\ built'[d].prev \in isReply[Primary]
                /\ built'[built'[d].prev].chain = built'[d].chain
          /\ built'[d].height =
               (IF built'[d].prev = Genesis THEN 1 ELSE built'[built'[d].prev].height) + 1
    BY <1>6, <2>1
  <2> QED
    BY <1>3, <1>4, <2>2 DEF BuiltOnStored, Stored, HeightOf
<1>10. Logged'
  BY <1>4 DEF ParentInv, Logged
<1>11. OpenBlocksFollow'
  <2> SUFFICES ASSUME NEW d \in 1..(L + 1), d \notin isReply[Primary]
               PROVE  /\ built'[d].height \in {height[Primary][built'[d].chain],
                                               height[Primary][built'[d].chain] + 1}
                      /\ d = L + 1 => built'[d].height = height[Primary][built'[d].chain] + 1
    BY <1>3, <1>4 DEF OpenBlocksFollow
  <2>1. CASE d \in 1..L
    BY <1>2, <1>3, <2>1 DEF ParentInv, OpenBlocksFollow, L
  <2>2. CASE d = L + 1
    BY <1>1, <1>3, <2>2
  <2> QED
    BY <1>7, <2>1, <2>2
<1>12. PrimaryParentStored'
  <2>1. \A i \in 1..Len(localMessagePool[Primary]) :
          localMessagePool[Primary][i] \in 1..L
    BY <1>5 DEF IndInv, LogsOnce
  <2>2. \A d \in 1..L : built[d].prev = Genesis \/ built[d].prev \in 1..L
    BY <1>5 DEF ParentInv, BuiltOnStored, Stored, L
  <2> DEFINE log == localMessagePool[Primary]
             H(p) == IF p = Genesis THEN 1 ELSE built'[p].height
  <2>3. \A d \in 1..L :
          /\ built'[d] = built[d] /\ HeightOf(d) = H(d)
          /\ HeightOf(built[d].prev) = H(built[d].prev)
          /\ built[d].prev # Genesis => built'[built[d].prev] = built[built[d].prev]
    BY <1>3, <2>2 DEF HeightOf
  <2>4. \A i \in 1..Len(log) :
          /\ HeightOf(log[i]) = HeightOf(built[log[i]].prev) + 1
          /\ \/ built[log[i]].prev = Genesis
             \/ \E j \in 1..(i - 1) :
                  /\ log[j] = built[log[i]].prev
                  /\ built[built[log[i]].prev].chain = built[log[i]].chain
    BY DEF ParentInv, PrimaryParentStored, ParentStored, Parent
  <2>5. \A i \in 1..Len(log) :
          /\ H(log[i]) = H(built'[log[i]].prev) + 1
          /\ \/ built'[log[i]].prev = Genesis
             \/ \E j \in 1..(i - 1) :
                  /\ log[j] = built'[log[i]].prev
                  /\ built'[built'[log[i]].prev].chain = built'[log[i]].chain
    <3> TAKE i \in 1..Len(log)
    <3> DEFINE d == log[i]
    <3>1. d \in 1..L
      BY <2>1
    <3> HIDE DEF H, d
    <3>2. H(d) = H(built'[d].prev) + 1
      BY <2>3, <2>4, <3>1 DEF d
    <3>3. CASE built[d].prev = Genesis
      BY <2>3, <3>1, <3>2, <3>3 DEF d
    <3>4. CASE built[d].prev # Genesis
      BY <2>3, <2>4, <3>1, <3>2, <3>4 DEF d
    <3> QED
      BY <3>3, <3>4
  <2>6. localMessagePool'[Primary] = log
    BY <1>4
  <2> SUFFICES ASSUME NEW i \in 1..Len(localMessagePool'[Primary])
               PROVE  (LET d == localMessagePool[Primary][i]
                       IN  /\ HeightOf(d) = HeightOf(Parent(d)) + 1
                           /\ \/ Parent(d) = Genesis
                              \/ \E j \in 1..(i - 1) :
                                   /\ localMessagePool[Primary][j] = Parent(d)
                                   /\ built[Parent(d)].chain = built[d].chain)'
    BY DEF PrimaryParentStored, ParentStored
  <2>7. i \in 1..Len(log)
    BY <2>6
  <2> QED
    BY <2>5, <2>6, <2>7 DEF Parent, HeightOf
<1> QED
  BY <1>8, <1>9, <1>10, <1>11, <1>12 DEF ParentInv

\* A committed block has its parent in the log, since that was committed
\* before, and the block that waits was packed on the height the chain had before.
LEMMA CommitParents ==
  ASSUME IndInv, ParentInv, NEW d \in (1..Len(built)) \ isReply[Primary],
         d = Opened, Commits(d)
  PROVE  /\ ParentInv'
         /\ \A c \in Chains : height'[Primary][c] >= height[Primary][c]
<1> DEFINE L == Len(built)
           old == isReply[Primary]
           log == localMessagePool[Primary]
           n == Len(log)
           hs == height[Primary]
<1> USE PrimaryIsReplica
<1>1. /\ L \in Nat /\ Opened \in Int /\ Opened \in {L - 1, L} /\ old \subseteq 1..L
      /\ \A e \in 1..L : built[e].chain \in Chains /\ built[e].height \in Nat
  BY BlocksTyped DEF IndInv
<1>2. /\ built' = built /\ isReply'[Primary] = old \cup {d}
      /\ localMessagePool'[Primary] = Append(log, d)
      /\ tip'[Primary] = [tip[Primary] EXCEPT ![built[d].chain] = d]
      /\ height'[Primary] = [hs EXCEPT ![built[d].chain] = built[d].height]
  BY DEF Commits
<1>3. /\ tip[Primary] \in [Chains -> Digests \cup {Genesis}]
      /\ hs \in [Chains -> Nat] /\ log \in Seq(Digests \cup {Genesis})
  BY DEF IndInv, TypeOK
<1>4. /\ n \in Nat /\ Len(localMessagePool'[Primary]) = n + 1
      /\ localMessagePool'[Primary][n + 1] = d
      /\ \A i \in 1..n : localMessagePool'[Primary][i] = log[i]
  <2>1. d \in Digests
    BY <1>1, MaxBlocksNat DEF IndInv, TypeOK, Digests
  <2> QED
    BY <1>2, <1>3, <2>1
<1>5. /\ Stored(built[d].prev, built[d].chain)
      /\ built[d].height = HeightOf(built[d].prev) + 1
      /\ built[d].height \in {hs[built[d].chain], hs[built[d].chain] + 1}
  BY DEF ParentInv, BuiltOnStored, OpenBlocksFollow
<1>6. d # Genesis
  BY DEF Genesis
<1> HIDE DEF L, old, log, n, hs
<1>7. \A p, c : Stored(p, c) => p = Genesis \/ (p \in isReply'[Primary] /\ built[p].chain = c)
  BY <1>2 DEF Stored, old
<1>8. BuiltOnStored'
  BY <1>2, <1>7 DEF ParentInv, BuiltOnStored, Stored, HeightOf
<1>9. TipsStored'
  <2>1. ASSUME NEW c \in Chains, c = built[d].chain
        PROVE  tip'[Primary][c] = d /\ height'[Primary][c] = built[d].height
    BY <1>2, <1>3, <2>1
  <2>2. ASSUME NEW c \in Chains, c # built[d].chain
        PROVE  tip'[Primary][c] = tip[Primary][c] /\ height'[Primary][c] = height[Primary][c]
    BY <1>2, <1>3, <2>2 DEF hs
  <2>3. ASSUME NEW c \in Chains
        PROVE  /\ \/ tip'[Primary][c] = Genesis
                  \/ tip'[Primary][c] \in isReply'[Primary] /\ built[tip'[Primary][c]].chain = c
               /\ height'[Primary][c] =
                    IF tip'[Primary][c] = Genesis THEN 1 ELSE built[tip'[Primary][c]].height
    <3>1. CASE c = built[d].chain
      BY <1>2, <1>6, <2>1, <3>1
    <3>2. CASE c # built[d].chain
      <4>1. Stored(tip[Primary][c], c) /\ height[Primary][c] = HeightOf(tip[Primary][c])
        BY DEF ParentInv, TipsStored
      <4> QED
        BY <1>7, <2>2, <3>2, <4>1 DEF HeightOf
    <3> QED
      BY <3>1, <3>2
  <2> QED
    BY <1>2, <2>3 DEF TipsStored, Stored, HeightOf
<1>10. Logged'
  <2>1. \A e \in old : \E i \in 1..n : log[i] = e
    BY DEF ParentInv, Logged, old, log, n
  <2>2. \A e \in old \cup {d} : \E i \in 1..(n + 1) : localMessagePool'[Primary][i] = e
    BY <1>4, <2>1
  <2> QED
    BY <1>2, <1>4, <2>2 DEF Logged
<1>11. \A c \in Chains : height'[Primary][c] >= height[Primary][c]
  BY <1>1, <1>2, <1>3, <1>5 DEF hs, L
<1>12. OpenBlocksFollow'
  <2>1. 1..(Opened - 1) \subseteq old
    BY DEF IndInv, Rounds, old
  <2> SUFFICES ASSUME NEW e \in (1..L) \ (old \cup {d})
               PROVE  /\ built[e].height \in {height'[Primary][built[e].chain],
                                              height'[Primary][built[e].chain] + 1}
                      /\ ~(e = L /\ e - 1 \in (1..L) \ (old \cup {d}))
    BY <1>2 DEF OpenBlocksFollow, L
  <2>2. e = L /\ e - 1 = d
    BY <1>1, <2>1
  <2>3. built[e].height = hs[built[e].chain] + 1
    BY <1>1, <2>2 DEF ParentInv, OpenBlocksFollow, L, old, hs
  <2>4. CASE built[e].chain = built[d].chain
    <3>1. height'[Primary][built[e].chain] = built[d].height
      BY <1>1, <1>2, <1>3, <2>4
    <3> QED
      BY <1>1, <1>3, <1>5, <2>2, <2>3, <2>4, <3>1 DEF L
  <2>5. CASE built[e].chain # built[d].chain
    BY <1>1, <1>2, <1>3, <2>2, <2>3, <2>5
  <2> QED
    BY <2>2, <2>4, <2>5
<1>13. PrimaryParentStored'
  <2>1. \A i \in 1..n :
          /\ HeightOf(log[i]) = HeightOf(built[log[i]].prev) + 1
          /\ \/ built[log[i]].prev = Genesis
             \/ \E j \in 1..(i - 1) :
                  /\ log[j] = built[log[i]].prev
                  /\ built[built[log[i]].prev].chain = built[log[i]].chain
    BY DEF ParentInv, PrimaryParentStored, ParentStored, Parent, log, n
  <2>2. /\ HeightOf(d) = HeightOf(built[d].prev) + 1
        /\ \/ built[d].prev = Genesis
           \/ \E j \in 1..n :
                log[j] = built[d].prev /\ built[built[d].prev].chain = built[d].chain
    <3>1. \A e \in old : \E j \in 1..n : log[j] = e
      BY DEF ParentInv, Logged, old, log, n
    <3> QED
      BY <1>5, <1>6, <3>1 DEF HeightOf, Stored, old
  <2>3. ASSUME NEW i \in 1..(n + 1), NEW e, e = localMessagePool'[Primary][i]
        PROVE  /\ HeightOf(e) = HeightOf(built[e].prev) + 1
               /\ \/ built[e].prev = Genesis
                  \/ \E j \in 1..(i - 1) :
                       /\ localMessagePool'[Primary][j] = built[e].prev
                       /\ built[built[e].prev].chain = built[e].chain
    <3>1. CASE i \in 1..n
      <4>1. e = log[i] /\ \A j \in 1..(i - 1) : localMessagePool'[Primary][j] = log[j]
        BY <1>4, <2>3, <3>1
      <4>2. CASE built[log[i]].prev = Genesis
        BY <2>1, <3>1, <4>1, <4>2
      <4>3. CASE \E j \in 1..(i - 1) :
                   /\ log[j] = built[log[i]].prev
                   /\ built[built[log[i]].prev].chain = built[log[i]].chain
        <5>1. PICK j \in 1..(i - 1) :
                   /\ log[j] = built[e].prev
                   /\ built[built[e].prev].chain = built[e].chain
          BY <4>1, <4>3
        <5>2. localMessagePool'[Primary][j] = built[e].prev
          BY <4>1, <5>1
        <5> QED
          BY <2>1, <3>1, <4>1, <5>1, <5>2
      <4> QED
        BY <2>1, <3>1, <4>2, <4>3
    <3>2. CASE i = n + 1
      BY <1>4, <2>2, <2>3, <3>2
    <3> QED
      BY <1>4, <3>1, <3>2
  <2> SUFFICES ASSUME NEW i \in 1..Len(localMessagePool'[Primary])
               PROVE  (LET e == localMessagePool[Primary][i]
                       IN  /\ HeightOf(e) = HeightOf(Parent(e)) + 1
                           /\ \/ Parent(e) = Genesis
                              \/ \E j \in 1..(i - 1) :
                                   /\ localMessagePool[Primary][j] = Parent(e)
                                   /\ built[Parent(e)].chain = built[e].chain)'
    BY DEF PrimaryParentStored, ParentStored
  <2> QED
    BY <1>2, <1>4, <2>3 DEF Parent, HeightOf
<1> QED
  BY <1>8, <1>9, <1>10, <1>11, <1>12, <1>13 DEF ParentInv

\* Only the packager and the Commit handler of the primary touch its chains.
LEMMA StepParents ==
  ASSUME IndInv, ParentInv, [Next]_vars
  PROVE  \/ Untouched
         \/ \E c \in Chains : PackBlock(c)
         \/ \E d \in (1..Len(built)) \ isReply[Primary] : d = Opened /\ Commits(d)
<1> USE DEF Untouched, ledger, packager
<1>1. AwaitTurn => Untouched
  BY DEF AwaitTurn
<1>2. HandleClientRequest => Untouched
  BY DEF HandleClientRequest
<1>3. \A m \in net : HandlePrePrepare(m) => Untouched
  BY DEF HandlePrePrepare
<1>4. \A m \in net : RefusePrepare(m) \/ HandlePrepare(m) => Untouched
  BY DEF RefusePrepare, HandlePrepare
<1>5. \A n \in MayCrash : Crash(n) => Untouched
  BY DEF Crash
<1>6. UNCHANGED vars => Untouched
  BY DEF vars
<1> QED
  BY <1>1, <1>2, <1>3, <1>4, <1>5, <1>6, StepCases, CommitHandlerEffect

LEMMA NextParents ==
  ASSUME IndInv, ParentInv, [Next]_vars
  PROVE  /\ ParentInv'
         /\ \A c \in Chains : height'[Primary][c] >= height[Primary][c]
<1>1. height[Primary] \in [Chains -> Nat]
  BY PrimaryIsReplica DEF IndInv, TypeOK
<1>2. CASE Untouched
  BY <1>1, <1>2, UntouchedParents DEF Untouched
<1>3. ASSUME NEW c \in Chains, PackBlock(c)
      PROVE  ParentInv' /\ height' = height
  BY <1>3, PackParents DEF PackBlock, ledger
<1>4. ASSUME NEW d \in (1..Len(built)) \ isReply[Primary], d = Opened, Commits(d)
      PROVE  /\ ParentInv'
             /\ \A c \in Chains : height'[Primary][c] >= height[Primary][c]
  BY <1>4, CommitParents
<1> QED
  BY <1>1, <1>2, <1>3, <1>4, StepParents

\* Whatever the packager made stands on a block the primary stored, and the tips
\* have the published heights (PBFT.go:201, Blockchain.go:147-156).
THEOREM ParentInvariant == Spec => []ParentInv
<1>1. Init => ParentInv
  BY InitParents
<1>2. IndInv /\ ParentInv /\ [Next]_vars => ParentInv'
  BY NextParents
<1> QED
  BY <1>1, <1>2, InductiveInvariant, PTL DEF Spec

\* The primary stores every block on its parent, one height above it and on the
\* same chain, although it packed the block on a tip that may have been old
\* when the block was committed (PBFT.go:197-221, 648).
THEOREM PrimaryChainsLinked == Spec => []PrimaryParentStored
<1>1. ParentInv => PrimaryParentStored
  BY DEF ParentInv
<1> QED
  BY <1>1, ParentInvariant, PTL

\* No height the primary published falls, although a commit assigns the height
\* of the block and does not compare it with the current one (Blockchain.go:156).
THEOREM PrimaryHeightsNeverFall ==
  Spec => [][\A c \in Chains : height'[Primary][c] >= height[Primary][c]]_vars
<1>1. IndInv /\ ParentInv /\ [Next]_vars
        => [\A c \in Chains : height'[Primary][c] >= height[Primary][c]]_vars
  BY NextParents
<1> QED
  BY <1>1, InductiveInvariant, ParentInvariant, PTL DEF Spec

----------------------------------------------------------------------------
(* The work between two packed blocks is finite.                           *)

\* There are only so many messages.
LEMMA MessagesFinite == IsFiniteSet(Message)
<1> DEFINE T == {"PrePrepare", "Prepare", "Commit"}
           P == (T \X Digests) \X ((1..MaxBlocks) \X (Replicas \X Replicas))
           f == [x \in P |-> [type |-> x[1][1], digest |-> x[1][2], seq |-> x[2][1],
                              from |-> x[2][2][1], to |-> x[2][2][2]]]
<1>1. IsFiniteSet(T)
  <2>1. IsFiniteSet({} \cup {"PrePrepare"})
    BY FS_EmptySet, FS_AddElement
  <2>2. IsFiniteSet(({} \cup {"PrePrepare"}) \cup {"Prepare"})
    BY <2>1, FS_AddElement
  <2>3. IsFiniteSet((({} \cup {"PrePrepare"}) \cup {"Prepare"}) \cup {"Commit"})
    BY <2>2, FS_AddElement
  <2>4. (({} \cup {"PrePrepare"}) \cup {"Prepare"}) \cup {"Commit"} = T
    OBVIOUS
  <2> QED
    BY <2>3, <2>4
<1>2. IsFiniteSet(1..MaxBlocks) /\ IsFiniteSet(Digests)
  BY FS_Interval, MaxBlocksNat DEF Digests
<1>3. IsFiniteSet(P)
  BY <1>1, <1>2, ReplicasFinite, FS_Product
<1>4. f \in [P -> Message]
  BY DEF Message
<1>5. ASSUME NEW m \in Message PROVE \E x \in P : f[x] = m
  <2> DEFINE x == << <<m.type, m.digest>>, <<m.seq, <<m.from, m.to>> >> >>
  <2>1. x \in P
    BY DEF Message
  <2>2. f[x] = m
    BY <2>1 DEF Message
  <2> QED
    BY <2>1, <2>2
<1>6. f \in Surjection(P, Message)
  BY <1>4, <1>5 DEF Surjection
<1> QED
  BY <1>3, <1>6, FS_Surjection

\* A broadcast reaches fewer than all replicas: the sender is left out.
LEMMA BroadcastSmall ==
  ASSUME NEW type, NEW d, NEW s, NEW n \in Replicas
  PROVE  /\ IsFiniteSet(Broadcast(type, d, s, n))
         /\ Cardinality(Broadcast(type, d, s, n)) \in Nat
         /\ Cardinality(Broadcast(type, d, s, n)) <= Cardinality(Replicas) - 1
<1> DEFINE to == (Replicas \ {n}) \ crashed
           B == Broadcast(type, d, s, n)
           f == [m \in to |-> [type |-> type, digest |-> d, seq |-> s, from |-> n, to |-> m]]
<1>1. IsFiniteSet(Replicas \ {n}) /\ Cardinality(Replicas \ {n}) = Cardinality(Replicas) - 1
  BY ReplicasFinite, FS_RemoveElement
<1>2. to \in SUBSET (Replicas \ {n})
  OBVIOUS
<1>3. IsFiniteSet(to) /\ Cardinality(to) <= Cardinality(Replicas) - 1
  BY <1>1, <1>2, FS_Subset
<1>4. f \in Surjection(to, B)
  BY DEF Surjection, Broadcast
<1>5. IsFiniteSet(B) /\ Cardinality(B) <= Cardinality(to)
  BY <1>3, <1>4, FS_Surjection
<1>6. Cardinality(B) \in Nat /\ Cardinality(to) \in Nat /\ Cardinality(Replicas) \in Nat
  BY <1>3, <1>5, ReplicasFinite, FS_CardinalityType
<1> HIDE DEF B, to
<1>7. IsFiniteSet(B) /\ Cardinality(B) \in Nat /\ Cardinality(B) <= Cardinality(Replicas) - 1
  BY <1>3, <1>5, <1>6
<1> QED
  BY <1>7 DEF B

\* Weights: trading something of weight R for fewer than R things of weight one.
LEMMA Weighed ==
  ASSUME NEW R \in Nat, NEW a \in Nat, NEW b \in Nat, NEW k \in Nat, NEW l \in Nat,
         \/ b < a /\ l <= k
         \/ b <= a + (R - 1) /\ l < k
  PROVE  b + R * l < a + R * k
<1>1. CASE b < a /\ l <= k
  <2>1. R * l <= R * k
    BY ONLY <1>1, R \in Nat, l \in Nat, k \in Nat
  <2>2. R * l \in Nat /\ R * k \in Nat
    OBVIOUS
  <2> QED
    BY <1>1, <2>1, <2>2
<1>2. CASE b <= a + (R - 1) /\ l < k
  <2>1. R * l <= R * (k - 1)
    <3>1. k - 1 \in Nat /\ l <= k - 1
      BY <1>2
    <3> QED
      BY ONLY <3>1, R \in Nat, l \in Nat
  <2>2. R * (k - 1) = R * k - R
    OBVIOUS
  <2>3. R * l \in Nat /\ R * k \in Nat
    OBVIOUS
  <2> QED
    BY ONLY <1>2, <2>1, <2>2, <2>3, R \in Nat, a \in Nat, b \in Nat
<1> QED
  BY <1>1, <1>2

LEMMA WeighedLess ==
  ASSUME NEW R \in Nat, NEW a \in Nat, NEW b \in Nat, NEW k \in Nat, NEW l \in Nat,
         b <= a, l <= k
  PROVE  b + R * l <= a + R * k
<1>1. R * l <= R * k
  BY ONLY l <= k, R \in Nat, l \in Nat, k \in Nat
<1>2. R * l \in Nat /\ R * k \in Nat
  OBVIOUS
<1> QED
  BY <1>1, <1>2

\* WorkLeft without its LETs: what weighs one, and what weighs R.
Proposals == CASE stage = "pack" -> 0 [] stage = "propose" -> 1 [] stage = "wait" -> 2

Heavy == Cardinality(PrePrepares) + Cardinality(Unvoted) + Cardinality(Replicas) * Proposals

LEMMA WorkLeftIs ==
  WorkLeft = Cardinality(net \ PrePrepares) + Cardinality(Replicas) * Heavy
  BY DEF WorkLeft, Heavy, Proposals

LEMMA WorkLeftIsNext ==
  WorkLeft' = Cardinality(net \ PrePrepares)' + Cardinality(Replicas) * Heavy'
  BY DEF WorkLeft, Heavy, Proposals

\* All of it can be counted.
Counted ==
  /\ IsFiniteSet(net \ PrePrepares) /\ IsFiniteSet(PrePrepares) /\ IsFiniteSet(Unvoted)
  /\ Cardinality(net \ PrePrepares) \in Nat
  /\ Cardinality(PrePrepares) \in Nat /\ Cardinality(Unvoted) \in Nat
  /\ Cardinality(Replicas) \in Nat /\ Cardinality(Replicas) >= 1
  /\ Proposals \in Nat /\ Heavy \in Nat

LEMMA WorkCounted == TypeOK => Counted
<1> SUFFICES ASSUME TypeOK PROVE Counted
  OBVIOUS
<1>1. IsFiniteSet(net \ PrePrepares) /\ IsFiniteSet(PrePrepares)
  <2>1. (net \ PrePrepares) \in SUBSET Message /\ PrePrepares \in SUBSET Message
    BY DEF TypeOK, PrePrepares
  <2> QED
    BY <2>1, MessagesFinite, FS_Subset
<1>2. IsFiniteSet(Unvoted)
  <2>1. IsFiniteSet(Replicas \X Digests)
    <3>1. IsFiniteSet(Digests)
      BY MaxBlocksNat, FS_Interval DEF Digests
    <3> QED
      BY <3>1, ReplicasFinite, FS_Product
  <2>2. Unvoted \in SUBSET (Replicas \X Digests)
    BY DEF Unvoted
  <2> QED
    BY <2>1, <2>2, FS_Subset
<1>3. /\ Cardinality(net \ PrePrepares) \in Nat /\ Cardinality(PrePrepares) \in Nat
      /\ Cardinality(Unvoted) \in Nat /\ Cardinality(Replicas) \in Nat
  BY <1>1, <1>2, ReplicasFinite, FS_CardinalityType
<1>4. Cardinality(Replicas) >= 1
  <2>1. Replicas # {}
    BY PrimaryIsReplica
  <2>2. Cardinality(Replicas) # 0
    BY <2>1, ReplicasFinite, FS_EmptySet
  <2> QED
    BY <2>2, <1>3
<1>5. Proposals \in Nat
  BY DEF Proposals, TypeOK
<1>6. Heavy \in Nat
  <2> DEFINE R == Cardinality(Replicas)
             q == Proposals
  <2>1. R * q \in Nat
    <3> HIDE DEF R, q
    <3>1. R \in Nat /\ q \in Nat
      BY <1>3, <1>5 DEF R, q
    <3> QED
      BY ONLY <3>1
  <2> HIDE DEF R
  <2> QED
    BY <1>3, <2>1 DEF Heavy, R
<1> QED
  BY <1>1, <1>2, <1>3, <1>4, <1>5, <1>6 DEF Counted

LEMMA CountedNext == TypeOK' => Counted'
  BY WorkCounted, PTL

\* A message is handled, and at most one thing that weighs R is traded for a
\* broadcast: there is less to do.
LEMMA WorkTraded ==
  ASSUME TypeOK, TypeOK',
         \/ /\ Cardinality(net \ PrePrepares)' < Cardinality(net \ PrePrepares)
            /\ Heavy' <= Heavy
         \/ /\ Cardinality(net \ PrePrepares)' <=
                 Cardinality(net \ PrePrepares) + (Cardinality(Replicas) - 1)
            /\ Heavy' < Heavy
  PROVE  WorkLeft' < WorkLeft
<1> DEFINE R == Cardinality(Replicas)
           a == Cardinality(net \ PrePrepares)
           k == Heavy
<1>1. R \in Nat /\ a \in Nat /\ a' \in Nat /\ k \in Nat /\ k' \in Nat
  <2>1. R \in Nat /\ a \in Nat /\ k \in Nat
    BY WorkCounted DEF Counted
  <2>2. a' \in Nat /\ k' \in Nat
    BY CountedNext DEF Counted
  <2> QED
    BY <2>1, <2>2
<1>2. \/ a' < a /\ k' <= k
      \/ a' <= a + (R - 1) /\ k' < k
  OBVIOUS
<1>3. WorkLeft = a + R * k /\ WorkLeft' = a' + R * k'
  BY WorkLeftIs, WorkLeftIsNext
<1> HIDE DEF R, a, k
<1>4. a' + R * k' < a + R * k
  BY ONLY <1>1, <1>2, Weighed
<1> QED
  BY <1>3, <1>4

\* The handlers leave the packager where it is.
LEMMA HandlerWork ==
  ASSUME TypeOK, TypeOK', NEW m \in net,
         HandlePrePrepare(m) \/ RefusePrepare(m) \/ HandlePrepare(m) \/ HandleCommit(m)
  PROVE  WorkLeft' < WorkLeft
<1> DEFINE R == Cardinality(Replicas)
           L == net \ PrePrepares
<1> USE DEF PrePrepares
<1>1. /\ m.to \in Replicas /\ m.digest \in Digests /\ Proposals' = Proposals
  BY DEF TypeOK, Message, Proposals, HandlePrePrepare, RefusePrepare, HandlePrepare,
     HandleCommit, packager
<1>2. /\ IsFiniteSet(L) /\ IsFiniteSet(PrePrepares) /\ IsFiniteSet(Unvoted)
      /\ Cardinality(L) \in Nat /\ Cardinality(PrePrepares) \in Nat
      /\ Cardinality(Unvoted) \in Nat /\ R \in Nat
  BY WorkCounted DEF Counted
<1>3. ASSUME NEW type \in {"Prepare", "Commit"}, NEW rest, rest \in SUBSET L,
             net' \ PrePrepares' \in SUBSET (rest \cup Broadcast(type, m.digest, m.seq, m.to))
      PROVE  Cardinality(L') <= Cardinality(rest) + (R - 1)
  <2> DEFINE B == Broadcast(type, m.digest, m.seq, m.to)
  <2>1. IsFiniteSet(B) /\ Cardinality(B) \in Nat /\ Cardinality(B) <= R - 1
    BY <1>1, BroadcastSmall
  <2>2. IsFiniteSet(rest) /\ Cardinality(rest) \in Nat
    BY <1>2, <1>3, FS_Subset, FS_CardinalityType
  <2> HIDE DEF B
  <2>3. /\ IsFiniteSet(rest \cup B)
        /\ Cardinality(rest \cup B) = Cardinality(rest) + Cardinality(B) - Cardinality(rest \cap B)
    BY <2>1, <2>2, FS_Union
  <2>4. Cardinality(rest \cap B) \in Nat
    BY <2>1, FS_Subset, FS_CardinalityType
  <2>5. L' \in SUBSET (rest \cup B)
    BY <1>3 DEF B
  <2>6. Cardinality(L') <= Cardinality(rest \cup B) /\ IsFiniteSet(L')
    BY <2>3, <2>5, FS_Subset
  <2>7. Cardinality(L') \in Nat
    BY <2>6, FS_CardinalityType
  <2> HIDE DEF L, R
  <2> QED
    BY ONLY <2>1, <2>2, <2>3, <2>4, <2>6, <2>7, <1>2
<1>4. CASE HandlePrePrepare(m)
  <2> DEFINE B == Broadcast("Prepare", m.digest, m.seq, m.to)
  <2>1. /\ m.type = "PrePrepare" /\ net' = (net \ {m}) \cup B
        /\ isCommitBroadcast' = isCommitBroadcast
    BY <1>4 DEF HandlePrePrepare, votes
  <2>2. \A e \in B : e.type = "Prepare"
    BY DEF Broadcast
  <2> HIDE DEF B
  <2>3. PrePrepares' = PrePrepares \ {m} /\ L' \in SUBSET (L \cup B) /\ m \in PrePrepares
    BY <2>1, <2>2
  <2>4. Cardinality(PrePrepares') = Cardinality(PrePrepares) - 1
    BY <2>3, <1>2, FS_RemoveElement
  <2>5. Cardinality(L') <= Cardinality(L) + (R - 1)
    BY <2>3, <1>3 DEF B
  <2>6. Unvoted' = Unvoted
    BY <2>1 DEF Unvoted
  <2>7. Heavy' < Heavy
    BY <2>4, <2>6, <1>1, <1>2, WorkCounted DEF Counted, Heavy
  <2> QED
    BY <2>5, <2>7, WorkTraded
<1>5. CASE (\/ RefusePrepare(m) \/ HandleCommit(m)
            \/ HandlePrepare(m) /\ ~ReadyToBroadcastCommit(m.to, m.digest,
                 prePareConfirmCount[m.to][m.digest] \cup {m.from}))
  <2>1. /\ m.type # "PrePrepare" /\ net' = net \ {m}
        /\ isCommitBroadcast' = isCommitBroadcast
    BY <1>5 DEF RefusePrepare, HandleCommit, HandlePrepare, votes
  <2>2. PrePrepares' = PrePrepares /\ L' = L \ {m} /\ m \in L
    BY <2>1
  <2>3. Cardinality(L') = Cardinality(L) - 1
    BY <2>2, <1>2, FS_RemoveElement
  <2>4. Heavy' = Heavy
    BY <2>1, <2>2, <1>1 DEF Heavy, Unvoted
  <2>5. Cardinality(L') < Cardinality(L) /\ Heavy' <= Heavy
    BY <2>3, <2>4, <1>2, WorkCounted DEF Counted
  <2> QED
    BY <2>5, WorkTraded
<1>6. CASE HandlePrepare(m) /\ ReadyToBroadcastCommit(m.to, m.digest,
             prePareConfirmCount[m.to][m.digest] \cup {m.from})
  <2> DEFINE B == Broadcast("Commit", m.digest, m.seq, m.to)
             v == <<m.to, m.digest>>
  <2>1. /\ m.type = "Prepare" /\ net' = (net \ {m}) \cup B
        /\ isCommitBroadcast' = [isCommitBroadcast EXCEPT ![m.to] = @ \cup {m.digest}]
        /\ m.digest \notin isCommitBroadcast[m.to]
    BY <1>6 DEF HandlePrepare, ReadyToBroadcastCommit
  <2>2. \A e \in B : e.type = "Commit"
    BY DEF Broadcast
  <2> HIDE DEF B
  <2>3. PrePrepares' = PrePrepares /\ L' \in SUBSET (L \cup B)
    BY <2>1, <2>2
  <2>4. v \in Unvoted
    BY <2>1, <1>1 DEF Unvoted
  <2>5. Unvoted' = Unvoted \ {v}
    BY <2>1, <1>1 DEF Unvoted, TypeOK
  <2>6. Cardinality(Unvoted') = Cardinality(Unvoted) - 1
    <3> HIDE DEF v
    <3> QED
      BY <2>4, <2>5, <1>2, FS_RemoveElement
  <2>7. Cardinality(L') <= Cardinality(L) + (R - 1)
    BY <2>3, <1>3 DEF B
  <2>8. Heavy' < Heavy
    <3>1. Cardinality(PrePrepares') = Cardinality(PrePrepares)
      BY <2>3
    <3> QED
      BY <3>1, <2>6, <1>1, <1>2, WorkCounted DEF Counted, Heavy
  <2> QED
    BY <2>7, <2>8, WorkTraded
<1> QED
  BY <1>4, <1>5, <1>6

\* The packager's own steps start at most a broadcast of PrePrepares.
LEMMA PackagerWork ==
  ASSUME TypeOK, TypeOK', AwaitTurn \/ HandleClientRequest
  PROVE  WorkLeft' < WorkLeft
<1> DEFINE R == Cardinality(Replicas)
<1>1. /\ IsFiniteSet(PrePrepares) /\ Cardinality(PrePrepares) \in Nat
      /\ Cardinality(Unvoted) \in Nat /\ R \in Nat /\ R >= 1
      /\ Cardinality(net \ PrePrepares) \in Nat
  BY WorkCounted DEF Counted
<1>2. Unvoted' = Unvoted
  BY DEF AwaitTurn, HandleClientRequest, votes, Unvoted
<1>3. CASE AwaitTurn
  <2>1. Proposals = 2 /\ Proposals' = 1 /\ net' = net /\ PrePrepares' = PrePrepares
    BY <1>3 DEF AwaitTurn, Proposals, PrePrepares
  <2>2. Heavy' < Heavy
    BY <2>1, <1>1, <1>2 DEF Heavy
  <2>3. Cardinality(net \ PrePrepares)' <= Cardinality(net \ PrePrepares) + (R - 1)
    BY <2>1, <1>1
  <2> QED
    BY <2>2, <2>3, WorkTraded
<1>4. CASE HandleClientRequest
  <2>1. PICK d, s : net' = net \cup Broadcast("PrePrepare", d, s, Primary)
    BY <1>4 DEF HandleClientRequest
  <2>2. Proposals = 1 /\ Proposals' = 0
    BY <1>4 DEF HandleClientRequest, Proposals
  <2> DEFINE B == Broadcast("PrePrepare", d, s, Primary)
  <2>3. \A e \in B : e.type = "PrePrepare"
    BY DEF Broadcast
  <2>4. IsFiniteSet(B) /\ Cardinality(B) \in Nat /\ Cardinality(B) <= R - 1
    BY PrimaryIsReplica, BroadcastSmall
  <2> HIDE DEF B
  <2>5. PrePrepares' = PrePrepares \cup B /\ (net \ PrePrepares)' = net \ PrePrepares
    BY <2>1, <2>3 DEF B, PrePrepares
  <2>6. Cardinality(PrePrepares \cup B) =
          Cardinality(PrePrepares) + Cardinality(B) - Cardinality(PrePrepares \cap B)
    BY <2>4, <1>1, FS_Union
  <2>7. Cardinality(PrePrepares \cap B) \in Nat
    BY <2>4, FS_Subset, FS_CardinalityType
  <2>8. Cardinality(PrePrepares)' <= Cardinality(PrePrepares) + (R - 1)
    <3>1. Cardinality(PrePrepares)' = Cardinality(PrePrepares \cup B)
      BY <2>5
    <3> HIDE DEF R
    <3> QED
      BY ONLY <3>1, <2>4, <2>6, <2>7, <1>1
  <2>9. Cardinality(PrePrepares)' \in Nat
    BY CountedNext DEF Counted
  <2>10. Heavy' < Heavy
    BY <2>2, <2>8, <2>9, <1>1, <1>2 DEF Heavy
  <2>11. Cardinality(net \ PrePrepares)' <= Cardinality(net \ PrePrepares) + (R - 1)
    <3>1. Cardinality(net \ PrePrepares)' = Cardinality(net \ PrePrepares)
      BY <2>5
    <3> HIDE DEF R
    <3> QED
      BY ONLY <3>1, <1>1
  <2> QED
    BY <2>10, <2>11, WorkTraded
<1> QED
  BY <1>3, <1>4

\* A crash takes messages away and adds none.
LEMMA CrashWork ==
  ASSUME TypeOK, TypeOK', NEW n \in MayCrash, Crash(n)
  PROVE  crashed' # crashed /\ WorkLeft' <= WorkLeft
<1> USE DEF PrePrepares
<1>1. crashed' # crashed /\ net' \subseteq net
  BY DEF Crash
<1>2. Unvoted' = Unvoted /\ Proposals' = Proposals
  BY DEF Crash, votes, packager, Unvoted, Proposals
<1>3. PrePrepares' \in SUBSET PrePrepares /\ (net \ PrePrepares)' \in SUBSET (net \ PrePrepares)
  BY <1>1
<1> DEFINE R == Cardinality(Replicas)
           a == Cardinality(net \ PrePrepares)
           p == Cardinality(PrePrepares)
           k == Heavy
<1>4. a' <= a /\ p' <= p
  BY <1>3, WorkCounted, FS_Subset DEF Counted
<1>5. R \in Nat /\ a \in Nat /\ p \in Nat /\ k \in Nat /\ Cardinality(Unvoted) \in Nat /\ Proposals \in Nat
  BY WorkCounted DEF Counted
<1>6. a' \in Nat /\ p' \in Nat /\ k' \in Nat
  BY CountedNext DEF Counted
<1>7. k' <= k
  <2>1. k = p + Cardinality(Unvoted) + R * Proposals
    BY DEF Heavy
  <2>2. k' = p' + Cardinality(Unvoted) + R * Proposals
    BY <1>2 DEF Heavy
  <2> HIDE DEF k, p, R
  <2>3. R * Proposals \in Nat
    BY <1>5
  <2> QED
    BY ONLY <2>1, <2>2, <2>3, <1>4, <1>5, <1>6
<1>8. WorkLeft = a + R * k /\ WorkLeft' = a' + R * k'
  BY WorkLeftIs, WorkLeftIsNext
<1> HIDE DEF R, a, k, p
<1>9. a' + R * k' <= a + R * k
  BY ONLY <1>4, <1>5, <1>6, <1>7, WeighedLess
<1> QED
  BY <1>1, <1>8, <1>9

\* Every step but the packing of a block uses up work: the replicas do not keep
\* each other busy for ever, with any number of replicas, in whatever order their
\* messages arrive and whoever crashes (PBFT.go:515).
THEOREM WorkIsFinite == Spec => WorkRunsOut
<1> DEFINE Uses == \/ WorkLeft' < WorkLeft
                   \/ built' # built
                   \/ crashed' # crashed /\ WorkLeft' <= WorkLeft
<1>1. TypeOK /\ TypeOK' /\ [Next]_vars => [Uses]_vars
  <2> SUFFICES ASSUME TypeOK, TypeOK', [Next]_vars, ~UNCHANGED vars PROVE Uses
    OBVIOUS
  <2>1. ASSUME NEW c \in Chains, PackBlock(c) PROVE built' # built
    <3>1. built' = Append(built, NewBlock(c)) /\ Len(built) \in Nat
      BY <2>1 DEF PackBlock, TypeOK
    <3>2. Len(Append(built, NewBlock(c))) = Len(built) + 1
      BY DEF TypeOK
    <3> QED
      BY <3>1, <3>2
  <2>2. CASE AwaitTurn \/ HandleClientRequest
    BY <2>2, PackagerWork
  <2>3. ASSUME NEW m \in net,
               HandlePrePrepare(m) \/ RefusePrepare(m) \/ HandlePrepare(m) \/ HandleCommit(m)
        PROVE  Uses
    BY <2>3, HandlerWork
  <2>4. ASSUME NEW n \in MayCrash, Crash(n) PROVE Uses
    BY <2>4, CrashWork
  <2> QED
    BY <2>1, <2>2, <2>3, <2>4, StepCases
<1> QED
  BY <1>1, TypeCorrect, PTL DEF Spec, WorkRunsOut

===============================================================================
