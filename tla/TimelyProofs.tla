----------------------------- MODULE TimelyProofs -----------------------------
(***************************************************************************)
(* Proofs about consensus under the timing of the sleeps (TimelyConsensus):*)
(* what the backups take in stays in order, and, when all replicas are     *)
(* punctual, a phase of a round is over everywhere before the next phase   *)
(* is handled anywhere.  For any number of nodes, chains and blocks, any   *)
(* pruning period, and crashes of as many replicas as the quorum spares,   *)
(* the primary among them.                                                 *)
(***************************************************************************)
EXTENDS TimelyConsensus, ConsensusProofs, FoldLemmas

\* The primary stays up, a hypothesis only where others may be late.
PrimaryStays == Primary \notin MayCrash

----------------------------------------------------------------------------
(* What the backups take in.                                               *)

\* Those among the blocks S of the packager that are of chain c.
OfChain(blocks, S, c) == {e \in S : blocks[e].chain = c}

\* The punctual backups that are up.
Listening == (Backups \cap Punctual) \ crashed

\* Every announced block is in the pool of such a backup or on its way to it,
\* the pool first: what is on its way comes after all that is in the pool.
Delivered ==
  \A n \in Listening : \A d \in 1..Announced :
    \/ d \in messagePool[n]
    \/ \E m \in net : m.type = "PrePrepare" /\ m.digest = d /\ m.to = n

InOrder ==
  \A n \in Listening : \A m \in net :
    m.type = "PrePrepare" /\ m.to = n => \A e \in messagePool[n] : e < m.digest

\* Sequence numbers count the blocks of a chain.
Numbered ==
  /\ \A c \in Chains : sequenceID[Primary][c] = Cardinality(OfChain(built, 1..Announced, c))
  /\ \A m \in net : m.type = "PrePrepare" =>
       m.seq = Cardinality(OfChain(built, 1..m.digest, built[m.digest].chain))
  /\ \A n \in Listening : \A c \in Chains :
       sequenceID[n][c] = Cardinality(OfChain(built, messagePool[n], c))

BackupsUnlocked == leaked \cap Punctual \subseteq {Primary}

IntakeInv == Delivered /\ InOrder /\ Numbered /\ BackupsUnlocked

LEMMA TimelyIsNext == [TimelyNext]_vars => [Next]_vars
  BY DEF TimelyNext, TimelyWork, TimelyHandleRequest, Next, Work, HandleRequest

\* Every timely step is one of the actions, the handlers for a message in time.
LEMMA TimelyCases ==
  ASSUME [TimelyNext]_vars
  PROVE  \/ \E c \in Chains : PackBlock(c)
         \/ AwaitTurn
         \/ HandleClientRequest
         \/ \E m \in net : Alive(m.to) /\ InTime(m) /\ HandlePrePrepare(m)
         \/ \E m \in net : Alive(m.to) /\ InTime(m) /\ RefusePrepare(m)
         \/ \E m \in net : Alive(m.to) /\ InTime(m) /\ HandlePrepare(m)
         \/ \E m \in net : Alive(m.to) /\ InTime(m) /\ HandleCommit(m)
         \/ \E n \in MayCrash : Crash(n)
         \/ UNCHANGED vars
  BY DEF TimelyNext, TimelyWork, TimelyHandleRequest, Handle

\* What is known of a message in flight.
LEMMA MessageFacts ==
  ASSUME IndInv, NEW m \in net
  PROVE  /\ m \in Message /\ m.from \in Replicas /\ m.to \in Replicas /\ m.from # m.to
         /\ m.digest \in 1..Announced /\ m.digest \in Digests /\ m.digest \in 1..Len(built)
         /\ m.digest \in Nat /\ m.seq \in 1..MaxBlocks
         /\ built[m.digest].chain \in Chains
         /\ m.type \in {"PrePrepare", "Prepare", "Commit"}
         /\ m.type = "PrePrepare" => m.from = Primary /\ m.to # Primary
<1>1. m \in Message /\ m.from # m.to
  BY DEF IndInv, TypeOK
<1>2. /\ m.from \in Replicas /\ m.to \in Replicas /\ m.digest \in Digests
      /\ m.seq \in 1..MaxBlocks /\ m.type \in {"PrePrepare", "Prepare", "Commit"}
  BY <1>1 DEF Message
<1>3. m.digest \in Nat /\ m.digest >= 1 /\ m.digest <= Announced
  BY <1>2, MaxBlocksNat DEF Digests, IndInv, Structure
<1>4. /\ Len(built) \in Nat /\ Announced \in Int /\ Announced <= Len(built)
      /\ \A d \in 1..Len(built) : built[d].chain \in Chains
  BY BlocksTyped DEF IndInv
<1>5. m.type = "PrePrepare" => m.from = Primary
  BY DEF IndInv, Structure
<1> QED
  BY <1>1, <1>2, <1>3, <1>4, <1>5

\* A broadcast reaches every replica that is up, its sender excepted.
LEMMA BroadcastReaches ==
  ASSUME NEW type, NEW d, NEW s, NEW q, NEW n \in Replicas \ crashed, n # q
  PROVE  \E m \in Broadcast(type, d, s, q) :
           m.type = type /\ m.digest = d /\ m.seq = s /\ m.from = q /\ m.to = n
<1> DEFINE m == [type |-> type, digest |-> d, seq |-> s, from |-> q, to |-> n]
<1>1. m \in Broadcast(type, d, s, q)
  BY DEF Broadcast
<1>2. m.type = type /\ m.digest = d /\ m.seq = s /\ m.from = q /\ m.to = n
  OBVIOUS
<1> HIDE DEF m
<1> QED
  BY <1>1, <1>2

LEMMA BroadcastFields ==
  ASSUME NEW type, NEW d, NEW s, NEW q, NEW m \in Broadcast(type, d, s, q)
  PROVE  /\ m.type = type /\ m.digest = d /\ m.seq = s /\ m.from = q
         /\ m.to \in Replicas \ crashed /\ m.to # q
  BY DEF Broadcast

\* The blocks of a chain among the first k, before and after one more is packed.
LEMMA ChainCounts ==
  ASSUME IndInv, NEW k \in 1..Len(built), NEW c \in Chains
  PROVE  /\ built[k].chain = c =>
              Cardinality(OfChain(built, 1..k, c)) = Cardinality(OfChain(built, 1..(k - 1), c)) + 1
         /\ built[k].chain # c => OfChain(built, 1..k, c) = OfChain(built, 1..(k - 1), c)
<1>1. k \in Nat /\ k >= 1
  BY BlocksTyped DEF IndInv
<1>2. 1..k = 1..(k - 1) \cup {k} /\ k \notin 1..(k - 1)
  BY <1>1
<1>3. IsFiniteSet(1..(k - 1)) /\ OfChain(built, 1..(k - 1), c) \subseteq 1..(k - 1)
  BY <1>1, FS_Interval DEF OfChain
<1>4. IsFiniteSet(OfChain(built, 1..(k - 1), c))
  BY <1>3, FS_Subset
<1>5. built[k].chain = c => OfChain(built, 1..k, c) = OfChain(built, 1..(k - 1), c) \cup {k}
  BY <1>2 DEF OfChain
<1>6. k \notin OfChain(built, 1..(k - 1), c)
  BY <1>2 DEF OfChain
<1>7. built[k].chain # c => OfChain(built, 1..k, c) = OfChain(built, 1..(k - 1), c)
  BY <1>2 DEF OfChain
<1> QED
  BY <1>4, <1>5, <1>6, <1>7, FS_AddElement

LEMMA IntakeInit == Init => IntakeInv
<1> SUFFICES ASSUME Init PROVE IntakeInv
  OBVIOUS
<1>1. Announced = 0 /\ 1..0 = {}
  BY DEF Init, Announced
<1>2. \A c \in Chains : OfChain(built, 1..Announced, c) = {} /\ OfChain(built, {}, c) = {}
  BY <1>1 DEF OfChain
<1>3. Cardinality({}) = 0
  BY FS_EmptySet
<1>4. Numbered
  <2>1. \A n \in Replicas : messagePool[n] = {} /\ \A c \in Chains : sequenceID[n][c] = 0
    BY DEF Init
  <2>2. Listening \subseteq Replicas
    BY DEF Listening, Backups
  <2> QED
    BY <1>2, <1>3, <2>1, <2>2, PrimaryIsReplica DEF Numbered, Init
<1> QED
  BY <1>1, <1>4 DEF Init, IntakeInv, Delivered, InOrder, BackupsUnlocked

\* A step that neither announces nor accepts a block.
LEMMA IntakeKept ==
  ASSUME IndInv, IntakeInv, Announced' = Announced,
         \E b : built' \in {built, Append(built, b)},
         crashed \subseteq crashed', sequenceID' = sequenceID,
         \A n \in Backups : messagePool'[n] = messagePool[n],
         \A m \in net' : m.type = "PrePrepare" => m \in net,
         \A m \in net : m.type = "PrePrepare" /\ m.to \in Listening' => m \in net',
         BackupsUnlocked'
  PROVE  IntakeInv'
<1>1. Listening' \subseteq Listening /\ Listening \subseteq Backups
  BY DEF Listening
<1>2. /\ Announced \in Int /\ Announced <= Len(built) /\ Len(built) \in Nat
      /\ \A n \in Backups : messagePool[n] \subseteq 1..Announced
  BY BlocksTyped DEF IndInv, Structure, Backups
<1>3. \A e \in 1..Len(built) : built'[e] = built[e]
  <2>1. built \in Seq(Block)
    BY DEF IndInv, TypeOK
  <2> QED
    BY <2>1
<1>4. ASSUME NEW S \in SUBSET (1..Announced), NEW c
      PROVE  OfChain(built', S, c) = OfChain(built, S, c)
  <2>1. \A e \in S : e \in 1..Len(built)
    BY <1>2
  <2>2. \A e \in S : built'[e] = built[e]
    BY <1>3, <2>1
  <2> QED
    BY <2>2 DEF OfChain
<1>5. Delivered'
  BY <1>1 DEF IntakeInv, Delivered
<1>6. InOrder'
  BY <1>1 DEF IntakeInv, InOrder
<1>7. Numbered'
  <2>1. \A c \in Chains : sequenceID'[Primary][c] = Cardinality(OfChain(built', 1..Announced', c))
    <3> TAKE c \in Chains
    <3>1. sequenceID[Primary][c] = Cardinality(OfChain(built, 1..Announced, c))
      BY DEF IntakeInv, Numbered
    <3>2. OfChain(built', 1..Announced, c) = OfChain(built, 1..Announced, c)
      BY <1>4
    <3> QED
      BY <3>1, <3>2
  <2>2. \A n \in Listening' : \A c \in Chains :
          sequenceID'[n][c] = Cardinality(OfChain(built', messagePool'[n], c))
    <3> TAKE n \in Listening'
    <3> TAKE c \in Chains
    <3>1. n \in Listening /\ n \in Backups
      BY <1>1
    <3>2. OfChain(built', messagePool[n], c) = OfChain(built, messagePool[n], c)
      BY <1>2, <1>4, <3>1
    <3>3. sequenceID[n][c] = Cardinality(OfChain(built, messagePool[n], c))
      BY <3>1 DEF IntakeInv, Numbered
    <3> QED
      BY <3>1, <3>2, <3>3
  <2>3. ASSUME NEW m \in net', m.type = "PrePrepare"
        PROVE  m.seq = Cardinality(OfChain(built', 1..m.digest, built'[m.digest].chain))
    <3>1. m \in net
      BY <2>3
    <3>2. m.digest \in 1..Announced /\ m.digest \in 1..Len(built) /\ 1..m.digest \subseteq 1..Announced
      BY <1>2, <3>1, MessageFacts
    <3>3. built'[m.digest].chain = built[m.digest].chain
      BY <1>3, <3>2
    <3>4. m.seq = Cardinality(OfChain(built, 1..m.digest, built[m.digest].chain))
      BY <2>3, <3>1 DEF IntakeInv, Numbered
    <3>5. OfChain(built', 1..m.digest, built[m.digest].chain)
            = OfChain(built, 1..m.digest, built[m.digest].chain)
      BY <1>4, <3>2
    <3> QED
      BY <3>3, <3>4, <3>5
  <2> QED
    BY <2>1, <2>2, <2>3 DEF Numbered
<1> QED
  BY <1>5, <1>6, <1>7 DEF IntakeInv

\* A Prepare in time finds its block: the PrePrepare was handled before it.
LEMMA PrepareFindsBlock ==
  ASSUME IndInv, IntakeInv, NEW m \in net, m.type = "Prepare",
         Alive(m.to), InTime(m), CanLock(m.to), m.to \in Listening
  PROVE  KnowsDigest(m)
<1>1. SUFFICES ASSUME m.digest \notin messagePool[m.to] PROVE FALSE
  BY DEF KnowsDigest
<1>2. m.digest \in 1..Announced
  BY MessageFacts
<1>3. PICK e \in net : e.type = "PrePrepare" /\ e.digest = m.digest /\ e.to = m.to
  BY <1>1, <1>2 DEF IntakeInv, Delivered
<1>4. e \in Prompt
  BY <1>3 DEF Prompt, Alive, CanLock, Listening
<1>5. Before(e, m)
  BY <1>3 DEF Before, Phase
<1> QED
  BY <1>4, <1>5 DEF InTime, Listening

LEMMA IntakeRequest ==
  ASSUME IndInv, IntakeInv, HandleClientRequest
  PROVE  IntakeInv'
<1> DEFINE d == Len(built)
           c == built[d].chain
           s == sequenceID[Primary][c] + 1
           sent == Broadcast("PrePrepare", d, s, Primary)
<1>1. /\ d \in 1..Len(built) /\ d \in Nat /\ d \in Digests /\ c \in Chains
      /\ Announced = d - 1 /\ Announced' = d
      /\ \A n \in Replicas : messagePool[n] \subseteq 1..Announced
  <2>1. d \in Nat /\ d <= MaxBlocks /\ stage = "propose" /\ d >= 1 /\ stage' = "pack" /\ built' = built
    BY DEF IndInv, TypeOK, Structure, HandleClientRequest
  <2>2. \A k \in 1..Len(built) : built[k].chain \in Chains
    BY BlocksTyped DEF IndInv
  <2> QED
    BY <2>1, <2>2, MaxBlocksNat DEF Announced, Digests, IndInv, Structure
<1>2. /\ sequenceID' = [sequenceID EXCEPT ![Primary][c] = s]
      /\ messagePool' = [messagePool EXCEPT ![Primary] = @ \cup {d}]
      /\ net' = net \cup sent
      /\ built' = built /\ crashed' = crashed /\ leaked' = leaked
  BY DEF HandleClientRequest
<1>3. /\ \A n \in Backups : messagePool'[n] = messagePool[n] /\ sequenceID'[n] = sequenceID[n]
      /\ sequenceID'[Primary][c] = s
      /\ \A b \in Chains : b # c => sequenceID'[Primary][b] = sequenceID[Primary][b]
  BY <1>1, <1>2, PrimaryIsReplica DEF IndInv, TypeOK, Backups
<1>4. Listening' = Listening /\ Listening \subseteq Backups
  BY <1>2 DEF Listening
<1>5. /\ \A m \in sent : m.type = "PrePrepare" /\ m.digest = d /\ m.seq = s
      /\ \A n \in Listening : \E m \in sent : m.type = "PrePrepare" /\ m.digest = d /\ m.to = n
  <2>1. \A n \in Listening : n \in Replicas \ crashed /\ n # Primary
    BY DEF Listening, Backups
  <2> HIDE DEF s, d
  <2>2. \A m \in sent : m.type = "PrePrepare" /\ m.digest = d /\ m.seq = s
    BY BroadcastFields
  <2>3. ASSUME NEW n \in Listening
        PROVE  \E m \in sent : m.type = "PrePrepare" /\ m.digest = d /\ m.to = n
    <3>1. \E m \in Broadcast("PrePrepare", d, s, Primary) :
            /\ m.type = "PrePrepare" /\ m.digest = d /\ m.seq = s
            /\ m.from = Primary /\ m.to = n
      BY <2>1, BroadcastReaches
    <3> QED
      BY <3>1
  <2> QED
    BY <2>2, <2>3
<1> HIDE DEF d, c, s, sent
<1>6. Delivered'
  <2> SUFFICES ASSUME NEW n \in Listening, NEW e \in 1..d
               PROVE  \/ e \in messagePool'[n]
                      \/ \E m \in net' : m.type = "PrePrepare" /\ m.digest = e /\ m.to = n
    BY <1>1, <1>4 DEF Delivered
  <2>1. CASE e = d
    BY <1>2, <1>5, <2>1
  <2>2. CASE e # d
    <3>1. e \in 1..Announced
      BY <1>1, <2>2
    <3> QED
      BY <1>2, <1>3, <1>4, <3>1 DEF IntakeInv, Delivered
  <2> QED
    BY <2>1, <2>2
<1>7. InOrder'
  <2> SUFFICES ASSUME NEW n \in Listening, NEW m \in net', m.type = "PrePrepare", m.to = n,
                      NEW e \in messagePool[n]
               PROVE  e < m.digest
    BY <1>3, <1>4 DEF InOrder
  <2>1. CASE m \in net
    BY <2>1 DEF IntakeInv, InOrder
  <2>2. CASE m \in sent
    <3>1. e \in 1..(d - 1)
      BY <1>1, <1>4 DEF Backups
    <3> QED
      BY <1>1, <1>5, <2>2, <3>1
  <2> QED
    BY <1>2, <2>1, <2>2
<1>8. /\ s = Cardinality(OfChain(built, 1..d, c))
      /\ \A b \in Chains : b # c => OfChain(built, 1..d, b) = OfChain(built, 1..(d - 1), b)
  <2>1. \A b \in Chains : sequenceID[Primary][b] = Cardinality(OfChain(built, 1..(d - 1), b))
    BY <1>1 DEF IntakeInv, Numbered
  <2>2. built[d].chain = c
    BY DEF c
  <2> QED
    BY <1>1, <2>1, <2>2, ChainCounts DEF s
<1>9. Numbered'
  <2>1. \A b \in Chains : sequenceID'[Primary][b] = Cardinality(OfChain(built', 1..Announced', b))
    <3> TAKE b \in Chains
    <3>1. sequenceID[Primary][b] = Cardinality(OfChain(built, 1..(d - 1), b))
      BY <1>1 DEF IntakeInv, Numbered
    <3> QED
      BY <1>1, <1>2, <1>3, <1>8, <3>1
  <2>2. \A n \in Listening' : \A b \in Chains :
          sequenceID'[n][b] = Cardinality(OfChain(built', messagePool'[n], b))
    <3> TAKE n \in Listening'
    <3> TAKE b \in Chains
    <3>1. n \in Listening /\ n \in Backups
      BY <1>4
    <3>2. sequenceID[n][b] = Cardinality(OfChain(built, messagePool[n], b))
      BY <3>1 DEF IntakeInv, Numbered
    <3> QED
      BY <1>2, <1>3, <3>1, <3>2
  <2>3. ASSUME NEW m \in net', m.type = "PrePrepare"
        PROVE  m.seq = Cardinality(OfChain(built', 1..m.digest, built'[m.digest].chain))
    <3>1. CASE m \in net
      BY <1>2, <2>3, <3>1 DEF IntakeInv, Numbered
    <3>2. CASE m \in sent
      <4>1. m.digest = d /\ m.seq = s /\ built'[m.digest].chain = c
        BY <1>2, <1>5, <3>2 DEF c
      <4> QED
        BY <1>2, <1>8, <4>1
    <3> QED
      BY <1>2, <3>1, <3>2
  <2> QED
    BY <2>1, <2>2, <2>3 DEF Numbered
<1>10. BackupsUnlocked'
  BY <1>2 DEF IntakeInv, BackupsUnlocked
<1> QED
  BY <1>6, <1>7, <1>9, <1>10 DEF IntakeInv

\* The pool of a backup that handles a PrePrepare in time holds exactly the
\* blocks before it.
LEMMA PoolBeforePrePrepare ==
  ASSUME IndInv, IntakeInv, NEW m \in net, m.type = "PrePrepare",
         Alive(m.to), InTime(m), m.to \in Listening
  PROVE  /\ messagePool[m.to] = 1..(m.digest - 1)
         /\ \A e \in net : e.type = "PrePrepare" /\ e.to = m.to /\ e # m => m.digest < e.digest
<1> DEFINE n == m.to
<1>1. m.digest \in 1..Announced /\ m.digest \in Nat /\ Announced \in Int
  BY MessageFacts, BlocksTyped DEF IndInv
<1>2. n \in Replicas /\ n \in Backups /\ n \in Punctual /\ n # Primary /\ n \notin crashed /\ n \notin leaked
  BY MessageFacts DEF Listening, Backups, IntakeInv, BackupsUnlocked
<1>3. \A e \in net : e.to = n => ~Before(e, m) /\ e.digest \in Nat
  BY <1>2, MessageFacts DEF InTime, Prompt
<1>4. \A e \in net : e.to = n => ~(e.digest < m.digest)
  BY <1>3 DEF Before
<1>5. \A e \in messagePool[n] : e \in Nat /\ e >= 1 /\ e < m.digest
  <2>1. messagePool[n] \subseteq 1..Announced
    BY <1>2 DEF IndInv, Structure
  <2> QED
    BY <1>1, <2>1 DEF IntakeInv, InOrder
<1>6. ASSUME NEW e \in 1..(m.digest - 1) PROVE e \in messagePool[n]
  <2>1. e \in 1..Announced /\ e < m.digest
    BY <1>1
  <2>2. ~ \E f \in net : f.type = "PrePrepare" /\ f.digest = e /\ f.to = n
    BY <1>4, <2>1
  <2> QED
    BY <2>1, <2>2 DEF IntakeInv, Delivered
<1>7. messagePool[n] = 1..(m.digest - 1)
  <2>1. \A e \in messagePool[n] : e \in 1..(m.digest - 1)
    BY <1>1, <1>5
  <2> QED
    BY <1>6, <2>1
<1>8. ASSUME NEW e \in net, e.type = "PrePrepare", e.to = n, e # m
      PROVE  m.digest < e.digest
  <2>1. e.digest \in Nat /\ e.from = Primary /\ m.from = Primary /\ e \in Message /\ m \in Message
    BY <1>8, MessageFacts
  <2>2. e.digest # m.digest
    <3> SUFFICES ASSUME e.digest = m.digest PROVE FALSE
      OBVIOUS
    <3>1. e.seq = m.seq
      BY <1>8 DEF IntakeInv, Numbered
    <3>2. e = m
      BY <1>8, <2>1, <3>1 DEF Message
    <3> QED
      BY <1>8, <3>2
  <2> QED
    BY <1>1, <1>4, <1>8, <2>1, <2>2
<1> QED
  BY <1>7, <1>8

LEMMA IntakePrePrepare ==
  ASSUME IndInv, IntakeInv, NEW m \in net, Alive(m.to), InTime(m), HandlePrePrepare(m)
  PROVE  /\ IntakeInv'
         /\ m.to \in Punctual => m.seq = sequenceID[m.to][built[m.digest].chain] + 1
<1> DEFINE n == m.to
           d == m.digest
           c == built[d].chain
           sent == Broadcast("Prepare", d, m.seq, n)
<1>1. /\ m.type = "PrePrepare"
      /\ sequenceID' = [sequenceID EXCEPT ![n][c] = m.seq]
      /\ messagePool' = [messagePool EXCEPT ![n] = @ \cup {d}]
      /\ net' = (net \ {m}) \cup sent
      /\ UNCHANGED <<built, stage, crashed, leaked>>
  BY DEF HandlePrePrepare, packager
<1>2. /\ n \in Replicas /\ n # Primary /\ n \in Backups /\ c \in Chains
      /\ d \in 1..Len(built) /\ d \in Nat /\ d >= 1 /\ m.seq \in Nat
  BY <1>1, MessageFacts, MaxBlocksNat DEF Backups
<1>3. /\ \A q \in Replicas : q # n => messagePool'[q] = messagePool[q] /\ sequenceID'[q] = sequenceID[q]
      /\ messagePool'[n] = messagePool[n] \cup {d}
      /\ sequenceID'[n][c] = m.seq
      /\ \A b \in Chains : b # c => sequenceID'[n][b] = sequenceID[n][b]
  BY <1>1, <1>2 DEF IndInv, TypeOK
<1>4. Listening' = Listening /\ Listening \subseteq Backups /\ Backups \subseteq Replicas /\ Announced' = Announced
  BY <1>1 DEF Listening, Backups, Announced
<1>5. /\ \A e \in net' : e.type = "PrePrepare" => e \in net /\ e # m
      /\ \A e \in net : e # m => e \in net'
  BY <1>1, BroadcastFields
<1>6. n \in Punctual => n \in Listening
  BY <1>2 DEF Listening, Alive
<1>7. n \in Listening =>
        /\ messagePool[n] = 1..(d - 1) /\ messagePool'[n] = 1..d
        /\ \A e \in net : e.type = "PrePrepare" /\ e.to = n /\ e # m => d < e.digest
  <2> SUFFICES ASSUME n \in Listening
               PROVE  /\ messagePool[n] = 1..(d - 1) /\ messagePool'[n] = 1..d
                      /\ \A e \in net : e.type = "PrePrepare" /\ e.to = n /\ e # m => d < e.digest
    OBVIOUS
  <2>1. /\ messagePool[n] = 1..(d - 1)
        /\ \A e \in net : e.type = "PrePrepare" /\ e.to = n /\ e # m => d < e.digest
    BY <1>1, PoolBeforePrePrepare
  <2>2. 1..d = 1..(d - 1) \cup {d}
    BY <1>2
  <2> QED
    BY <1>3, <2>1, <2>2
<1>8. m.seq = Cardinality(OfChain(built, 1..d, c))
  BY <1>1 DEF IntakeInv, Numbered
<1>9. n \in Listening => m.seq = sequenceID[n][c] + 1
  <2> SUFFICES ASSUME n \in Listening PROVE m.seq = sequenceID[n][c] + 1
    OBVIOUS
  <2>1. sequenceID[n][c] = Cardinality(OfChain(built, 1..(d - 1), c))
    BY <1>2, <1>7 DEF IntakeInv, Numbered
  <2> QED
    BY <1>2, <1>8, <2>1, ChainCounts
<1> HIDE DEF n, d, sent
<1>10. Delivered'
  <2> SUFFICES ASSUME NEW q \in Listening, NEW e \in 1..Announced, e \notin messagePool'[q]
               PROVE  \E f \in net' : f.type = "PrePrepare" /\ f.digest = e /\ f.to = q
    BY <1>4 DEF Delivered
  <2>1. e \notin messagePool[q] /\ ~(q = n /\ e = d)
    BY <1>3, <1>4
  <2>2. PICK f \in net : f.type = "PrePrepare" /\ f.digest = e /\ f.to = q
    BY <2>1 DEF IntakeInv, Delivered
  <2>3. f # m
    BY <2>1, <2>2 DEF n, d
  <2> QED
    BY <1>5, <2>2, <2>3
<1>11. InOrder'
  <2> SUFFICES ASSUME NEW q \in Listening, NEW f \in net', f.type = "PrePrepare", f.to = q,
                      NEW e \in messagePool'[q]
               PROVE  e < f.digest
    BY <1>4 DEF InOrder
  <2>1. f \in net /\ f # m
    BY <1>5
  <2>2. CASE q # n
    BY <1>3, <1>4, <2>1, <2>2 DEF IntakeInv, InOrder
  <2>3. CASE q = n
    <3>1. d < f.digest /\ e \in 1..d /\ f.digest \in Nat
      BY <1>7, <2>1, <2>3, MessageFacts
    <3> QED
      BY <1>2, <3>1
  <2> QED
    BY <2>2, <2>3
<1>12. Numbered'
  <2>1. \A b \in Chains : sequenceID'[Primary][b] = Cardinality(OfChain(built', 1..Announced', b))
    BY <1>1, <1>2, <1>3, <1>4, PrimaryIsReplica DEF IntakeInv, Numbered
  <2>2. \A q \in Listening' : \A b \in Chains :
          sequenceID'[q][b] = Cardinality(OfChain(built', messagePool'[q], b))
    <3> TAKE q \in Listening'
    <3> TAKE b \in Chains
    <3>1. q \in Listening /\ q \in Replicas
      BY <1>4
    <3>2. sequenceID[q][b] = Cardinality(OfChain(built, messagePool[q], b))
      BY <3>1 DEF IntakeInv, Numbered
    <3>3. CASE q # n
      BY <1>1, <1>3, <3>1, <3>2, <3>3
    <3>4. CASE q = n /\ b = c
      BY <1>1, <1>3, <1>7, <1>8, <3>1, <3>4
    <3>5. CASE q = n /\ b # c
      <4>1. OfChain(built, 1..d, b) = OfChain(built, 1..(d - 1), b)
        BY <1>2, <3>5, ChainCounts DEF c
      <4> QED
        BY <1>1, <1>3, <1>7, <3>1, <3>2, <3>5, <4>1
    <3> QED
      BY <3>3, <3>4, <3>5
  <2>3. ASSUME NEW f \in net', f.type = "PrePrepare"
        PROVE  f.seq = Cardinality(OfChain(built', 1..f.digest, built'[f.digest].chain))
    BY <1>1, <1>5, <2>3 DEF IntakeInv, Numbered
  <2> QED
    BY <2>1, <2>2, <2>3 DEF Numbered
<1>13. BackupsUnlocked'
  BY <1>1 DEF IntakeInv, BackupsUnlocked
<1> QED
  BY <1>6, <1>9, <1>10, <1>11, <1>12, <1>13 DEF IntakeInv, n, d

LEMMA IntakeStep ==
  ASSUME Alive(Primary)', IndInv, IntakeInv, [TimelyNext]_vars
  PROVE  IntakeInv'
<1>1. ASSUME NEW c \in Chains, PackBlock(c) PROVE IntakeInv'
  <2>1. Announced' = Announced
    BY <1>1 DEF PackBlock, Announced, IndInv, TypeOK
  <2> QED
    BY <1>1, <2>1, IntakeKept DEF PackBlock, pools, IntakeInv, BackupsUnlocked
<1>2. CASE AwaitTurn
  BY <1>2, IntakeKept DEF AwaitTurn, pools, Announced, IntakeInv, BackupsUnlocked
<1>3. ASSUME NEW m \in net, Alive(m.to), InTime(m), RefusePrepare(m) PROVE IntakeInv'
  <2>1. m.to \notin Listening
    BY <1>3, PrepareFindsBlock DEF RefusePrepare
  <2>2. BackupsUnlocked'
    BY <1>3, <2>1, MessageFacts
    DEF RefusePrepare, IntakeInv, BackupsUnlocked, Listening, Alive, Backups
  <2> QED
    BY <1>3, <2>2, IntakeKept DEF RefusePrepare, packager, pools, Announced
<1>4. ASSUME NEW m \in net, HandlePrepare(m) PROVE IntakeInv'
  <2>1. \A e \in net' : e.type = "PrePrepare" => e \in net
    BY <1>4, BroadcastFields DEF HandlePrepare
  <2>2. \A e \in net : e.type = "PrePrepare" => e \in net'
    BY <1>4 DEF HandlePrepare
  <2> QED
    BY <1>4, <2>1, <2>2, IntakeKept DEF HandlePrepare, packager, pools, Announced, IntakeInv, BackupsUnlocked
<1>5. ASSUME NEW m \in net, HandleCommit(m) PROVE IntakeInv'
  <2>1. \A n \in Backups : messagePool'[n] = messagePool[n]
    BY <1>5 DEF HandleCommit, Prune, Pruned, IndInv, TypeOK, Backups
  <2>2. net' = net \ {m} /\ m.type = "Commit"
    BY <1>5 DEF HandleCommit
  <2> QED
    BY <1>5, <2>1, <2>2, IntakeKept DEF HandleCommit, Announced, IntakeInv, BackupsUnlocked
<1>6. ASSUME NEW n \in MayCrash, Crash(n) PROVE IntakeInv'
  <2>1. /\ n # Primary /\ crashed' = crashed \cup {n}
        /\ UNCHANGED <<built, stage, sequenceID, messagePool, leaked>>
    BY <1>6 DEF Alive, Crash, packager, pools
  <2>2. PICK lost \in SUBSET {m \in net : m.from = n} : net' = {m \in net \ lost : m.to # n}
    BY <1>6 DEF Crash
  <2>3. \A m \in net : m.type = "PrePrepare" /\ m.to \in Listening' => m \in net'
    BY <2>1, <2>2, MessageFacts DEF Listening
  <2> QED
    BY <2>1, <2>2, <2>3, IntakeKept DEF Announced, IntakeInv, BackupsUnlocked
<1>7. CASE UNCHANGED vars
  BY <1>7, IntakeKept DEF vars, packager, pools, Announced, IntakeInv, BackupsUnlocked, Listening
<1> QED
  BY <1>1, <1>2, <1>3, <1>4, <1>5, <1>6, <1>7, TimelyCases, IntakeRequest, IntakePrePrepare

LEMMA TimelyInvariants == TimelySpec => [](IndInv /\ ParentInv)
<1>1. TimelySpec => Spec
  BY TimelyIsNext, PTL DEF TimelySpec, Spec
<1> QED
  BY <1>1, InductiveInvariant, ParentInvariant, PTL

\* A process that stopped never returns under its id.
LEMMA CrashedStay ==
  ASSUME [TimelyNext]_vars
  PROVE  crashed \subseteq crashed'
  BY TimelyCases
  DEF PackBlock, AwaitTurn, HandleClientRequest, HandlePrePrepare, RefusePrepare,
      HandlePrepare, HandleCommit, Crash, vars

\* While the primary is up, the intake of the punctual backups is in order.
THEOREM IntakeCorrect == TimelySpec => [](Alive(Primary) => IntakeInv)
<1>1. Init => (Alive(Primary) => IntakeInv)
  BY IntakeInit
<1>2. IndInv /\ (Alive(Primary) => IntakeInv) /\ [TimelyNext]_vars
        => (Alive(Primary) => IntakeInv)'
  <2> SUFFICES ASSUME IndInv, Alive(Primary) => IntakeInv, [TimelyNext]_vars, Alive(Primary)'
               PROVE  IntakeInv'
    OBVIOUS
  <2>1. Alive(Primary)
    BY CrashedStay DEF Alive
  <2> QED
    BY <2>1, IntakeStep
<1> QED
  BY <1>1, <1>2, TimelyInvariants, PTL DEF TimelySpec

----------------------------------------------------------------------------
(* Phases: when every replica is punctual, what is in flight never lags    *)
(* behind what the primary committed, and no lock is leaked anywhere.      *)

\* Every replica keeps the timing.
AllPunctual == Punctual = Replicas

NetAlive == \A m \in net : m.to \notin crashed

\* Of a block the primary committed only Commits are in flight, of the blocks
\* before it nothing.
Settled ==
  \A e \in isReply[Primary] : \A m \in net :
    e < m.digest \/ (e = m.digest /\ m.type = "Commit")

OrderInv == leaked = {} /\ NetAlive /\ Settled

\* A handler in time is the first of all that is in flight.
LEMMA NothingBefore ==
  ASSUME AllPunctual, IndInv, OrderInv, NEW m \in net, InTime(m), NEW e \in net
  PROVE  /\ m.digest <= e.digest
         /\ m.digest = e.digest => Phase(m) <= Phase(e)
         /\ m.type = "Commit" /\ m.digest = e.digest => e.type = "Commit"
<1>1. m.to \in Punctual /\ e.to \in Punctual \ (crashed \cup leaked)
  BY MessageFacts DEF AllPunctual, OrderInv, NetAlive
<1>2. ~Before(e, m)
  BY <1>1 DEF InTime, Prompt
<1>3. /\ m.digest \in Nat /\ e.digest \in Nat
      /\ m.type \in {"PrePrepare", "Prepare", "Commit"}
      /\ e.type \in {"PrePrepare", "Prepare", "Commit"}
  BY MessageFacts
<1>4. Phase(m) \in Nat /\ Phase(e) \in Nat
  BY <1>3 DEF Phase
<1>5. m.digest <= e.digest /\ (m.digest = e.digest => Phase(m) <= Phase(e))
  BY <1>2, <1>3, <1>4 DEF Before
<1>6. m.type = "Commit" /\ Phase(m) <= Phase(e) => e.type = "Commit"
  BY <1>3 DEF Phase
<1> QED
  BY <1>5, <1>6

\* A step that commits nothing at the primary and sends only what follows the
\* message it handles.
LEMMA OrderKept ==
  ASSUME IndInv, OrderInv, leaked' = {}, isReply'[Primary] = isReply[Primary],
         crashed \subseteq crashed', \A f \in net' : f.to \notin crashed',
         \A f \in net' : f \in net \/ (\E m \in net : m.type # "Commit" /\ f.digest = m.digest)
  PROVE  OrderInv'
<1>1. NetAlive'
  BY DEF NetAlive
<1>2. Settled'
  <2> SUFFICES ASSUME NEW e \in isReply[Primary], NEW f \in net'
               PROVE  e < f.digest \/ (e = f.digest /\ f.type = "Commit")
    BY DEF Settled
  <2>1. CASE f \in net
    BY <2>1 DEF OrderInv, Settled
  <2>2. CASE \E m \in net : m.type # "Commit" /\ f.digest = m.digest
    BY <2>2 DEF OrderInv, Settled
  <2> QED
    BY <2>1, <2>2
<1> QED
  BY <1>1, <1>2 DEF OrderInv

LEMMA OrderStep ==
  ASSUME AllPunctual, IndInv, IntakeInv, OrderInv, [TimelyNext]_vars
  PROVE  OrderInv'
<1> USE PrimaryIsReplica
<1>1. ASSUME NEW c \in Chains, PackBlock(c) PROVE OrderInv'
  BY <1>1, OrderKept DEF PackBlock, ledger, OrderInv, NetAlive
<1>2. CASE AwaitTurn
  BY <1>2, OrderKept DEF AwaitTurn, ledger, OrderInv, NetAlive
<1>3. CASE HandleClientRequest
  <2> DEFINE d == Len(built)
             sent == Broadcast("PrePrepare", d, sequenceID[Primary][built[d].chain] + 1, Primary)
  <2>1. net' = net \cup sent /\ UNCHANGED <<isReply, leaked, crashed>>
    BY <1>3 DEF HandleClientRequest, ledger
  <2>2. \A f \in sent : f.digest = d /\ f.to \notin crashed
    BY BroadcastFields
  <2>3. \A e \in isReply[Primary] : e < d
    <3>1. d \in Nat /\ Announced = d - 1 /\ isReply[Primary] \subseteq 1..Announced
      BY <1>3 DEF HandleClientRequest, Announced, IndInv, TypeOK, Rounds
    <3> QED
      BY <3>1
  <2> QED
    BY <2>1, <2>2, <2>3 DEF OrderInv, NetAlive, Settled
<1>4. ASSUME NEW m \in net, HandlePrePrepare(m) PROVE OrderInv'
  <2>1. /\ net' = (net \ {m}) \cup Broadcast("Prepare", m.digest, m.seq, m.to)
        /\ UNCHANGED <<isReply, leaked, crashed>> /\ m.type = "PrePrepare"
    BY <1>4 DEF HandlePrePrepare, ledger
  <2>2. \A f \in net' : f \in net \/ f.digest = m.digest
    BY <2>1, BroadcastFields
  <2>3. \A f \in net' : f \in net \/ (\E k \in net : k.type # "Commit" /\ f.digest = k.digest)
    BY <2>1, <2>2
  <2>4. \A f \in net' : f.to \notin crashed'
    BY <2>1, BroadcastFields DEF OrderInv, NetAlive
  <2>5. leaked' = {} /\ isReply'[Primary] = isReply[Primary] /\ crashed \subseteq crashed'
    BY <2>1 DEF OrderInv
  <2> QED
    BY <2>3, <2>4, <2>5, OrderKept
<1>5. ASSUME NEW m \in net, Alive(m.to), InTime(m), RefusePrepare(m) PROVE FALSE
  <2>1. m.type = "Prepare" /\ ~KnowsDigest(m) /\ CanLock(m.to)
    BY <1>5 DEF RefusePrepare
  <2>2. m.digest \in 1..Announced /\ m.to \in Replicas
    BY MessageFacts
  <2>3. m.to = Primary
    BY <1>5, <2>1, <2>2, PrepareFindsBlock DEF AllPunctual, Listening, Backups, Alive
  <2>4. m.digest \notin isReply[Primary]
    BY <2>1, <2>2 DEF OrderInv, Settled
  <2>5. m.digest \in messagePool[Primary]
    BY <2>2, <2>4 DEF IndInv, Pooling
  <2> QED
    BY <2>1, <2>3, <2>5 DEF KnowsDigest
<1>6. ASSUME NEW m \in net, HandlePrepare(m) PROVE OrderInv'
  <2>1. /\ net' \subseteq (net \ {m}) \cup Broadcast("Commit", m.digest, m.seq, m.to)
        /\ UNCHANGED <<isReply, leaked, crashed>> /\ m.type = "Prepare"
    BY <1>6 DEF HandlePrepare, ledger
  <2>2. \A f \in net' : f \in net \/ f.digest = m.digest
    BY <2>1, BroadcastFields
  <2>3. \A f \in net' : f \in net \/ (\E k \in net : k.type # "Commit" /\ f.digest = k.digest)
    BY <2>1, <2>2
  <2>4. \A f \in net' : f.to \notin crashed'
    BY <2>1, BroadcastFields DEF OrderInv, NetAlive
  <2>5. leaked' = {} /\ isReply'[Primary] = isReply[Primary] /\ crashed \subseteq crashed'
    BY <2>1 DEF OrderInv
  <2> QED
    BY <2>3, <2>4, <2>5, OrderKept
<1>7. ASSUME NEW m \in net, InTime(m), HandleCommit(m) PROVE OrderInv'
  <2>1. net' = net \ {m} /\ m.type = "Commit" /\ UNCHANGED <<leaked, crashed>>
    BY <1>7 DEF HandleCommit
  <2>2. isReply'[Primary] \in {isReply[Primary], isReply[Primary] \cup {m.digest}}
    BY <1>7 DEF HandleCommit, CommitBlock, ledger, IndInv, TypeOK
  <2>3. \A f \in net' : m.digest <= f.digest /\ (m.digest = f.digest => f.type = "Commit")
    BY <1>7, <2>1, NothingBefore
  <2>4. \A f \in net' : m.digest \in Nat /\ f.digest \in Nat
    BY <2>1, MessageFacts
  <2>5. Settled'
    BY <2>1, <2>2, <2>3, <2>4 DEF OrderInv, Settled
  <2> QED
    BY <2>1, <2>5 DEF OrderInv, NetAlive
<1>8. ASSUME NEW n \in MayCrash, Crash(n) PROVE OrderInv'
  <2>1. /\ crashed' = crashed \cup {n} /\ net' \subseteq net /\ \A f \in net' : f.to # n
        /\ UNCHANGED <<isReply, leaked>>
    BY <1>8 DEF Crash, ledger
  <2> QED
    BY <2>1, OrderKept DEF OrderInv, NetAlive
<1>9. CASE UNCHANGED vars
  BY <1>9, OrderKept DEF vars, ledger, OrderInv, NetAlive
<1> QED
  BY <1>1, <1>2, <1>3, <1>4, <1>5, <1>6, <1>7, <1>8, <1>9, TimelyCases

LEMMA OrderCorrect == AllPunctual => (TimelySpec => [](Alive(Primary) => OrderInv))
<1> SUFFICES ASSUME AllPunctual PROVE TimelySpec => [](Alive(Primary) => OrderInv)
  OBVIOUS
<1>1. Init => (Alive(Primary) => OrderInv)
  BY PrimaryIsReplica DEF Init, OrderInv, NetAlive, Settled
<1>2. IndInv /\ (Alive(Primary) => IntakeInv) /\ (Alive(Primary) => OrderInv) /\ [TimelyNext]_vars
        => (Alive(Primary) => OrderInv)'
  <2> SUFFICES ASSUME IndInv, Alive(Primary) => IntakeInv, Alive(Primary) => OrderInv,
                      [TimelyNext]_vars, Alive(Primary)'
               PROVE  OrderInv'
    OBVIOUS
  <2>1. Alive(Primary)
    BY CrashedStay DEF Alive
  <2> QED
    BY <2>1, OrderStep
<1> QED
  BY <1>1, <1>2, IntakeCorrect, TimelyInvariants, PTL DEF TimelySpec

\* No punctual replica ends up holding its own lock while the primary is up: a
\* backup never does, and the primary does not when every replica is punctual; a
\* late backup may ask it about a block it has pruned.
THEOREM LocksAreReleased ==
  (Primary \in Punctual => AllPunctual) => (TimelySpec => []NoLockLeaked)
<1> SUFFICES ASSUME Primary \in Punctual => AllPunctual
             PROVE  TimelySpec => []NoLockLeaked
  OBVIOUS
<1>1. CASE Primary \in Punctual
  <2>1. TimelySpec => [](Alive(Primary) => OrderInv)
    BY <1>1, OrderCorrect
  <2>2. (Alive(Primary) => OrderInv) => NoLockLeaked
    BY DEF OrderInv, NoLockLeaked
  <2> QED
    BY <2>1, <2>2, PTL
<1>2. CASE Primary \notin Punctual
  <2>1. (Alive(Primary) => IntakeInv) => NoLockLeaked
    BY <1>2 DEF IntakeInv, BackupsUnlocked, NoLockLeaked
  <2> QED
    BY <2>1, IntakeCorrect, PTL
<1> QED
  BY <1>1, <1>2

----------------------------------------------------------------------------
(* The primary stops.  No replica takes over from it, and when it stops in *)
(* the middle of a broadcast some backups never get its last PrePrepare.   *)

\* Every block but the last one announced is in the pools already.
AllButLast == \A n \in Listening : 1..(Announced - 1) \subseteq messagePool[n]

LateIntake == InOrder /\ Numbered /\ AllButLast

\* A PrePrepare that is still on its way to a backup is the only one, and for the
\* block that follows its pool.
LEMMA LastPrePrepare ==
  ASSUME AllPunctual, IndInv, LateIntake, NEW m \in net, m.type = "PrePrepare", Alive(m.to)
  PROVE  /\ m.to \in Listening /\ messagePool[m.to] = 1..(m.digest - 1)
         /\ \A e \in net : e.type = "PrePrepare" /\ e.to = m.to => e = m
<1> DEFINE n == m.to
<1>1. n \in Listening /\ n \in Backups /\ n \in Replicas /\ Announced \in Int
  BY MessageFacts, BlocksTyped DEF AllPunctual, Listening, Backups, Alive, IndInv
<1>2. messagePool[n] \subseteq 1..Announced /\ 1..(Announced - 1) \subseteq messagePool[n]
  BY <1>1 DEF IndInv, Structure, LateIntake, AllButLast
<1>3. ASSUME NEW e \in net, e.type = "PrePrepare", e.to = n
      PROVE  e.digest = Announced /\ \A k \in messagePool[n] : k < e.digest
  <2>1. e.digest \in 1..Announced
    BY MessageFacts
  <2>2. \A k \in messagePool[n] : k < e.digest
    BY <1>1, <1>3 DEF LateIntake, InOrder
  <2>3. e.digest \notin messagePool[n]
    BY <2>1, <2>2
  <2>4. e.digest \notin 1..(Announced - 1)
    BY <1>2, <2>3
  <2> QED
    BY <1>1, <2>1, <2>2, <2>4
<1>4. messagePool[n] = 1..(m.digest - 1)
  <2>1. m.digest = Announced /\ \A k \in messagePool[n] : k < Announced
    BY <1>3
  <2>2. \A k \in messagePool[n] : k \in 1..(Announced - 1)
    BY <1>1, <1>2, <2>1
  <2> QED
    BY <1>2, <2>1, <2>2
<1>5. ASSUME NEW e \in net, e.type = "PrePrepare", e.to = n PROVE e = m
  <2>1. e.digest = m.digest
    BY <1>3, <1>5
  <2>2. e.seq = m.seq
    BY <1>5, <2>1 DEF LateIntake, Numbered
  <2>3. e.from = Primary /\ m.from = Primary /\ e \in Message /\ m \in Message
    BY <1>5, MessageFacts
  <2> QED
    BY <1>5, <2>1, <2>2, <2>3 DEF Message
<1> QED
  BY <1>1, <1>4, <1>5

LEMMA LatePrePrepare ==
  ASSUME AllPunctual, IndInv, LateIntake, NEW m \in net, Alive(m.to), HandlePrePrepare(m)
  PROVE  /\ LateIntake'
         /\ m.seq = sequenceID[m.to][built[m.digest].chain] + 1
<1> DEFINE n == m.to
           d == m.digest
           c == built[d].chain
<1>1. /\ m.type = "PrePrepare"
      /\ sequenceID' = [sequenceID EXCEPT ![n][c] = m.seq]
      /\ messagePool' = [messagePool EXCEPT ![n] = @ \cup {d}]
      /\ net' = (net \ {m}) \cup Broadcast("Prepare", d, m.seq, n)
      /\ UNCHANGED <<built, stage, crashed>>
  BY DEF HandlePrePrepare, packager
<1>2. /\ n \in Listening /\ messagePool[n] = 1..(d - 1)
      /\ \A e \in net : e.type = "PrePrepare" /\ e.to = n => e = m
  BY <1>1, LastPrePrepare
<1>3. /\ n \in Replicas /\ n # Primary /\ c \in Chains /\ d \in 1..Len(built) /\ d \in Nat
      /\ d >= 1 /\ m.seq \in Nat
  BY <1>1, MessageFacts, MaxBlocksNat
<1>4. /\ \A q \in Replicas : q # n => messagePool'[q] = messagePool[q] /\ sequenceID'[q] = sequenceID[q]
      /\ messagePool'[n] = messagePool[n] \cup {d}
      /\ sequenceID'[n][c] = m.seq
      /\ \A b \in Chains : b # c => sequenceID'[n][b] = sequenceID[n][b]
  BY <1>1, <1>3 DEF IndInv, TypeOK
<1>5. /\ Listening' = Listening /\ Listening \subseteq Replicas /\ Announced' = Announced
      /\ \A e \in net' : e.type = "PrePrepare" => e \in net /\ e # m
  BY <1>1, BroadcastFields DEF Listening, Backups, Announced
<1>6. messagePool'[n] = 1..d
  <2>1. 1..d = 1..(d - 1) \cup {d}
    BY <1>3
  <2> QED
    BY <1>2, <1>4, <2>1
<1>7. m.seq = Cardinality(OfChain(built, 1..d, c))
  BY <1>1 DEF LateIntake, Numbered
<1>8. m.seq = sequenceID[n][c] + 1
  <2>1. sequenceID[n][c] = Cardinality(OfChain(built, 1..(d - 1), c))
    BY <1>2, <1>3 DEF LateIntake, Numbered
  <2> QED
    BY <1>3, <1>7, <2>1, ChainCounts
<1> HIDE DEF n, d
<1>9. InOrder'
  <2> SUFFICES ASSUME NEW q \in Listening, NEW f \in net', f.type = "PrePrepare", f.to = q,
                      NEW e \in messagePool'[q]
               PROVE  e < f.digest
    BY <1>5 DEF InOrder
  <2>1. f \in net /\ q # n
    BY <1>2, <1>5
  <2> QED
    BY <1>4, <1>5, <2>1 DEF LateIntake, InOrder
<1>10. Numbered'
  <2>1. \A b \in Chains : sequenceID'[Primary][b] = Cardinality(OfChain(built', 1..Announced', b))
    BY <1>1, <1>3, <1>4, <1>5, PrimaryIsReplica DEF LateIntake, Numbered
  <2>2. \A q \in Listening' : \A b \in Chains :
          sequenceID'[q][b] = Cardinality(OfChain(built', messagePool'[q], b))
    <3> TAKE q \in Listening'
    <3> TAKE b \in Chains
    <3>1. q \in Listening /\ q \in Replicas
      BY <1>5
    <3>2. sequenceID[q][b] = Cardinality(OfChain(built, messagePool[q], b))
      BY <3>1 DEF LateIntake, Numbered
    <3>3. CASE q # n
      BY <1>1, <1>4, <3>1, <3>2, <3>3
    <3>4. CASE q = n /\ b = c
      BY <1>1, <1>4, <1>6, <1>7, <3>4
    <3>5. CASE q = n /\ b # c
      <4>1. OfChain(built, 1..d, b) = OfChain(built, 1..(d - 1), b)
        BY <1>3, <3>5, ChainCounts DEF c
      <4> QED
        BY <1>1, <1>2, <1>4, <1>6, <3>2, <3>5, <4>1
    <3> QED
      BY <3>3, <3>4, <3>5
  <2>3. ASSUME NEW f \in net', f.type = "PrePrepare"
        PROVE  f.seq = Cardinality(OfChain(built', 1..f.digest, built'[f.digest].chain))
    BY <1>1, <1>5, <2>3 DEF LateIntake, Numbered
  <2> QED
    BY <2>1, <2>2, <2>3 DEF Numbered
<1>11. AllButLast'
  <2> SUFFICES ASSUME NEW q \in Listening PROVE 1..(Announced - 1) \subseteq messagePool'[q]
    BY <1>5 DEF AllButLast
  <2>1. messagePool[q] \subseteq messagePool'[q]
    BY <1>4, <1>5
  <2> QED
    BY <2>1 DEF LateIntake, AllButLast
<1> QED
  BY <1>8, <1>9, <1>10, <1>11 DEF LateIntake, n, d

LEMMA LateStep ==
  ASSUME ~Alive(Primary), AllPunctual, IndInv, LateIntake, [TimelyNext]_vars
  PROVE  LateIntake'
<1>1. ASSUME UNCHANGED <<built, stage, sequenceID>>,
             \A n \in Backups : messagePool'[n] = messagePool[n],
             \A e \in net' : e.type = "PrePrepare" => e \in net
      PROVE  LateIntake'
  <2>1. Listening' \subseteq Listening /\ Listening \subseteq Backups
    BY CrashedStay DEF Listening
  <2>2. Announced' = Announced
    BY <1>1 DEF Announced
  <2>3. InOrder'
    BY <1>1, <2>1 DEF LateIntake, InOrder
  <2>4. Numbered'
    BY <1>1, <2>1, <2>2 DEF LateIntake, Numbered
  <2>5. AllButLast'
    BY <1>1, <2>1, <2>2 DEF LateIntake, AllButLast
  <2> QED
    BY <2>3, <2>4, <2>5 DEF LateIntake
<1>2. ASSUME NEW m \in net, RefusePrepare(m) PROVE LateIntake'
  BY <1>1, <1>2 DEF RefusePrepare, packager, pools
<1>3. ASSUME NEW m \in net, HandlePrepare(m) PROVE LateIntake'
  <2>1. \A e \in net' : e.type = "PrePrepare" => e \in net
    BY <1>3, BroadcastFields DEF HandlePrepare
  <2> QED
    BY <1>1, <1>3, <2>1 DEF HandlePrepare, packager, pools
<1>4. ASSUME NEW m \in net, HandleCommit(m) PROVE LateIntake'
  <2>1. \A n \in Backups : messagePool'[n] = messagePool[n]
    BY <1>4 DEF HandleCommit, Prune, Pruned, IndInv, TypeOK, Backups
  <2>2. net' = net \ {m} /\ UNCHANGED <<built, stage, sequenceID>>
    BY <1>4 DEF HandleCommit
  <2> QED
    BY <1>1, <2>1, <2>2
<1>5. ASSUME NEW n \in MayCrash, Crash(n) PROVE LateIntake'
  BY <1>1, <1>5 DEF Crash, packager, pools
<1>6. CASE UNCHANGED vars
  BY <1>1, <1>6 DEF vars, packager, pools
<1> QED
  BY <1>2, <1>3, <1>4, <1>5, <1>6, TimelyCases, LatePrePrepare
  DEF PackBlock, AwaitTurn, HandleClientRequest

\* At the moment the primary stops, of the blocks it committed only Commits are
\* left in flight, and it committed all but the last one.
LEMMA LateStart ==
  ASSUME Alive(Primary), ~Alive(Primary)', AllPunctual, IndInv, IntakeInv, OrderInv,
         [TimelyNext]_vars
  PROVE  LateIntake'
<1>1. PICK n \in MayCrash : Crash(n)
  BY TimelyCases
  DEF PackBlock, AwaitTurn, HandleClientRequest, HandlePrePrepare, RefusePrepare,
      HandlePrepare, HandleCommit, vars, Alive
<1>2. /\ net' \subseteq net /\ crashed \subseteq crashed'
      /\ UNCHANGED <<built, stage, sequenceID, messagePool>>
  BY <1>1 DEF Crash, packager, pools
<1>3. Listening' \subseteq Listening /\ Announced' = Announced
  BY <1>2 DEF Listening, Announced
<1>4. ASSUME NEW q \in Listening, NEW e \in 1..(Announced - 1) PROVE e \in messagePool[q]
  <2>1. Announced \in Int /\ Opened \in Int /\ Announced <= Opened
    BY DEF IndInv, TypeOK, Announced, Opened
  <2>2. e \in isReply[Primary] /\ e \in 1..Announced
    BY <2>1 DEF IndInv, Rounds
  <2>3. \A f \in net : ~(f.type = "PrePrepare" /\ f.digest = e)
    BY <2>1, <2>2 DEF OrderInv, Settled
  <2> QED
    BY <2>2, <2>3 DEF IntakeInv, Delivered
<1>5. AllButLast'
  BY <1>2, <1>3, <1>4 DEF AllButLast
<1>6. InOrder' /\ Numbered'
  BY <1>2, <1>3 DEF IntakeInv, InOrder, Numbered
<1> QED
  BY <1>5, <1>6 DEF LateIntake

LEMMA LateCorrect == AllPunctual => (TimelySpec => [](~Alive(Primary) => LateIntake))
<1> SUFFICES ASSUME AllPunctual PROVE TimelySpec => [](~Alive(Primary) => LateIntake)
  OBVIOUS
<1>1. Init => (~Alive(Primary) => LateIntake)
  BY DEF Init, Alive
<1>2. /\ IndInv /\ (Alive(Primary) => IntakeInv) /\ (Alive(Primary) => OrderInv)
      /\ (~Alive(Primary) => LateIntake) /\ [TimelyNext]_vars
      => (~Alive(Primary) => LateIntake)'
  BY LateStart, LateStep
<1> QED
  BY <1>1, <1>2, IntakeCorrect, OrderCorrect, TimelyInvariants, PTL DEF TimelySpec

\* The new Prepares of a step follow on the numbers their senders had.
AnswersInSequence ==
  \A m \in net' \ net : m.type = "Prepare" /\ m.from \in Punctual =>
    m.seq = sequenceID[m.from][built[m.digest].chain] + 1

LEMMA AnswersFollow ==
  ASSUME IndInv, [TimelyNext]_vars,
         ASSUME NEW m \in net, Alive(m.to), InTime(m), HandlePrePrepare(m), m.to \in Punctual
         PROVE  m.seq = sequenceID[m.to][built[m.digest].chain] + 1
  PROVE  AnswersInSequence
<1>1. ASSUME NEW m \in net, Alive(m.to), InTime(m), HandlePrePrepare(m) PROVE AnswersInSequence
  <2>1. m.to \in Punctual => m.seq = sequenceID[m.to][built[m.digest].chain] + 1
    BY <1>1
  <2>2. net' = (net \ {m}) \cup Broadcast("Prepare", m.digest, m.seq, m.to)
    BY <1>1 DEF HandlePrePrepare
  <2>3. \A f \in net' \ net : f.digest = m.digest /\ f.seq = m.seq /\ f.from = m.to
    BY <2>2, BroadcastFields
  <2> QED
    BY <2>1, <2>3 DEF AnswersInSequence
<1>2. CASE HandleClientRequest
  BY <1>2, BroadcastFields DEF HandleClientRequest, AnswersInSequence
<1>3. ASSUME NEW m \in net, HandlePrepare(m) PROVE AnswersInSequence
  BY <1>3, BroadcastFields DEF HandlePrepare, AnswersInSequence
<1>4. CASE net' \subseteq net
  BY <1>4 DEF AnswersInSequence
<1> QED
  BY <1>1, <1>2, <1>3, <1>4, TimelyCases
  DEF PackBlock, AwaitTurn, RefusePrepare, HandleCommit, Crash, vars

\* A punctual replica that answers a PrePrepare had the sequence number before
\* it: whoever else is late or crashes as long as the primary does not, and with
\* all on time also when the primary stops in the middle of a broadcast.
THEOREM PunctualAnswersInSequence ==
  PrimaryStays \/ AllPunctual => (TimelySpec => PunctualInSequence)
<1>1. PrimaryStays /\ IndInv => Alive(Primary)
  BY DEF PrimaryStays, IndInv, TypeOK, Alive
<1>2. IndInv /\ Alive(Primary) /\ (Alive(Primary) => IntakeInv) /\ [TimelyNext]_vars
        => [AnswersInSequence]_vars
  BY AnswersFollow, IntakePrePrepare
<1>3. AllPunctual /\ IndInv /\ ~Alive(Primary) /\ (~Alive(Primary) => LateIntake) /\ [TimelyNext]_vars
        => [AnswersInSequence]_vars
  BY AnswersFollow, LatePrePrepare
<1>4. CASE PrimaryStays
  <2>1. TimelySpec => [][AnswersInSequence]_vars
    <3>1. IndInv => Alive(Primary)
      BY <1>1, <1>4
    <3> QED
      BY <1>2, <3>1, IntakeCorrect, TimelyInvariants, PTL DEF TimelySpec
  <2> QED
    BY <2>1 DEF PunctualInSequence, AnswersInSequence
<1>5. CASE AllPunctual
  <2>1. TimelySpec => [][AnswersInSequence]_vars
    <3>1. IndInv /\ ~Alive(Primary) /\ (~Alive(Primary) => LateIntake) /\ [TimelyNext]_vars
            => [AnswersInSequence]_vars
      BY <1>3, <1>5
    <3>2. TimelySpec => [](~Alive(Primary) => LateIntake)
      BY <1>5, LateCorrect
    <3> QED
      BY <1>2, <3>1, <3>2, IntakeCorrect, TimelyInvariants, PTL DEF TimelySpec
  <2> QED
    BY <2>1 DEF PunctualInSequence, AnswersInSequence
<1> QED
  BY <1>4, <1>5

----------------------------------------------------------------------------
(* Rounds: when every replica is punctual and enough backups stay up, a    *)
(* round is committed everywhere before the next one is handled anywhere.  *)

\* A quorum is not empty, and the backups that stay up make one.
QuorumStays == TwoF >= 1 /\ TwoF + MaxCrashes <= Cardinality(Backups)

FewCrashed == Cardinality(crashed) <= MaxCrashes

\* A replica of type's votes: r's vote on d is on its way to n.
VoteOnItsWay(type, d, r, n) ==
  \E m \in net : m.type = type /\ m.digest = d /\ m.from = r /\ m.to = n

\* No vote among replicas that are up gets lost: it is on its way or counted,
\* or it was counted and pruned with the block it was for.
PreparesReach ==
  \A r \in Backups \ crashed : \A n \in Replicas \ crashed : \A d \in messagePool[r] :
    r # n => \/ VoteOnItsWay("Prepare", d, r, n)
             \/ r \in prePareConfirmCount[n][d]
             \/ n = Primary /\ d \in isReply[Primary]

CommitsReach ==
  \A r \in Replicas \ crashed : \A n \in Replicas \ crashed : \A d \in isCommitBroadcast[r] :
    r # n => \/ VoteOnItsWay("Commit", d, r, n)
             \/ r \in commitConfirmCount[n][d]
             \/ n = Primary /\ d \in isReply[Primary]

\* A quorum is acted on when it is reached.  No Commit is counted before the
\* replica has voted itself: without the timing one may be, and be forgotten.
QuorumsAct ==
  \A n \in Replicas : \A d \in Digests :
    /\ Cardinality(prePareConfirmCount[n][d]) >= PrepareQuorum(n) => d \in isCommitBroadcast[n]
    /\ commitConfirmCount[n][d] # {} => d \in isCommitBroadcast[n]
    /\ Cardinality(commitConfirmCount[n][d]) >= TwoF => d \in isReply[n]

\* Every log lists the blocks in the order the packager made them, from the first.
InLogOrder ==
  \A n \in Replicas :
    /\ isReply[n] = 1..Len(localMessagePool[n])
    /\ \A i \in 1..Len(localMessagePool[n]) : localMessagePool[n][i] = i

RoundInv ==
  /\ FewCrashed /\ PreparesReach /\ CommitsReach /\ QuorumsAct
  /\ InLogOrder /\ PunctualTipIsNewest

LEMMA FewStayFew ==
  ASSUME IndInv, FewCrashed, [TimelyNext]_vars
  PROVE  FewCrashed'
<1>1. ASSUME NEW n \in MayCrash, Crash(n) PROVE FewCrashed'
  <2>1. n \notin crashed /\ Cardinality(crashed) < MaxCrashes /\ crashed' = crashed \cup {n}
    BY <1>1 DEF Crash
  <2>2. IsFiniteSet(crashed)
    <3>1. crashed \subseteq NodeTable
      BY ConsensusAssumption DEF IndInv, TypeOK
    <3> QED
      BY <3>1, ConsensusAssumption, FS_Subset
  <2>3. Cardinality(crashed') = Cardinality(crashed) + 1 /\ Cardinality(crashed) \in Nat
    BY <2>1, <2>2, FS_AddElement, FS_CardinalityType
  <2> QED
    BY <2>1, <2>3, ConsensusAssumption DEF FewCrashed
<1>2. CASE UNCHANGED crashed
  BY <1>2 DEF FewCrashed
<1> QED
  BY <1>1, <1>2, TimelyCases
  DEF PackBlock, AwaitTurn, HandleClientRequest, HandlePrePrepare, RefusePrepare,
      HandlePrepare, HandleCommit, vars

\* TwoF is even.
LEMMA PrepareQuorumPositive ==
  ASSUME QuorumStays, NEW n
  PROVE  PrepareQuorum(n) \in Int /\ PrepareQuorum(n) >= 1
<1>1. Cardinality(NodeTable) \in Nat
  BY ConsensusAssumption, FS_CardinalityType
<1>2. TwoF >= 2 /\ TwoF \in Int
  BY <1>1 DEF QuorumStays, TwoF
<1> QED
  BY <1>2 DEF PrepareQuorum

\* The backups that are up, but for one, are a quorum of Prepares to it.
LEMMA LiveQuorum ==
  ASSUME Alive(Primary), QuorumStays, IndInv, FewCrashed, NEW n \in Replicas \ crashed
  PROVE  /\ \A S \in SUBSET Replicas :
              (Backups \ crashed) \ {n} \subseteq S => Cardinality(S) >= PrepareQuorum(n)
         /\ \A S \in SUBSET Replicas :
              (Replicas \ crashed) \ {n} \subseteq S => Cardinality(S) >= TwoF
<1> DEFINE up == Backups \ crashed
<1>1. /\ IsFiniteSet(Replicas) /\ IsFiniteSet(Backups) /\ IsFiniteSet(crashed)
      /\ Primary \notin crashed
  <2>1. crashed \subseteq MayCrash /\ MayCrash \subseteq Replicas
    BY ConsensusAssumption DEF IndInv, TypeOK, Replicas
  <2> QED
    BY <2>1, ReplicasFinite, FS_Subset DEF Alive, Backups
<1>2. Cardinality(up) >= TwoF /\ Cardinality(up) \in Nat /\ IsFiniteSet(up)
  <2>1. /\ IsFiniteSet(up) /\ Cardinality(up) = Cardinality(Backups) - Cardinality(Backups \cap crashed)
        /\ Cardinality(up) \in Nat
    BY <1>1, FS_Difference, FS_CardinalityType
  <2>2. Cardinality(Backups \cap crashed) <= Cardinality(crashed)
    BY <1>1, FS_Intersection
  <2>3. /\ Cardinality(Backups) \in Nat /\ Cardinality(crashed) \in Nat
        /\ Cardinality(Backups \cap crashed) \in Nat
    BY <1>1, FS_CardinalityType, FS_Intersection
  <2> QED
    BY <2>1, <2>2, <2>3, TwoFInt, ConsensusAssumption DEF QuorumStays, FewCrashed
<1>3. /\ IsFiniteSet(up \ {n}) /\ Cardinality(up \ {n}) \in Nat
      /\ Cardinality(up \ {n}) = IF n \in up THEN Cardinality(up) - 1 ELSE Cardinality(up)
  BY <1>2, FS_RemoveElement, FS_CardinalityType
<1>4. n \in up <=> n # Primary
  BY PrimaryIsReplica DEF Backups
<1>5. Cardinality(up \ {n}) >= PrepareQuorum(n)
  BY <1>2, <1>3, <1>4, TwoFInt DEF PrepareQuorum
<1>6. Cardinality((Replicas \ crashed) \ {n}) >= TwoF
  <2>1. CASE n = Primary
    <3>1. (Replicas \ crashed) \ {n} = up
      BY <2>1 DEF Backups
    <3> QED
      BY <1>2, <3>1
  <2>2. CASE n # Primary
    <3>1. (Replicas \ crashed) \ {n} = (up \ {n}) \cup {Primary} /\ Primary \notin up \ {n}
      BY <1>1, <2>2, PrimaryIsReplica DEF Backups
    <3>2. Cardinality((up \ {n}) \cup {Primary}) = Cardinality(up \ {n}) + 1
      BY <1>3, <3>1, FS_AddElement
    <3>3. Cardinality(up \ {n}) = Cardinality(up) - 1
      BY <1>3, <1>4, <2>2
    <3>4. Cardinality((Replicas \ crashed) \ {n}) = Cardinality(up \ {n}) + 1
      BY <3>1, <3>2
    <3> HIDE DEF up
    <3> QED
      BY <1>2, <3>3, <3>4
  <2> QED
    BY <2>1, <2>2
<1>7. ASSUME NEW S \in SUBSET Replicas, NEW T \in SUBSET S
      PROVE  Cardinality(T) <= Cardinality(S) /\ Cardinality(T) \in Nat /\ Cardinality(S) \in Nat
  BY <1>1, FS_Subset, FS_CardinalityType
<1>8. PrepareQuorum(n) \in Int /\ TwoF \in Int
  BY PrepareQuorumPositive, TwoFInt
<1>9. ASSUME NEW S \in SUBSET Replicas, up \ {n} \subseteq S
      PROVE  Cardinality(S) >= PrepareQuorum(n)
  BY <1>5, <1>7, <1>8, <1>9
<1>10. ASSUME NEW S \in SUBSET Replicas, (Replicas \ crashed) \ {n} \subseteq S
       PROVE  Cardinality(S) >= TwoF
  <2> DEFINE T == (Replicas \ crashed) \ {n}
  <2>1. T \in SUBSET S
    BY <1>10
  <2> HIDE DEF T
  <2>2. Cardinality(T) <= Cardinality(S) /\ Cardinality(T) \in Nat /\ Cardinality(S) \in Nat
    BY <1>7, <2>1
  <2> QED
    BY <1>6, <1>8, <2>2 DEF T
<1> QED
  BY <1>9, <1>10

\* When no Prepare for d is left to come, everyone that is up has voted for d.
LEMMA EveryoneVoted ==
  ASSUME Alive(Primary), AllPunctual, QuorumStays, IndInv, IntakeInv, RoundInv,
         NEW d \in 1..Announced, d \in Digests,
         \A m \in net : m.digest = d => m.type = "Commit",
         NEW n \in Replicas \ crashed
  PROVE  d \in isCommitBroadcast[n]
<1>1. \A r \in Backups \ crashed : d \in messagePool[r]
  <2> TAKE r \in Backups \ crashed
  <2>1. r \in Listening
    BY DEF AllPunctual, Listening, Backups
  <2> QED
    BY <2>1 DEF IntakeInv, Delivered
<1>2. CASE n = Primary /\ d \in isReply[Primary]
  BY <1>2, PrimaryIsReplica DEF IndInv, Votes, OwnVotes
<1>3. CASE ~(n = Primary /\ d \in isReply[Primary])
  <2>1. ASSUME NEW r \in (Backups \ crashed) \ {n} PROVE r \in prePareConfirmCount[n][d]
    <3>1. ~VoteOnItsWay("Prepare", d, r, n)
      BY DEF VoteOnItsWay
    <3> QED
      BY <1>1, <1>3, <3>1 DEF RoundInv, PreparesReach
  <2>2. prePareConfirmCount[n][d] \in SUBSET Replicas
    BY DEF IndInv, TypeOK
  <2>3. Cardinality(prePareConfirmCount[n][d]) >= PrepareQuorum(n)
    BY <2>1, <2>2, LiveQuorum DEF RoundInv
  <2> QED
    BY <2>3 DEF RoundInv, QuorumsAct
<1> QED
  BY <1>2, <1>3

\* When nothing about d is left to come, everyone that is up has committed d.
LEMMA EveryoneCommitted ==
  ASSUME Alive(Primary), AllPunctual, QuorumStays, IndInv, IntakeInv, RoundInv,
         NEW d \in 1..Announced, d \in Digests,
         \A m \in net : m.digest # d,
         NEW n \in Replicas \ crashed
  PROVE  d \in isReply[n]
<1>1. \A r \in Replicas \ crashed : d \in isCommitBroadcast[r]
  BY EveryoneVoted
<1>2. CASE n = Primary /\ d \in isReply[Primary]
  BY <1>2
<1>3. CASE ~(n = Primary /\ d \in isReply[Primary])
  <2>1. ASSUME NEW r \in (Replicas \ crashed) \ {n} PROVE r \in commitConfirmCount[n][d]
    <3>1. ~VoteOnItsWay("Commit", d, r, n)
      BY DEF VoteOnItsWay
    <3> QED
      BY <1>1, <1>3, <3>1 DEF RoundInv, CommitsReach
  <2>2. commitConfirmCount[n][d] \in SUBSET Replicas
    BY DEF IndInv, TypeOK
  <2>3. Cardinality(commitConfirmCount[n][d]) >= TwoF
    BY <2>1, <2>2, LiveQuorum DEF RoundInv
  <2> QED
    BY <2>3 DEF RoundInv, QuorumsAct
<1> QED
  BY <1>2, <1>3

LEMMA RepliesAnnounced ==
  ASSUME IndInv, NEW n \in Replicas
  PROVE  isReply[n] \subseteq 1..Announced /\ isReply[n] \subseteq 1..Len(built)
<1>1. isReply[n] \subseteq 1..Announced
  BY DEF IndInv, Rounds, Votes, OwnVotes, Structure, Backups
<1>2. Announced \in Int /\ Len(built) \in Nat /\ Announced <= Len(built)
  BY BlocksTyped DEF IndInv
<1> QED
  BY <1>1, <1>2

\* A step that neither votes nor commits, and loses no vote between replicas that
\* stay up.
LEMMA RoundKept ==
  ASSUME IndInv, RoundInv, \E b : built' \in {built, Append(built, b)},
         UNCHANGED <<prePareConfirmCount, commitConfirmCount, isCommitBroadcast,
                     isReply, localMessagePool, tip>>,
         \A r \in Backups : messagePool'[r] = messagePool[r],
         crashed \subseteq crashed', FewCrashed',
         \A m \in net : m.type # "PrePrepare" /\ m.from \notin crashed' /\ m.to \notin crashed'
                         => m \in net'
  PROVE  RoundInv'
<1>1. \A r, n, d : \A type \in {"Prepare", "Commit"} :
        r \notin crashed' /\ n \notin crashed' /\ VoteOnItsWay(type, d, r, n)
          => VoteOnItsWay(type, d, r, n)'
  BY DEF VoteOnItsWay
<1>2. PreparesReach'
  <2> SUFFICES ASSUME NEW r \in Backups \ crashed', NEW n \in Replicas \ crashed',
                      NEW d \in messagePool[r], r # n
               PROVE  \/ VoteOnItsWay("Prepare", d, r, n)'
                      \/ r \in prePareConfirmCount[n][d]
                      \/ n = Primary /\ d \in isReply[Primary]
    BY DEF PreparesReach
  <2>1. \/ VoteOnItsWay("Prepare", d, r, n)
        \/ r \in prePareConfirmCount[n][d]
        \/ n = Primary /\ d \in isReply[Primary]
    BY DEF RoundInv, PreparesReach
  <2> QED
    BY <1>1, <2>1
<1>3. CommitsReach'
  <2> SUFFICES ASSUME NEW r \in Replicas \ crashed', NEW n \in Replicas \ crashed',
                      NEW d \in isCommitBroadcast[r], r # n
               PROVE  \/ VoteOnItsWay("Commit", d, r, n)'
                      \/ r \in commitConfirmCount[n][d]
                      \/ n = Primary /\ d \in isReply[Primary]
    BY DEF CommitsReach
  <2>1. \/ VoteOnItsWay("Commit", d, r, n)
        \/ r \in commitConfirmCount[n][d]
        \/ n = Primary /\ d \in isReply[Primary]
    BY DEF RoundInv, CommitsReach
  <2> QED
    BY <1>1, <2>1
<1>4. QuorumsAct' /\ InLogOrder'
  BY DEF RoundInv, QuorumsAct, InLogOrder
<1>5. PunctualTipIsNewest'
  <2>1. \A d \in 1..Len(built) : built'[d] = built[d]
    <3>1. built \in Seq(Block)
      BY DEF IndInv, TypeOK
    <3> QED
      BY <3>1
  <2>2. \A n \in Punctual : n \in Replicas
    BY TimelyAssumption DEF Replicas
  <2>3. \A n \in Punctual : \A d \in isReply[n] : built'[d] = built[d]
    BY <2>1, <2>2, RepliesAnnounced
  <2> QED
    BY <2>3 DEF RoundInv, PunctualTipIsNewest
<1> QED
  BY <1>2, <1>3, <1>4, <1>5 DEF RoundInv

LEMMA RoundPrePrepare ==
  ASSUME IndInv, RoundInv, NEW m \in net, HandlePrePrepare(m)
  PROVE  RoundInv'
<1> DEFINE n == m.to
           d == m.digest
           sent == Broadcast("Prepare", d, m.seq, n)
<1>1. /\ m.type = "PrePrepare"
      /\ messagePool' = [messagePool EXCEPT ![n] = @ \cup {d}]
      /\ net' = (net \ {m}) \cup sent
      /\ UNCHANGED <<built, prePareConfirmCount, commitConfirmCount, isCommitBroadcast,
                     isReply, localMessagePool, tip, crashed>>
  BY DEF HandlePrePrepare, packager, ledger, votes
<1>2. n \in Replicas
  BY MessageFacts
<1>3. \A r \in Backups : \A e \in messagePool'[r] : e \in messagePool[r] \/ (r = n /\ e = d)
  BY <1>1, <1>2 DEF IndInv, TypeOK, Backups
<1>4. \A r, q, e : \A type \in {"Prepare", "Commit"} :
        VoteOnItsWay(type, e, r, q) => VoteOnItsWay(type, e, r, q)'
  BY <1>1 DEF VoteOnItsWay
<1>5. \A q \in Replicas \ crashed : q # n => VoteOnItsWay("Prepare", d, n, q)'
  <2> TAKE q \in Replicas \ crashed
  <2> HAVE q # n
  <2> HIDE DEF n, d
  <2>1. PICK f \in Broadcast("Prepare", d, m.seq, n) :
          f.type = "Prepare" /\ f.digest = d /\ f.seq = m.seq /\ f.from = n /\ f.to = q
    BY BroadcastReaches
  <2>2. f \in net'
    BY <1>1, <2>1
  <2> QED
    BY <2>1, <2>2 DEF VoteOnItsWay
<1> HIDE DEF n, d, sent
<1>6. PreparesReach'
  <2> SUFFICES ASSUME NEW r \in Backups \ crashed, NEW q \in Replicas \ crashed,
                      NEW e \in messagePool'[r], r # q
               PROVE  \/ VoteOnItsWay("Prepare", e, r, q)'
                      \/ r \in prePareConfirmCount[q][e]
                      \/ q = Primary /\ e \in isReply[Primary]
    BY <1>1 DEF PreparesReach
  <2>1. CASE r = n /\ e = d
    BY <1>5, <2>1
  <2>2. CASE e \in messagePool[r]
    <3>1. \/ VoteOnItsWay("Prepare", e, r, q)
          \/ r \in prePareConfirmCount[q][e]
          \/ q = Primary /\ e \in isReply[Primary]
      BY <2>2 DEF RoundInv, PreparesReach
    <3> QED
      BY <1>4, <3>1
  <2> QED
    BY <1>3, <2>1, <2>2
<1>7. CommitsReach'
  <2> SUFFICES ASSUME NEW r \in Replicas \ crashed, NEW q \in Replicas \ crashed,
                      NEW e \in isCommitBroadcast[r], r # q
               PROVE  \/ VoteOnItsWay("Commit", e, r, q)'
                      \/ r \in commitConfirmCount[q][e]
                      \/ q = Primary /\ e \in isReply[Primary]
    BY <1>1 DEF CommitsReach
  <2>1. \/ VoteOnItsWay("Commit", e, r, q)
        \/ r \in commitConfirmCount[q][e]
        \/ q = Primary /\ e \in isReply[Primary]
    BY DEF RoundInv, CommitsReach
  <2> QED
    BY <1>4, <2>1
<1>8. FewCrashed' /\ QuorumsAct' /\ InLogOrder' /\ PunctualTipIsNewest'
  BY <1>1 DEF RoundInv, FewCrashed, QuorumsAct, InLogOrder, PunctualTipIsNewest
<1> QED
  BY <1>6, <1>7, <1>8 DEF RoundInv

LEMMA RoundPrepare ==
  ASSUME IndInv, RoundInv, NEW m \in net, HandlePrepare(m)
  PROVE  RoundInv'
<1> DEFINE n == m.to
           d == m.digest
           preparers == prePareConfirmCount[n][d] \cup {m.from}
           sent == Broadcast("Commit", d, m.seq, n)
<1>1. /\ m.type = "Prepare"
      /\ prePareConfirmCount' = [prePareConfirmCount EXCEPT ![n][d] = preparers]
      /\ \/ /\ isCommitBroadcast' = [isCommitBroadcast EXCEPT ![n] = @ \cup {d}]
            /\ net' = (net \ {m}) \cup sent
         \/ /\ net' = net \ {m}
            /\ isCommitBroadcast' = isCommitBroadcast
            /\ Cardinality(preparers) >= PrepareQuorum(n) => d \in isCommitBroadcast[n]
      /\ UNCHANGED <<built, messagePool, commitConfirmCount, isReply, localMessagePool, tip, crashed>>
  BY DEF HandlePrepare, ReadyToBroadcastCommit, packager, ledger, pools
<1>2. n \in Replicas /\ d \in Digests
  BY MessageFacts
<1>3. /\ prePareConfirmCount'[n][d] = preparers
      /\ \A q \in Replicas : \A e \in Digests :
           q # n \/ e # d => prePareConfirmCount'[q][e] = prePareConfirmCount[q][e]
  BY <1>1, <1>2 DEF IndInv, TypeOK
<1>4. \A q \in Replicas : \A e \in Digests : prePareConfirmCount[q][e] \subseteq prePareConfirmCount'[q][e]
  BY <1>3
<1>5. \A q \in Replicas :
        /\ isCommitBroadcast[q] \subseteq isCommitBroadcast'[q]
        /\ \A e \in isCommitBroadcast'[q] : e \in isCommitBroadcast[q] \/ (q = n /\ e = d)
  BY <1>1, <1>2 DEF IndInv, TypeOK
<1>6. \A f \in net : f # m => f \in net'
  BY <1>1
<1>7. \A q \in Replicas \ crashed : q # n =>
        d \in isCommitBroadcast[n] \/ d \notin isCommitBroadcast'[n] \/ VoteOnItsWay("Commit", d, n, q)'
  <2> TAKE q \in Replicas \ crashed
  <2> HAVE q # n
  <2> HIDE DEF n, d, preparers
  <2>1. PICK f \in Broadcast("Commit", d, m.seq, n) :
          f.type = "Commit" /\ f.digest = d /\ f.seq = m.seq /\ f.from = n /\ f.to = q
    BY BroadcastReaches
  <2>2. f \in net' \/ isCommitBroadcast' = isCommitBroadcast
    BY <1>1, <2>1
  <2> QED
    BY <2>1, <2>2 DEF VoteOnItsWay
<1> HIDE DEF n, d, preparers, sent
<1>8. PreparesReach'
  <2> SUFFICES ASSUME NEW r \in Backups \ crashed, NEW q \in Replicas \ crashed,
                      NEW e \in messagePool[r], r # q
               PROVE  \/ VoteOnItsWay("Prepare", e, r, q)'
                      \/ r \in prePareConfirmCount'[q][e]
                      \/ q = Primary /\ e \in isReply[Primary]
    BY <1>1 DEF PreparesReach
  <2>0. e \in Digests
    BY DEF IndInv, TypeOK, Backups
  <2>1. CASE VoteOnItsWay("Prepare", e, r, q)
    <3>1. PICK f \in net : f.type = "Prepare" /\ f.digest = e /\ f.from = r /\ f.to = q
      BY <2>1 DEF VoteOnItsWay
    <3>2. CASE f = m
      BY <1>3, <3>1, <3>2 DEF n, d, preparers
    <3>3. CASE f # m
      BY <1>6, <3>1, <3>3 DEF VoteOnItsWay
    <3> QED
      BY <3>2, <3>3
  <2>2. CASE r \in prePareConfirmCount[q][e]
    BY <1>4, <2>0, <2>2
  <2> QED
    BY <2>1, <2>2 DEF RoundInv, PreparesReach
<1>9. CommitsReach'
  <2> SUFFICES ASSUME NEW r \in Replicas \ crashed, NEW q \in Replicas \ crashed,
                      NEW e \in isCommitBroadcast'[r], r # q
               PROVE  \/ VoteOnItsWay("Commit", e, r, q)'
                      \/ r \in commitConfirmCount[q][e]
                      \/ q = Primary /\ e \in isReply[Primary]
    BY <1>1 DEF CommitsReach
  <2>1. CASE e \in isCommitBroadcast[r]
    <3>1. VoteOnItsWay("Commit", e, r, q) => VoteOnItsWay("Commit", e, r, q)'
      BY <1>1, <1>6 DEF VoteOnItsWay
    <3> QED
      BY <2>1, <3>1 DEF RoundInv, CommitsReach
  <2>2. CASE e \notin isCommitBroadcast[r]
    BY <1>5, <1>7, <2>2
  <2> QED
    BY <2>1, <2>2
<1>10. QuorumsAct'
  <2> SUFFICES ASSUME NEW q \in Replicas, NEW e \in Digests
               PROVE  /\ Cardinality(prePareConfirmCount'[q][e]) >= PrepareQuorum(q)
                           => e \in isCommitBroadcast'[q]
                      /\ commitConfirmCount[q][e] # {} => e \in isCommitBroadcast'[q]
                      /\ Cardinality(commitConfirmCount[q][e]) >= TwoF => e \in isReply[q]
    BY <1>1 DEF QuorumsAct
  <2>1. /\ Cardinality(prePareConfirmCount[q][e]) >= PrepareQuorum(q) => e \in isCommitBroadcast[q]
        /\ commitConfirmCount[q][e] # {} => e \in isCommitBroadcast[q]
        /\ Cardinality(commitConfirmCount[q][e]) >= TwoF => e \in isReply[q]
    BY DEF RoundInv, QuorumsAct
  <2>2. CASE q = n /\ e = d
    <3>1. Cardinality(preparers) >= PrepareQuorum(n) => d \in isCommitBroadcast'[n]
      BY <1>1, <1>2 DEF IndInv, TypeOK
    <3> QED
      BY <1>3, <1>5, <2>1, <2>2, <3>1
  <2>3. CASE ~(q = n /\ e = d)
    BY <1>3, <1>5, <2>1, <2>3
  <2> QED
    BY <2>2, <2>3
<1>11. FewCrashed' /\ InLogOrder' /\ PunctualTipIsNewest'
  BY <1>1 DEF RoundInv, FewCrashed, InLogOrder, PunctualTipIsNewest
<1> QED
  BY <1>8, <1>9, <1>10, <1>11 DEF RoundInv

\* What a Commit handler does to the logs: nothing, or replica m.to commits.
CommitsAt(n, d) ==
  /\ d \notin isReply[n] /\ d \in messagePool[n]
  /\ isReply' = [isReply EXCEPT ![n] = @ \cup {d}]
  /\ localMessagePool' = [localMessagePool EXCEPT ![n] = Append(@, d)]
  /\ tip' = [tip EXCEPT ![n][built[d].chain] = d]

LEMMA CommitHandlerLogs ==
  ASSUME IndInv, NEW m \in net, HandleCommit(m)
  PROVE  \/ UNCHANGED <<isReply, localMessagePool, tip>>
         \/ CommitsAt(m.to, m.digest)
<1> DEFINE n == m.to
           d == m.digest
           c == built[d].chain
           committers == commitConfirmCount[n][d] \cup {m.from}
<1>1. CASE ReadyToCommit(n, d, committers)
  <2>1. CommitBlock(n, c, d)
    BY <1>1 DEF HandleCommit
  <2>2. d \in messagePool[n]
    BY <1>1, CommittedIsPooled DEF IndInv
  <2> QED
    BY <1>1, <2>1, <2>2 DEF CommitBlock, PooledBlock, ReadyToCommit, CommitsAt
<1>2. CASE ~ReadyToCommit(n, d, committers)
  BY <1>2 DEF HandleCommit, ledger
<1> QED
  BY <1>1, <1>2

\* With all that comes before it committed, a block follows the log.
LEMMA CommitsNext ==
  ASSUME IndInv, InLogOrder, NEW m \in net, CommitsAt(m.to, m.digest),
         1..(m.digest - 1) \subseteq isReply[m.to]
  PROVE  m.digest = Len(localMessagePool[m.to]) + 1
<1> DEFINE n == m.to
           d == m.digest
           k == Len(localMessagePool[n])
<1>1. n \in Replicas /\ d \in Nat /\ d >= 1
  BY MessageFacts
<1>2. k \in Nat /\ isReply[n] = 1..k
  BY <1>1 DEF InLogOrder, IndInv, TypeOK
<1>3. d \notin 1..k
  BY <1>2 DEF CommitsAt
<1>4. 1..(d - 1) \subseteq 1..k
  BY <1>2
<1> HIDE DEF k, d
<1>5. d > k /\ d - 1 <= k
  BY <1>1, <1>2, <1>3, <1>4
<1> QED
  BY <1>1, <1>2, <1>5 DEF d, k

LEMMA LogsInOrder ==
  ASSUME AllPunctual, IndInv, InLogOrder, PunctualTipIsNewest, NEW m \in net, HandleCommit(m),
         1..(m.digest - 1) \subseteq isReply[m.to]
  PROVE  InLogOrder' /\ PunctualTipIsNewest'
<1> DEFINE n == m.to
           d == m.digest
           c == built[d].chain
<1>1. built' = built /\ n \in Replicas /\ d \in Nat /\ c \in Chains /\ d \in Digests
  BY MessageFacts DEF HandleCommit
<1>2. CASE UNCHANGED <<isReply, localMessagePool, tip>>
  BY <1>1, <1>2 DEF InLogOrder, PunctualTipIsNewest
<1>3. CASE CommitsAt(n, d)
  <2>1. d = Len(localMessagePool[n]) + 1
    BY <1>3, CommitsNext
  <2>2. /\ localMessagePool[n] \in Seq(Digests \cup {Genesis}) /\ isReply[n] = 1..Len(localMessagePool[n])
        /\ \A i \in 1..Len(localMessagePool[n]) : localMessagePool[n][i] = i
    BY <1>1 DEF InLogOrder, IndInv, TypeOK
  <2>3. /\ isReply'[n] = isReply[n] \cup {d}
        /\ localMessagePool'[n] = Append(localMessagePool[n], d)
        /\ \A q \in Replicas : q # n => /\ isReply'[q] = isReply[q]
                                       /\ localMessagePool'[q] = localMessagePool[q]
                                       /\ tip'[q] = tip[q]
        /\ tip'[n][c] = d /\ \A b \in Chains : b # c => tip'[n][b] = tip[n][b]
    BY <1>1, <1>3 DEF CommitsAt, IndInv, TypeOK
  <2> HIDE DEF n, d, c
  <2>4. /\ isReply'[n] = 1..Len(localMessagePool'[n])
        /\ \A i \in 1..Len(localMessagePool'[n]) : localMessagePool'[n][i] = i
    BY <1>1, <2>1, <2>2, <2>3
  <2>5. InLogOrder'
    BY <2>3, <2>4 DEF InLogOrder
  <2>6. ASSUME NEW q \in Punctual, NEW e \in isReply'[q]
        PROVE  tip'[q][built[e].chain] >= e
    <3>1. q \in Replicas
      BY DEF AllPunctual
    <3>2. CASE q # n
      BY <2>3, <2>6, <3>1, <3>2 DEF PunctualTipIsNewest
    <3>3. CASE q = n
      <4>1. e \in 1..d
        BY <1>1, <2>1, <2>2, <2>3, <2>6, <3>3
      <4>2. CASE built[e].chain = c
        BY <1>1, <2>3, <3>3, <4>1, <4>2
      <4>3. CASE built[e].chain # c
        <5>1. e \in isReply[n]
          BY <2>3, <2>6, <3>3, <4>3 DEF c
        <5>2. built[e].chain \in Chains
          BY <1>1, <5>1, RepliesAnnounced, BlocksTyped DEF IndInv
        <5> QED
          BY <2>3, <3>3, <4>3, <5>1, <5>2 DEF PunctualTipIsNewest
      <4> QED
        BY <4>2, <4>3
    <3> QED
      BY <3>2, <3>3
  <2> QED
    BY <1>1, <2>5, <2>6 DEF PunctualTipIsNewest
<1> QED
  BY <1>2, <1>3, CommitHandlerLogs

\* In time, all that comes before it is: nothing about it is left to come.
LEMMA EarlierCommitted ==
  ASSUME Alive(Primary), AllPunctual, QuorumStays, IndInv, IntakeInv, OrderInv, RoundInv,
         NEW m \in net, Alive(m.to), InTime(m)
  PROVE  1..(m.digest - 1) \subseteq isReply[m.to]
<1> DEFINE n == m.to
           d == m.digest
<1>1. /\ n \in Replicas \ crashed /\ d \in 1..Announced /\ d \in Nat /\ d <= MaxBlocks
      /\ Announced \in Int
  BY MessageFacts, BlocksTyped, MaxBlocksNat DEF Alive, Digests, IndInv
<1>2. ASSUME NEW e \in 1..(d - 1) PROVE e \in isReply[n]
  <2>1. e \in 1..Announced /\ e \in Digests /\ e < d
    BY <1>1, MaxBlocksNat DEF Digests
  <2>2. \A f \in net : d <= f.digest /\ f.digest \in Nat
    BY NothingBefore, MessageFacts
  <2>3. \A f \in net : f.digest # e
    BY <1>1, <2>1, <2>2
  <2> QED
    BY <1>1, <2>1, <2>3, EveryoneCommitted
<1> QED
  BY <1>2

LEMMA RoundCommit ==
  ASSUME Alive(Primary), AllPunctual, QuorumStays, IndInv, IntakeInv, OrderInv, RoundInv,
         NEW m \in net, Alive(m.to), InTime(m), HandleCommit(m)
  PROVE  RoundInv'
<1> DEFINE n == m.to
           d == m.digest
           c == built[d].chain
           committers == commitConfirmCount[n][d] \cup {m.from}
           gone == Pruned(n, c, height'[n][c])
<1>1. /\ m.type = "Commit" /\ net' = net \ {m}
      /\ UNCHANGED <<built, stage, isCommitBroadcast, crashed>>
      /\ Prune(n, gone, committers, d)
  BY DEF HandleCommit
<1>2. n \in Replicas \ crashed /\ d \in Digests /\ d \in 1..Announced
  BY MessageFacts DEF Alive
<1>3. n # Primary => gone = {}
  BY DEF Pruned
<1>4. gone \subseteq isReply'[Primary]
  BY PrunedIsCommitted DEF IndInv
<1>5. \A q \in Replicas : isReply[q] \subseteq isReply'[q]
  <2>1. isReply \in [Replicas -> SUBSET Digests]
    BY DEF IndInv, TypeOK
  <2>2. isReply' = isReply \/ isReply' = [isReply EXCEPT ![n] = @ \cup {d}]
    BY CommitHandlerLogs DEF CommitsAt
  <2> HIDE DEF n, d
  <2> QED
    BY <1>2, <2>1, <2>2
<1>6. Cardinality(committers) >= TwoF /\ d \in isCommitBroadcast[n] => d \in isReply'[n]
  <2>1. CASE ReadyToCommit(n, d, committers)
    <3>1. CommitBlock(n, c, d)
      BY <2>1 DEF HandleCommit
    <3> QED
      BY <1>2, <3>1 DEF CommitBlock, IndInv, TypeOK
  <2>2. CASE ~ReadyToCommit(n, d, committers)
    BY <1>2, <1>5, <2>2 DEF ReadyToCommit
  <2> QED
    BY <2>1, <2>2
<1>7. d \in isCommitBroadcast[n]
  <2>1. \A f \in net : f.digest = d => f.type = "Commit"
    BY <1>1, NothingBefore
  <2> QED
    BY <1>2, <2>1, EveryoneVoted
<1> HIDE DEF gone, committers
<1>8. /\ \A q \in Replicas : \A e \in Digests :
           q # n => /\ prePareConfirmCount'[q][e] = prePareConfirmCount[q][e]
                    /\ commitConfirmCount'[q][e] = commitConfirmCount[q][e]
      /\ \A e \in Digests :
           /\ prePareConfirmCount'[n][e] = IF e \in gone THEN {} ELSE prePareConfirmCount[n][e]
           /\ commitConfirmCount'[n][e] =
                IF e \in gone THEN {} ELSE IF e = d THEN committers ELSE commitConfirmCount[n][e]
      /\ \A r \in Backups : messagePool'[r] = messagePool[r]
  BY <1>1, <1>2, <1>3 DEF Prune, IndInv, TypeOK, Backups
<1> HIDE DEF n, d
<1>9. PreparesReach'
  <2> SUFFICES ASSUME NEW r \in Backups \ crashed, NEW q \in Replicas \ crashed,
                      NEW e \in messagePool[r], r # q
               PROVE  \/ VoteOnItsWay("Prepare", e, r, q)'
                      \/ r \in prePareConfirmCount'[q][e]
                      \/ q = Primary /\ e \in isReply'[Primary]
    BY <1>1, <1>8 DEF PreparesReach
  <2>0. e \in Digests
    BY DEF IndInv, TypeOK, Backups
  <2>1. CASE VoteOnItsWay("Prepare", e, r, q)
    BY <1>1, <2>1 DEF VoteOnItsWay
  <2>2. CASE r \in prePareConfirmCount[q][e]
    BY <1>3, <1>4, <1>8, <2>0, <2>2
  <2>3. CASE q = Primary /\ e \in isReply[Primary]
    BY <1>5, <2>3
  <2> QED
    BY <2>1, <2>2, <2>3 DEF RoundInv, PreparesReach
<1>10. CommitsReach'
  <2> SUFFICES ASSUME NEW r \in Replicas \ crashed, NEW q \in Replicas \ crashed,
                      NEW e \in isCommitBroadcast[r], r # q
               PROVE  \/ VoteOnItsWay("Commit", e, r, q)'
                      \/ r \in commitConfirmCount'[q][e]
                      \/ q = Primary /\ e \in isReply'[Primary]
    BY <1>1 DEF CommitsReach
  <2>0. e \in Digests
    BY DEF IndInv, TypeOK
  <2>1. CASE VoteOnItsWay("Commit", e, r, q)
    <3>1. PICK f \in net : f.type = "Commit" /\ f.digest = e /\ f.from = r /\ f.to = q
      BY <2>1 DEF VoteOnItsWay
    <3>2. CASE f = m
      <4>1. q = n /\ e = d /\ r \in committers
        BY <3>1, <3>2 DEF n, d, committers
      <4> QED
        BY <1>3, <1>4, <1>8, <2>0, <4>1
    <3>3. CASE f # m
      BY <1>1, <3>1, <3>3 DEF VoteOnItsWay
    <3> QED
      BY <3>2, <3>3
  <2>2. CASE r \in commitConfirmCount[q][e]
    <3>1. commitConfirmCount[n][d] \subseteq committers
      BY DEF committers
    <3> QED
      BY <1>3, <1>4, <1>8, <2>0, <2>2, <3>1
  <2>3. CASE q = Primary /\ e \in isReply[Primary]
    BY <1>5, <2>3
  <2> QED
    BY <2>1, <2>2, <2>3 DEF RoundInv, CommitsReach
<1>11. QuorumsAct'
  <2> SUFFICES ASSUME NEW q \in Replicas, NEW e \in Digests
               PROVE  /\ Cardinality(prePareConfirmCount'[q][e]) >= PrepareQuorum(q)
                           => e \in isCommitBroadcast[q]
                      /\ commitConfirmCount'[q][e] # {} => e \in isCommitBroadcast[q]
                      /\ Cardinality(commitConfirmCount'[q][e]) >= TwoF => e \in isReply'[q]
    BY <1>1 DEF QuorumsAct
  <2>1. /\ Cardinality(prePareConfirmCount[q][e]) >= PrepareQuorum(q) => e \in isCommitBroadcast[q]
        /\ commitConfirmCount[q][e] # {} => e \in isCommitBroadcast[q]
        /\ Cardinality(commitConfirmCount[q][e]) >= TwoF => e \in isReply[q]
    BY DEF RoundInv, QuorumsAct
  <2>2. CASE q # n
    BY <1>5, <1>8, <2>1, <2>2
  <2>3. CASE q = n /\ e \in gone
    <3>1. Cardinality({}) = 0
      BY FS_EmptySet
    <3>2. ~(0 >= PrepareQuorum(q)) /\ ~(0 >= TwoF)
      BY PrepareQuorumPositive, TwoFInt DEF QuorumStays
    <3> QED
      BY <1>8, <2>3, <3>1, <3>2
  <2>4. CASE q = n /\ e \notin gone /\ e = d
    BY <1>6, <1>7, <1>8, <2>1, <2>4 DEF n, d
  <2>5. CASE q = n /\ e \notin gone /\ e # d
    BY <1>5, <1>8, <2>1, <2>5
  <2> QED
    BY <2>2, <2>3, <2>4, <2>5
<1>12. FewCrashed' /\ InLogOrder' /\ PunctualTipIsNewest'
  BY <1>1, LogsInOrder, EarlierCommitted DEF RoundInv, FewCrashed
<1> QED
  BY <1>9, <1>10, <1>11, <1>12 DEF RoundInv

LEMMA RoundStep ==
  ASSUME Alive(Primary), AllPunctual, QuorumStays, IndInv, IntakeInv, OrderInv, RoundInv,
         OrderInv', [TimelyNext]_vars
  PROVE  RoundInv'
<1> USE DEF packager, ledger, votes, pools
<1>1. ASSUME NEW c \in Chains, PackBlock(c) PROVE RoundInv'
  BY <1>1, RoundKept DEF PackBlock, RoundInv, FewCrashed
<1>2. CASE AwaitTurn
  BY <1>2, RoundKept DEF AwaitTurn, RoundInv, FewCrashed
<1>3. CASE HandleClientRequest
  <2>1. \A r \in Backups : messagePool'[r] = messagePool[r]
    BY <1>3 DEF HandleClientRequest, IndInv, TypeOK, Backups
  <2> QED
    BY <1>3, <2>1, RoundKept DEF HandleClientRequest, RoundInv, FewCrashed
<1>4. ASSUME NEW m \in net, RefusePrepare(m) PROVE FALSE
  BY <1>4, MessageFacts DEF RefusePrepare, OrderInv
<1>5. ASSUME NEW n \in MayCrash, Crash(n) PROVE RoundInv'
  <2>1. crashed' = crashed \cup {n}
    BY <1>5 DEF Crash
  <2>2. FewCrashed'
    BY FewStayFew DEF RoundInv
  <2>3. PICK lost \in SUBSET {m \in net : m.from = n} : net' = {m \in net \ lost : m.to # n}
    BY <1>5 DEF Crash
  <2>4. \A m \in net : m.from \notin crashed' /\ m.to \notin crashed' => m \in net'
    BY <2>1, <2>3
  <2> QED
    BY <1>5, <2>1, <2>2, <2>4, RoundKept DEF Crash
<1>6. CASE UNCHANGED vars
  BY <1>6, RoundKept DEF vars, RoundInv, FewCrashed
<1> QED
  BY <1>1, <1>2, <1>3, <1>4, <1>5, <1>6, TimelyCases, RoundPrePrepare, RoundPrepare, RoundCommit

LEMMA RoundInit ==
  ASSUME QuorumStays, Init
  PROVE  RoundInv
<1>1. Cardinality({}) = 0
  BY FS_EmptySet
<1>2. FewCrashed
  BY <1>1, ConsensusAssumption DEF Init, FewCrashed
<1>3. PreparesReach /\ CommitsReach
  BY DEF Init, PreparesReach, CommitsReach, Backups
<1>4. QuorumsAct
  <2>1. \A n \in Replicas : ~(0 >= PrepareQuorum(n)) /\ ~(0 >= TwoF)
    BY PrepareQuorumPositive, TwoFInt DEF QuorumStays
  <2> QED
    BY <1>1, <2>1 DEF Init, QuorumsAct
<1>5. InLogOrder
  BY DEF Init, InLogOrder
<1>6. PunctualTipIsNewest
  BY TimelyAssumption DEF Init, PunctualTipIsNewest, Replicas
<1> QED
  BY <1>2, <1>3, <1>4, <1>5, <1>6 DEF RoundInv

LEMMA RoundsWhileUp ==
  AllPunctual /\ QuorumStays => (TimelySpec => [](Alive(Primary) => RoundInv))
<1> SUFFICES ASSUME AllPunctual, QuorumStays
             PROVE  TimelySpec => [](Alive(Primary) => RoundInv)
  OBVIOUS
<1>1. Init => (Alive(Primary) => RoundInv)
  BY RoundInit
<1>2. /\ IndInv /\ (Alive(Primary) => IntakeInv) /\ (Alive(Primary) => OrderInv)
      /\ (Alive(Primary) => OrderInv)' /\ (Alive(Primary) => RoundInv) /\ [TimelyNext]_vars
      => (Alive(Primary) => RoundInv)'
  <2> SUFFICES ASSUME IndInv, Alive(Primary) => IntakeInv, Alive(Primary) => OrderInv,
                      (Alive(Primary) => OrderInv)', Alive(Primary) => RoundInv,
                      [TimelyNext]_vars, Alive(Primary)'
               PROVE  RoundInv'
    OBVIOUS
  <2>1. Alive(Primary)
    BY CrashedStay DEF Alive
  <2> QED
    BY <2>1, RoundStep
<1> QED
  BY <1>1, <1>2, IntakeCorrect, OrderCorrect, TimelyInvariants, PTL DEF TimelySpec

----------------------------------------------------------------------------
(* Rounds after the primary stopped: what it committed had the votes of    *)
(* everyone that is up, and they still reach everyone.  The last block is  *)
(* committed by the replicas its votes suffice for, after the blocks       *)
(* before it.                                                              *)

DecidedIsVoted ==
  \A e \in isReply[Primary] : \A n \in Replicas \ crashed : e \in isCommitBroadcast[n]

DecidedReaches ==
  \A e \in isReply[Primary] : \A r \in Replicas \ crashed : \A n \in Replicas \ crashed :
    r # n => VoteOnItsWay("Commit", e, r, n) \/ r \in commitConfirmCount[n][e]

DecidedActs ==
  \A e \in isReply[Primary] : \A n \in Replicas \ crashed :
    Cardinality(commitConfirmCount[n][e]) >= TwoF => e \in isReply[n]

AfterInv ==
  /\ FewCrashed /\ DecidedIsVoted /\ DecidedReaches /\ DecidedActs
  /\ InLogOrder /\ PunctualTipIsNewest

\* One of those that may stop has: the replicas that are up but for one are a
\* quorum of Commits to it.
LEMMA AfterQuorum ==
  ASSUME ~Alive(Primary), QuorumStays, IndInv, FewCrashed, NEW n \in Replicas \ crashed,
         NEW S \in SUBSET Replicas, (Replicas \ crashed) \ {n} \subseteq S
  PROVE  Cardinality(S) >= TwoF
<1> DEFINE up == Replicas \ crashed
           down == crashed \ {Primary}
<1>1. /\ IsFiniteSet(Replicas) /\ IsFiniteSet(Backups) /\ IsFiniteSet(crashed)
      /\ Primary \in crashed /\ up = Backups \ crashed
  <2>1. crashed \subseteq Replicas
    BY ConsensusAssumption DEF IndInv, TypeOK, Replicas
  <2> QED
    BY <2>1, ReplicasFinite, FS_Subset DEF Alive, Backups
<1>2. /\ IsFiniteSet(down) /\ Cardinality(down) = Cardinality(crashed) - 1
      /\ Cardinality(down) \in Nat
  BY <1>1, FS_RemoveElement, FS_CardinalityType
<1>3. Cardinality(Backups \cap crashed) <= Cardinality(down) /\ Cardinality(Backups \cap crashed) \in Nat
  <2>1. Backups \cap crashed \in SUBSET down
    BY DEF Backups
  <2> HIDE DEF down
  <2> QED
    BY <1>2, <2>1, FS_Subset, FS_CardinalityType
<1>4. /\ IsFiniteSet(up) /\ Cardinality(up) = Cardinality(Backups) - Cardinality(Backups \cap crashed)
  BY <1>1, FS_Difference
<1>5. Cardinality(Backups) \in Nat /\ Cardinality(crashed) \in Nat /\ Cardinality(up) \in Nat
  BY <1>1, <1>4, FS_CardinalityType
<1> HIDE DEF up, down
<1>6. Cardinality(up) >= TwoF + 1
  BY <1>2, <1>3, <1>4, <1>5, TwoFInt, ConsensusAssumption DEF QuorumStays, FewCrashed
<1>7. Cardinality(up \ {n}) = Cardinality(up) - 1
  BY <1>4, FS_RemoveElement DEF up
<1>8. up \ {n} \in SUBSET S /\ IsFiniteSet(S)
  BY <1>1, FS_Subset DEF up
<1>9. Cardinality(up \ {n}) <= Cardinality(S) /\ Cardinality(S) \in Nat
  BY <1>8, FS_Subset, FS_CardinalityType
<1> QED
  BY <1>5, <1>6, <1>7, <1>9, TwoFInt

\* A Commit handled in time finds all that comes before its block committed: the
\* primary had committed that, so everyone that is up voted for it, and no vote
\* is left to come.
LEMMA AfterEarlier ==
  ASSUME ~Alive(Primary), AllPunctual, QuorumStays, IndInv, AfterInv,
         NEW m \in net, Alive(m.to), CanLock(m.to), InTime(m)
  PROVE  1..(m.digest - 1) \subseteq isReply[m.to]
<1> DEFINE n == m.to
<1> SUFFICES ASSUME NEW e \in 1..(m.digest - 1) PROVE e \in isReply[n]
  OBVIOUS
<1>1. n \in Replicas \ crashed /\ n \in Punctual \ (crashed \cup leaked) /\ m.digest \in Nat
  BY MessageFacts DEF Alive, CanLock, AllPunctual
<1>2. e \in isReply[Primary]
  BY RoundsImplyEarlierDecided DEF IndInv, EarlierRoundsDecided
<1>3. e < m.digest
  BY <1>1
<1>4. ASSUME NEW r \in (Replicas \ crashed) \ {n} PROVE r \in commitConfirmCount[n][e]
  <2>1. ASSUME NEW f \in net, f.digest = e, f.to = n PROVE FALSE
    BY <1>1, <1>3, <2>1 DEF InTime, Prompt, Before
  <2>2. ~VoteOnItsWay("Commit", e, r, n)
    BY <2>1 DEF VoteOnItsWay
  <2> QED
    BY <1>1, <1>2, <2>2 DEF AfterInv, DecidedReaches
<1>5. commitConfirmCount[n][e] \in SUBSET Replicas
  <2>1. e \in Digests
    BY <1>2, PrimaryIsReplica DEF IndInv, TypeOK
  <2> QED
    BY <1>1, <2>1 DEF IndInv, TypeOK
<1>6. Cardinality(commitConfirmCount[n][e]) >= TwoF
  BY <1>1, <1>4, <1>5, AfterQuorum DEF AfterInv
<1> QED
  BY <1>1, <1>2, <1>6 DEF AfterInv, DecidedActs

\* A step that commits nothing and loses no Commit between replicas that stay up.
LEMMA AfterKept ==
  ASSUME IndInv, AfterInv, FewCrashed', crashed \subseteq crashed',
         UNCHANGED <<built, commitConfirmCount, isReply, localMessagePool, tip>>,
         \A n \in Replicas : isCommitBroadcast[n] \subseteq isCommitBroadcast'[n],
         \A m \in net : m.type = "Commit" /\ m.from \notin crashed' /\ m.to \notin crashed'
                         => m \in net'
  PROVE  AfterInv'
<1>1. DecidedIsVoted'
  BY DEF AfterInv, DecidedIsVoted
<1>2. \A r, n, e : r \notin crashed' /\ n \notin crashed' /\ VoteOnItsWay("Commit", e, r, n)
                     => VoteOnItsWay("Commit", e, r, n)'
  BY DEF VoteOnItsWay
<1>3. DecidedReaches'
  <2> SUFFICES ASSUME NEW e \in isReply[Primary], NEW r \in Replicas \ crashed',
                      NEW n \in Replicas \ crashed', r # n
               PROVE  VoteOnItsWay("Commit", e, r, n)' \/ r \in commitConfirmCount[n][e]
    BY DEF DecidedReaches
  <2>1. VoteOnItsWay("Commit", e, r, n) \/ r \in commitConfirmCount[n][e]
    BY DEF AfterInv, DecidedReaches
  <2> QED
    BY <1>2, <2>1
<1>4. DecidedActs' /\ InLogOrder' /\ PunctualTipIsNewest'
  BY DEF AfterInv, DecidedActs, InLogOrder, PunctualTipIsNewest
<1> QED
  BY <1>1, <1>3, <1>4 DEF AfterInv

LEMMA AfterCommit ==
  ASSUME ~Alive(Primary), AllPunctual, QuorumStays, IndInv, AfterInv,
         NEW m \in net, Alive(m.to), InTime(m), HandleCommit(m)
  PROVE  AfterInv'
<1> DEFINE n == m.to
           d == m.digest
           c == built[d].chain
           committers == commitConfirmCount[n][d] \cup {m.from}
           gone == Pruned(n, c, height'[n][c])
<1>1. /\ m.type = "Commit" /\ CanLock(n) /\ net' = net \ {m}
      /\ UNCHANGED <<built, isCommitBroadcast, crashed>>
      /\ Prune(n, gone, committers, d)
  BY DEF HandleCommit
<1>2. n \in Replicas \ crashed /\ d \in Digests /\ n # Primary
  BY MessageFacts DEF Alive
<1>3. gone = {}
  BY <1>2 DEF Pruned
<1> HIDE DEF gone
<1>4. /\ commitConfirmCount'[n][d] = committers
      /\ \A q \in Replicas : \A e \in Digests :
           q # n \/ e # d => commitConfirmCount'[q][e] = commitConfirmCount[q][e]
  BY <1>1, <1>2, <1>3 DEF Prune, IndInv, TypeOK
<1>5. /\ isReply'[Primary] = isReply[Primary]
      /\ \A q \in Replicas : isReply[q] \subseteq isReply'[q]
  <2>1. isReply \in [Replicas -> SUBSET Digests]
    BY DEF IndInv, TypeOK
  <2>2. isReply' = isReply \/ isReply' = [isReply EXCEPT ![n] = @ \cup {d}]
    BY CommitHandlerLogs DEF CommitsAt
  <2> HIDE DEF n, d
  <2> QED
    BY <1>2, <2>1, <2>2, PrimaryIsReplica
<1>6. isReply[Primary] \subseteq Digests
  BY PrimaryIsReplica DEF IndInv, TypeOK
<1>7. DecidedIsVoted'
  BY <1>1, <1>5 DEF AfterInv, DecidedIsVoted
<1>8. DecidedReaches'
  <2> SUFFICES ASSUME NEW e \in isReply[Primary], NEW r \in Replicas \ crashed,
                      NEW q \in Replicas \ crashed, r # q
               PROVE  VoteOnItsWay("Commit", e, r, q)' \/ r \in commitConfirmCount'[q][e]
    BY <1>1, <1>5 DEF DecidedReaches
  <2>1. CASE VoteOnItsWay("Commit", e, r, q)
    <3>1. PICK f \in net : f.type = "Commit" /\ f.digest = e /\ f.from = r /\ f.to = q
      BY <2>1 DEF VoteOnItsWay
    <3>2. CASE f = m
      BY <1>4, <3>1, <3>2
    <3>3. CASE f # m
      BY <1>1, <3>1, <3>3 DEF VoteOnItsWay
    <3> QED
      BY <3>2, <3>3
  <2>2. CASE r \in commitConfirmCount[q][e]
    BY <1>4, <1>6, <2>2
  <2> QED
    BY <2>1, <2>2 DEF AfterInv, DecidedReaches
<1>9. DecidedActs'
  <2> SUFFICES ASSUME NEW e \in isReply[Primary], NEW q \in Replicas \ crashed,
                      Cardinality(commitConfirmCount'[q][e]) >= TwoF
               PROVE  e \in isReply'[q]
    BY <1>1, <1>5 DEF DecidedActs
  <2>1. CASE q = n /\ e = d
    <3>1. d \in isCommitBroadcast[n] /\ Cardinality(committers) >= TwoF
      BY <1>2, <1>4, <2>1 DEF AfterInv, DecidedIsVoted
    <3>2. CASE ReadyToCommit(n, d, committers)
      <4>1. CommitBlock(n, c, d)
        BY <3>2 DEF HandleCommit
      <4> QED
        BY <1>2, <2>1, <4>1 DEF CommitBlock, IndInv, TypeOK
    <3>3. CASE ~ReadyToCommit(n, d, committers)
      BY <1>2, <1>5, <2>1, <3>1, <3>3 DEF ReadyToCommit
    <3> QED
      BY <3>2, <3>3
  <2>2. CASE ~(q = n /\ e = d)
    <3>1. Cardinality(commitConfirmCount[q][e]) >= TwoF
      BY <1>4, <1>6, <2>2
    <3> QED
      BY <1>5, <3>1 DEF AfterInv, DecidedActs
  <2> QED
    BY <2>1, <2>2
<1>10. FewCrashed' /\ InLogOrder' /\ PunctualTipIsNewest'
  BY <1>1, LogsInOrder, AfterEarlier DEF AfterInv, FewCrashed
<1> QED
  BY <1>7, <1>8, <1>9, <1>10 DEF AfterInv

LEMMA AfterStep ==
  ASSUME ~Alive(Primary), AllPunctual, QuorumStays, IndInv, AfterInv, [TimelyNext]_vars
  PROVE  AfterInv'
<1> USE FewStayFew, CrashedStay DEF packager, ledger, votes, pools
<1>0. FewCrashed' /\ crashed \subseteq crashed'
  BY DEF AfterInv
<1>1. ASSUME NEW m \in net, HandlePrePrepare(m) PROVE AfterInv'
  BY <1>0, <1>1, AfterKept DEF HandlePrePrepare
<1>2. ASSUME NEW m \in net, RefusePrepare(m) PROVE AfterInv'
  BY <1>0, <1>2, AfterKept DEF RefusePrepare
<1>3. ASSUME NEW m \in net, HandlePrepare(m) PROVE AfterInv'
  <2>1. /\ m.type = "Prepare" /\ net \ {m} \subseteq net'
        /\ UNCHANGED <<built, commitConfirmCount, isReply, localMessagePool, tip>>
        /\ isCommitBroadcast' \in {isCommitBroadcast,
                                   [isCommitBroadcast EXCEPT ![m.to] = @ \cup {m.digest}]}
    BY <1>3 DEF HandlePrepare
  <2>2. \A n \in Replicas : isCommitBroadcast[n] \subseteq isCommitBroadcast'[n]
    BY <2>1 DEF IndInv, TypeOK
  <2>3. \A f \in net : f.type = "Commit" => f \in net'
    BY <2>1
  <2> QED
    BY <1>0, <2>1, <2>2, <2>3, AfterKept
<1>4. ASSUME NEW n \in MayCrash, Crash(n) PROVE AfterInv'
  <2>1. crashed' = crashed \cup {n}
    BY <1>4 DEF Crash
  <2>2. PICK lost \in SUBSET {m \in net : m.from = n} : net' = {m \in net \ lost : m.to # n}
    BY <1>4 DEF Crash
  <2>3. \A m \in net : m.from \notin crashed' /\ m.to \notin crashed' => m \in net'
    BY <2>1, <2>2
  <2> QED
    BY <1>0, <1>4, <2>3, AfterKept DEF Crash
<1>5. CASE UNCHANGED vars
  BY <1>0, <1>5, AfterKept DEF vars
<1> QED
  BY <1>1, <1>2, <1>3, <1>4, <1>5, TimelyCases, AfterCommit
  DEF PackBlock, AwaitTurn, HandleClientRequest

\* When the primary stops, the rounds it completed are over: only Commits of them
\* are in flight, so everyone that is up has voted for them.
LEMMA AfterStart ==
  ASSUME Alive(Primary), ~Alive(Primary)', AllPunctual, QuorumStays, IndInv, IntakeInv,
         OrderInv, RoundInv, [TimelyNext]_vars
  PROVE  AfterInv'
<1>1. PICK p \in MayCrash : Crash(p)
  BY TimelyCases
  DEF PackBlock, AwaitTurn, HandleClientRequest, HandlePrePrepare, RefusePrepare,
      HandlePrepare, HandleCommit, vars, Alive
<1>2. /\ crashed' = crashed \cup {p} /\ p = Primary
      /\ UNCHANGED <<built, commitConfirmCount, isCommitBroadcast, isReply, localMessagePool, tip>>
  BY <1>1 DEF Crash, packager, ledger, votes, Alive
<1>3. PICK lost \in SUBSET {m \in net : m.from = p} : net' = {m \in net \ lost : m.to # p}
  BY <1>1 DEF Crash
<1>4. \A m \in net : m.from \notin crashed' /\ m.to \notin crashed' => m \in net'
  BY <1>2, <1>3
<1>5. isReply[Primary] \subseteq 1..Announced /\ isReply[Primary] \subseteq Digests
  BY PrimaryIsReplica DEF IndInv, Rounds, TypeOK
<1>6. DecidedIsVoted
  <2> SUFFICES ASSUME NEW e \in isReply[Primary], NEW n \in Replicas \ crashed
               PROVE  e \in isCommitBroadcast[n]
    BY DEF DecidedIsVoted
  <2>1. \A m \in net : m.digest = e => m.type = "Commit"
    BY <1>5, MessageFacts DEF OrderInv, Settled
  <2> QED
    BY <1>5, <2>1, EveryoneVoted
<1>7. DecidedIsVoted'
  BY <1>2, <1>6 DEF DecidedIsVoted
<1>8. \A r, n, e : r \notin crashed' /\ n \notin crashed' /\ VoteOnItsWay("Commit", e, r, n)
                     => VoteOnItsWay("Commit", e, r, n)'
  BY <1>4 DEF VoteOnItsWay
<1>9. DecidedReaches'
  <2> SUFFICES ASSUME NEW e \in isReply[Primary], NEW r \in Replicas \ crashed',
                      NEW n \in Replicas \ crashed', r # n
               PROVE  VoteOnItsWay("Commit", e, r, n)' \/ r \in commitConfirmCount[n][e]
    BY <1>2 DEF DecidedReaches
  <2>1. r \in Replicas \ crashed /\ n \in Replicas \ crashed /\ n # Primary
    BY <1>2
  <2>2. e \in isCommitBroadcast[r]
    BY <1>6, <2>1 DEF DecidedIsVoted
  <2>3. VoteOnItsWay("Commit", e, r, n) \/ r \in commitConfirmCount[n][e]
    BY <2>1, <2>2 DEF RoundInv, CommitsReach
  <2> QED
    BY <1>8, <2>3
<1>10. DecidedActs'
  BY <1>2, <1>5 DEF DecidedActs, RoundInv, QuorumsAct
<1>11. FewCrashed' /\ InLogOrder' /\ PunctualTipIsNewest'
  BY <1>2, FewStayFew DEF RoundInv, InLogOrder, PunctualTipIsNewest
<1> QED
  BY <1>7, <1>9, <1>10, <1>11 DEF AfterInv

LEMMA RoundsAfter ==
  AllPunctual /\ QuorumStays => (TimelySpec => [](~Alive(Primary) => AfterInv))
<1> SUFFICES ASSUME AllPunctual, QuorumStays
             PROVE  TimelySpec => [](~Alive(Primary) => AfterInv)
  OBVIOUS
<1>1. Init => (~Alive(Primary) => AfterInv)
  BY DEF Init, Alive
<1>2. /\ IndInv /\ (Alive(Primary) => IntakeInv) /\ (Alive(Primary) => OrderInv)
      /\ (Alive(Primary) => RoundInv) /\ (~Alive(Primary) => AfterInv) /\ [TimelyNext]_vars
      => (~Alive(Primary) => AfterInv)'
  BY AfterStart, AfterStep
<1> QED
  BY <1>1, <1>2, IntakeCorrect, OrderCorrect, RoundsWhileUp, TimelyInvariants, PTL DEF TimelySpec

----------------------------------------------------------------------------
(* What the replicas store, whether or not the primary is still up.        *)

LEMMA LogsStayInOrder ==
  AllPunctual /\ QuorumStays => (TimelySpec => [](InLogOrder /\ PunctualTipIsNewest))
<1> SUFFICES ASSUME AllPunctual, QuorumStays
             PROVE  TimelySpec => [](InLogOrder /\ PunctualTipIsNewest)
  OBVIOUS
<1>1. (Alive(Primary) => RoundInv) /\ (~Alive(Primary) => AfterInv)
        => InLogOrder /\ PunctualTipIsNewest
  BY DEF RoundInv, AfterInv
<1> QED
  BY <1>1, RoundsWhileUp, RoundsAfter, PTL

\* The logs of any two replicas list the same blocks in the same order, one of
\* them possibly more of them, also when one of the two has crashed and when the
\* primary stopped in the middle of a round.
THEOREM LogsAreOne ==
  AllPunctual /\ QuorumStays => (TimelySpec => []LogsAgree)
<1> SUFFICES ASSUME AllPunctual, QuorumStays PROVE TimelySpec => []LogsAgree
  OBVIOUS
<1>1. IndInv /\ InLogOrder => LogsAgree
  <2> SUFFICES ASSUME IndInv, InLogOrder, NEW n \in Punctual, NEW r \in Punctual,
                      NEW i \in 1..Len(localMessagePool[n]), i <= Len(localMessagePool[r])
               PROVE  localMessagePool[n][i] = localMessagePool[r][i]
    BY DEF LogsAgree
  <2>1. n \in Replicas /\ r \in Replicas
    BY DEF AllPunctual
  <2>2. i \in 1..Len(localMessagePool[r])
    BY <2>1 DEF IndInv, TypeOK
  <2> QED
    BY <2>1, <2>2 DEF InLogOrder
<1> QED
  BY <1>1, LogsStayInOrder, TimelyInvariants, PTL

\* No tip is behind a block the replica committed on that chain, although
\* UpdateMainBlock sets it to whatever commits last.
THEOREM TipsAreNewest ==
  AllPunctual /\ QuorumStays => (TimelySpec => []PunctualTipIsNewest)
<1> SUFFICES ASSUME AllPunctual, QuorumStays
             PROVE  TimelySpec => []PunctualTipIsNewest
  OBVIOUS
<1> QED
  BY LogsStayInOrder, PTL

\* A block of the log of any replica was built on the genesis block or on one
\* listed before it there, of the same chain and one height lower: in the order
\* the logs have, what holds at the primary holds at every replica (PBFT.go:648,
\* Blockchain.go:136-156).
THEOREM ReplicaChainsLinked ==
  AllPunctual /\ QuorumStays => (TimelySpec => []ReplicaParentStored)
<1> SUFFICES ASSUME AllPunctual, QuorumStays
             PROVE  TimelySpec => []ReplicaParentStored
  OBVIOUS
<1>1. IndInv /\ ParentInv /\ InLogOrder => ReplicaParentStored
  <2> SUFFICES ASSUME IndInv, ParentInv, InLogOrder, NEW n \in Replicas,
                      NEW i \in 1..Len(localMessagePool[n])
               PROVE  LET d == localMessagePool[n][i]
                      IN  /\ HeightOf(d) = HeightOf(Parent(d)) + 1
                          /\ \/ Parent(d) = Genesis
                             \/ \E j \in 1..(i - 1) :
                                  /\ localMessagePool[n][j] = Parent(d)
                                  /\ built[Parent(d)].chain = built[d].chain
    BY DEF AllPunctual, ReplicaParentStored, ParentStored
  <2> DEFINE log == localMessagePool[Primary]
             k == Len(log)
             p == built[i].prev
  <2>1. /\ \A q \in Replicas : /\ Len(localMessagePool[q]) \in Nat
                               /\ isReply[q] = 1..Len(localMessagePool[q])
                               /\ \A j \in 1..Len(localMessagePool[q]) :
                                    localMessagePool[q][j] = j
        /\ Primary \in Replicas
    BY PrimaryIsReplica DEF InLogOrder, IndInv, TypeOK
  <2>2. i \in Nat /\ i >= 1 /\ localMessagePool[n][i] = i /\ i \in isReply[n]
    BY <2>1
  <2>3. i \in 1..Len(built)
    BY <2>2, RepliesAnnounced, BlocksTyped DEF IndInv
  <2>4. Stored(p, built[i].chain) /\ built[i].height = HeightOf(p) + 1
    BY <2>3 DEF ParentInv, BuiltOnStored
  <2>5. HeightOf(i) = HeightOf(p) + 1
    BY <2>2, <2>4 DEF HeightOf, Genesis
  <2>6. k \in Nat /\ isReply[Primary] = 1..k /\ \A j \in 1..k : log[j] = j
    BY <2>1
  <2>7. ASSUME p # Genesis
        PROVE  p \in 1..(i - 1) /\ built[p].chain = built[i].chain
    <3>1. p \in 1..k /\ built[p].chain = built[i].chain
      BY <2>4, <2>6, <2>7 DEF Stored
    <3>2. CASE i \in 1..k
      <4>1. \E j \in 1..(i - 1) : log[j] = p
        BY <2>6, <2>7, <3>2 DEF ParentInv, PrimaryParentStored, ParentStored, Parent
      <4>2. \A j \in 1..(i - 1) : log[j] = j
        BY <2>2, <2>6, <3>2
      <4> QED
        BY <3>1, <4>1, <4>2
    <3>3. CASE i \notin 1..k
      BY <2>2, <2>6, <3>1, <3>3
    <3> QED
      BY <3>2, <3>3
  <2>8. \A j \in 1..(i - 1) : localMessagePool[n][j] = j
    BY <2>1, <2>2
  <2> HIDE DEF log, k
  <2> QED
    BY <2>2, <2>5, <2>7, <2>8 DEF Parent
<1> QED
  BY <1>1, LogsStayInOrder, TimelyInvariants, PTL

----------------------------------------------------------------------------
(* Nothing is left undone.                                                 *)

\* What can still be handled has a first message, and its receiver can handle it:
\* all that is to be handled before it is there no more.
LEMMA FirstIsHandled ==
  ASSUME IndInv, Prompt # {}
  PROVE  CanWork
<1> DEFINE Rank(m) == 4 * m.digest + Phase(m)
           ranks == {Rank(m) : m \in Prompt}
<1>1. \A m \in Prompt : m \in net /\ m.digest \in Nat /\ Phase(m) \in {1, 2, 3}
  BY MessageFacts DEF Phase, Prompt
<1>2. ranks \subseteq Nat /\ ranks # {}
  BY <1>1
<1>3. PICK m \in Prompt : \A k \in ranks : ~(k < Rank(m))
  <2> HIDE DEF Rank
  <2>1. PICK r \in ranks : \A k \in ranks : ~(k < r)
    BY <1>2, LeastNumber, Zenon
  <2> QED
    BY <2>1
<1>4. ASSUME NEW e \in Prompt, Before(e, m) PROVE FALSE
  <2>1. Rank(e) < Rank(m)
    BY <1>1, <1>4 DEF Before
  <2> HIDE DEF Rank
  <2> QED
    BY <1>3, <2>1
<1>5. m \in net /\ InTime(m)
  BY <1>1, <1>4 DEF InTime
<1>6. Alive(m.to) /\ CanHandle(m)
  BY DEF Prompt, Alive, CanHandle, CanLock
<1> QED
  BY <1>5, <1>6 DEF CanWork

\* When nothing can run, nothing is in flight, and then everyone that is up has
\* committed all that was announced: this is everything.
LEMMA RestFollows ==
  ASSUME Alive(Primary), AllPunctual, QuorumStays, IndInv, IntakeInv, OrderInv, RoundInv
  PROVE  RestIsDone
<1> SUFFICES ASSUME ~CanWork
             PROVE  stage = "pack" /\ \A n \in Replicas \ crashed : isReply[n] = 1..Len(built)
  BY DEF RestIsDone, AllPunctual
<1>1. net = {}
  <2>1. net \subseteq Prompt
    BY MessageFacts DEF AllPunctual, OrderInv, NetAlive, Prompt
  <2> QED
    BY <2>1, FirstIsHandled
<1>2. Primary \in Replicas \ crashed
  BY PrimaryIsReplica DEF Alive
<1>3. stage # "propose" /\ (stage = "wait" => waitCommit # 0)
  BY <1>2 DEF CanWork, Alive, CanLock, OrderInv, NoRoundOpen
<1>4. \A n \in Replicas \ crashed : 1..Announced \subseteq isReply[n]
  <2> TAKE n \in Replicas \ crashed
  <2> SUFFICES ASSUME NEW d \in 1..Announced PROVE d \in isReply[n]
    OBVIOUS
  <2>1. d \in Digests
    BY MaxBlocksNat DEF Digests, IndInv, TypeOK, Announced
  <2> QED
    BY <1>1, <2>1, EveryoneCommitted
<1>5. \A n \in Replicas \ crashed : isReply[n] = 1..Announced
  BY <1>4, RepliesAnnounced
<1>6. stage = "pack"
  <2> SUFFICES ASSUME stage = "wait" PROVE FALSE
    BY <1>3 DEF IndInv, TypeOK
  <2>1. waitCommit = 0
    BY <1>2, <1>5 DEF IndInv, Rounds, Opened, Announced
  <2> QED
    BY <1>3, <2>1
<1> QED
  BY <1>5, <1>6 DEF Announced

\* Nobody is left waiting: where no goroutine has anything to do, the packager is
\* free and everyone that is up has committed every block (PBFT.go:220, 488, 632).
THEOREM NothingIsLeftUndone ==
  AllPunctual /\ QuorumStays => (TimelySpec => []RestIsDone)
<1> SUFFICES ASSUME AllPunctual, QuorumStays PROVE TimelySpec => []RestIsDone
  OBVIOUS
<1>1. Alive(Primary) /\ IndInv /\ IntakeInv /\ OrderInv /\ RoundInv => RestIsDone
  BY RestFollows
<1>2. ~Alive(Primary) => RestIsDone
  BY DEF RestIsDone
<1> QED
  BY <1>1, <1>2, RoundsWhileUp, OrderCorrect, IntakeCorrect, TimelyInvariants, PTL

\* After the primary stopped: no message is left that anybody can handle, so all
\* votes for what it committed are counted.
LEMMA DecidedFollows ==
  ASSUME ~Alive(Primary), AllPunctual, QuorumStays, IndInv, AfterInv
  PROVE  DecidedIsNotLost
<1> SUFFICES ASSUME ~CanWork, NEW n \in Replicas \ (crashed \cup leaked), NEW e \in isReply[Primary]
             PROVE  e \in isReply[n]
  BY DEF DecidedIsNotLost, AllPunctual
<1>1. \A f \in net : f.to # n
  BY FirstIsHandled DEF Prompt, AllPunctual
<1>2. ASSUME NEW r \in (Replicas \ crashed) \ {n} PROVE r \in commitConfirmCount[n][e]
  <2>1. ~VoteOnItsWay("Commit", e, r, n)
    BY <1>1 DEF VoteOnItsWay
  <2> QED
    BY <2>1 DEF AfterInv, DecidedReaches
<1>3. commitConfirmCount[n][e] \in SUBSET Replicas
  BY PrimaryIsReplica DEF IndInv, TypeOK
<1>4. Cardinality(commitConfirmCount[n][e]) >= TwoF
  BY <1>2, <1>3, AfterQuorum DEF AfterInv
<1> QED
  BY <1>4 DEF AfterInv, DecidedActs

\* Every block the primary committed is committed by all that stay up and did not
\* lock themselves out, wherever in this round or a later one the primary stops
\* (PBFT.go:632): those that remain are a quorum.
THEOREM DecidedSurvives ==
  AllPunctual /\ QuorumStays => (TimelySpec => []DecidedIsNotLost)
<1> SUFFICES ASSUME AllPunctual, QuorumStays PROVE TimelySpec => []DecidedIsNotLost
  OBVIOUS
<1>1. ~Alive(Primary) /\ IndInv /\ AfterInv => DecidedIsNotLost
  BY DecidedFollows
<1>2. Alive(Primary) /\ IndInv /\ RestIsDone => DecidedIsNotLost
  <2> SUFFICES ASSUME Alive(Primary), IndInv, RestIsDone, ~CanWork,
                      NEW n \in Punctual \ (crashed \cup leaked)
               PROVE  isReply[Primary] \subseteq isReply[n]
    BY DEF DecidedIsNotLost
  <2>1. isReply[n] = 1..Len(built)
    BY DEF RestIsDone
  <2> QED
    BY <2>1, RepliesAnnounced, PrimaryIsReplica
<1> QED
  BY <1>1, <1>2, NothingIsLeftUndone, RoundsAfter, TimelyInvariants, PTL

===============================================================================
