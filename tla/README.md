# Verification of the hierarchical DLT-based identity management

The program (Go, `src/`) runs a ledger of two chains: the *main* chain holds
identities (ID transactions), the *side* chain holds dynamic keys that are each
derived from two identities of the main chain. One process per node; node
`1007` is a client that writes the genesis blocks, node `1008` is the primary,
which generates the transactions, packs blocks and leads a PBFT-style agreement
on each of them; the other nodes are backups. There is no view change and no
state that survives a process under the same id.

This directory models the agreement and what feeds it, the generator of dynamic
keys and the start of the processes, checks the models with TLC, and proves
their safety properties for any number of nodes, blocks, sets, processes and
crashes.

## 1. The system

### 1.1 Components

| Component | Code | State | Operations |
|---|---|---|---|
| Block consensus | `Network/PBFT.go`, `Network/TCP.go`, `Utils/Message.go` | sequence ids, message and digest pools, Prepare and Commit counts, `isCommitBroadcast`, `isReply`, `p.lock`, `WaitCommit` | `handleClientRequest`, `handlePrePrepare`, `handlePrepare`, `handleCommit`, `Broadcast`, `TcpListen` |
| Leader's packager | `handleTxTrans` and `sendTxTrans` in `PBFT.go`, `SortTxs` | two channels of sets, two pools | queue a set, receive a set, cut a block, wait for the round |
| Transaction intake | `Network/TX.go` | the channels `IDtxPool` and `DynaKeytxPool`, the slices `txsMain` and `txsSide` | `txListen`, the readers and listeners of `txTransfer`, `sendTxs2Leader` |
| Block store | `Blockchain/*.go`, `Utils/Block.go` | one bolt database per node and chain: blocks by hash, the tip under key `"1"`; `CurMainHeight`, `CurSideHeight` | `UpdateMainBlock`, `UpdateSideBlock`, `GetBlockByHeight`, iterators |
| Dynamic keys | `NewDynaKeyFromExistID`, `NewDynaKeyTX`, `txListen` | `Mapping` of every ID transaction, `DynaKeyPos` | choose two identities, store their mapping, number the key |
| Node start-up | `Network/Server.go`, `Utils/RSA.go`, `CopyGenesisBlock` | the directories under `Keys/` and `Data/` | claim an id, create or copy the genesis databases |
| World | `Utils/WorldStatus.go` | accounts and their resources | create, read and save the table, transfer |
| Transactions, codecs, signatures | `Utils/Transaction.go`, `Utils/Utils.go`, `Utils/base58.go`, `Utils/RSA.go` | none | construct, serialise, Base58, sign and verify |
| Client entry points | `HandleClientTcp`, `ClientTcpListen`, `Sim.go` | reply counts | never called, or read-only |
| Configuration | `main.go`, `Constant/Constant.go` | `UENum`, `SPNum`, `NodeTable` | read `config.yaml` |

### 1.2 How they interact

    txListen --IDtxPool, DynaKeytxPool--> readers --txsMain, txsSide--> listener
       |  reads and rewrites main blocks                                  | TCP to 1008 and
       v                                                                  v a direct call
    block store <--handleCommit-- consensus <--WaitCommit-- sendTxTrans <--channels-- handleTxTrans
                                     ^  |
                                     |  v  PrePrepare, Prepare, Commit over TCP
                                  the other replicas

* Calls between goroutines of one process go through Go channels, through
  `p.lock`, through `WaitCommit`, and through plain globals (the two heights).
* `TcpListen` starts a goroutine per message, so the order of handling is free.
* A failed dial is logged and not retried. A broadcast is one goroutine and one
  connection per destination.

### 1.3 What is hard, and what makes each component correct

* **Consensus.** Handlers of all phases interleave freely; only sleeps of three
  seconds keep phases apart. Correct means: one round at a time, a commit only on
  a quorum of votes, every block committed once, its data still in the pool
  when the quorum completes, equal logs, chains whose parent links lead to the
  genesis block, and every opened round ending.
* **Packager and pruning.** Tip and height are read before the wait for the
  open round; pool entries are deleted by height on any late Commit.
* **Intake.** Goroutines of successive ticks share two slices with no lock; a
  ready signal can be older than the last clear; one goroutine feeds two bounded
  channels. Correct means: no empty set travels (the leader would panic), whoever has
  a transaction comes to report, identities do not wait for keys nobody takes,
  nothing is lost once queued, neither chain starves the other.
* **Dynamic keys.** Read-modify-write of committed blocks without a lock, walks
  along a chain whose tip and height are written one after the other, and
  positions numbered by a height that consensus moves meanwhile. Correct means:
  walks end, no earlier mapping is lost, places within a turn differ, turns end.
* **Start-up.** Two processes may claim one id; replicas copy genesis files
  that the client may not have written yet, and hold one file while they open
  the other. Correct means: ids are unique, nothing listens without both genesis
  blocks, every start ends.
* **World.** Transfers in two steps, some of which fail. Correct means: units
  are conserved, and what was reserved on one side is reserved on the other.

All hazards, each at its line and with the properties that cover it, are in
`PROJECT.json`.

## 2. The modules

### 2.1 `Consensus` — the agreement (`PBFT.go`)

| Model | Code |
|---|---|
| `built`, `stage`, `waitCommit` | blocks `sendTxTrans` made, its place in its loop, the counter of `WaitCommit` |
| `sequenceID`, `messagePool`, `digestPool` | `MainSequenceID`/`SideSequenceID`, `messagePool`, `DigestPoolMain`/`DigestPoolSide` |
| `prePareConfirmCount`, `commitConfirmCount`, `isCommitBroadcast`, `isReply` | the maps of these names |
| `localMessagePool`, `tip`, `height` | the log, key `"1"` of the database, `CurMainHeight`/`CurSideHeight` |
| `leaked`, `crashed`, `net` | replicas that hold their own lock for ever, replicas that stopped, messages not yet handled |
| `PackBlock`, `AwaitTurn` | `sendTxTrans`: block made under the lock; `Wait` and `Add` |
| `HandleClientRequest`, `HandlePrePrepare`, `HandlePrepare`, `RefusePrepare`, `HandleCommit` | the handlers, each whole |
| `Pruned`, `Prune`, `CommitBlock`, `RoundDone` | the parts of `handleCommit` |
| `HandleRequest`, `Handle` | `TcpListen` starting `handleRequest` |
| `Crash` | a process that stops, with any part of what it had not sent |

A handler that holds `p.lock` is one action. `handleClientRequest` and
`handlePrePrepare` write the pools outside the lock or before it; the handlers
they could tear are modelled by `Crash`, because concurrent map access stops
a Go process. A block is named by the order in which it was packed, and that
number also stands for its digest; 0 is the genesis block. Signatures are
checked by the code over messages its own nodes signed and always verify, so
the only refusal that can occur is an unknown digest. A replica that lost its
lock still handles PrePrepares, as in the code.

### 2.2 `TimelyConsensus` — the same under the three-second sleeps

`TimelySpec` restricts handling, for the replicas in `Punctual` only: a message
is handled when no punctual replica has a message of an earlier phase or of an
earlier round left. This is the assumption the sleeps in `PBFT.go:286, 366, 462,
587` make. Everything that is true only under it is stated here and not in
`Consensus`: no lock leaked while the primary is up, PrePrepares in sequence, equal logs,
tips that do not move back, nothing left undone where nobody has anything to do
(`RestIsDone`, `DecidedIsNotLost`), progress. `CanWork` is the disjunction of the guards of
`TimelyWork`: every action assigns every variable, so it says that one of them is
enabled.

### 2.3 `QuorumLedger` — the promise

Four variables: how many blocks were announced, and per replica the blocks
accepted, voted for and decided. `Announce` needs the primary to have decided
every earlier block, `Vote` needs 2f backups that accepted, `Decide` needs the
replica's own vote and 2f others. `Consensus` implements it (`LedgerSpec`)
under the mapping `announced <- Announced`, `accepted <- pooled or committed`,
`voted <- isCommitBroadcast`, `decided <- isReply`: no message, lock, pruning
or crash appears in the promise.

### 2.4 `TxTransfer` — intake up to the leader (`TX.go`)

`TxListen` fills the bounded channels in turns, with the transactions of `Supply`, of
which two may be alike. `Tick` starts the reader of each category and a listener.
`ReadPool` happens once per reader; `LoadSlice` and `StoreSlice` are the two halves of
`append` on a shared variable, and `TestSlice` reads that variable again for its
length, so every lost update is a behaviour, and a reader may fill the slice and find
it short, or the other way round. `SelectReady`/`SelectDefault` are the `select` with a
default branch; `DialLeader`, `HandOver`, `ClearSlice` are `sendTxs2Leader` and
the clear after it. What is done with the copy that
arrives over TCP, and with the one that is handed over by a call, is `HandleTxTrans` of
`Packager`. The channels and slices are sequences, as in the code.

### 2.5 `Packager` — the leader's pools (`PBFT.go:144-280`)

`HandleTxTrans` queues or drops a set. `ReceiveSet` and `PackBlock` are the two
cases of each branch of `sendTxTrans`, `StartRound` the return of `Wait`.
`Blocks` are the selections of a block's size from a pool, and `Firsts` those that
sorting and cutting can give, since `sort.Slice` is not stable. Pools are bags: no
property depends on an order within them that the sort does not make. `RoundEnds` is
what `Consensus` does for it. The sets that may come in are non-empty, which
`TypeOK` of `TxTransfer` says of those that travel.

### 2.6 `DynaKeys` — the generator of dynamic keys (`TX.go:28-40`, `Blockchain.go`)

| Model | Code |
|---|---|
| `blocks`, `tip`, `mapped` | the main database of node 1008: headers, key `"1"`, which transactions have a `Mapping` |
| `mainHeight`, `sideHeight`, `pos` | `CurMainHeight`, `CurSideHeight`, `DynaKeyPos` |
| `packed`, `commit` | main blocks between `sendTxTrans` and their commit, and how far `UpdateMainBlock` is |
| `gen` | where the goroutine is, the key of its turn, and the locals of `NewDynaKeyFromExistID` |
| `places` | history: the places given to the keys of the turn |
| `PackMain`, `PutBlock`, `PutTip`, `SetHeight`, `UpdateSideBlock` | the commits, as `Consensus` orders them, with the three writes of a main commit apart |
| `StartTurn`, `Pick`, `Read1`, `Read2`, `Choose`, `Write1`, `Write2`, `NumberKey`, `SendKey` | the generator, one step per call that reads or writes shared state |

Every call of bolt locks its file, so a call is a step; a walk reads only blocks
below the tip it started from, which do not change their links, so it is one
step too. That blocks are packed on old tips, and that one block can be packed
while another is in consensus, is taken from `Consensus`: the chain is a tree
with siblings, and the walk stops at the first block of its height.

### 2.7 `Startup` — processes that start (`Server.go`, `RSA.go`, `Utils.go`)

A process goes through `TestDir`/`MakeDir` for the three shared directories,
`Scan`/`Claim` for its id, then either the client's branch of `Server`
(`InitNode`, `OpenGenesis`, `PutGenesis`) or a replica's (`NewIdM`), and both copy the
genesis blocks (`CopyMain`, `CopySide`). Test and creation of a directory are two
steps, `bolt.Open` without a timeout waits while `opened` names another process,
a panic ends a process (`Dies`) and `Kill` ends it from outside: either way the
system closes its files. A process that is killed leaves its directory behind, and
no later start takes its id; the code does not restart a node under its id.

### 2.8 `World` — the world status (`WorldStatus.go`)

`UpdateByP`, `UpdateStateP`, `UpdateState` and `UpdateRes` on the resources of the
records, a batch of transactions at a time: `Loop` folds over the batch what a method
does with one transaction (`Handle`: `Reserve`, `Settle` or `Execute`). Nothing in the repository calls
them except for `InitNode`; a caller that settles what `UpdateByP` returned, once, and
makes transactions as `GenNewTxFromF1` does, is assumed. `MCStartup` runs it after
the client of `Startup` made the world.

### 2.9 Proofs and MC modules

`ConsensusProofs` (the agreement, its promise and the chains of the primary),
`TimelyProofs`, `TxTransferProofs`, `PackagerProofs`, `DynaKeysProofs`, `StartupProofs` and
`WorldProofs` hold the theorems, see section 5; `FoldLemmas` the lemmas they share, on
recursive functions over the naturals and on folds. `MCConsensus`, `MCTimely`,
`MCTxTransfer`, `MCPackager` and `MCStartup` hold the definitions the configurations need;
`DynaKeys` needs none.

## 3. The runs

### 3.1 Runs that pass

| Run | Instance | Shows |
|---|---|---|
| `rounds` | 3 replicas and the client, both chains, 2 blocks, pruning at every height after the first, any replica may crash at any step | `TypeOK`, `WaitGroupCountsRounds`, `EarlierRoundsDecided`, `CommitCertificate`, `PrimaryParentStored`, `LedgerSpec`, `WorkRunsOut` |
| `timely` | 4 punctual replicas, both chains, 2 blocks, any one of them may crash, the primary too, pruning at every height after the first | `CommitsOnce`, `NoLockLeaked`, `LogsAgree`, `PunctualTipIsNewest`, `PunctualInSequence`, `ReplicaParentStored`, `OpenRoundIsPooled`, `RestIsDone`, `DecidedIsNotLost` |
| `progress` | 4 punctual replicas, one may crash, with fairness | `RoundCompletes`, `EveryLiveReplicaCommits` |
| `shared_slice` | 2 ticks, 2 IDs that are alike, 1 key and room for one, sets of 2, with fairness | `TypeOK`, `IdsAreNotStarved`, `ReadersReport` |
| `packager` | 4 sets of sizes 1 to 3, blocks of 2, with fairness | `TypeOK`, `HeldOnlyGrowsBySets`, `SetsAreReceived` |
| `dynakeys` | 3 main blocks of 2 identities, 2 side heights, turns of 2 keys, with fairness | `TypeOK`, `WalkEnds`, `PlacesAreDistinct`, `EarlierMappingsStay`, `TurnsEndUnlessAllMapped` |
| `startup` | 4 processes, a table of 2 (so 3 ids), one kill, then a world of 2 accounts, with fairness | `TypeOK`, `UniqueIds`, `StartedWithGenesis`, `SomeStartGoesOn`, `EveryStartEnds`, `UnitsConserved`, `ReservationsBacked` |

The properties in words:

* *WaitGroupCountsRounds*: `waitCommit` is 0 or 1 and counts exactly the rounds
  that were opened and that the primary has not committed. `Add` and `Done` are
  called by different goroutines, and a `Done` too many would panic.
* *EarlierRoundsDecided*: whatever a replica pooled, and whatever is on its way,
  the primary has committed every earlier round.
* *CommitCertificate*, *CommitsOnce*, *LedgerSpec*: commits rest on 2f votes of
  others whose senders hold the block, and happen once, although Commits go on
  arriving after the quorum and after pruning forgot the votes.
* *OpenRoundIsPooled*: the block of the open round is in the primary's pool, so
  nobody stores the zero block that a missing map entry yields.
* *PrimaryParentStored*: although a block is packed on a tip and a height that
  may be stale when it is proposed, every block the primary stores has its parent
  stored, one height lower and on the same chain: walks by height
  (`GetBlockByHeight`) end.
* *WorkRunsOut*: every step but the packing of a block uses up work, although a
  handler answers with broadcasts and messages arrive after their quorum. The
  replicas never keep each other busy for ever.
* *NoLockLeaked*, *RestIsDone*: under the sleeps, and while the primary is up, no
  replica locks itself out, and where nothing can run any more nothing was left undone.
* *LogsAgree*, *ReplicaParentStored*, *DecidedIsNotLost*: wherever in a round the primary
  stops, logs are prefixes of each other, their parent links lead to the genesis
  block, and what the primary committed ends up committed by all that stay up. A
  backup that was still to get the last PrePrepare may lock itself out, and that block
  may be left undecided; nobody takes over.
* *ReadersReport*: readers of one slice undo each other's appends, and a reader tests
  what another one may have stored or cleared since, and yet all that have a transaction
  come to find the slice full and say so.
* *IdsAreNotStarved*: the goroutine that makes identities is never stuck in sending a
  key, with no identity in stock, unless a reader is about to take a key.
* *HeldOnlyGrowsBySets*: between `handleTxTrans` and the blocks no transaction is
  lost and none gets a further copy.
* *SetsAreReceived*: neither chain waits for sets of the other.
* *PunctualInSequence*, *PunctualTipIsNewest*: under the sleeps a replica gets the
  PrePrepares in sequence, and its tip is the newest block of the chain it holds.
  `handlePrePrepare` accepts a gap all the same: it prints "Refuse to broadcast
  prepare" and goes on (`PBFT.go:399-403`). The properties say when that does no harm.
* *WalkEnds*: whatever height the generator drew or could draw at any moment of a
  commit, there is a block of that height below the tip; otherwise
  `GetBlockByHeight` would walk past the genesis block and panic.
* *EarlierMappingsStay*: the copies that are stored back are never stale, so nothing
  is lost but, at most, one mapping of the key under way.
* *PlacesAreDistinct*: the side height may move between the use of a position and
  its increment, and yet no two keys of a turn get one place. Across turns they do:
  each turn sets the counter back to 0.
* *TurnsEndUnlessAllMapped*: a turn ends, unless from some moment on every identity
  in reach has a mapping. Then `i--` repeats the draw for ever, and no identity is
  made any more that could end it.
* *UniqueIds*: `IsExist` and `Mkdir` of an id are two steps, yet of two processes that
  find it free one dies of the error.
* *StartedWithGenesis*, *SomeStartGoesOn*, *EveryStartEnds*: a process that came too early panics
  instead of listening, and the order in which the two genesis files are opened, the
  same everywhere, lets no two processes wait for each other.
* *UnitsConserved*, *ReservationsBacked*: in any order of batches, units are moved and not
  made, and both sides of what `UpdateByP` returned stay reserved until it is settled,
  so that `UpdateStateP` never fails on it.

### 3.2 Runs that find a disagreement

Each shows that the code does not do what a comment or message in it says; the
quotation is in `PROJECT.json` under `findings`.

| Run | What happens |
|---|---|
| `stale_parent` | a block packed while a round of its chain is open has the same parent and height as that round's block: both are committed, as siblings |
| `missed_commit` | the commit condition is evaluated only when a Commit arrives; if all arrive before the replica's own vote, it does not commit |
| `leaked_lock` | a Prepare that overtakes its PrePrepare makes `handlePrepare` return with `p.lock` held; that replica votes no more |
| `both_mapped` | when both random heights give one block, its second copy is stored over the first: the first of the key's two identities has no mapping |
| `repeated_transactions` | a reader receives one transaction and appends it until the slice is full: a set holds copies of one transaction per reader |

### 3.3 Bounds, and why they suffice

* *Nodes.* `N` includes the client, which does not vote, and `2f = N/3*2` with
  integer division. `N = 4` (three replicas) makes every replica needed for the
  Commit quorum, `N = 5` (four replicas, still `2f = 2`) is the smallest
  table in which a quorum leaves a replica out. Crash tolerance is checked with 5.
* *Blocks.* Two blocks make two rounds overlap, on one chain and on two. What a
  third block adds, a pruned round, an old one and an open one at once, is covered by
  the theorems, which hold for any number.
* *Period.* Pruning is at multiples of ten. `Period = 1` makes it happen at every
  height but the first, with the same window arithmetic; the runs whose question has
  nothing to do with it keep 10. The theorems hold for every period.
* *Crashes.* In `rounds` all replicas may crash, at any step and in the middle of
  a broadcast. In `timely` any one may, in `progress` one backup: the most that
  `2f` out of the three other replicas leaves over.
* *Symmetry* is used on backups that the configuration does not tell apart, and in
  `timely` on the two chains, which the handlers treat alike; only in runs of
  safety properties.
* *Ticks and sets.* Two ticks give two readers and two listeners on a slice: a lost
  append, an undone clear and a test of another's slice each take two of them. Sets of 2
  stand for 500. Three readers add that two of them can hand on a long slice while the
  third keeps the tests short, so that the slice grows well past the threshold; no
  property says how long it may get. When readers report depends on lengths only, so
  the transactions of `shared_slice` are alike. One key fills the channel of keys while
  the two readers of identities empty the other. Four sets
  around the size of a block reach blocks on both chains and a dropped set.
* *Keys.* Three main blocks give siblings, a walk that passes one, and heights that
  are drawn in the middle of a commit; two identities per block and two keys per
  turn exhaust a block, so that draws fail; two side heights move the counter once
  within a turn.
* *Starts.* Four processes for three ids: a client, a replica, the id outside the
  node table, and a process that gets none. `log` exists before and
  `Keys` and `Data` do not, as when a former run was cleared away, so two directories are raced
  for. (With the sixteen directories of `Keys/` that are in the repository every
  process gets the id `"nil"`; that is the branch of `Scan` in which all ids are taken.) One kill reaches every step.
* *World.* Two accounts, two batches of at most two transactions: an insufficient
  seller in a batch, batches settled in both orders.
* `CHECK_DEADLOCK FALSE` where the system may stop: no more than `MaxBlocks`
  blocks or `MaxTicks` ticks, crashed replicas, leaked locks and ended starts end a
  behaviour.

### 3.4 Fairness

* `Fairness == WF_vars(Work)` (and `TimelyFairness`): while a handler, the wait
  for the turn or the proposal can run, one of them does. Go's scheduler starves
  no runnable goroutine, and there is only so much to run before the next block is packed
  (`WorkRunsOut`, the theorem `WorkIsFinite`), so this single condition is all that
  is needed and weaker than fairness per goroutine.
  Packing depends on 500 transactions arriving and is not fair, crashes are not.
* A message on its way is delivered unless sender or receiver stops; loss is part
  of `Crash`. A dial can fail otherwise only if the receiver does not listen.
* `Packager` is fair to the loop of `sendTxTrans`, which never blocks except for
  the round, and to `RoundEnds`, which `RoundCompletes` justifies under the sleeps.
* `TxTransfer` (`FairSpec`) is fair to each reader from its receive to its send: in
  between it waits for nothing, and Go's scheduler lets every goroutine that can run go on.
  Ticker, generator and listeners are not fair. That this is enough: the
  shortest of the slice and of what readers loaded of it never shrinks but by a clear,
  and rises when all have stored once more; clears are as few as listeners.
* `DynaKeys`: weak fairness of the generator, a goroutine that nothing blocks for
  ever as long as its channel is read; strong fairness of a draw that hits an
  unmapped identity, in both of its draws. `rand.Intn` gives every value again and
  again with probability one; strong fairness is how that is said. Commits are not
  fair. Without the strong conditions a generator may draw mapped identities for ever.
* `Startup`: while some process can take a step, one does. Every step brings a
  process nearer to its end (`StartsRunOut`) and they never all wait
  (`NoStartDeadlock`), so nothing stronger is needed; kills are not fair.

## 4. Findings in short

Two of the disagreements stop the ledger when a node is slower
than the sleeps: `leaked_lock`, `missed_commit`. A replica that is slower may also
complete the earlier of two rounds last, and then moves its tip and height back
(`Blockchain.go:155`): `PunctualTipIsNewest` holds under the sleeps only. One needs no slow
node at all: with `stale_parent` the packager regularly makes siblings, since it
always packs the next block before it waits. `PrimaryParentStored` shows what
survives: the primary's chain has no orphan and no wrong height, but the earlier
sibling is no longer reachable from the tip. `repeated_transactions` means that
a block consists of very few distinct transactions. `both_mapped` needs neither: with
the first main block there is only one height to draw, so both identities of the
first keys are always in one block.

## 5. Proofs

The theorems are checked by TLAPS. Those of `ConsensusProofs` assume
`ConsensusAssumption` only: a finite node table with distinct client and primary,
natural bounds and a positive period. Those of the other components assume no more than
the assumption of their module: positive sizes of a block, a turn and the side chain
(`DynaKeysAssumption`), finitely many processes (`StartupAssumption`), natural or positive
capacities and thresholds (`TxTransferAssumption`, `PackagerAssumption`), finitely many
accounts with at least as many devices as stay idle (`WorldAssumption`). They are about
`Spec` (`WorldSpec`), so without any timing assumption or fairness and with any crashes.
Only the theorems of 5.2 are about `TimelySpec`, and have hypotheses of their own, given
there.

### 5.1 The agreement

| Theorem | States |
|---|---|
| `TypeCorrect` | `Spec => []TypeOK` |
| `WaitGroupCorrect` | `Spec => []WaitGroupCountsRounds` |
| `RoundsInOrder` | `Spec => []EarlierRoundsDecided` |
| `CertificateCorrect` | `Spec => []CommitCertificate` |
| `OpenRoundStaysPooled` | `Spec => []OpenRoundIsPooled` |
| `CommittedOnce` | `Spec => []CommitsOnce` |
| `InductiveInvariant` | `Spec => []IndInv` |
| `ImplementsLedger` | `Spec => LedgerSpec` |
| `PrimaryChainsLinked` | `Spec => []PrimaryParentStored` |
| `PrimaryHeightsNeverFall` | no height of the primary falls |
| `ParentInvariant` | `Spec => []ParentInv` |
| `WorkIsFinite` | `Spec => WorkRunsOut` |

None of the properties is inductive alone. `IndInv` is the conjunction of

* `TypeOK` and `Structure`: pools and messages are about announced blocks, only
  the primary sends PrePrepares, the packager has a block wherever it uses one;
* `Rounds`: at most the last opened round is open, and `waitCommit` says whether
  it is. This is what makes the digest being committed at the primary unique;
* `Votes`: every vote in flight, counted or remembered was sent by its replica
  (`SentVotes`, `CountedVotes`), and a replica that voted saw its quorum
  (`OwnVotes`). With it, a counted quorum is a real one, also after pruning
  erased counts and they were filled anew;
* `Pooling`: committed at the primary or still pooled there, heights in the
  digest pool belong to committed rounds or the open one. Pruning needs it: the
  window ends below the height of the open round;
* `LogsOnce`: the log of a replica lists what `isReply` remembers, once each.

Each part has one lemma per action that disturbs it; `Next...` lemmas put them
together and the last step of each theorem is temporal.

`ImplementsLedger` needs no further invariant. A step that announces, accepts,
votes or decides maps to the action of that name in `QuorumLedger`, with `Votes`
turning the counts a replica keeps into the cardinalities of the promise
(`PreparersHold` for Prepares, the lemmas of `Votes` for Commits); every other
step, pruning and crashes included, leaves the mapped variables alone
(`Stutter`), because pruning takes from a pool only what its replica committed.

`ParentInv` is inductive relative to `IndInv`. `PrimaryParentStored` alone is not: it speaks
of committed blocks, and a block becomes one with the parent and the height it was
packed with, perhaps a round ago. `BuiltOnStored` says of every block, when it is built,
that its parent is committed (`TipsStored`: tips are), and `Logged` that the parent is then
in the log, below the block. The heights need `OpenBlocksFollow`: an uncommitted block
has the height of its chain or the next one. When two are open, the later one was
packed before the earlier was committed, on the height the chain then had, so the
commit of the earlier one, which raises that height by at most one, does not pass it.
At most two are open by `Rounds`. A backup may complete rounds out of order or miss one
(`missed_commit`): what holds for it under the sleeps is in 5.2.

`WorkIsFinite` weighs what is left to do between two packed blocks. With R replicas, a
Prepare or a Commit on its way weighs 1 and is used up without an answer, unless it makes
its receiver vote. A vote that a replica has still to cast weighs R, more than the R - 1
Commits it sends. So does a PrePrepare, which is answered with R - 1 Prepares. A block
that waits for its proposal weighs R times R, and twice that before its turn came. The
proof shows of each handler that what it sends weighs less than what it uses up.

### 5.2 The agreement under the sleeps

| Theorem | Under | States |
|---|---|---|
| `IntakeCorrect` | | `TimelySpec => [](Alive(Primary) => IntakeInv)` |
| `LocksAreReleased` | if the primary is punctual, `AllPunctual` | `TimelySpec => []NoLockLeaked` |
| `PunctualAnswersInSequence` | `PrimaryStays` or `AllPunctual` | `TimelySpec => PunctualInSequence` |
| `LogsAreOne` | `AllPunctual`, `QuorumStays` | `TimelySpec => []LogsAgree` |
| `TipsAreNewest` | the same | `TimelySpec => []PunctualTipIsNewest` |
| `ReplicaChainsLinked` | the same | `TimelySpec => []ReplicaParentStored` |
| `NothingIsLeftUndone` | the same | `TimelySpec => []RestIsDone` |
| `DecidedSurvives` | the same | `TimelySpec => []DecidedIsNotLost` |

The hypotheses are about the constants; `timely.cfg` satisfies all but `PrimaryStays`,
`progress.cfg` that one too.

* `AllPunctual`: every replica is in `Punctual`. The Prepare of a late backup may be
  about a block the primary has pruned; then the primary locks itself out. The backups'
  own sequence and, as long as the primary is not called punctual, their locks do not need
  this: they only hear late what others send.
* `QuorumStays`: `2f >= 1`, and as many backups stay as make a quorum when the primary is
  up. With fewer, a replica that stops in the middle of its votes can let some
  replicas decide a round that the others never decide.
* `PrimaryStays`: the primary is not in `MayCrash`. One theorem has it, as the alternative
  to `AllPunctual`: where others are late *and* the primary stops between two sends of a
  PrePrepare, nothing is proved of the sequence in which the backups hear of blocks.

While the primary is up, `IntakeInv` says that what was announced is pooled or on its
way (`Delivered`), that a PrePrepare on its way is for a later block than those pooled
(`InOrder`), and that sequence ids count the blocks of a chain (`Numbered`). `OrderInv`
adds what the sleeps do for the primary: of a round it committed only Commits are in
flight (`Settled`). `RoundInv` counts: each Prepare or Commit that a voter sent is with
its receiver or on its way (`PreparesReach`, `CommitsReach`), who has enough of them acted
on them (`QuorumsAct`), so that the log of everyone is the rounds from the first on
(`InLogOrder`). That a message of the next round is handled only when none of this one is
left makes these survive a round: when the last Commit of a round is handled, the counts
say that everyone was reached. `RoundInv` with `IndInv` and `BuiltOnStored` gives the links
of the backups' chains.

A primary that stops in the middle of the PrePrepares leaves backups that get Prepares for
a block they were never sent; they find no digest and keep their lock. So `Delivered` and
`BackupsUnlocked` are lost, and what remains is weaker: no later block will be announced,
and every block but the last is pooled everywhere (`LateIntake`). `AfterInv` holds of the
votes: of what the primary committed, everyone that is up has voted (`DecidedIsVoted`),
each of these votes is with every other replica that is up or on its way to it
(`DecidedReaches`), and who has 2f of them committed (`DecidedActs`). The step that
establishes it is the crash, from `RoundInv`. It says nothing of the last, undecided
block; but a replica that commits that one has the earlier ones, because messages
of earlier rounds are handled first, and a replica that is up has a quorum of others that
are up (`AfterQuorum`).

`RestIsDone` is about a state in which no guard holds. `FirstIsHandled` turns this
into counts: among the messages to replicas that are up and not locked out (`Prompt`)
there is one of the earliest round and phase, it is in time by definition, and its
receiver can take it; so where nothing can run no such message is left. Then
the counts of `RoundInv` are complete, every quorum is reached and acted on, and the
WaitGroup is 0. `DecidedIsNotLost` follows in the same way from `AfterInv`, where those
that locked themselves out are the ones whose messages may stay.

### 5.3 The intake

| Theorem | States |
|---|---|
| `TypeCorrect` | `Spec => []TypeOK` |
| `IdsNeverStarve` | `Spec => []IdsAreNotStarved` |

`TypeOK` needs to be told where a goroutine's locals are in use (`ReaderOK`, `ListenerOK`):
a listener hands over a set that passed the test when it dialled, whatever happened to
the slice since.

`IdsAreNotStarved` relates where four kinds of goroutines are and follows from counts.
`Accounted`: what was generated is in the channel or with one reader each.
`TurnsAlternate`: keys are never ahead of identities, and will not be at the end of the
turn of keys, because such a turn comes only after one of identities (`AfterTurn`).
`AllStarted`: every tick has started both its readers. If no reader of keys is left in its receive,
all of them, one per tick, have their key, and the full channel holds at least one more; so
more identities than ticks were made, of which readers took at most one per tick, and
the channel of identities is not empty.

### 5.4 The packager

| Theorem | States |
|---|---|
| `PackagerTypes` | `Spec => []TypeOK` |
| `NothingLostOrDoubled` | `Spec => HeldOnlyGrowsBySets` |

`Held` sums the sets in a channel with a fold. `QueuedSums` gives its value by recursion on
the length of the channel, `QueuedAppend` and `QueuedHead` what a send and a receive change,
and `CutAndRest` that the block and the rest of a pool make up the pool: this is the only
thing `Firsts` is used for, so the theorem holds for any order of the sort.

### 5.5 The generator of dynamic keys

| Theorem | States |
|---|---|
| `DynaKeysTypes` | `Spec => []TypeOK` |
| `MappingsStay` | `Spec => EarlierMappingsStay` |
| `PlacesDiffer` | `Spec => []PlacesAreDistinct` |
| `WalksEnd` | `Spec => []WalkEnds` |
| `HeightNotAboveTip`, `HeightNeverFalls` | the published height is at most that of the tip, and never falls |
| `TurnsAreAboveGenesis` | the generator asks for keys above the genesis height only, so the first return of `NewDynaKeyFromExistID` is never taken and is not modelled |
| `ChainInvariant` | `Spec => []ChainInv` |

The invariant has three independent parts. `ChainInv`: every stored or packed header
is one above its parent, and the heights of what is packed follow the published one
at a distance of at most one (`HeightsFollow`): this is why a block packed on an old tip
does not lower the height, and `commit` says what of it holds in the middle of a
commit. `KeysInv`: the copies the generator holds are what is stored
(`CopiesCurrent`), because nobody else writes mappings; so a `Put` loses only what was
added since the copy was read. `PlacesInv`: the counter of the next side block counts
keys of this turn only, every place given for that block lies below it (or on it,
until the key is sent), and counters of higher blocks are 0.

`WalksEnd` follows from `HeightNotAboveTip` and `ChainInv`: each step of a walk goes down by
one (`AncestorsStep`), so it meets every height below its start (`WalkMeets`). `Ancestors`
is a recursive function, and the induction over the length of the walk is made with
`LeastNumber`: were there a step without the property, there would be a first one.

### 5.6 The start

| Theorem | States |
|---|---|
| `StartupTypeCorrect` | `Spec => []TypeOK` |
| `IdsAreUnique` | `Spec => []UniqueIds` |
| `GenesisBeforeListening` | `Spec => []StartedWithGenesis` |
| `StartupInvariant` | `Spec => []StartupInv` |
| `NoStartDeadlock` | `Spec => []SomeStartGoesOn` |
| `StartsRunOut` | every step takes one process nearer to its end and leaves the others where they are |

`UniqueIds` is not inductive: `Claim` needs that an owned id is in `claimed`. The second
property needs that the stage after a copy implies the copy, and that a genesis block
once stored stays. For `SomeStartGoesOn`, `Holders` says at which stages a process can have
a file open: with the side file open, at none at which it could wait. So if all wait,
nobody has the side file open, and who has the main file open waits for nothing.
`StepsLeft` counts down over the stages; while it scans the ids, over the ids
left.

### 5.7 The world

| Theorem | States |
|---|---|
| `UnitsAreConserved` | `WorldSpec => []UnitsConserved` |
| `ReservationsAreBacked` | `WorldSpec => []ReservationsBacked` |
| `SettlingNeverFails` | no `UpdateStateP` changes `txFail` |

`WorldInv` says that the units of all accounts are as many as there are devices, that what
is in trading is what the unsettled lists amount to (`Backed`), and that no list is there
twice. A batch is a fold, so the proofs go through it one transaction at a time: `LoopRuns`
turns `Loop` into a function that gives what is carried after each transaction. Each method
takes from one account what it gives to another, so the sum stays (`SumMoved`). What
`UpdateByP` has returned so far grows by what it has put into trading so far
(`LoopReserves`). When a list is settled, what is in trading is at every point what the
other lists amount to and what is left of this one (`LoopSettles`); so no guard of
`UpdateStateP` fails, which is `SettlingNeverFails`, and the list leaves nothing behind.

`startup` checks both invariants under `SystemSpec`, in which the world is used after
the starts have ended; each of its steps is one of `WorldNext` or leaves `worldVars` alone.

### 5.8 Recursion

A fold or a recursive function is a `CHOOSE` of a function that satisfies an equation; to
know anything of it, one must show that there is such a function. `FoldLemmas` does so
for folds over finite sets of numbers and the sums of the community modules, from
`LeastNumber` (every set of naturals that is not empty has a least element) and without
the induction theorems of the library: they take operators as parameters, which the
provers cannot instantiate.

### 5.9 Only model-checked

Liveness under fairness: `RoundCompletes`, `EveryLiveReplicaCommits`, `ReadersReport`,
`SetsAreReceived`, `TurnsEndUnlessAllMapped` and `EveryStartEnds` are out of reach of the prover. What they
rest on is proved where it is safety: for the agreement, that work runs out
(`WorkIsFinite`) and that where it has run out everything is done
(`NothingIsLeftUndone`); for the starts, `StartsRunOut` and `NoStartDeadlock`. That
`CanWork` says no more and no less than that some action is enabled is not
proved either: it is read off the guards. Every invariant and every action property of a
passing run is a theorem.

## 6. Not modelled

* *Signatures and digests*: library code; the nodes run this program.
* *Torn reads inside one Go map or slice header*: a process that meets one stops
  (`Crash`), and slices are values in `TxTransfer`.
* *A call of bolt that times out after 500 ms* (`DB.go:39, 87`): the deferred `Close`
  runs on a nil database and the process ends, which is `Crash` of the replica.
* *Codecs* (Base58, the message header, gob and JSON): sequential functions on
  strings, without state that another step could disturb.
* *Client entry points*: never called. *Configuration*: the size of `NodeTable`.
* *Block store*: `NewBlockFromTx`, `Delete`, the genesis getters, `GetHeightMain` and the
  side iterator have no caller in the running program.
* *World*: the JSON files, which nothing reads back into the operations; the printing
  methods; the empty methods.
* *What a set is worth*: a listener sends the slice as it finds it, which another reader may
  have made shorter since it was reported full, and clears what was appended since it was
  sent. `TxTransfer` has these behaviours; nothing is claimed against them, because the
  leader collects short sets and a reader appends its transaction again.
* *The text of a key*, and where its mapping says that it will be: the mapping is
  the map of counters itself, not a place (`Blockchain.go:301`).

## 7. What could follow

1. `IntakeToBlocks`: `TxTransfer` and `Packager` composed; `DynaKeys` as a refinement of
   the chain of `Consensus`, which today it restates in `PackMain` and `UpdateMainBlock`.
2. A promise for `Packager`, such as a bag of sets, with `HeldOnlyGrowsBySets` as a
   refinement; a promise for `DynaKeys`, in which a key's mappings are added one by one.
3. What holds at the backups without the sleeps: how far the logs of two replicas can differ
   when one is late (`missed_commit`) bounds what a restart would have to fetch.
