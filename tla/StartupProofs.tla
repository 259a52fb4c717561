---------------------------- MODULE StartupProofs -----------------------------
(***************************************************************************)
(* Proofs about Startup for any number of processes, any size of the node  *)
(* table, any shared directories present before and any number of kills.   *)
(***************************************************************************)
EXTENDS Startup, TLAPS

\* The id a process looks at or has is one the scan goes over; only NewIdM can
\* be given the id "nil".
ScanInRange ==
  \A p \in Procs :
    stage[p] \in {"scan", "claim", "world", "openMain", "openSide", "putMain", "putSide",
                 "copyMain", "copySide", "listening", "serving"} => id[p] \in Ids

\* The directory of every id in use was made.
OwnersClaimed == \A p \in Procs : Owns(p) => id[p] \in claimed

\* The main chain is copied before the side chain.
MainCopiedFirst == \A p \in Procs : stage[p] = "copySide" => "main" \in copied[p]

\* The inductive invariant: UniqueIds holds because an id is claimed only while it
\* has no directory, StartedWithGenesis because each copy tests for its bucket.
StartupInv ==
  /\ TypeOK
  /\ ScanInRange
  /\ OwnersClaimed
  /\ UniqueIds
  /\ MainCopiedFirst
  /\ StartedWithGenesis

LEMMA StartupInit == Init => StartupInv
  BY StartupAssumption DEF Init, StartupInv, TypeOK, ScanInRange, OwnersClaimed,
     UniqueIds, MainCopiedFirst, StartedWithGenesis, Owns, Stages, Ended, Shared,
     Files, ClientPort

\* A process that moves without touching ids, copies or genesis files: it ends,
\* or goes from a stage that owns its id to another.
LEMMA DiesKeeps ==
  ASSUME StartupInv, NEW p \in Procs, Dies(p), crashes' \in 0..MaxCrashes,
         UNCHANGED <<id, claimed, genesis, copied>>, dirs' \subseteq Shared
  PROVE  StartupInv'
<1> USE StartupAssumption DEF StartupInv, Dies, Goto
<1>1. /\ stage' \in [Procs -> Stages] /\ stage'[p] = "dead"
      /\ \A q \in Procs \ {p} : stage'[q] = stage[q]
  BY DEF TypeOK, Stages, Ended
<1>2. TypeOK'
  BY <1>1 DEF TypeOK, Files
<1>3. ScanInRange' /\ OwnersClaimed' /\ UniqueIds'
  BY <1>1 DEF ScanInRange, OwnersClaimed, UniqueIds, Owns, Ids, LastId
<1>4. MainCopiedFirst' /\ StartedWithGenesis'
  BY <1>1 DEF MainCopiedFirst, StartedWithGenesis
<1> QED
  BY <1>2, <1>3, <1>4

\* Before a process has claimed an id, its own moves concern nobody else.
LEMMA BeforeClaim ==
  ASSUME StartupInv, NEW p \in Procs,
         NEW s \in Shared \cup {"makeLog", "makeData", "makeKeys", "scan", "claim"},
         NEW i \in 0..(ClientPort + N), s \in {"scan", "claim"} => i \in Ids,
         stage' = [stage EXCEPT ![p] = s], id' = [id EXCEPT ![p] = i],
         UNCHANGED <<claimed, genesis, opened, copied, crashes>>, dirs' \subseteq Shared
  PROVE  StartupInv'
<1> USE StartupAssumption DEF StartupInv
<1>1. /\ stage' \in [Procs -> Stages] /\ stage'[p] = s
      /\ id' \in [Procs -> 0..(ClientPort + N)] /\ id'[p] = i
      /\ \A q \in Procs \ {p} : stage'[q] = stage[q] /\ id'[q] = id[q]
  BY DEF TypeOK, Stages
<1>2. TypeOK'
  BY <1>1 DEF TypeOK
<1>3. s \notin {"world", "openMain", "openSide", "putMain", "putSide", "newNode",
                "copyMain", "copySide", "listening", "serving"}
  BY DEF Shared
<1>4. ScanInRange' /\ OwnersClaimed' /\ UniqueIds'
  BY <1>1, <1>3 DEF ScanInRange, OwnersClaimed, UniqueIds, Owns, Ids, LastId
<1>5. MainCopiedFirst' /\ StartedWithGenesis'
  BY <1>1, <1>3 DEF MainCopiedFirst, StartedWithGenesis
<1> QED
  BY <1>2, <1>4, <1>5

\* A process that owns its id goes on to another stage with it.
LEMMA OwnerGoesOn ==
  ASSUME StartupInv, NEW p \in Procs, Owns(p),
         NEW s \in {"openMain", "openSide", "putMain", "putSide", "copyMain",
                    "copySide", "listening", "serving"},
         stage' = [stage EXCEPT ![p] = s],
         UNCHANGED <<id, dirs, claimed, crashes>>, genesis' \subseteq Files,
         opened' \in [Files -> Procs \cup {NoProc}],
         copied' \in [Procs -> SUBSET Files],
         \A q \in Procs \ {p} : copied'[q] = copied[q],
         s = "copySide" => "main" \in copied'[p],
         s \in {"listening", "serving"} => copied'[p] = Files
  PROVE  StartupInv'
<1> USE StartupAssumption DEF StartupInv
<1>1. /\ stage' \in [Procs -> Stages] /\ stage'[p] = s
      /\ \A q \in Procs \ {p} : stage'[q] = stage[q]
  BY DEF TypeOK, Stages, Ended
<1>2. TypeOK'
  BY <1>1 DEF TypeOK
<1>3. ScanInRange' /\ OwnersClaimed' /\ UniqueIds'
  BY <1>1 DEF TypeOK, ScanInRange, OwnersClaimed, UniqueIds, Owns, Ids, LastId
<1>4. MainCopiedFirst' /\ StartedWithGenesis'
  BY <1>1 DEF MainCopiedFirst, StartedWithGenesis
<1> QED
  BY <1>2, <1>3, <1>4

\* The scan: on to the claim, to the next id, or out of ids.
LEMMA ScanKeeps ==
  ASSUME StartupInv, NEW p \in Procs, Scan(p)
  PROVE  StartupInv'
<1> USE StartupAssumption
<1>1. TypeOK /\ id[p] \in Ids /\ stage[p] = "scan"
  BY DEF StartupInv, ScanInRange, Scan
<1>2. /\ id = [id EXCEPT ![p] = id[p]] /\ stage = [stage EXCEPT ![p] = "scan"]
      /\ dirs' \subseteq Shared /\ Ids \subseteq 0..(ClientPort + N)
  BY <1>1 DEF TypeOK, Scan, Ids, LastId, ClientPort
<1>3. CASE id[p] \notin claimed
  BY <1>1, <1>2, <1>3, BeforeClaim DEF Scan, Goto
<1>4. CASE id[p] \in claimed /\ id[p] < LastId
  <2>1. id[p] + 1 \in Ids
    BY <1>1, <1>4 DEF Ids, LastId, ClientPort
  <2> QED
    BY <1>1, <1>2, <1>4, <2>1, BeforeClaim DEF Scan
<1>5. CASE id[p] \in claimed /\ ~(id[p] < LastId)
  <2> USE DEF StartupInv
  <2>1. /\ stage' \in [Procs -> Stages] /\ stage'[p] = "newNode"
        /\ id' \in [Procs -> 0..(ClientPort + N)] /\ id'[p] = 0
        /\ \A q \in Procs \ {p} : stage'[q] = stage[q] /\ id'[q] = id[q]
        /\ UNCHANGED <<dirs, claimed, genesis, opened, copied, crashes>>
    BY <1>5, <1>1 DEF TypeOK, Stages, Scan, Goto, ClientPort
  <2>2. TypeOK'
    BY <2>1 DEF TypeOK
  <2>3. ScanInRange' /\ OwnersClaimed' /\ UniqueIds'
    BY <2>1 DEF ScanInRange, OwnersClaimed, UniqueIds, Owns, Ids, LastId
  <2>4. MainCopiedFirst' /\ StartedWithGenesis'
    BY <2>1 DEF MainCopiedFirst, StartedWithGenesis
  <2> QED
    BY <2>2, <2>3, <2>4
<1> QED
  BY <1>3, <1>4, <1>5

\* The claim: of two processes that found the id free, one finds its directory.
LEMMA ClaimKeeps ==
  ASSUME StartupInv, NEW p \in Procs, Claim(p)
  PROVE  StartupInv'
<1> USE StartupAssumption DEF StartupInv
<1>1. TypeOK /\ id[p] \in Ids /\ stage[p] = "claim"
  BY DEF ScanInRange, Claim
<1>2. CASE id[p] \in claimed
  <2>1. claimed' = claimed /\ dirs' \subseteq Shared /\ crashes' \in 0..MaxCrashes
    BY <1>1, <1>2 DEF Claim, TypeOK
  <2> QED
    BY <1>2, <2>1, DiesKeeps DEF Claim
<1>3. CASE id[p] \notin claimed
  <2>1. /\ stage' \in [Procs -> Stages] /\ stage'[p] \in {"world", "newNode"}
        /\ \A q \in Procs \ {p} : stage'[q] = stage[q]
        /\ claimed' = claimed \cup {id[p]}
        /\ UNCHANGED <<id, dirs, genesis, opened, copied, crashes>>
    BY <1>1, <1>3 DEF Claim, TypeOK, Goto, Stages
  <2>2. TypeOK'
    BY <2>1, <1>1 DEF TypeOK, Ids, LastId
  <2>3. ScanInRange' /\ OwnersClaimed'
    BY <2>1, <1>1 DEF ScanInRange, OwnersClaimed, Owns
  <2>4. UniqueIds'
    BY <2>1, <1>3 DEF UniqueIds, OwnersClaimed, Owns
  <2>5. MainCopiedFirst' /\ StartedWithGenesis'
    BY <2>1 DEF MainCopiedFirst, StartedWithGenesis
  <2> QED
    BY <2>2, <2>3, <2>4, <2>5
<1> QED
  BY <1>2, <1>3

\* The client makes the genesis files.
LEMMA ClientKeeps ==
  ASSUME StartupInv, NEW p \in Procs, InitNode(p) \/ OpenGenesis(p) \/ PutGenesis(p)
  PROVE  StartupInv'
<1> USE DEF InitNode, OpenGenesis, PutGenesis, Open, Close, Goto
<1>1. TypeOK /\ stage[p] \in {"world", "openMain", "openSide", "putMain", "putSide"}
  BY DEF StartupInv
<1>2. Owns(p)
  BY <1>1 DEF StartupInv, ScanInRange, Owns, Ids, LastId, ClientPort
<1>3. /\ genesis' \subseteq Files /\ opened' \in [Files -> Procs \cup {NoProc}]
      /\ copied' \in [Procs -> SUBSET Files]
      /\ UNCHANGED <<id, dirs, claimed, copied, crashes>>
  <2>1. CASE InitNode(p)
    BY <2>1, <1>1 DEF TypeOK
  <2>2. CASE OpenGenesis(p)
    <3>1. \/ opened' = [opened EXCEPT !["main"] = p]
          \/ opened' = [opened EXCEPT !["side"] = p]
      BY <2>2
    <3>2. opened \in [Files -> Procs \cup {NoProc}] /\ {"main", "side"} \subseteq Files
      BY <1>1 DEF TypeOK, Files
    <3>3. opened' \in [Files -> Procs \cup {NoProc}]
      BY ONLY <3>1, <3>2, p \in Procs
    <3>4. UNCHANGED <<id, dirs, claimed, genesis, copied, crashes>>
      BY <2>2
    <3> QED
      BY <3>3, <3>4, <1>1 DEF TypeOK
  <2>3. CASE PutGenesis(p)
    <3>1. genesis' \subseteq Files /\ UNCHANGED <<id, dirs, claimed, copied, crashes>>
      BY <2>3, <1>1 DEF TypeOK, Files
    <3>2. opened' \in [Files -> Procs \cup {NoProc}]
      BY <2>3, <1>1 DEF TypeOK
    <3> QED
      BY <3>1, <3>2, <1>1 DEF TypeOK
  <2> QED
    BY <2>1, <2>2, <2>3
<1>4. \E s \in {"openMain", "openSide", "putMain", "putSide", "copyMain"} :
        stage' = [stage EXCEPT ![p] = s]
  OBVIOUS
<1> QED
  BY <1>2, <1>3, <1>4, OwnerGoesOn

\* The copy of the genesis blocks, by a replica and by the client.
LEMMA CopyKeeps ==
  ASSUME StartupInv, NEW p \in Procs, NewIdM(p) \/ CopyMain(p) \/ CopySide(p)
  PROVE  StartupInv'
<1>1. TypeOK /\ stage[p] \in {"newNode", "copyMain", "copySide"}
  BY DEF StartupInv, NewIdM, CopyMain, CopySide
<1>2. CASE Dies(p) /\ UNCHANGED <<id, dirs, claimed, genesis, copied, crashes>>
  BY <1>1, <1>2, DiesKeeps DEF TypeOK
<1>3. CASE NewIdM(p) /\ id[p] # 0
  <2>1. Owns(p)
    BY <1>3 DEF NewIdM, Owns
  <2> QED
    BY <1>1, <1>3, <2>1, OwnerGoesOn DEF NewIdM, Goto, TypeOK
<1>4. CASE CopyMain(p) /\ HasBucket("main")
  <2>1. Owns(p)
    BY <1>4 DEF CopyMain, StartupInv, ScanInRange, Owns, Ids, LastId, ClientPort, StartupAssumption
  <2>2. /\ copied' \in [Procs -> SUBSET Files] /\ "main" \in copied'[p]
        /\ \A q \in Procs \ {p} : copied'[q] = copied[q]
        /\ opened' \in [Files -> Procs \cup {NoProc}]
    BY <1>1, <1>4 DEF CopyMain, HasBucket, Open, TypeOK, Files
  <2> QED
    BY <1>1, <1>4, <2>1, <2>2, OwnerGoesOn DEF CopyMain, Goto, TypeOK
<1>5. CASE CopySide(p) /\ HasBucket("side")
  <2>1. Owns(p) /\ "main" \in copied[p]
    BY <1>5 DEF CopySide, StartupInv, ScanInRange, MainCopiedFirst, Owns, Ids, LastId, ClientPort
  <2>2. /\ copied' \in [Procs -> SUBSET Files] /\ copied'[p] = Files
        /\ \A q \in Procs \ {p} : copied'[q] = copied[q]
        /\ opened' \in [Files -> Procs \cup {NoProc}]
    BY <1>1, <1>5, <2>1 DEF CopySide, HasBucket, Close, TypeOK, Files
  <2>3. \E s \in {"serving", "listening"} : stage' = [stage EXCEPT ![p] = s]
    BY <1>5 DEF CopySide, Goto
  <2> QED
    BY <1>1, <1>5, <2>1, <2>2, <2>3, OwnerGoesOn DEF CopySide, TypeOK
<1> QED
  BY <1>2, <1>3, <1>4, <1>5 DEF NewIdM, CopyMain, CopySide

\* Every step of Server keeps the invariant, one action at a time.
LEMMA ServerKeeps ==
  ASSUME StartupInv, NEW p \in Procs, Server(p)
  PROVE  StartupInv'
<1> USE StartupAssumption
<1>1. TypeOK
  BY DEF StartupInv
<1>2. ClientPort \in Ids /\ Ids \subseteq 0..(ClientPort + N) /\ 0 \notin Ids
  BY DEF Ids, LastId, ClientPort
<1>3. id[p] \in 0..(ClientPort + N) /\ id = [id EXCEPT ![p] = id[p]]
  BY <1>1 DEF TypeOK
<1>4. ASSUME NEW d \in Shared, Past(p, d), UNCHANGED <<claimed, genesis, opened, copied, crashes>>,
             dirs' \subseteq Shared
      PROVE  StartupInv'
  <2>1. CASE d = "Keys"
    <3>1. After[d] = "scan"
      BY <2>1 DEF After
    <3>2. stage' = [stage EXCEPT ![p] = "scan"] /\ id' = [id EXCEPT ![p] = ClientPort]
      BY <3>1, <1>4 DEF Past, Goto
    <3> QED
      BY <3>2, <1>2, <1>4, BeforeClaim
  <2>2. CASE d \in {"log", "Data"}
    <3>1. After[d] \in Shared /\ After[d] \notin {"scan", "claim"}
      BY <2>2 DEF After, Shared
    <3>2. stage' = [stage EXCEPT ![p] = After[d]] /\ id' = [id EXCEPT ![p] = id[p]]
      BY <3>1, <1>3, <1>4 DEF Past, Goto
    <3> QED
      BY <3>1, <3>2, <1>3, <1>4, BeforeClaim
  <2> QED
    BY <2>1, <2>2 DEF Shared
<1>5. CASE TestDir(p)
  <2>1. PICK d \in Shared :
          /\ IF d \in dirs THEN Past(p, d) ELSE Goto(p, Making[d]) /\ UNCHANGED id
          /\ UNCHANGED <<dirs, claimed, genesis, opened, copied, crashes>>
    BY <1>5 DEF TestDir
  <2>2. dirs' \subseteq Shared
    BY <2>1, <1>1 DEF TypeOK
  <2>3. CASE Goto(p, Making[d]) /\ UNCHANGED id
    <3>1. Making[d] \in {"makeLog", "makeData", "makeKeys"}
      BY DEF Making, Shared
    <3> QED
      BY <2>1, <2>2, <2>3, <3>1, <1>3, BeforeClaim DEF Goto
  <2> QED
    BY <2>1, <2>2, <2>3, <1>4
<1>6. CASE MakeDir(p)
  <2>1. PICK d \in Shared :
          /\ dirs' = dirs \cup {d}
          /\ \/ Dies(p) /\ UNCHANGED id
             \/ Past(p, d) /\ UNCHANGED opened
          /\ UNCHANGED <<claimed, genesis, copied, crashes>>
    BY <1>6 DEF MakeDir
  <2>2. dirs' \subseteq Shared /\ crashes' \in 0..MaxCrashes
    BY <2>1, <1>1 DEF TypeOK
  <2>3. CASE Dies(p) /\ UNCHANGED id
    BY <2>1, <2>2, <2>3, DiesKeeps
  <2>4. CASE Past(p, d) /\ UNCHANGED opened
    BY <2>1, <2>2, <2>4, <1>4
  <2> QED
    BY <2>1, <2>3, <2>4
<1>7. CASE Scan(p)
  BY <1>7, <1>1, <1>2, <1>3, ScanKeeps
<1>8. CASE Claim(p)
  BY <1>8, ClaimKeeps
<1>9. CASE InitNode(p) \/ OpenGenesis(p) \/ PutGenesis(p)
  BY <1>9, ClientKeeps
<1>10. CASE NewIdM(p) \/ CopyMain(p) \/ CopySide(p)
  BY <1>10, CopyKeeps
<1> QED
  BY <1>5, <1>6, <1>7, <1>8, <1>9, <1>10 DEF Server

\* No two processes run under one id, nothing listens without both genesis
\* blocks, and the types hold: for any number of processes, ids and kills.
THEOREM StartupInvariant == Spec => []StartupInv
<1>1. Init => StartupInv
  BY StartupInit
<1>2. StartupInv /\ [Next]_vars => StartupInv'
  <2> SUFFICES ASSUME StartupInv, [Next]_vars PROVE StartupInv'
    OBVIOUS
  <2>1. ASSUME NEW p \in Procs, Server(p) PROVE StartupInv'
    BY <2>1, ServerKeeps
  <2>2. ASSUME NEW p \in Procs, Kill(p) PROVE StartupInv'
    <3>1. crashes' \in 0..MaxCrashes /\ dirs' \subseteq Shared
      BY <2>2, StartupAssumption DEF Kill, StartupInv, TypeOK
    <3> QED
      BY <2>2, <3>1, DiesKeeps DEF Kill
  <2>3. CASE UNCHANGED vars
    BY <2>3 DEF vars, StartupInv, TypeOK, ScanInRange, OwnersClaimed, UniqueIds,
       MainCopiedFirst, StartedWithGenesis, Owns
  <2> QED
    BY <2>1, <2>2, <2>3 DEF Next, Run
<1> QED
  BY <1>1, <1>2, PTL DEF Spec

\* Every variable keeps its type; the ids stay in the node table, but for one.
THEOREM StartupTypeCorrect == Spec => []TypeOK
<1>1. StartupInv => TypeOK
  BY DEF StartupInv
<1> QED
  BY <1>1, StartupInvariant, PTL

\* However many processes scan at once, no two run under one id (RSA.go:32).
THEOREM IdsAreUnique == Spec => []UniqueIds
<1>1. StartupInv => UniqueIds
  BY DEF StartupInv
<1> QED
  BY <1>1, StartupInvariant, PTL

\* Whenever processes start and whichever are killed, one that listens or serves
\* has the genesis block of both chains (Utils.go:217 and 259).
THEOREM GenesisBeforeListening == Spec => []StartedWithGenesis
<1>1. StartupInv => StartedWithGenesis
  BY DEF StartupInv
<1> QED
  BY <1>1, StartupInvariant, PTL

----------------------------------------------------------------------------
(* Who has a genesis file open.                                            *)

\* A process has a file open only between its Open and its return: the side file
\* only with nothing left to open, the main file with at most the side file.
Holders ==
  \A p \in Procs :
    /\ opened["main"] = p => stage[p] \in {"openSide", "putMain", "putSide", "copySide"}
    /\ opened["side"] = p => stage[p] \in {"putMain", "putSide"}

\* It is enough to look at the process that moves, and at what it opens.
LEMMA HoldersKept ==
  ASSUME TypeOK, Holders, NEW p \in Procs,
         \A q \in Procs \ {p} : stage'[q] = stage[q],
         \A f \in Files : opened'[f] \in {opened[f], p, NoProc},
         opened'["main"] = p => stage'[p] \in {"openSide", "putMain", "putSide", "copySide"},
         opened'["side"] = p => stage'[p] \in {"putMain", "putSide"}
  PROVE  Holders'
  BY StartupAssumption DEF Holders, Files

LEMMA MovesOne ==
  ASSUME TypeOK, NEW p \in Procs, NEW s, stage' = [stage EXCEPT ![p] = s]
  PROVE  stage'[p] = s /\ \A q \in Procs \ {p} : stage'[q] = stage[q]
  BY DEF TypeOK

\* A process that ends or returns has closed its files.
LEMMA ClosedHolds ==
  ASSUME TypeOK, Holders, NEW p \in Procs, NEW s, stage' = [stage EXCEPT ![p] = s],
         opened' = [f \in Files |-> IF opened[f] = p THEN NoProc ELSE opened[f]]
  PROVE  Holders'
<1>1. \A f \in Files : opened'[f] \in {opened[f], NoProc} /\ opened'[f] # p
  BY StartupAssumption
<1>2. {"main", "side"} \subseteq Files
  BY DEF Files
<1> QED
  BY <1>1, <1>2, MovesOne, HoldersKept

\* Neither has one that opened nothing, until it does.
LEMMA UnopenedHolds ==
  ASSUME TypeOK, Holders, NEW p \in Procs, NEW s,
         \/ UNCHANGED stage
         \/ stage' = [stage EXCEPT ![p] = s],
         UNCHANGED opened,
         stage[p] \notin {"openSide", "putMain", "putSide", "copySide"}
  PROVE  Holders'
  BY MovesOne, HoldersKept DEF Holders

LEMMA HoldersStep ==
  ASSUME TypeOK, Holders, NEW p \in Procs, Server(p) \/ Kill(p)
  PROVE  Holders'
<1> USE DEF Goto
<1>1. CASE Dies(p)
  BY <1>1, ClosedHolds DEF Dies
<1>2. CASE (TestDir(p) \/ MakeDir(p) \/ Scan(p) \/ Claim(p) \/ InitNode(p) \/ NewIdM(p)) /\ ~Dies(p)
  <2>1. stage[p] \notin {"openSide", "putMain", "putSide", "copySide"}
    BY <1>2 DEF TestDir, MakeDir, Scan, Claim, InitNode, NewIdM, Shared, Making
  <2>2. UNCHANGED opened
    BY <1>2 DEF TestDir, MakeDir, Scan, Claim, InitNode, NewIdM
  <2>3. UNCHANGED stage \/ \E s : stage' = [stage EXCEPT ![p] = s]
    BY <1>2 DEF TestDir, MakeDir, Scan, Claim, InitNode, NewIdM, Past
  <2> QED
    BY <2>1, <2>2, <2>3, UnopenedHolds
<1>3. CASE OpenGenesis(p) \/ (CopyMain(p) /\ ~Dies(p))
  <2>1. PICK f \in Files :
          /\ opened' = [opened EXCEPT ![f] = p]
          /\ \/ f = "main" /\ stage[p] = "openMain" /\ stage' = [stage EXCEPT ![p] = "openSide"]
             \/ f = "side" /\ stage[p] = "openSide" /\ stage' = [stage EXCEPT ![p] = "putMain"]
             \/ f = "main" /\ stage[p] = "copyMain" /\ stage' = [stage EXCEPT ![p] = "copySide"]
    BY <1>3 DEF OpenGenesis, CopyMain, Open, Files
  <2>2. /\ opened'[f] = p
        /\ \A g \in Files \ {f} : opened'[g] = opened[g]
    BY <2>1 DEF TypeOK
  <2>3. f = "main" => opened["side"] # p
    BY <2>1 DEF Holders
  <2>4. \/ f = "main" /\ stage'[p] \in {"openSide", "copySide"}
        \/ f = "side" /\ stage'[p] = "putMain"
    BY <2>1, MovesOne
  <2>5. \A q \in Procs \ {p} : stage'[q] = stage[q]
    BY <2>1, MovesOne
  <2>6. {"main", "side"} \subseteq Files
    BY DEF Files
  <2>7. \A g \in Files : opened'[g] \in {opened[g], p, NoProc}
    BY <2>2
  <2>8. opened'["main"] = p => stage'[p] \in {"openSide", "putMain", "putSide", "copySide"}
    BY <2>4
  <2>9. opened'["side"] = p => stage'[p] \in {"putMain", "putSide"}
    BY <2>2, <2>3, <2>4, <2>6
  <2> QED
    BY <2>5, <2>7, <2>8, <2>9, HoldersKept
<1>4. CASE PutGenesis(p)
  <2>1. CASE stage[p] = "putMain"
    <3>1. stage' = [stage EXCEPT ![p] = "putSide"] /\ UNCHANGED opened
      BY <1>4, <2>1 DEF PutGenesis
    <3> QED
      BY <3>1, MovesOne, HoldersKept
  <2>2. CASE stage[p] = "putSide"
    BY <1>4, <2>2, ClosedHolds DEF PutGenesis, Close
  <2> QED
    BY <1>4, <2>1, <2>2 DEF PutGenesis
<1>5. CASE CopySide(p) /\ ~Dies(p)
  <2>1. \E s : stage' = [stage EXCEPT ![p] = s]
    BY <1>5 DEF CopySide
  <2> QED
    BY <1>5, <2>1, ClosedHolds DEF CopySide, Close
<1> QED
  BY <1>1, <1>2, <1>3, <1>4, <1>5 DEF Server, Kill

\* Whatever is killed, and whenever, the processes that are still starting do not
\* all wait for a genesis file: the one that has the side file open waits for
\* nothing, and without it the one that has the main file open goes on.
THEOREM NoStartDeadlock == Spec => []SomeStartGoesOn
<1>1. Init => Holders
  BY StartupAssumption DEF Init, Holders, Files
<1>2. TypeOK /\ Holders /\ [Next]_vars => Holders'
  <2> SUFFICES ASSUME TypeOK, Holders, [Next]_vars PROVE Holders'
    OBVIOUS
  <2>1. CASE UNCHANGED vars
    BY <2>1 DEF vars, Holders
  <2> QED
    BY <2>1, HoldersStep DEF Next, Run
<1>3. TypeOK /\ Holders => SomeStartGoesOn
  <2> SUFFICES ASSUME TypeOK, Holders, NEW p \in Procs, stage[p] \notin Ended
               PROVE  \E q \in Procs : stage[q] \notin Ended /\ ~Waits(q)
    BY DEF SomeStartGoesOn
  <2> USE DEF Waits, Holders, Ended
  <2>1. opened["main"] \in Procs \cup {NoProc} /\ opened["side"] \in Procs \cup {NoProc}
    BY DEF TypeOK, Files
  <2>2. CASE opened["side"] # NoProc
    BY <2>1, <2>2
  <2>3. CASE opened["side"] = NoProc /\ opened["main"] # NoProc
    BY <2>1, <2>3
  <2>4. CASE opened["side"] = NoProc /\ opened["main"] = NoProc
    BY <2>4
  <2> QED
    BY <2>2, <2>3, <2>4
<1> QED
  BY <1>1, <1>2, <1>3, StartupTypeCorrect, PTL DEF Spec

----------------------------------------------------------------------------
(* Every start takes a bounded number of steps.                            *)

\* How many steps a process may still take, waiting for a file not counted.
StepsLeft(p) ==
  CASE stage[p] = "log"      -> 16 + N
    [] stage[p] = "makeLog"  -> 15 + N
    [] stage[p] = "Data"     -> 14 + N
    [] stage[p] = "makeData" -> 13 + N
    [] stage[p] = "Keys"     -> 12 + N
    [] stage[p] = "makeKeys" -> 11 + N
    [] stage[p] = "scan"     -> 10 + (LastId - id[p])
    [] stage[p] = "claim"    -> 9
    [] stage[p] = "world"    -> 7
    [] stage[p] = "openMain" -> 6
    [] stage[p] = "openSide" -> 5
    [] stage[p] = "putMain"  -> 4
    [] stage[p] = "putSide"  -> 3
    [] stage[p] = "newNode"  -> 3
    [] stage[p] = "copyMain" -> 2
    [] stage[p] = "copySide" -> 1
    [] stage[p] \in Ended    -> 0

\* A step brings one process nearer to its end, and holds no other one up.
OneGetsOn ==
  \E p \in Procs :
    /\ StepsLeft(p)' < StepsLeft(p)
    /\ \A q \in Procs \ {p} : StepsLeft(q)' = StepsLeft(q)

LEMMA StepsLeftNat ==
  ASSUME StartupInv, NEW p \in Procs
  PROVE  StepsLeft(p) \in Nat
<1>1. stage[p] \in Stages /\ (stage[p] = "scan" => id[p] \in ClientPort..LastId)
  BY DEF StartupInv, TypeOK, ScanInRange, Ids
<1> QED
  BY <1>1, StartupAssumption DEF StepsLeft, Stages, Shared, Ended, LastId, ClientPort

LEMMA StepGetsOn ==
  ASSUME StartupInv, NEW p \in Procs, Server(p) \/ Kill(p)
  PROVE  OneGetsOn
<1> USE StartupAssumption DEF Goto
<1>1. /\ stage \in [Procs -> Stages] /\ id \in [Procs -> 0..(ClientPort + N)]
      /\ stage[p] = "scan" => id[p] \in ClientPort..LastId
  BY DEF StartupInv, TypeOK, ScanInRange, Ids
<1>2. ASSUME NEW s \in Stages, stage' = [stage EXCEPT ![p] = s],
             \A q \in Procs \ {p} : id'[q] = id[q]
      PROVE  stage'[p] = s /\ \A q \in Procs \ {p} : StepsLeft(q)' = StepsLeft(q)
  BY <1>1, <1>2 DEF StepsLeft
<1>3. CASE Dies(p) /\ stage[p] \notin Ended /\ UNCHANGED id
  <2>1. stage' = [stage EXCEPT ![p] = "dead"] /\ "dead" \in Stages
    BY <1>3 DEF Dies, Stages, Ended
  <2>2. StepsLeft(p)' = 0
    BY <2>1, <1>2, <1>3 DEF StepsLeft, Ended
  <2>3. StepsLeft(p) > 0
    BY <1>1, <1>3 DEF StepsLeft, Stages, Shared, Ended, LastId, ClientPort
  <2> QED
    BY <2>1, <2>2, <2>3, <1>2, <1>3 DEF OneGetsOn
<1>4. ASSUME NEW s \in Stages \ {"scan"}, stage' = [stage EXCEPT ![p] = s], UNCHANGED id,
             <<stage[p], s>> \in
               {<<"log", "Data">>, <<"log", "makeLog">>, <<"makeLog", "Data">>,
                <<"Data", "Keys">>, <<"Data", "makeData">>, <<"makeData", "Keys">>,
                <<"Keys", "makeKeys">>, <<"scan", "claim">>, <<"claim", "world">>,
                <<"claim", "newNode">>, <<"world", "openMain">>, <<"openMain", "openSide">>,
                <<"openSide", "putMain">>, <<"putMain", "putSide">>, <<"putSide", "copyMain">>,
                <<"newNode", "copyMain">>, <<"copyMain", "copySide">>,
                <<"copySide", "serving">>, <<"copySide", "listening">>}
      PROVE  OneGetsOn
  <2>1. stage'[p] = s /\ \A q \in Procs \ {p} : StepsLeft(q)' = StepsLeft(q)
    BY <1>2, <1>4
  <2>2. StepsLeft(p)' < StepsLeft(p)
    BY <2>1, <1>1, <1>4 DEF StepsLeft, Ended, LastId, ClientPort
  <2> QED
    BY <2>1, <2>2 DEF OneGetsOn
<1>5. ASSUME stage[p] \in {"Keys", "makeKeys"}, stage' = [stage EXCEPT ![p] = "scan"],
             id' = [id EXCEPT ![p] = ClientPort]
      PROVE  OneGetsOn
  <2>1. /\ stage'[p] = "scan" /\ id'[p] = ClientPort
        /\ \A q \in Procs \ {p} : StepsLeft(q)' = StepsLeft(q)
    <3>1. \A q \in Procs \ {p} : id'[q] = id[q]
      BY <1>5, <1>1
    <3>2. "scan" \in Stages /\ id'[p] = ClientPort
      BY <1>5, <1>1 DEF Stages
    <3> QED
      BY <3>1, <3>2, <1>2, <1>5
  <2>2. StepsLeft(p)' = 10 + N
    BY <2>1 DEF StepsLeft, Ended, LastId, ClientPort
  <2>3. StepsLeft(p) > 10 + N
    BY <1>5 DEF StepsLeft, Ended
  <2> QED
    BY <2>1, <2>2, <2>3 DEF OneGetsOn
<1>6. ASSUME NEW d \in Shared, stage[p] \in {d, Making[d]}, Past(p, d)
      PROVE  OneGetsOn
  <2>1. CASE d = "log"
    <3>1. stage' = [stage EXCEPT ![p] = "Data"] /\ UNCHANGED id /\ stage[p] \in {"log", "makeLog"}
      BY <1>6, <2>1 DEF Past, After, Making
    <3> QED
      BY <3>1, <1>4 DEF Stages, Shared
  <2>2. CASE d = "Data"
    <3>1. stage' = [stage EXCEPT ![p] = "Keys"] /\ UNCHANGED id /\ stage[p] \in {"Data", "makeData"}
      BY <1>6, <2>2 DEF Past, After, Making
    <3> QED
      BY <3>1, <1>4 DEF Stages, Shared
  <2>3. CASE d = "Keys"
    BY <1>6, <2>3, <1>5 DEF Past, After, Making
  <2> QED
    BY <2>1, <2>2, <2>3 DEF Shared
<1>7. CASE TestDir(p)
  <2>1. PICK d \in Shared :
          /\ stage[p] = d
          /\ Past(p, d) \/ (Goto(p, Making[d]) /\ UNCHANGED id)
    BY <1>7 DEF TestDir
  <2>2. CASE Goto(p, Making[d]) /\ UNCHANGED id
    <3>1. <<d, Making[d]>> \in {<<"log", "makeLog">>, <<"Data", "makeData">>, <<"Keys", "makeKeys">>}
      BY DEF Making, Shared
    <3> QED
      BY <2>1, <2>2, <3>1, <1>4 DEF Stages
  <2> QED
    BY <2>1, <2>2, <1>6
<1>8. CASE MakeDir(p)
  <2>1. PICK d \in Shared :
          /\ stage[p] = Making[d]
          /\ (Dies(p) /\ UNCHANGED id) \/ Past(p, d)
    BY <1>8 DEF MakeDir
  <2>2. stage[p] \notin Ended
    BY <2>1 DEF Making, Shared, Ended
  <2> QED
    BY <2>1, <2>2, <1>3, <1>6
<1>9. CASE Scan(p)
  <2>1. CASE Goto(p, "claim") /\ UNCHANGED id
    BY <1>9, <2>1, <1>4 DEF Scan, Stages
  <2>2. CASE id' = [id EXCEPT ![p] = @ + 1] /\ UNCHANGED stage /\ id[p] < LastId
    <3>1. /\ stage[p] = "scan" /\ id'[p] = id[p] + 1
          /\ \A q \in Procs \ {p} : id'[q] = id[q]
      BY <1>9, <2>2, <1>1 DEF Scan
    <3>2. stage' = stage /\ \A q \in Procs \ {p} : StepsLeft(q)' = StepsLeft(q)
      BY <2>2, <3>1 DEF StepsLeft
    <3>3. StepsLeft(p) = 10 + (LastId - id[p]) /\ StepsLeft(p)' = 10 + (LastId - (id[p] + 1))
      BY <3>1, <3>2 DEF StepsLeft, Ended
    <3>4. id[p] \in Int /\ LastId \in Int
      BY <1>1, <3>1 DEF ClientPort, LastId
    <3> QED
      BY <3>2, <3>3, <3>4 DEF OneGetsOn
  <2>3. CASE Goto(p, "newNode") /\ id' = [id EXCEPT ![p] = 0]
    <3>1. "newNode" \in Stages /\ \A q \in Procs \ {p} : id'[q] = id[q]
      BY <2>3, <1>1 DEF Stages
    <3>2. stage'[p] = "newNode" /\ \A q \in Procs \ {p} : StepsLeft(q)' = StepsLeft(q)
      BY <2>3, <3>1, <1>2
    <3>3. StepsLeft(p)' = 3
      BY <3>2 DEF StepsLeft, Ended
    <3>4. StepsLeft(p) >= 10 /\ StepsLeft(p) \in Nat
      <4>1. stage[p] = "scan" /\ id[p] \in Int /\ id[p] <= LastId /\ LastId \in Int
        BY <1>1, <1>9 DEF Scan, LastId, ClientPort
      <4>2. StepsLeft(p) = 10 + (LastId - id[p])
        BY <4>1 DEF StepsLeft, Ended
      <4> QED
        BY <4>1, <4>2
    <3> QED
      <4>1. StepsLeft(p)' < StepsLeft(p)
        BY <3>3, <3>4
      <4> QED
        BY <3>2, <4>1 DEF OneGetsOn
  <2> QED
    BY <1>9, <2>1, <2>2, <2>3 DEF Scan
<1>10. CASE Claim(p)
  BY <1>10, <1>3, <1>4 DEF Claim, Stages, Ended
<1>11. CASE InitNode(p) \/ OpenGenesis(p) \/ PutGenesis(p)
  BY <1>11, <1>4 DEF InitNode, OpenGenesis, PutGenesis, Stages
<1>12. CASE NewIdM(p) \/ CopyMain(p)
  BY <1>12, <1>3, <1>4 DEF NewIdM, CopyMain, Stages, Ended
<1>13. CASE CopySide(p)
  BY <1>13, <1>3, <1>4 DEF CopySide, Stages, Ended
<1>14. CASE Kill(p)
  BY <1>14, <1>3 DEF Kill
<1> QED
  BY <1>7, <1>8, <1>9, <1>10, <1>11, <1>12, <1>13, <1>14 DEF Server

\* No process tests, scans or copies for ever: every step brings one process nearer
\* to its end and keeps the others where they are, so that with NoStartDeadlock
\* all of them end if only some process that can run always does.
THEOREM StartsRunOut == Spec => [][OneGetsOn]_vars
<1>1. StartupInv /\ [Next]_vars => [OneGetsOn]_vars
  BY StepGetsOn DEF Next, Run
<1> QED
  BY <1>1, StartupInvariant, PTL DEF Spec

=============================================================================
