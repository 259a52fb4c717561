------------------------------- MODULE Startup --------------------------------
(***************************************************************************)
(* Processes that start at the same time, as test.bat starts them: each    *)
(* makes the shared directories, claims the first free id (GenRsaKeys),    *)
(* and becomes the client, which creates the genesis files, or a replica,  *)
(* which copies them.  Nothing but the file system orders them: a test of  *)
(* a directory and its Mkdir are two steps, and bolt.Open without a timeout *)
(* waits until no other process has the file open.                         *)
(*                                                                         *)
(* A panic ends the process, and closes its files; so does a crash.  What  *)
(* is private to a process, the key files and the copies under its id, is  *)
(* written together with the step that leads to it.                        *)
(***************************************************************************)
EXTENDS Integers, FiniteSets

CONSTANTS
  Procs,      \* the processes started: 17 in test.bat
  N,          \* UENum + SPNum, the size of NodeTable: 15 in config.yaml
  Present,    \* the shared directories that exist before
  NoProc,     \* nobody
  MaxCrashes  \* bound: how many processes are killed

ASSUME StartupAssumption ==
  /\ IsFiniteSet(Procs)
  /\ NoProc \notin Procs
  /\ N \in Nat \ {0}
  /\ Present \subseteq {"log", "Data", "Keys"}
  /\ MaxCrashes \in Nat

VARIABLES
  stage,     \* where each process is
  id,        \* its node id; while it scans, the one it looks at; 0 before
  dirs,      \* the shared directories that exist
  claimed,   \* the ids that have a directory Keys/<id>
  genesis,   \* which genesis files hold a genesis block
  opened,    \* who has each genesis file open
  copied,    \* the genesis blocks in the databases of each process
  crashes    \* processes killed so far

vars == <<stage, id, dirs, claimed, genesis, opened, copied, crashes>>

Shared     == {"log", "Data", "Keys"}
Files      == {"main", "side"}
ClientPort == 1007

\* Mutant: the scan goes two beyond the node table.
LastId_OneMore == ClientPort + N + 1

\* The scan includes one id that is not in NodeTable.
LastId == ClientPort + N

Ids == ClientPort..LastId

\* The directories in the order they are made; "scan" follows the last.
After == [log |-> "Data", Data |-> "Keys", Keys |-> "scan"]

Making == [log |-> "makeLog", Data |-> "makeData", Keys |-> "makeKeys"]

Ended  == {"listening", "serving", "dead"}
Stages == Ended \cup Shared \cup {"makeLog", "makeData", "makeKeys"} \cup
          {"scan", "claim", "world", "openMain", "openSide", "putMain", "putSide",
           "newNode", "copyMain", "copySide"}

Init ==
  /\ stage = [p \in Procs |-> "log"]
  /\ id = [p \in Procs |-> 0]
  /\ dirs = Present
  /\ claimed = {}
  /\ genesis = {}
  /\ opened = [f \in Files |-> NoProc]
  /\ copied = [p \in Procs |-> {}]
  /\ crashes = 0

Goto(p, s) == stage' = [stage EXCEPT ![p] = s]

\* Mutant: the function returns and leaves the main genesis file open.
Close_SideOnly(p) ==
  opened' = [opened EXCEPT !["side"] = IF @ = p THEN NoProc ELSE @]

\* The deferred Close calls.
Close(p) == opened' = [f \in Files |-> IF opened[f] = p THEN NoProc ELSE opened[f]]

\* log.Panic: the process ends and the system closes its files.
Dies(p) ==
  /\ Goto(p, "dead")
  /\ opened' = [f \in Files |-> IF opened[f] = p THEN NoProc ELSE opened[f]]

----------------------------------------------------------------------------
(* Directories and ids.                                                    *)

\* Past shared directory d: on to the next one, or to the first id.
Past(p, d) ==
  /\ Goto(p, After[d])
  /\ id' = IF After[d] = "scan" THEN [id EXCEPT ![p] = ClientPort] ELSE id

\* IsExist, for a shared directory.
TestDir(p) ==
  \E d \in Shared :
    /\ stage[p] = d
    /\ IF d \in dirs THEN Past(p, d) ELSE Goto(p, Making[d]) /\ UNCHANGED id
    /\ UNCHANGED <<dirs, claimed, genesis, opened, copied, crashes>>

\* os.Mkdir, for a shared directory: the second to try gets an error.
MakeDir(p) ==
  \E d \in Shared :
    /\ stage[p] = Making[d]
    /\ dirs' = dirs \cup {d}
    /\ IF d \in dirs
         THEN Dies(p) /\ UNCHANGED id
         ELSE Past(p, d) /\ UNCHANGED opened
    /\ UNCHANGED <<claimed, genesis, copied, crashes>>

\* The loop of GenRsaKeys; it returns "nil" when every id is taken.
Scan(p) ==
  /\ stage[p] = "scan"
  /\ IF id[p] \notin claimed
       THEN Goto(p, "claim") /\ UNCHANGED id
       ELSE IF id[p] < LastId
              THEN id' = [id EXCEPT ![p] = @ + 1] /\ UNCHANGED stage
              ELSE Goto(p, "newNode") /\ id' = [id EXCEPT ![p] = 0]
  /\ UNCHANGED <<dirs, claimed, genesis, opened, copied, crashes>>

\* Mutant: the error of Mkdir is ignored.
Claim_IgnoresError(p) ==
  /\ stage[p] = "claim"
  /\ claimed' = claimed \cup {id[p]}
  /\ Goto(p, IF id[p] = ClientPort THEN "world" ELSE "newNode")
  /\ UNCHANGED <<id, dirs, genesis, opened, copied, crashes>>

\* os.Mkdir of Keys/<id>, the key files, and the branch of Server on the id.
Claim(p) ==
  /\ stage[p] = "claim"
  /\ claimed' = claimed \cup {id[p]}
  /\ IF id[p] \in claimed
       THEN Dies(p)
       ELSE /\ Goto(p, IF id[p] = ClientPort THEN "world" ELSE "newNode")
            /\ UNCHANGED opened
  /\ UNCHANGED <<id, dirs, genesis, copied, crashes>>

----------------------------------------------------------------------------
(* The client: InitNode and CreateBlockChainWithGenesisBlock.              *)

InitNode(p) ==
  /\ stage[p] = "world"
  /\ Goto(p, "openMain")
  /\ UNCHANGED <<id, dirs, claimed, genesis, opened, copied, crashes>>

\* bolt.Open without a timeout: it waits for whoever has the file open.
Open(p, f) ==
  /\ opened[f] = NoProc
  /\ opened' = [opened EXCEPT ![f] = p]

OpenGenesis(p) ==
  \/ /\ stage[p] = "openMain"
     /\ Open(p, "main")
     /\ Goto(p, "openSide")
     /\ UNCHANGED <<id, dirs, claimed, genesis, copied, crashes>>
  \/ /\ stage[p] = "openSide"
     /\ Open(p, "side")
     /\ Goto(p, "putMain")
     /\ UNCHANGED <<id, dirs, claimed, genesis, copied, crashes>>

\* Two transactions, one in each file.
PutGenesis(p) ==
  \/ /\ stage[p] = "putMain"
     /\ genesis' = genesis \cup {"main"}
     /\ Goto(p, "putSide")
     /\ UNCHANGED <<id, dirs, claimed, opened, copied, crashes>>
  \/ /\ stage[p] = "putSide"
     /\ genesis' = genesis \cup {"side"}
     /\ Goto(p, "copyMain")
     /\ Close(p)
     /\ UNCHANGED <<id, dirs, claimed, copied, crashes>>

----------------------------------------------------------------------------
(* Replicas, and the client after it: CopyGenesisBlock.                    *)

\* NewIdM reads the keys of its id; there are none for the id "nil".
NewIdM(p) ==
  /\ stage[p] = "newNode"
  /\ IF id[p] = 0 THEN Dies(p) ELSE Goto(p, "copyMain") /\ UNCHANGED opened
  /\ UNCHANGED <<id, dirs, claimed, genesis, copied, crashes>>

\* Mutant: a file without a bucket is copied like any other.
HasBucket_Unchecked(f) == TRUE

HasBucket(f) == f \in genesis

\* Opens a genesis file and copies its block; panics when there is no bucket.
CopyMain(p) ==
  /\ stage[p] = "copyMain"
  /\ opened["main"] = NoProc
  /\ IF HasBucket("main")
       THEN /\ Open(p, "main")
            /\ copied' = [copied EXCEPT ![p] = @ \cup (genesis \cap {"main"})]
            /\ Goto(p, "copySide")
       ELSE Dies(p) /\ UNCHANGED copied
  /\ UNCHANGED <<id, dirs, claimed, genesis, crashes>>

\* The main file stays open meanwhile; on return both are closed.
CopySide(p) ==
  /\ stage[p] = "copySide"
  /\ opened["side"] = NoProc
  /\ IF HasBucket("side")
       THEN /\ copied' = [copied EXCEPT ![p] = @ \cup (genesis \cap {"side"})]
            /\ Goto(p, IF id[p] = ClientPort THEN "serving" ELSE "listening")
            /\ Close(p)
       ELSE Dies(p) /\ UNCHANGED copied
  /\ UNCHANGED <<id, dirs, claimed, genesis, crashes>>

Server(p) ==
  \/ TestDir(p) \/ MakeDir(p) \/ Scan(p) \/ Claim(p)
  \/ InitNode(p) \/ OpenGenesis(p) \/ PutGenesis(p)
  \/ NewIdM(p) \/ CopyMain(p) \/ CopySide(p)

\* A process is killed while it starts.
Kill(p) ==
  /\ stage[p] \notin Ended
  /\ crashes < MaxCrashes
  /\ crashes' = crashes + 1
  /\ Dies(p)
  /\ UNCHANGED <<id, dirs, claimed, genesis, copied>>

Run == \E p \in Procs : Server(p)

Next == Run \/ \E p \in Procs : Kill(p)

Spec == Init /\ [][Next]_vars

\* While some process can run, one of them does; each step brings it closer to
\* its end, so that this says no more than that the system is not idle.
Fairness == WF_vars(Run)

FairSpec == Spec /\ Fairness

----------------------------------------------------------------------------
(* Properties.                                                             *)

TypeOK ==
  /\ stage \in [Procs -> Stages]
  /\ id \in [Procs -> 0..(ClientPort + N)]
  /\ dirs \subseteq Shared
  /\ claimed \subseteq ClientPort..(ClientPort + N)
  /\ genesis \subseteq Files
  /\ opened \in [Files -> Procs \cup {NoProc}]
  /\ copied \in [Procs -> SUBSET Files]
  /\ crashes \in 0..MaxCrashes

\* The stages of a process that owns its id.
Owns(p) == stage[p] \in {"world", "openMain", "openSide", "putMain", "putSide",
                         "newNode", "copyMain", "copySide", "listening", "serving"}
           /\ id[p] # 0

\* No two processes run under one id, although the test for the directory of an
\* id and its creation are two steps and any number of processes scan at once.
UniqueIds ==
  \A p, q \in Procs : Owns(p) /\ Owns(q) /\ id[p] = id[q] => p = q

\* A process listens or serves only with the genesis block of both chains in its
\* databases, however early it started and wherever the client was killed.
StartedWithGenesis ==
  \A p \in Procs : stage[p] \in {"listening", "serving"} => copied[p] = Files

\* The processes that wait in bolt.Open for a file another one has open.
Waits(p) ==
  \/ stage[p] \in {"openMain", "copyMain"} /\ opened["main"] # NoProc
  \/ stage[p] \in {"openSide", "copySide"} /\ opened["side"] # NoProc

\* They never all wait for each other: the client and the replicas open the main
\* file before the side file, and keep it open meanwhile, and nobody ends with a
\* file open (Utils.go:209 and 252, Blockchain.go:40 and 45).
SomeStartGoesOn ==
  (\E p \in Procs : stage[p] \notin Ended) =>
    \E p \in Procs : stage[p] \notin Ended /\ ~Waits(p)

\* Every start ends: no process waits for ever for a genesis file another has
\* open, also when one that has it open is killed.
EveryStartEnds == <>(\A p \in Procs : stage[p] \in Ended)

=============================================================================
