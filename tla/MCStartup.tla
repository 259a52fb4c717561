------------------------------ MODULE MCStartup -------------------------------
(* The processes of Startup and the world the client made, for TLC.  When   *)
(* the last start has ended and the client serves, its world is used; the   *)
(* two do not depend on each other otherwise, so that the world need not be *)
(* explored again for every way in which a process was killed.              *)
EXTENDS Startup, World

SystemInit == Init /\ WorldInit

Settled ==
  /\ \A p \in Procs : stage[p] \in Ended
  /\ \E p \in Procs : stage[p] = "serving"
  /\ crashes = 0

SystemNext ==
  \/ Next /\ UNCHANGED worldVars
  \/ Settled /\ WorldNext /\ UNCHANGED vars

SystemSpec == SystemInit /\ [][SystemNext]_<<vars, worldVars>> /\ Fairness

=============================================================================
